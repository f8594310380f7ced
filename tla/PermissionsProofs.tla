------------------------- MODULE PermissionsProofs -------------------------
(***************************************************************************)
(* For any artifacts, chains, operations and groups, and any number of      *)
(* requests: the types of Permissions; that the nearest rule counts, however*)
(* long the chain; and, of requests that do not overlap, that the groups'   *)
(* lists keep up with the rules of the project, that everyone affected by a *)
(* change is told of it, and that it affects nobody else.                   *)
(***************************************************************************)
EXTENDS Permissions, SequenceTheorems, NaturalsInduction, WellFoundedInduction, TLAPS

-----------------------------------------------------------------------------
(* Types. Beyond TypeOK: what a request is for, and that its edits are ones *)
(* its artifact knows and the rules allow.                                  *)

OwnRules(a) ==
  {r \in [ToSet(Operations[a]) -> [Kinds -> [Groups -> Rule]]] :
     \A op \in ToSet(Operations[a]), g \in Groups : r[op]["required"][g] # "deny"}

AllRules ==
  {r \in [Artifacts -> UNION {OwnRules(a) : a \in Artifacts}] :
     \A a \in Artifacts : r[a] \in OwnRules(a)}

SetEdits(a) ==
  {e \in [what : {"set"}, op : ToSet(Operations[a]), kind : Kinds, rule : {"allow", "deny"}] :
     ~(e.kind = "required" /\ e.rule = "deny")}
DropEdits(a) == [what : {"drop"}, op : ToSet(Operations[a]), kind : Kinds]
EditsOf(a) == SetEdits(a) \cup DropEdits(a) \cup [what : {"list"}]

RequestsOn(a) ==
  [artifact : {a}, group : Groups, todo : Seq(EditsOf(a)), step : {"edit", "put", "tell"},
   listed : BOOLEAN, was : AllRules, rules : OwnRules(a)]

IsRequest(r) ==
  /\ r.artifact \in Artifacts /\ r \in RequestsOn(r.artifact)
  /\ (r.todo = <<>>) = (r.step = "tell")

Typed ==
  /\ rules \in AllRules
  /\ listed \in SUBSET Groups /\ inherited \in SUBSET Groups
  /\ told \in SUBSET Users /\ stopped \in BOOLEAN /\ torn \in SUBSET Groups
  /\ asked \in Nat /\ overlapped \in BOOLEAN
  /\ request = [s \in Slots |-> request[s]]
  /\ \A s \in Slots : request[s] = Idle \/ IsRequest(request[s])

LEMMA TypedIsTypeOK == Typed => TypeOK
<1> SUFFICES ASSUME Typed PROVE TypeOK
  OBVIOUS
<1>1. ASSUME NEW a \in Artifacts, NEW r \in OwnRules(a)
      PROVE  IsRules(a, r)
  <2>1. DOMAIN r = ToSet(Operations[a]) /\ "required" \in Kinds
    BY DEF OwnRules, Kinds
  <2>2. ASSUME NEW op \in DOMAIN r
        PROVE  r[op] \in [Kinds -> [Groups -> Rule]] /\ "deny" \notin Range(r[op].required)
    <3>1. r[op] \in [Kinds -> [Groups -> Rule]] /\ \A g \in Groups : r[op]["required"][g] # "deny"
      BY <2>1 DEF OwnRules
    <3>2. DOMAIN r[op]["required"] = Groups
      BY <2>1, <3>1
    <3>3. QED
      BY <3>1, <3>2 DEF Range
  <2>3. QED
    BY <2>1, <2>2 DEF IsRules
<1>2. ASSUME NEW a \in Artifacts
      PROVE  EditsOf(a) \subseteq Edits
  <2>1. ToSet(Operations[a]) \subseteq AllOperations
    BY DEF AllOperations
  <2>2. QED
    BY <2>1 DEF EditsOf, SetEdits, DropEdits, Edits
<1>3. \A a \in Artifacts : IsRules(a, rules[a])
  BY <1>1 DEF Typed, AllRules
<1>4. ASSUME NEW s \in Slots, request[s] # Idle
      PROVE  /\ request[s].step \in {"edit", "put", "tell"}
             /\ request[s].group \in Groups
             /\ IsRules(request[s].artifact, request[s].rules)
             /\ ToSet(request[s].todo) \subseteq Edits
             /\ (request[s].todo = <<>>) = (request[s].step = "tell")
  <2>1. IsRequest(request[s])
    BY <1>4 DEF Typed
  <2>2. ToSet(request[s].todo) \subseteq EditsOf(request[s].artifact)
    BY <2>1 DEF IsRequest, RequestsOn, ToSet
  <2>3. QED
    BY <1>1, <1>2, <2>1, <2>2 DEF IsRequest, RequestsOn
<1>5. QED
  BY <1>3, <1>4 DEF Typed, TypeOK

LEMMA BusyIsRequest ==
  ASSUME Typed, NEW s \in Busy
  PROVE  s \in Slots /\ IsRequest(request[s])
  BY DEF Busy, Typed

LEMMA InitTyped == Init => Typed
<1> SUFFICES ASSUME Init PROVE Typed
  OBVIOUS
<1>1. ASSUME NEW a \in Artifacts
      PROVE  NoRules(a) \in OwnRules(a)
  BY DEF NoRules, OwnRules, Kinds, Rule
<1>2. rules \in AllRules
  BY <1>1 DEF Init, AllRules
<1>3. \A s \in Slots : request[s] = Idle
  BY DEF Init
<1>4. QED
  BY <1>2, <1>3 DEF Init, Typed

(* What starting a request does.                                            *)
LEMMA StartFacts ==
  ASSUME Typed, NEW s \in Slots, NEW a \in Artifacts, NEW g \in Groups,
         NEW todo \in Seq(EditsOf(a)), todo # <<>>, Start(s, a, g, todo)
  PROVE  /\ s \notin Busy /\ Busy' = Busy \cup {s}
         /\ \A t \in Busy : request'[t] = request[t]
         /\ IsRequest(request'[s]) /\ request'[s].artifact = a /\ request'[s].group = g
         /\ request'[s].todo = todo /\ request'[s].step = "edit"
         /\ request'[s].listed = (g \in listed)
         /\ request'[s].was = rules /\ request'[s].rules = rules[a]
         /\ asked' = asked + 1 /\ overlapped' = (overlapped \/ Busy # {}) /\ told' = {}
         /\ stopped' \in BOOLEAN /\ ~stopped'
         /\ UNCHANGED <<rules, listed, torn>> /\ request' = [t \in Slots |-> request'[t]]
<1> DEFINE r == [artifact |-> a, group |-> g, todo |-> todo, step |-> "edit",
                 listed |-> g \in listed, was |-> rules, rules |-> rules[a]]
<1>1. request' = [request EXCEPT ![s] = r] /\ s \notin Busy
  BY DEF Start
<1>2. r.step # Idle.step /\ r \in RequestsOn(a)
  BY DEF Idle, RequestsOn, Typed, AllRules
<1>3. /\ r.artifact = a /\ r.group = g /\ r.todo = todo /\ r.step = "edit"
      /\ r.listed = (g \in listed) /\ r.was = rules /\ r.rules = rules[a]
  OBVIOUS
<1> HIDE DEF r
<1>4. request'[s] = r /\ (\A t \in Slots : t # s => request'[t] = request[t])
      /\ request' = [t \in Slots |-> request'[t]]
  BY <1>1 DEF Typed
<1>5. Busy' = Busy \cup {s} /\ \A t \in Busy : request'[t] = request[t]
  BY <1>1, <1>2, <1>4 DEF Busy
<1>6. IsRequest(r)
  BY <1>2, <1>3 DEF IsRequest
<1>7. QED
  BY <1>1, <1>3, <1>4, <1>5, <1>6 DEF Start

(* Which edits a request starts with, and what is marked to inherit.        *)
Starts(s, a, g, todo) ==
  /\ Start(s, a, g, todo)
  /\ todo # <<>> /\ todo \in Seq(EditsOf(a))
  /\ \/ inherited' = inherited /\ todo \in Seq(SetEdits(a) \cup DropEdits(a))
     \/ inherited' = IF a = Project THEN inherited \cup {g} ELSE inherited

LEMMA AllStart ==
  ASSUME NEW s \in Slots, NEW a \in Artifacts, NEW g \in Groups,
         \/ \E op \in AllOperations, kind \in Kinds :
              \/ \E rule \in {"allow", "deny"} : AddPerm(s, a, g, op, kind, rule)
              \/ AddInherit(s, a, g, op, kind) \/ RmPerm(s, a, g, op, kind)
         \/ RemoveGroup(s, a, g)
  PROVE  \E todo : Starts(s, a, g, todo)
<1>1. ASSUME NEW op \in AllOperations, NEW kind \in Kinds, NEW rule \in {"allow", "deny"},
             AddPerm(s, a, g, op, kind, rule)
      PROVE  \E todo : Starts(s, a, g, todo)
  <2> DEFINE e == [what |-> "set", op |-> op, kind |-> kind, rule |-> rule]
  <2>1. e \in SetEdits(a)
    BY <1>1 DEF AddPerm, SetEdits
  <2>2. Start(s, a, g, <<e>>) /\ inherited' = inherited
    BY <1>1 DEF AddPerm
  <2> HIDE DEF e
  <2>3. <<e>> \in Seq(SetEdits(a) \cup DropEdits(a)) /\ <<e>> \in Seq(EditsOf(a)) /\ <<e>> # <<>>
    BY <2>1 DEF EditsOf
  <2>4. QED
    BY <2>2, <2>3 DEF Starts
<1>2. ASSUME NEW op \in AllOperations, NEW kind \in Kinds, AddInherit(s, a, g, op, kind)
      PROVE  \E todo : Starts(s, a, g, todo)
  <2> DEFINE e == [what |-> "drop", op |-> op, kind |-> kind]
             f == [what |-> "list"]
  <2>1. e \in EditsOf(a) /\ f \in EditsOf(a)
    BY <1>2 DEF AddInherit, EditsOf, DropEdits
  <2>2. Start(s, a, g, <<e, f>>)
        /\ inherited' = IF a = Project THEN inherited \cup {g} ELSE inherited
    BY <1>2 DEF AddInherit
  <2> HIDE DEF e, f
  <2>3. <<e, f>> \in Seq(EditsOf(a)) /\ <<e, f>> # <<>>
    BY <2>1
  <2>4. QED
    BY <2>2, <2>3 DEF Starts
<1>3. ASSUME NEW op \in AllOperations, NEW kind \in Kinds, RmPerm(s, a, g, op, kind)
      PROVE  \E todo : Starts(s, a, g, todo)
  <2> DEFINE e == [what |-> "drop", op |-> op, kind |-> kind]
  <2>1. e \in DropEdits(a)
    BY <1>3 DEF RmPerm, DropEdits
  <2>2. Start(s, a, g, <<e>>) /\ inherited' = inherited
    BY <1>3 DEF RmPerm
  <2> HIDE DEF e
  <2>3. <<e>> \in Seq(SetEdits(a) \cup DropEdits(a)) /\ <<e>> \in Seq(EditsOf(a)) /\ <<e>> # <<>>
    BY <2>1 DEF EditsOf
  <2>4. QED
    BY <2>2, <2>3 DEF Starts
<1>4. ASSUME RemoveGroup(s, a, g)
      PROVE  \E todo : Starts(s, a, g, todo)
  <2> DEFINE n == Len(Operations[a])
             todo == [i \in 1 .. 2 * n |->
                        [what |-> "drop", op |-> Operations[a][(i + 1) \div 2],
                         kind |-> IF i % 2 = 1 THEN "shared" ELSE "required"]]
  <2>1. Operations[a] \in Seq(AllOperations) /\ "read" \in ToSet(Operations[a])
    BY PermissionsAssumption
  <2>2. n \in Nat /\ n # 0 /\ DOMAIN Operations[a] = 1 .. n
    BY <2>1 DEF ToSet
  <2>3. \A i \in 1 .. 2 * n : (i + 1) \div 2 \in 1 .. n
    <3> HIDE DEF n
    <3>1. SUFFICES ASSUME NEW i \in 1 .. 2 * n PROVE (i + 1) \div 2 \in 1 .. n
      OBVIOUS
    <3>2. QED
      BY <2>2
  <2>4. ASSUME NEW i \in 1 .. 2 * n
        PROVE  todo[i] \in DropEdits(a)
    <3>1. Operations[a][(i + 1) \div 2] \in ToSet(Operations[a])
      BY <2>2, <2>3 DEF ToSet
    <3>2. QED
      BY <3>1 DEF DropEdits, Kinds
  <2>5. Start(s, a, g, todo) /\ inherited' = inherited
    BY <1>4 DEF RemoveGroup
  <2>6. DOMAIN todo = 1 .. 2 * n /\ todo = [i \in 1 .. 2 * n |-> todo[i]] /\ 2 * n \in Nat /\ 2 * n # 0
    BY <2>2
  <2> HIDE DEF todo, n
  <2>7. todo \in Seq(DropEdits(a))
    BY <2>4, <2>6
  <2>8. todo \in Seq(SetEdits(a) \cup DropEdits(a)) /\ todo \in Seq(EditsOf(a)) /\ todo # <<>>
    BY <2>6, <2>7 DEF EditsOf
  <2>9. QED
    BY <2>5, <2>8 DEF Starts
<1>5. QED
  BY <1>1, <1>2, <1>3, <1>4

\* The rules after an edit, for a group.
Applied(e, g, own) ==
  CASE e.what = "set"  -> [own EXCEPT ![e.op][e.kind][g] = e.rule]
    [] e.what = "drop" -> [own EXCEPT ![e.op][e.kind][g] = "none"]
    [] OTHER -> own

\* What an edit makes of one rule.
RuleAfter(e, g, own, op, k, h) ==
  IF e.what # "list" /\ op = e.op /\ k = e.kind /\ h = g
  THEN IF e.what = "set" THEN e.rule ELSE "none"
  ELSE own[op][k][h]

\* One rule set for a group.
WithRule(own, o, kind, g, v) == [own EXCEPT ![o][kind][g] = v]

LEMMA WithRuleFacts ==
  ASSUME NEW a \in Artifacts, NEW own \in OwnRules(a), NEW g \in Groups,
         NEW o \in ToSet(Operations[a]), NEW kind \in Kinds, NEW v \in Rule,
         ~(kind = "required" /\ v = "deny")
  PROVE  /\ WithRule(own, o, kind, g, v) \in OwnRules(a)
         /\ \A op \in ToSet(Operations[a]), k \in Kinds, h \in Groups :
              WithRule(own, o, kind, g, v)[op][k][h] =
                IF op = o /\ k = kind /\ h = g THEN v ELSE own[op][k][h]
<1>1. own \in [ToSet(Operations[a]) -> [Kinds -> [Groups -> Rule]]]
      /\ \A op \in ToSet(Operations[a]), h \in Groups : own[op]["required"][h] # "deny"
  BY DEF OwnRules
<1>2. PICK new : new = WithRule(own, o, kind, g, v)
  OBVIOUS
<1>3. new \in [ToSet(Operations[a]) -> [Kinds -> [Groups -> Rule]]]
  BY <1>1, <1>2 DEF WithRule
<1>4. \A op \in ToSet(Operations[a]), k \in Kinds, h \in Groups :
        new[op][k][h] = IF op = o /\ k = kind /\ h = g THEN v ELSE own[op][k][h]
  BY <1>1, <1>2 DEF WithRule
<1>5. \A op \in ToSet(Operations[a]), h \in Groups : new[op]["required"][h] # "deny"
  BY <1>1, <1>4 DEF Kinds
<1>6. QED
  BY <1>2, <1>3, <1>4, <1>5 DEF OwnRules

LEMMA AppliedFacts ==
  ASSUME NEW a \in Artifacts, NEW own \in OwnRules(a), NEW e \in EditsOf(a), NEW g \in Groups
  PROVE  /\ Applied(e, g, own) \in OwnRules(a)
         /\ \A op \in ToSet(Operations[a]), k \in Kinds, h \in Groups :
              Applied(e, g, own)[op][k][h] = RuleAfter(e, g, own, op, k, h)
<1>1. CASE e.what = "set"
  <2>1. e \in SetEdits(a)
    BY <1>1 DEF EditsOf, DropEdits
  <2>2. /\ e.op \in ToSet(Operations[a]) /\ e.kind \in Kinds /\ e.rule \in Rule
        /\ ~(e.kind = "required" /\ e.rule = "deny")
    BY <2>1 DEF SetEdits, Rule
  <2>3. Applied(e, g, own) = WithRule(own, e.op, e.kind, g, e.rule)
    BY <1>1 DEF Applied, WithRule
  <2>4. QED
    BY <1>1, <2>2, <2>3, WithRuleFacts DEF RuleAfter
<1>2. CASE e.what = "drop"
  <2>1. e \in DropEdits(a)
    BY <1>2 DEF EditsOf, SetEdits
  <2>2. e.op \in ToSet(Operations[a]) /\ e.kind \in Kinds /\ "none" \in Rule
    BY <2>1 DEF DropEdits, Rule
  <2>3. Applied(e, g, own) = WithRule(own, e.op, e.kind, g, "none")
    BY <1>2 DEF Applied, WithRule
  <2>4. QED
    BY <1>2, <2>2, <2>3, WithRuleFacts DEF RuleAfter
<1>3. CASE e.what # "set" /\ e.what # "drop"
  <2>1. e.what = "list"
    BY <1>3 DEF EditsOf, SetEdits, DropEdits
  <2>2. Applied(e, g, own) = own
    BY <2>1 DEF Applied
  <2>3. QED
    BY <2>1, <2>2 DEF RuleAfter
<1>4. QED
  BY <1>1, <1>2, <1>3

\* A request goes on for the same as before.
GoesOn(s, r) ==
  /\ s \in Busy /\ Busy' = Busy /\ request'[s] = r /\ IsRequest(r)
  /\ \A t \in Busy : t # s => request'[t] = request[t]
  /\ request' = [t \in Slots |-> request'[t]]
  /\ r.artifact = request[s].artifact /\ r.group = request[s].group /\ r.was = request[s].was

LEMMA GoFacts ==
  ASSUME Typed, NEW s \in Busy, NEW r, IsRequest(r), request' = [request EXCEPT ![s] = r],
         r.artifact = request[s].artifact, r.group = request[s].group, r.was = request[s].was
  PROVE  GoesOn(s, r)
<1>1. r.step # Idle.step
  BY DEF IsRequest, RequestsOn, Idle
<1>2. s \in Slots /\ request'[s] = r /\ (\A t \in Slots : t # s => request'[t] = request[t])
      /\ request' = [t \in Slots |-> request'[t]]
  BY DEF Busy, Typed
<1>3. Busy' = Busy
  BY <1>1, <1>2 DEF Busy
<1>4. QED
  BY <1>2, <1>3 DEF GoesOn, Busy

LEMMA EditFacts ==
  ASSUME Typed, NEW s \in Slots, EditAndPutGroup(s)
  PROVE  /\ s \in Busy /\ request[s].step = "edit"
         /\ Head(request[s].todo) \in EditsOf(request[s].artifact)
         /\ \E r : /\ GoesOn(s, r)
                   /\ r.step = "put" /\ r.todo = request[s].todo
                   /\ r.rules = Applied(Head(r.todo), r.group, request[s].rules)
                   /\ r.listed = IF r.artifact = Project THEN Lists(request[s])
                                 ELSE request[s].listed
                   /\ listed' = IF r.listed = request[s].listed THEN listed
                                ELSE IF r.listed THEN listed \cup {r.group}
                                ELSE listed \ {r.group}
<1> DEFINE q == request[s]
           lists == IF q.artifact = Project THEN Lists(q) ELSE q.listed
           new == [q EXCEPT !.rules = Edited(q), !.listed = lists, !.step = "put"]
<1>1. s \in Busy /\ IsRequest(q) /\ q.step = "edit"
  BY BusyIsRequest DEF EditAndPutGroup
<1>2. q.artifact \in Artifacts /\ q \in RequestsOn(q.artifact) /\ q.todo # <<>>
      /\ q.todo \in Seq(EditsOf(q.artifact)) /\ q.group \in Groups
      /\ q.rules \in OwnRules(q.artifact) /\ q.listed \in BOOLEAN
  BY <1>1 DEF IsRequest, RequestsOn
<1>3. Head(q.todo) \in EditsOf(q.artifact)
  BY <1>2
<1>4. Edited(q) = Applied(Head(q.todo), q.group, q.rules)
  BY DEF Edited, Applied
<1>5. Edited(q) \in OwnRules(q.artifact)
  BY <1>2, <1>3, <1>4, AppliedFacts
<1>6. lists \in BOOLEAN
  BY <1>2 DEF Lists
<1>7. request' = [request EXCEPT ![s] = new]
      /\ listed' = IF lists = q.listed THEN listed
                   ELSE IF lists THEN listed \cup {q.group} ELSE listed \ {q.group}
  BY DEF EditAndPutGroup
<1> HIDE DEF lists
<1>8. /\ new \in RequestsOn(q.artifact)
      /\ new.artifact = q.artifact /\ new.group = q.group /\ new.was = q.was
      /\ new.step = "put" /\ new.todo = q.todo /\ new.rules = Edited(q) /\ new.listed = lists
  BY <1>2, <1>5, <1>6 DEF RequestsOn
<1> HIDE DEF new
<1>9. IsRequest(new)
  BY <1>2, <1>8 DEF IsRequest
<1>10. GoesOn(s, new)
  BY <1>1, <1>7, <1>8, <1>9, GoFacts
<1>11. QED
  BY <1>1, <1>3, <1>4, <1>7, <1>8, <1>10 DEF lists

LEMMA TailEnds ==
  ASSUME NEW S, NEW todo \in Seq(S), todo # <<>>
  PROVE  /\ Head(todo) \in S /\ Tail(todo) \in Seq(S)
         /\ (Tail(todo) = <<>>) = (Len(todo) = 1)
<1>1. /\ Head(todo) \in S /\ Tail(todo) \in Seq(S) /\ Len(Tail(todo)) = Len(todo) - 1
  BY HeadTailProperties
<1>2. Len(todo) \in Nat
  OBVIOUS
<1>3. Tail(todo) = <<>> <=> Len(Tail(todo)) = 0
  BY <1>1, EmptySeq
<1>4. QED
  BY <1>1, <1>2, <1>3

LEMMA PutFacts ==
  ASSUME Typed, NEW s \in Slots, PutPermission(s)
  PROVE  /\ s \in Busy /\ request[s].step = "put" /\ IsRequest(request[s])
         /\ Head(request[s].todo) \in EditsOf(request[s].artifact)
         /\ rules' = [rules EXCEPT ![request[s].artifact] = request[s].rules]
         /\ \E r : /\ GoesOn(s, r)
                   /\ r.step \in {"edit", "tell"} /\ r.todo = Tail(request[s].todo)
                   /\ r.rules = request[s].rules /\ r.listed = request[s].listed
<1> DEFINE q == request[s]
           next == IF Len(q.todo) = 1 THEN "tell" ELSE "edit"
           new == [q EXCEPT !.todo = Tail(@), !.step = next]
<1>1. s \in Busy /\ IsRequest(q) /\ q.step = "put"
  BY BusyIsRequest DEF PutPermission
<1>2. q.artifact \in Artifacts /\ q \in RequestsOn(q.artifact) /\ q.todo # <<>>
      /\ q.todo \in Seq(EditsOf(q.artifact))
  BY <1>1 DEF IsRequest, RequestsOn
<1>3. /\ Head(q.todo) \in EditsOf(q.artifact) /\ Tail(q.todo) \in Seq(EditsOf(q.artifact))
      /\ (Tail(q.todo) = <<>>) = (Len(q.todo) = 1)
  BY <1>2, TailEnds
<1>4. request' = [request EXCEPT ![s] = new]
      /\ rules' = [rules EXCEPT ![q.artifact] = q.rules]
  BY DEF PutPermission
<1>5. next \in {"edit", "tell"} /\ (next = "tell") = (Len(q.todo) = 1)
  OBVIOUS
<1> HIDE DEF next
<1>6. /\ new \in RequestsOn(q.artifact)
      /\ new.artifact = q.artifact /\ new.group = q.group /\ new.was = q.was
      /\ new.step = next /\ new.todo = Tail(q.todo) /\ new.rules = q.rules
      /\ new.listed = q.listed
  BY <1>2, <1>3, <1>5 DEF RequestsOn
<1> HIDE DEF new
<1>7. IsRequest(new)
  BY <1>2, <1>3, <1>5, <1>6 DEF IsRequest
<1>8. GoesOn(s, new)
  BY <1>1, <1>4, <1>6, <1>7, GoFacts
<1>9. QED
  BY <1>1, <1>3, <1>4, <1>5, <1>6, <1>8

(* A request on the project has saved the group and not yet the rules.      *)
Saving(r) == r.artifact = Project /\ r.step = "put"

LEMMA TellFacts ==
  ASSUME Typed, NEW s \in Slots, Tell(s)
  PROVE  /\ s \in Busy /\ request[s].step = "tell" /\ IsRequest(request[s])
         /\ told' = Audience(request[s])
         /\ Busy' = Busy \ {s} /\ request'[s] = Idle
         /\ \A t \in Busy' : request'[t] = request[t]
         /\ request' = [t \in Slots |-> request'[t]]
<1>1. s \in Busy /\ IsRequest(request[s]) /\ request[s].step = "tell"
      /\ request' = [request EXCEPT ![s] = Idle]
  BY BusyIsRequest DEF Tell
<1>2. request'[s] = Idle /\ (\A t \in Slots : t # s => request'[t] = request[t])
      /\ request' = [t \in Slots |-> request'[t]]
  BY <1>1 DEF Typed
<1>3. QED
  BY <1>1, <1>2 DEF Tell, Busy

LEMMA FailFacts ==
  ASSUME Typed, NEW s \in Slots, Fail(s)
  PROVE  /\ s \in Busy /\ IsRequest(request[s])
         /\ Busy' = Busy \ {s} /\ request'[s] = Idle
         /\ \A t \in Busy' : request'[t] = request[t]
         /\ request' = [t \in Slots |-> request'[t]]
         /\ torn' = IF Saving(request[s]) THEN torn \cup {request[s].group} ELSE torn
         /\ told' = {} /\ stopped' \in BOOLEAN /\ stopped'
         /\ UNCHANGED <<rules, listed, asked, overlapped, inherited>>
<1>1. s \in Busy /\ IsRequest(request[s]) /\ request' = [request EXCEPT ![s] = Idle]
  BY BusyIsRequest DEF Fail
<1>2. request'[s] = Idle /\ (\A t \in Slots : t # s => request'[t] = request[t])
      /\ request' = [t \in Slots |-> request'[t]]
  BY <1>1 DEF Typed
<1>3. QED
  BY <1>1, <1>2 DEF Fail, Busy, Saving

LEMMA NextTyped == Typed /\ [Next]_permVars => Typed'
<1> SUFFICES ASSUME Typed, [Next]_permVars PROVE Typed'
  OBVIOUS
<1>1. ASSUME NEW s \in Slots, NEW a \in Artifacts, NEW g \in Groups, NEW todo,
             Starts(s, a, g, todo)
      PROVE  Typed'
  <2>1. /\ Busy' = Busy \cup {s} /\ IsRequest(request'[s])
        /\ \A t \in Busy : request'[t] = request[t]
        /\ asked' = asked + 1 /\ overlapped' = (overlapped \/ Busy # {}) /\ told' = {}
        /\ stopped' \in BOOLEAN /\ ~stopped'
        /\ UNCHANGED <<rules, listed, torn>> /\ request' = [t \in Slots |-> request'[t]]
    BY <1>1, StartFacts DEF Starts
  <2>2. inherited' \in SUBSET Groups /\ told' \in SUBSET Users
    BY <1>1, <2>1 DEF Starts, Typed
  <2>3. \A t \in Slots : request'[t] = Idle \/ IsRequest(request'[t])
    BY <2>1 DEF Busy, Typed
  <2>4. QED
    BY <2>1, <2>2, <2>3 DEF Typed
<1>2. ASSUME NEW s, NEW r, GoesOn(s, r)
      PROVE  /\ request' = [t \in Slots |-> request'[t]]
             /\ \A t \in Slots : request'[t] = Idle \/ IsRequest(request'[t])
  BY <1>2 DEF GoesOn, Busy, Typed
<1>3. ASSUME NEW s \in Slots, EditAndPutGroup(s)
      PROVE  Typed'
  <2>1. PICK r : /\ GoesOn(s, r)
                 /\ listed' = IF r.listed = request[s].listed THEN listed
                              ELSE IF r.listed THEN listed \cup {r.group} ELSE listed \ {r.group}
    BY <1>3, EditFacts
  <2>2. r.group \in Groups
    BY <2>1 DEF GoesOn, IsRequest, RequestsOn
  <2>3. QED
    BY <1>2, <1>3, <2>1, <2>2 DEF EditAndPutGroup, Typed
<1>4. ASSUME NEW s \in Slots, PutPermission(s)
      PROVE  Typed'
  <2>1. /\ IsRequest(request[s]) /\ rules' = [rules EXCEPT ![request[s].artifact] = request[s].rules]
        /\ \E r : GoesOn(s, r)
    BY <1>4, PutFacts
  <2>2. request[s].artifact \in Artifacts /\ request[s].rules \in OwnRules(request[s].artifact)
    BY <2>1 DEF IsRequest, RequestsOn
  <2>3. rules \in AllRules
    BY DEF Typed
  <2>4. rules' \in AllRules
    BY <2>1, <2>2, <2>3 DEF AllRules
  <2>5. QED
    BY <1>2, <1>4, <2>1, <2>4 DEF PutPermission, Typed
<1>5. ASSUME NEW s \in Slots, Tell(s)
      PROVE  Typed'
  <2>1. \A t \in Slots : request'[t] = Idle \/ IsRequest(request'[t])
    BY <1>5, TellFacts DEF Busy, Typed
  <2>2. told' \in SUBSET Users
    BY <1>5, TellFacts DEF Audience
  <2>3. QED
    BY <1>5, <2>1, <2>2, TellFacts DEF Tell, Typed
<1>6. ASSUME NEW s \in Slots, Fail(s)
      PROVE  Typed'
  <2>1. \A t \in Slots : request'[t] = Idle \/ IsRequest(request'[t])
    BY <1>6, FailFacts DEF Busy, Typed
  <2>2. request[s].group \in Groups
    BY <1>6, FailFacts DEF IsRequest, RequestsOn
  <2>3. torn' = torn \/ torn' = torn \cup {request[s].group}
    BY <1>6, FailFacts
  <2>4. torn' \in SUBSET Groups /\ told' \in SUBSET Users
    BY <1>6, <2>2, <2>3, FailFacts DEF Typed
  <2>5. QED
    BY <1>6, <2>1, <2>4, FailFacts DEF Typed
<1>7. CASE UNCHANGED permVars
  BY <1>7 DEF permVars, Typed
<1>8. QED
  BY <1>1, <1>3, <1>4, <1>5, <1>6, <1>7, AllStart DEF Next

(* Whatever overlaps, rules, lists and requests keep their types; a group   *)
(* is never denied a required operation (_add_perm).                        *)
THEOREM TypeCorrect == Spec => []TypeOK
<1>1. QED
  BY InitTyped, NextTyped, TypedIsTypeOK, PTL DEF Spec

-----------------------------------------------------------------------------
(* Requests that do not overlap. The copies of a request tell the rules and *)
(* the list as they are, but for an edit not yet saved.                     *)

Current(r) ==
  /\ \A a \in Artifacts : a # r.artifact => rules[a] = r.was[a]
  /\ r.rules = IF r.step = "put" THEN Applied(Head(r.todo), r.group, rules[r.artifact])
               ELSE rules[r.artifact]
  /\ r.listed = (r.group \in listed)

CopiesCurrent ==
  ~overlapped => \A s \in Busy : (\A t \in Busy : t = s) /\ Current(request[s])

LEMMA InitCurrent == Init => CopiesCurrent
  BY DEF Init, CopiesCurrent, Busy

(* The only request goes on.                                                *)
LEMMA GoCurrent ==
  ASSUME CopiesCurrent, NEW s, NEW r, GoesOn(s, r), overlapped' = overlapped,
         ~overlapped => Current(r)'
  PROVE  CopiesCurrent'
<1> SUFFICES ASSUME ~overlapped, overlapped' = overlapped, NEW t \in Busy'
             PROVE  (\A u \in Busy' : u = t) /\ Current(request[t])'
  BY DEF CopiesCurrent
<1>1. t = s /\ (\A u \in Busy' : u = t) /\ request'[t] = r
  BY DEF CopiesCurrent, GoesOn
<1>2. QED
  BY <1>1 DEF Current

LEMMA NextCurrent == Typed /\ CopiesCurrent /\ [Next]_permVars => CopiesCurrent'
<1> SUFFICES ASSUME Typed, CopiesCurrent, [Next]_permVars PROVE CopiesCurrent'
  OBVIOUS
<1>1. ASSUME NEW s \in Slots, NEW a \in Artifacts, NEW g \in Groups, NEW todo,
             Starts(s, a, g, todo)
      PROVE  CopiesCurrent'
  <2>1. /\ Busy' = Busy \cup {s} /\ overlapped' = (overlapped \/ Busy # {})
        /\ request'[s].artifact = a /\ request'[s].group = g /\ request'[s].step = "edit"
        /\ request'[s].listed = (g \in listed)
        /\ request'[s].was = rules /\ request'[s].rules = rules[a]
        /\ UNCHANGED <<rules, listed>>
    <3>1. todo \in Seq(EditsOf(a)) /\ todo # <<>> /\ Start(s, a, g, todo)
      BY <1>1 DEF Starts
    <3>2. QED
      BY <3>1, StartFacts
  <2> SUFFICES ASSUME ~overlapped' PROVE \A t \in Busy' : (\A u \in Busy' : u = t) /\ Current(request[t])'
    BY DEF CopiesCurrent
  <2>2. Busy' = {s}
    BY <2>1
  <2>3. Current(request[s])'
    BY <2>1 DEF Current
  <2>4. ASSUME NEW t \in Busy' PROVE Current(request[t])'
    <3>1. t = s
      BY <2>2
    <3>2. QED
      BY <2>3, <3>1 DEF Current
  <2>5. QED
    BY <2>2, <2>4
<1>2. ASSUME NEW s \in Slots, EditAndPutGroup(s)
      PROVE  CopiesCurrent'
  <2>1. s \in Busy /\ request[s].step = "edit"
    BY <1>2, EditFacts
  <2>2. PICK r : /\ GoesOn(s, r)
                 /\ r.step = "put" /\ r.todo = request[s].todo
                 /\ r.rules = Applied(Head(r.todo), r.group, request[s].rules)
                 /\ listed' = IF r.listed = request[s].listed THEN listed
                              ELSE IF r.listed THEN listed \cup {r.group} ELSE listed \ {r.group}
    BY <1>2, EditFacts
  <2>3. rules' = rules /\ overlapped' = overlapped
    BY <1>2 DEF EditAndPutGroup
  <2>4. r.listed \in BOOLEAN /\ request[s].listed \in BOOLEAN
    BY <2>1, <2>2, BusyIsRequest DEF GoesOn, IsRequest, RequestsOn
  <2>5. ASSUME ~overlapped PROVE Current(r)'
    <3>1. Current(request[s])
      BY <2>1, <2>5 DEF CopiesCurrent
    <3>2. r.listed = (r.group \in listed')
      BY <2>2, <2>4, <3>1 DEF Current, GoesOn
    <3>3. /\ r.rules = Applied(Head(r.todo), r.group, rules'[r.artifact])
          /\ \A a \in Artifacts : a # r.artifact => rules'[a] = r.was[a]
      BY <2>1, <2>2, <2>3, <3>1 DEF Current, GoesOn
    <3>4. QED
      BY <2>2, <3>2, <3>3 DEF Current
  <2>6. QED
    BY <2>2, <2>3, <2>5, GoCurrent
<1>3. ASSUME NEW s \in Slots, PutPermission(s)
      PROVE  CopiesCurrent'
  <2>1. /\ s \in Busy /\ request[s].step = "put" /\ IsRequest(request[s])
        /\ rules' = [rules EXCEPT ![request[s].artifact] = request[s].rules]
    BY <1>3, PutFacts
  <2>2. PICK r : /\ GoesOn(s, r)
                 /\ r.step \in {"edit", "tell"} /\ r.rules = request[s].rules
                 /\ r.listed = request[s].listed
    BY <1>3, PutFacts
  <2>3. listed' = listed /\ overlapped' = overlapped
    BY <1>3 DEF PutPermission
  <2>4. \A a \in Artifacts : rules'[a] = IF a = request[s].artifact THEN request[s].rules ELSE rules[a]
    BY <2>1 DEF Typed, AllRules
  <2>5. ASSUME ~overlapped PROVE Current(r)'
    <3>1. Current(request[s])
      BY <2>1, <2>5 DEF CopiesCurrent
    <3>2. r.artifact = request[s].artifact /\ r.artifact \in Artifacts /\ r.group = request[s].group
          /\ r.was = request[s].was
      BY <2>1, <2>2 DEF GoesOn, IsRequest
    <3>3. \A a \in Artifacts : a # r.artifact => rules'[a] = r.was[a]
      BY <2>4, <3>1, <3>2 DEF Current
    <3>4. r.rules = rules'[r.artifact] /\ r.listed = (r.group \in listed')
      BY <2>2, <2>3, <2>4, <3>1, <3>2 DEF Current
    <3>5. QED
      BY <2>2, <3>3, <3>4 DEF Current
  <2>6. QED
    BY <2>2, <2>3, <2>5, GoCurrent
<1>4. ASSUME NEW s \in Slots, Tell(s)
      PROVE  CopiesCurrent'
  <2>1. Busy' \subseteq Busy /\ \A t \in Busy' : request'[t] = request[t]
    BY <1>4, TellFacts
  <2>2. UNCHANGED <<rules, listed, overlapped>>
    BY <1>4 DEF Tell
  <2>3. QED
    BY <2>1, <2>2 DEF CopiesCurrent, Current
<1>5. ASSUME NEW s \in Slots, Fail(s)
      PROVE  CopiesCurrent'
  <2>1. Busy' \subseteq Busy /\ \A t \in Busy' : request'[t] = request[t]
    BY <1>5, FailFacts
  <2>2. UNCHANGED <<rules, listed, overlapped>>
    BY <1>5, FailFacts
  <2>3. QED
    BY <2>1, <2>2 DEF CopiesCurrent, Current
<1>6. CASE UNCHANGED permVars
  BY <1>6 DEF permVars, CopiesCurrent, Current, Busy
<1>7. QED
  BY <1>1, <1>2, <1>3, <1>4, <1>5, <1>6, AllStart DEF Next

LEMMA CurrentAlways == Spec => [](Typed /\ CopiesCurrent)
  BY InitTyped, NextTyped, InitCurrent, NextCurrent, PTL DEF Spec

(* Whoever gains or loses the right to read the artifact by a request is    *)
(* sent the change: the request asks about the rules it read and the rules  *)
(* in force. The proof never opens the merge of the chain.                  *)
LEMMA TellsAll ==
  ASSUME Typed, CopiesCurrent, ~overlapped, NEW s \in Slots, Tell(s), NEW u \in Users,
         HasPermission(request[s].was, u, request[s].artifact, "read")
           # Can(u, request[s].artifact, "read")
  PROVE  u \in told'
<1> DEFINE r == request[s]
<1>1. s \in Busy /\ r.step = "tell" /\ IsRequest(r) /\ told' = Audience(r)
  BY TellFacts
<1>2. rules = Now(r)
  <2>1. Now(r) = [r.was EXCEPT ![r.artifact] = r.rules]
    BY DEF Now
  <2>2. /\ \A a \in Artifacts : a # r.artifact => rules[a] = r.was[a]
        /\ rules[r.artifact] = r.rules
    BY <1>1 DEF CopiesCurrent, Current
  <2>3. rules = [a \in Artifacts |-> rules[a]]
    BY DEF Typed, AllRules
  <2>4. r.was = [a \in Artifacts |-> r.was[a]] /\ r.artifact \in Artifacts
    BY <1>1 DEF IsRequest, RequestsOn, AllRules
  <2>5. QED
    BY <2>1, <2>2, <2>3, <2>4
<1>3. HasPermission(r.was, u, r.artifact, "read")
        # HasPermission(Now(r), u, r.artifact, "read")
  BY <1>2 DEF Can
<1>4. HasPermission(Now(r), u, r.artifact, "read")
        \/ HasPermission(r.was, u, r.artifact, "read")
  BY <1>3 DEF HasPermission
<1>5. QED
  BY <1>1, <1>4 DEF Audience

(* Only telling and failing end a request.                                  *)
LEMMA EndsByTelling ==
  ASSUME Typed, Next, NEW s \in Busy, s \notin Busy', ~stopped'
  PROVE  Tell(s)
<1>1. ASSUME NEW t \in Slots, NEW a \in Artifacts, NEW g \in Groups, NEW todo,
             Starts(t, a, g, todo)
      PROVE  s \in Busy'
  BY <1>1, StartFacts DEF Starts
<1>2. ASSUME NEW t \in Slots, EditAndPutGroup(t)
      PROVE  s \in Busy'
  BY <1>2, EditFacts DEF GoesOn
<1>3. ASSUME NEW t \in Slots, PutPermission(t)
      PROVE  s \in Busy'
  BY <1>3, PutFacts DEF GoesOn
<1>4. ASSUME NEW t \in Slots, Tell(t)
      PROVE  t = s
  BY <1>4, TellFacts
<1>5. ASSUME NEW t \in Slots, Fail(t)
      PROVE  FALSE
  BY <1>5, FailFacts
<1>6. QED
  BY <1>1, <1>2, <1>3, <1>4, <1>5, AllStart DEF Next

(* As long as requests never overlapped, a request that ended and was not   *)
(* stopped was on an artifact with an organization, and whoever gained or   *)
(* lost the right to read that artifact has been told, however rules are    *)
(* merged.                                                                  *)
THEOREM EveryoneTold == Spec => ToldIfAffected
<1> DEFINE Told ==
      \A s \in Slots : s \in Busy /\ s \notin Busy' /\ ~overlapped /\ ~stopped' =>
       LET r == request[s] IN
       /\ r.artifact \in Organized
       /\ \A u \in Users :
            HasPermission(r.was, u, r.artifact, "read") # Can(u, r.artifact, "read")
              => u \in told'
<1>1. ASSUME Typed, CopiesCurrent, [Next]_permVars, NEW s \in Busy, s \notin Busy',
             ~overlapped, ~stopped'
      PROVE  Tell(s)
  <2>1. CASE UNCHANGED permVars
    BY <1>1, <2>1 DEF permVars, Busy
  <2>2. CASE Next
    BY <1>1, <2>2, EndsByTelling
  <2>3. QED
    BY <1>1, <2>1, <2>2
<1>2. Typed /\ CopiesCurrent /\ [Next]_permVars => Told
  <2> SUFFICES ASSUME Typed, CopiesCurrent, [Next]_permVars, NEW s \in Slots,
                      s \in Busy, s \notin Busy', ~overlapped, ~stopped'
               PROVE  /\ request[s].artifact \in Organized
                      /\ \A u \in Users :
                           HasPermission(request[s].was, u, request[s].artifact, "read")
                             # Can(u, request[s].artifact, "read") => u \in told'
    OBVIOUS
  <2>1. Tell(s)
    BY <1>1
  <2>2. request[s].artifact \in Organized
    BY <2>1 DEF Tell
  <2>3. QED
    BY <2>1, <2>2, TellsAll
<1> HIDE DEF Told
<1>3. Spec => [][Told]_permVars
  BY CurrentAlways, <1>2, PTL DEF Spec
<1>4. QED
  BY <1>3 DEF ToldIfAffected, Told

-----------------------------------------------------------------------------
(* The list of a group's artifacts names the project as long as the group   *)
(* has a rule there. A request on the project saves the group before the    *)
(* rules: in between, the list goes by the rules of its copy.               *)

Keeps(own, h) ==
  h \notin torn =>
    /\ HasGroupPerms(own, h) => h \in listed
    /\ h \in listed => HasGroupPerms(own, h) \/ h \in inherited

Listing ==
  ~overlapped =>
    /\ (\A s \in Busy : ~Saving(request[s])) => \A h \in Groups : Keeps(rules[Project], h)
    /\ \A s \in Busy :
         /\ Saving(request[s]) => \A h \in Groups : Keeps(request[s].rules, h)
         /\ request[s].artifact = Project =>
              \/ request[s].group \in inherited
              \/ request[s].todo \in Seq(SetEdits(Project) \cup DropEdits(Project))

LEMMA InitListing == Init => Listing
<1> SUFFICES ASSUME Init PROVE Listing
  OBVIOUS
<1>1. Busy = {} /\ listed = {}
  BY DEF Init, Busy
<1>2. Project \in Artifacts
  BY PermissionsAssumption
<1>3. \A h \in Groups : ~HasGroupPerms(rules[Project], h)
  BY <1>2 DEF Init, HasGroupPerms, NoRules
<1>4. QED
  BY <1>1, <1>3 DEF Listing, Keeps

(* What an edit on the project makes of its group's place in the list.      *)
LEMMA EditKeeps ==
  ASSUME Typed, NEW s \in Busy, request[s].artifact = Project, request[s].step = "edit",
         NEW e, e = Head(request[s].todo), e \in EditsOf(Project),
         e.what = "list" => request[s].group \in inherited,
         NEW h \in Groups, Keeps(request[s].rules, h),
         request[s].listed = (request[s].group \in listed),
         listed' = IF Lists(request[s]) THEN listed \cup {request[s].group}
                   ELSE listed \ {request[s].group},
         inherited' = inherited, torn' = torn,
         NEW own, own = Applied(e, request[s].group, request[s].rules)
  PROVE  Keeps(own, h)'
<1> DEFINE r == request[s]
<1>1. IsRequest(r) /\ r.rules \in OwnRules(Project) /\ r.group \in Groups /\ Project \in Artifacts
  BY BusyIsRequest DEF IsRequest, RequestsOn
<1>2. /\ own \in OwnRules(Project)
      /\ \A op \in ToSet(Operations[Project]), k \in Kinds, j \in Groups :
           own[op][k][j] = RuleAfter(e, r.group, r.rules, op, k, j)
  BY <1>1, AppliedFacts
<1>3. DOMAIN own = ToSet(Operations[Project]) /\ DOMAIN r.rules = ToSet(Operations[Project])
  BY <1>1, <1>2 DEF OwnRules
<1>4. CASE h # r.group
  <2>1. HasGroupPerms(own, h) <=> HasGroupPerms(r.rules, h)
    BY <1>2, <1>3, <1>4 DEF HasGroupPerms, RuleAfter
  <2>2. QED
    BY <1>4, <2>1 DEF Keeps
<1>5. CASE h = r.group
  <2>1. Edited(r) = own
    BY DEF Edited, Applied
  <2>2. CASE e.what = "set"
    <3>1. e.op \in ToSet(Operations[Project]) /\ e.kind \in Kinds /\ e.rule # "none"
      BY <2>2 DEF EditsOf, SetEdits, DropEdits
    <3>2. own[e.op][e.kind][h] # "none"
      BY <1>2, <1>5, <2>2, <3>1 DEF RuleAfter
    <3>3. HasGroupPerms(own, h)
      BY <1>3, <3>1, <3>2 DEF HasGroupPerms
    <3>4. Lists(r)
      BY <2>2 DEF Lists
    <3>5. QED
      BY <1>5, <3>3, <3>4 DEF Keeps
  <2>3. CASE e.what = "drop"
    <3>1. Lists(r) <=> r.listed /\ HasGroupPerms(own, h)
      BY <1>5, <2>1, <2>3 DEF Lists
    <3>2. HasGroupPerms(own, h) => HasGroupPerms(r.rules, h)
      <4>1. \A op \in ToSet(Operations[Project]), k \in Kinds :
              own[op][k][h] # "none" => r.rules[op][k][h] # "none"
        BY <1>2, <1>5, <2>3 DEF RuleAfter
      <4>2. QED
        BY <1>3, <4>1 DEF HasGroupPerms
    <3>3. QED
      BY <1>5, <3>1, <3>2 DEF Keeps
  <2>4. CASE e.what = "list"
    <3>1. Lists(r) /\ own = r.rules
      BY <2>4 DEF Lists, Applied
    <3>2. QED
      BY <1>5, <2>4, <3>1 DEF Keeps
  <2>5. e.what \in {"set", "drop", "list"}
    BY DEF EditsOf, SetEdits, DropEdits
  <2>6. QED
    BY <2>2, <2>3, <2>4, <2>5
<1>6. QED
  BY <1>4, <1>5

LEMMA NextListing ==
  Typed /\ CopiesCurrent /\ Listing /\ [Next]_permVars => Listing'
<1> SUFFICES ASSUME Typed, CopiesCurrent, Listing, [Next]_permVars, ~overlapped'
             PROVE  Listing'
  BY DEF Listing
<1> USE PermissionsAssumption
<1>1. ASSUME NEW s \in Slots, NEW a \in Artifacts, NEW g \in Groups, NEW todo,
             Starts(s, a, g, todo)
      PROVE  Listing'
  <2>1. /\ Busy' = Busy \cup {s} /\ overlapped' = (overlapped \/ Busy # {})
        /\ request'[s].artifact = a /\ request'[s].group = g /\ request'[s].step = "edit"
        /\ request'[s].todo = todo
        /\ UNCHANGED <<rules, listed, torn>>
    <3>1. todo \in Seq(EditsOf(a)) /\ todo # <<>> /\ Start(s, a, g, todo)
      BY <1>1 DEF Starts
    <3>2. QED
      BY <3>1, StartFacts
  <2>2. Busy = {} /\ Busy' = {s} /\ ~overlapped
    BY <2>1
  <2>3. \A h \in Groups : Keeps(rules[Project], h)
    BY <2>2 DEF Listing
  <2>4. inherited \subseteq inherited'
        /\ (a = Project => g \in inherited' \/ todo \in Seq(SetEdits(a) \cup DropEdits(a)))
    BY <1>1 DEF Starts
  <2>5. \A h \in Groups : Keeps(rules[Project], h)'
    BY <2>1, <2>3, <2>4 DEF Keeps
  <2>6. QED
    BY <2>1, <2>2, <2>4, <2>5 DEF Listing, Saving
<1>2. ASSUME NEW s \in Slots, EditAndPutGroup(s)
      PROVE  Listing'
  <2>1. s \in Busy /\ request[s].step = "edit" /\ Head(request[s].todo) \in EditsOf(request[s].artifact)
        /\ IsRequest(request[s])
    BY <1>2, EditFacts, BusyIsRequest
  <2>2. PICK r : /\ GoesOn(s, r)
                 /\ r.step = "put" /\ r.todo = request[s].todo
                 /\ r.rules = Applied(Head(r.todo), r.group, request[s].rules)
                 /\ r.listed = IF r.artifact = Project THEN Lists(request[s])
                               ELSE request[s].listed
                 /\ listed' = IF r.listed = request[s].listed THEN listed
                              ELSE IF r.listed THEN listed \cup {r.group} ELSE listed \ {r.group}
    BY <1>2, EditFacts
  <2>3. rules' = rules /\ overlapped' = overlapped /\ inherited' = inherited
        /\ torn' = torn
    BY <1>2 DEF EditAndPutGroup
  <2>4. ~overlapped /\ Current(request[s]) /\ \A t \in Busy : t = s
    BY <2>1, <2>3 DEF CopiesCurrent
  <2>5. Busy' = Busy /\ request'[s] = r /\ r.artifact = request[s].artifact /\ r.group = request[s].group
    BY <2>2 DEF GoesOn
  <2>6. \A h \in Groups : Keeps(rules[Project], h)
    BY <2>1, <2>4 DEF Listing, Saving
  <2>7. CASE r.artifact # Project
    BY <2>1, <2>2, <2>3, <2>4, <2>5, <2>6, <2>7 DEF Listing, Saving, Keeps
  <2>8. CASE r.artifact = Project
    <3>1. r.listed \in BOOLEAN /\ request[s].listed \in BOOLEAN
      BY <2>1, <2>2 DEF GoesOn, IsRequest, RequestsOn
    <3>2. listed' = IF Lists(request[s]) THEN listed \cup {request[s].group}
                    ELSE listed \ {request[s].group}
      BY <2>2, <2>4, <2>5, <2>8, <3>1 DEF Current
    <3>3. request[s].rules = rules[Project] /\ request[s].listed = (request[s].group \in listed)
      BY <2>1, <2>4, <2>5, <2>8 DEF Current
    <3>4. PICK e : e = Head(request[s].todo)
      OBVIOUS
    <3>5. e.what = "list" => request[s].group \in inherited
      <4> SUFFICES ASSUME request[s].todo \in Seq(SetEdits(Project) \cup DropEdits(Project))
                   PROVE  e.what # "list"
        BY <2>1, <2>4, <2>5, <2>8 DEF Listing
      <4>1. request[s].todo # <<>>
        BY <2>1 DEF IsRequest
      <4>2. e \in SetEdits(Project) \cup DropEdits(Project)
        BY <3>4, <4>1
      <4>3. QED
        BY <4>2 DEF SetEdits, DropEdits
    <3>6. \A h \in Groups : Keeps(r.rules, h)'
      <4> TAKE h \in Groups
      <4>1. Keeps(request[s].rules, h)
        BY <2>6, <3>3
      <4>2. e \in EditsOf(Project)
        BY <2>1, <2>5, <2>8, <3>4
      <4>3. PICK own : own = Applied(e, request[s].group, request[s].rules) /\ own = r.rules
        BY <2>2, <2>5, <3>4
      <4>4. Keeps(own, h)'
        BY <2>1, <2>3, <2>5, <2>8, <3>2, <3>3, <3>4, <3>5, <4>1, <4>2, <4>3, EditKeeps
      <4>5. QED
        BY <4>3, <4>4
    <3>7. \A h \in Groups : Keeps(request[s].rules, h)'
      BY <2>5, <3>6 DEF Keeps
    <3>8. \A t \in Busy' : t = s
      BY <2>4, <2>5
    <3>9. r.group \in inherited' \/ r.todo \in Seq(SetEdits(Project) \cup DropEdits(Project))
      BY <2>1, <2>2, <2>3, <2>4, <2>5, <2>8 DEF Listing
    <3>10. Saving(request[s])' /\ s \in Busy'
      BY <2>1, <2>2, <2>5, <2>8 DEF Saving
    <3>11. QED
      BY <2>5, <3>7, <3>8, <3>9, <3>10 DEF Listing
  <2>9. QED
    BY <2>7, <2>8
<1>3. ASSUME NEW s \in Slots, PutPermission(s)
      PROVE  Listing'
  <2>1. /\ s \in Busy /\ request[s].step = "put" /\ IsRequest(request[s])
        /\ rules' = [rules EXCEPT ![request[s].artifact] = request[s].rules]
    BY <1>3, PutFacts
  <2>2. PICK r : /\ GoesOn(s, r)
                 /\ r.step \in {"edit", "tell"} /\ r.todo = Tail(request[s].todo)
    BY <1>3, PutFacts
  <2>3. listed' = listed /\ overlapped' = overlapped /\ inherited' = inherited
        /\ torn' = torn
    BY <1>3 DEF PutPermission
  <2>4. ~overlapped /\ \A t \in Busy : t = s
    BY <2>1, <2>3 DEF CopiesCurrent
  <2>5. Busy' = Busy /\ request'[s] = r /\ r.artifact = request[s].artifact /\ r.group = request[s].group
    BY <2>2 DEF GoesOn
  <2>6. \A h \in Groups : Keeps(rules'[Project], h)
    <3>1. rules'[Project] = IF request[s].artifact = Project THEN request[s].rules ELSE rules[Project]
      BY <2>1 DEF Typed, AllRules
    <3>2. CASE request[s].artifact = Project
      BY <2>1, <2>4, <3>1, <3>2 DEF Listing, Saving
    <3>3. CASE request[s].artifact # Project
      BY <2>1, <2>4, <3>1, <3>3 DEF Listing, Saving
    <3>4. QED
      BY <3>2, <3>3
  <2>7. \A h \in Groups : Keeps(rules[Project], h)'
    BY <2>3, <2>6 DEF Keeps
  <2>8. r.artifact = Project =>
          r.group \in inherited' \/ r.todo \in Seq(SetEdits(Project) \cup DropEdits(Project))
    <3> SUFFICES ASSUME request[s].todo \in Seq(SetEdits(Project) \cup DropEdits(Project))
                 PROVE  Tail(request[s].todo) \in Seq(SetEdits(Project) \cup DropEdits(Project))
      BY <2>1, <2>2, <2>3, <2>4, <2>5 DEF Listing
    <3>1. request[s].todo # <<>>
      BY <2>1 DEF IsRequest
    <3>2. QED
      BY <3>1
  <2>9. ~Saving(r) /\ \A t \in Busy' : t = s
    BY <2>2, <2>4, <2>5 DEF Saving
  <2>10. QED
    BY <2>5, <2>7, <2>8, <2>9 DEF Listing, Saving
<1>4. ASSUME NEW s \in Slots, Tell(s)
      PROVE  Listing'
  <2>1. s \in Busy /\ request[s].step = "tell" /\ Busy' \subseteq Busy
    BY <1>4, TellFacts
  <2>2. UNCHANGED <<rules, listed, overlapped, inherited, torn>>
    BY <1>4 DEF Tell
  <2>3. Busy' = {}
    BY <1>4, <2>1, <2>2, TellFacts DEF CopiesCurrent
  <2>4. \A h \in Groups : Keeps(rules[Project], h)
    BY <2>1, <2>2 DEF CopiesCurrent, Listing, Saving
  <2>5. QED
    BY <2>2, <2>3, <2>4 DEF Listing, Keeps
<1>5. ASSUME NEW s \in Slots, Fail(s)
      PROVE  Listing'
  <2> DEFINE r == request[s]
  <2>1. /\ s \in Busy /\ Busy' \subseteq Busy \ {s} /\ IsRequest(r)
        /\ torn' = IF Saving(r) THEN torn \cup {r.group} ELSE torn
        /\ UNCHANGED <<rules, listed, overlapped, inherited>>
    BY <1>5, FailFacts
  <2>2. Current(r) /\ \A t \in Busy : t = s
    BY <2>1 DEF CopiesCurrent
  <2>3. Busy' = {}
    BY <2>1, <2>2
  <2>4. ASSUME NEW h \in Groups PROVE Keeps(rules[Project], h)'
    <3>1. CASE ~Saving(r)
      <4>1. Keeps(rules[Project], h)
        BY <2>1, <2>2, <3>1 DEF Listing
      <4>2. QED
        BY <2>1, <3>1, <4>1 DEF Keeps
    <3>2. CASE Saving(r)
      <4> SUFFICES ASSUME h # r.group PROVE Keeps(rules[Project], h)'
        BY <2>1, <3>2 DEF Keeps
      <4>1. Keeps(r.rules, h)
        BY <2>1, <2>2, <3>2 DEF Listing
      <4>2. HasGroupPerms(r.rules, h) <=> HasGroupPerms(rules[Project], h)
        <5>1. PICK e, own : e = Head(r.todo) /\ own = rules[Project]
          OBVIOUS
        <5>2. /\ r.rules = Applied(e, r.group, own) /\ r.group \in Groups
              /\ own \in OwnRules(Project) /\ Project \in Artifacts
          BY <2>1, <2>2, <3>2, <5>1 DEF Current, Saving, IsRequest, RequestsOn, Typed, AllRules
        <5>3. e \in EditsOf(Project)
          <6>1. r.todo \in Seq(EditsOf(Project)) /\ r.todo # <<>>
            BY <2>1, <3>2 DEF Saving, IsRequest, RequestsOn
          <6>2. QED
            BY <5>1, <6>1
        <5>4. /\ r.rules \in OwnRules(Project)
              /\ \A op \in ToSet(Operations[Project]), k \in Kinds, j \in Groups :
                   r.rules[op][k][j] = RuleAfter(e, r.group, own, op, k, j)
          BY <5>2, <5>3, AppliedFacts
        <5>5. DOMAIN own = ToSet(Operations[Project]) /\ DOMAIN r.rules = ToSet(Operations[Project])
          BY <5>2, <5>4 DEF OwnRules
        <5>6. QED
          BY <5>1, <5>4, <5>5 DEF HasGroupPerms, RuleAfter
      <4>3. QED
        BY <2>1, <3>2, <4>1, <4>2 DEF Keeps
    <3>3. QED
      BY <3>1, <3>2
  <2>5. QED
    BY <2>3, <2>4 DEF Listing
<1>6. CASE UNCHANGED permVars
  BY <1>6 DEF permVars, Listing, Saving, Keeps, Busy
<1>7. QED
  BY <1>1, <1>2, <1>3, <1>4, <1>5, <1>6, AllStart DEF Next

(* As long as requests never overlapped, a group lists the project while it *)
(* has a rule there, and only then but for the rule inherit, unless a       *)
(* request was stopped between the two puts (add_group_perm,                *)
(* remove_group_perm).                                                      *)
THEOREM ListsKeepUp == Spec => []ListedIffRules
<1>1. Listing => ListedIffRules
  BY DEF Listing, ListedIffRules, Keeps
<1>2. QED
  BY <1>1, CurrentAlways, InitTyped, NextTyped, InitCurrent, NextCurrent,
     InitListing, NextListing, PTL DEF Spec

-----------------------------------------------------------------------------
(* The merge of a chain, by induction over the artifacts merged so far.     *)

(* Every nonempty set of natural numbers has a least element.               *)
LEMMA Least ==
  ASSUME NEW T, T \subseteq Nat, T # {}
  PROVE  \E n \in T : \A m \in T : n <= m
<1> DEFINE R == OpToRel(<, Nat)
<1>1. IsWellFoundedOn(R, Nat)
  BY NatLessThanWellFounded
<1>2. \A m, n \in Nat : m < n => <<m, n>> \in R
  BY DEF OpToRel
<1> HIDE DEF R
<1>3. PICK n \in T : \A m \in T : ~(<<m, n>> \in R)
  BY <1>1, WFMin
<1>4. ASSUME NEW m \in T
      PROVE  n <= m
  <2>1. m \in Nat /\ n \in Nat
    OBVIOUS
  <2>2. ~(m < n)
    BY <1>2, <1>3, <2>1, Zenon
  <2>3. QED
    BY <2>1, <2>2
<1>5. QED
  BY <1>4

(* So what holds of 0, and of the next number whenever it holds of one,     *)
(* holds of every number.                                                   *)
LEMMA Counting ==
  ASSUME NEW Q, 0 \in Q, \A n \in Nat : n \in Q => n + 1 \in Q
  PROVE  Nat \subseteq Q
<1> SUFFICES ASSUME Nat \ Q # {} PROVE FALSE
  OBVIOUS
<1>1. PICK n \in Nat \ Q : \A m \in Nat \ Q : n <= m
  BY Least
<1>2. n # 0 /\ n - 1 \in Nat /\ n - 1 \in Q
  BY <1>1
<1>3. (n - 1) + 1 \in Q
  BY <1>2
<1>4. QED
  BY <1>1, <1>3

LEMMA Largest ==
  ASSUME NEW n \in Nat, NEW s \in SUBSET (1 .. n), s # {}
  PROVE  Max(s) \in s /\ \A y \in s : y <= Max(s)
<1> DEFINE T == {n - x : x \in s}
<1>0. \A x \in s : x \in Nat /\ n - x \in Nat
  OBVIOUS
<1>1. T \subseteq Nat /\ T # {}
  BY <1>0
<1>2. PICK m \in T : \A k \in T : m <= k
  <2> HIDE DEF T
  <2>1. QED
    BY <1>1, Least
<1>3. PICK x \in s : m = n - x
  OBVIOUS
<1>4. \A y \in s : x >= y
  <2> SUFFICES ASSUME NEW y \in s PROVE x >= y
    OBVIOUS
  <2>1. n - x <= n - y /\ x \in Nat /\ y \in Nat
    BY <1>0, <1>2, <1>3
  <2>2. QED
    BY <2>1
<1>5. Max(s) \in s /\ \A y \in s : Max(s) >= y
  BY <1>4 DEF Max
<1>6. QED
  BY <1>0, <1>5

\* What b says about group g, for a merge made for a.
Says(all, b, a, op, kind, g) ==
  LET pop == IF op \in DOMAIN all[b] THEN op ELSE Alternative[a][op] IN
  IF pop = None THEN "none" ELSE all[b][pop][kind][g]

\* What the merge becomes with the rules of b.
With(all, b, a, op, kind, merged) ==
  LET pop == IF op \in DOMAIN all[b] THEN op ELSE Alternative[a][op] IN
  IF pop = None THEN merged
  ELSE [g \in Groups |-> IF all[b][pop][kind][g] # "none"
                         THEN all[b][pop][kind][g] ELSE merged[g]]

LEMMA WithSays ==
  ASSUME NEW all, NEW b, NEW a, NEW op, NEW kind, NEW merged, DOMAIN merged = Groups
  PROVE  /\ DOMAIN With(all, b, a, op, kind, merged) = Groups
         /\ \A g \in Groups : With(all, b, a, op, kind, merged)[g] =
              IF Says(all, b, a, op, kind, g) # "none" THEN Says(all, b, a, op, kind, g)
              ELSE merged[g]
  BY DEF With, Says

\* The recursive function of the fold that merges the first n of the line.
IsMerge(it, all, a, op, kind, line, n) ==
  it = [s \in SUBSET (1 .. n) |->
          IF s = {} THEN [g \in Groups |-> "none"]
          ELSE With(all, line[Max(s)], a, op, kind, it[s \ {Max(s)}])]

(* There is such a function for every n.                                    *)
LEMMA MergeExists ==
  ASSUME NEW all, NEW a, NEW op, NEW kind, NEW line, NEW n \in Nat
  PROVE  \E it : IsMerge(it, all, a, op, kind, line, n)
<1> DEFINE Q == {k \in Nat : \E it : IsMerge(it, all, a, op, kind, line, k)}
           None0 == [g \in Groups |-> "none"]
           Add(s, m) == With(all, line[Max(s)], a, op, kind, m)
<1>1. 0 \in Q
  <2> DEFINE it == [s \in SUBSET (1 .. 0) |-> None0]
  <2>1. \A s \in SUBSET (1 .. 0) : s = {}
    OBVIOUS
  <2>2. IsMerge(it, all, a, op, kind, line, 0)
    BY <2>1 DEF IsMerge
  <2> HIDE DEF it
  <2>3. QED
    BY <2>2
<1>2. ASSUME NEW k \in Nat, k \in Q
      PROVE  k + 1 \in Q
  <2>1. PICK it : IsMerge(it, all, a, op, kind, line, k)
    BY <1>2
  <2> DEFINE D == SUBSET (1 .. k + 1)
             h == [s \in D |-> IF s = {} THEN None0 ELSE Add(s, it[s \ {Max(s)}])]
             j == [s \in D |-> IF s = {} THEN None0 ELSE Add(s, h[s \ {Max(s)}])]
  <2>2. ASSUME NEW s \in SUBSET (1 .. k)
        PROVE  s \in D /\ h[s] = it[s]
    <3>1. s \in D
      BY <1>2
    <3>2. it[s] = IF s = {} THEN None0 ELSE Add(s, it[s \ {Max(s)}])
      BY <2>1 DEF IsMerge
    <3>3. QED
      BY <3>1, <3>2
  <2>3. ASSUME NEW s \in D, s # {}
        PROVE  s \ {Max(s)} \in SUBSET (1 .. k)
    <3>0. k + 1 \in Nat /\ s \in SUBSET (1 .. k + 1)
      BY <1>2
    <3>1. Max(s) \in s /\ \A y \in s : y <= Max(s)
      BY <2>3, <3>0, Largest
    <3>2. ASSUME NEW y \in s \ {Max(s)}
          PROVE  y \in 1 .. k
      <4>1. PICK m : m = Max(s)
        OBVIOUS
      <4>2. m \in 1 .. k + 1 /\ y \in 1 .. k + 1 /\ y <= m /\ y # m
        BY <3>0, <3>1, <4>1
      <4>3. QED
        BY <1>2, <4>2
    <3>3. QED
      BY <3>2
  <2>4. \A s \in D : s # {} => h[s \ {Max(s)}] = it[s \ {Max(s)}]
    BY <2>2, <2>3
  <2>5. h = j
    <3> HIDE DEF D, Add, None0
    <3>1. ASSUME NEW s \in D PROVE h[s] = j[s]
      <4>1. h[s] = IF s = {} THEN None0 ELSE Add(s, it[s \ {Max(s)}])
        BY Zenon
      <4>2. j[s] = IF s = {} THEN None0 ELSE Add(s, h[s \ {Max(s)}])
        BY Zenon
      <4> HIDE DEF h, j
      <4>3. QED
        BY <2>4, <4>1, <4>2
    <3>2. h = [s \in D |-> h[s]]
      BY Zenon
    <3> HIDE DEF h
    <3>3. j = [s \in D |-> j[s]]
      BY Zenon
    <3> HIDE DEF j
    <3>4. QED
      BY <3>1, <3>2, <3>3
  <2>6. IsMerge(h, all, a, op, kind, line, k + 1)
    BY <2>5, Zenon DEF IsMerge
  <2>7. QED
    BY <1>2, <2>6
<1>3. Nat \subseteq Q
  <2> HIDE DEF Q
  <2>1. QED
    BY <1>1, <1>2, Counting
<1>4. QED
  BY <1>3

Line(a) == Append(Chain[a], a)

LEMMA LineType ==
  ASSUME NEW a \in Artifacts
  PROVE  /\ Line(a) \in Seq(Artifacts) /\ Len(Line(a)) \in Nat
         /\ DOMAIN Line(a) = 1 .. Len(Line(a))
         /\ \A i \in DOMAIN Line(a) : Line(a)[i] = a \/ Contains(Chain[a], Line(a)[i])
<1>1. Chain[a] \in Seq(Artifacts)
  <2>1. Chain[a] \in Seq(Artifacts \ {a})
    BY PermissionsAssumption
  <2>2. QED
    BY <2>1
<1>2. Line(a) \in Seq(Artifacts) /\ Len(Line(a)) = Len(Chain[a]) + 1 /\ Len(Chain[a]) \in Nat
  BY <1>1 DEF Line
<1>3. \A i \in 1 .. Len(Line(a)) : Line(a)[i] = IF i = Len(Chain[a]) + 1 THEN a ELSE Chain[a][i]
  BY <1>1, <1>2 DEF Line
<1>4. QED
  BY <1>2, <1>3 DEF Contains

LEMMA MergedIsMerge ==
  ASSUME NEW all, NEW a \in Artifacts, NEW op, NEW kind
  PROVE  \E it : /\ IsMerge(it, all, a, op, kind, Line(a), Len(Line(a)))
                 /\ Merged(all, a, op, kind) = it[1 .. Len(Line(a))]
<1>1. \E it : IsMerge(it, all, a, op, kind, Line(a), Len(Line(a)))
  BY LineType, MergeExists
<1> DEFINE f == CHOOSE it : IsMerge(it, all, a, op, kind, Line(a), Len(Line(a)))
<1>2. IsMerge(f, all, a, op, kind, Line(a), Len(Line(a)))
  BY <1>1
<1>3. DOMAIN Append(Chain[a], a) = 1 .. Len(Line(a))
  BY LineType DEF Line
<1>4. Merged(all, a, op, kind) = f[1 .. Len(Line(a))]
  BY <1>3 DEF Merged, FoldLeft, MapThenFoldSet, IsMerge, With, Line
<1>5. QED
  BY <1>2, <1>4

(* After the first k of the line: the last of them that says anything.      *)
SaidLast(v, all, a, op, kind, line, k, g) ==
  \/ v = "none" /\ \A i \in 1 .. k : Says(all, line[i], a, op, kind, g) = "none"
  \/ \E i \in 1 .. k : /\ v = Says(all, line[i], a, op, kind, g) /\ v # "none"
                       /\ \A j \in i + 1 .. k : Says(all, line[j], a, op, kind, g) = "none"

LEMMA MergedSaysLast ==
  ASSUME NEW all, NEW a \in Artifacts, NEW op, NEW kind
  PROVE  /\ DOMAIN Merged(all, a, op, kind) = Groups
         /\ \A g \in Groups : SaidLast(Merged(all, a, op, kind)[g], all, a, op, kind, Line(a),
                                       Len(Line(a)), g)
<1> DEFINE line == Line(a)
           n == Len(line)
<1>1. PICK it : IsMerge(it, all, a, op, kind, line, n) /\ Merged(all, a, op, kind) = it[1 .. n]
  BY MergedIsMerge
<1>2. n \in Nat
  BY LineType
<1> HIDE DEF line, n
<1> DEFINE Q == {k \in Nat : k <= n =>
                   /\ DOMAIN it[1 .. k] = Groups
                   /\ \A g \in Groups : SaidLast(it[1 .. k][g], all, a, op, kind, line, k, g)}
<1>3. 0 \in Q
  <2>1. 1 .. 0 = {} /\ {} \in SUBSET (1 .. n)
    BY <1>2
  <2>2. it[{}] = [g \in Groups |-> "none"]
    BY <1>1, <2>1 DEF IsMerge
  <2>3. \A g \in Groups : SaidLast(it[1 .. 0][g], all, a, op, kind, line, 0, g)
    BY <2>1, <2>2 DEF SaidLast
  <2>4. QED
    BY <2>1, <2>2, <2>3
<1>4. ASSUME NEW k \in Nat, k \in Q, k + 1 <= n
      PROVE  k + 1 \in Q
  <2>1. 1 .. k + 1 \in SUBSET (1 .. n) /\ 1 .. k + 1 # {}
    <3>1. 1 .. k + 1 \subseteq 1 .. n
      BY <1>2, <1>4
    <3>2. 1 \in 1 .. k + 1
      BY <1>4
    <3>3. QED
      BY <3>1, <3>2
  <2>2. Max(1 .. k + 1) = k + 1
    <3>1. Max(1 .. k + 1) \in 1 .. k + 1 /\ \A y \in 1 .. k + 1 : y <= Max(1 .. k + 1)
      BY <1>2, <2>1, Largest
    <3>2. QED
      BY <3>1
  <2>3. (1 .. k + 1) \ {k + 1} = 1 .. k
    BY <1>4
  <2>4. it[1 .. k + 1] = With(all, line[k + 1], a, op, kind, it[1 .. k])
    BY <1>1, <2>1, <2>2, <2>3 DEF IsMerge
  <2>5. DOMAIN it[1 .. k] = Groups
        /\ \A g \in Groups : SaidLast(it[1 .. k][g], all, a, op, kind, line, k, g)
    BY <1>2, <1>4
  <2>6. DOMAIN it[1 .. k + 1] = Groups
        /\ \A g \in Groups : it[1 .. k + 1][g] =
             IF Says(all, line[k + 1], a, op, kind, g) # "none"
             THEN Says(all, line[k + 1], a, op, kind, g) ELSE it[1 .. k][g]
    BY <2>4, <2>5, WithSays
  <2>7. ASSUME NEW g \in Groups
        PROVE  SaidLast(it[1 .. k + 1][g], all, a, op, kind, line, k + 1, g)
    <3>1. CASE Says(all, line[k + 1], a, op, kind, g) # "none"
      <4>1. it[1 .. k + 1][g] = Says(all, line[k + 1], a, op, kind, g)
        BY <2>6, <3>1
      <4>2. k + 1 \in 1 .. k + 1 /\ \A j \in (k + 1) + 1 .. k + 1 : FALSE
        OBVIOUS
      <4>3. QED
        BY <3>1, <4>1, <4>2 DEF SaidLast
    <3>2. CASE Says(all, line[k + 1], a, op, kind, g) = "none"
      <4>1. it[1 .. k + 1][g] = it[1 .. k][g]
        BY <2>6, <3>2
      <4>2. \A i \in 1 .. k + 1 : i \in 1 .. k \/ i = k + 1
        OBVIOUS
      <4>3. \A i \in 1 .. k : i \in 1 .. k + 1 /\ \A j \in i + 1 .. k + 1 : j \in i + 1 .. k \/ j = k + 1
        OBVIOUS
      <4>4. QED
        BY <2>5, <3>2, <4>1, <4>2, <4>3 DEF SaidLast
    <3>3. QED
      BY <3>1, <3>2
  <2>8. QED
    BY <2>6, <2>7
<1>5. \A k \in Nat : k \in Q => k + 1 \in Q
  <2> SUFFICES ASSUME NEW k \in Nat, k \in Q PROVE k + 1 \in Q
    OBVIOUS
  <2>1. CASE k + 1 <= n
    BY <1>4, <2>1
  <2>2. CASE ~(k + 1 <= n)
    BY <2>2
  <2>3. QED
    BY <2>1, <2>2
<1>6. Nat \subseteq Q
  <2> HIDE DEF Q
  <2>1. QED
    BY <1>3, <1>5, Counting
<1>7. n \in Q
  BY <1>2, <1>6
<1>8. QED
  BY <1>1, <1>2, <1>7 DEF line, n

(* The rule in force for a group is the nearest stated, however long the    *)
(* chain of artifacts whose rules are inherited                             *)
(* (refresh_permission_inheritance).                                        *)
THEOREM NearestCounts == Spec => []NearestRuleCounts
<1>1. ASSUME Typed, NEW a \in Artifacts, NEW kind \in Kinds, NEW g \in Groups,
             NEW op \in ToSet(Operations[a])
      PROVE  LET stating == {i \in DOMAIN Line(a) : Stated(Line(a)[i], a, op, kind, g) # "none"}
             IN  Merged(rules, a, op, kind)[g] =
                   IF stating = {} THEN "none" ELSE Stated(Line(a)[Max(stating)], a, op, kind, g)
  <2> DEFINE line == Line(a)
             n == Len(line)
             v == Merged(rules, a, op, kind)[g]
             stating == {i \in DOMAIN line : Stated(line[i], a, op, kind, g) # "none"}
  <2>1. n \in Nat /\ DOMAIN line = 1 .. n /\ \A i \in 1 .. n : line[i] \in Artifacts
    BY LineType
  <2>2. ASSUME NEW i \in 1 .. n
        PROVE  Stated(line[i], a, op, kind, g) = Says(rules, line[i], a, op, kind, g)
    <3>1. DOMAIN rules[line[i]] = ToSet(Operations[line[i]])
      BY <1>1, <2>1 DEF Typed, AllRules, OwnRules
    <3>2. QED
      BY <3>1 DEF Stated, Says
  <2>3. SaidLast(v, rules, a, op, kind, line, n, g)
    BY MergedSaysLast
  <2> HIDE DEF line, n, v
  <2>4. CASE v = "none" /\ \A i \in 1 .. n : Says(rules, line[i], a, op, kind, g) = "none"
    <3>1. stating = {}
      BY <2>1, <2>2, <2>4
    <3>2. QED
      BY <2>4, <3>1 DEF line, v
  <2>5. ASSUME NEW i \in 1 .. n, v = Says(rules, line[i], a, op, kind, g), v # "none",
               \A j \in i + 1 .. n : Says(rules, line[j], a, op, kind, g) = "none"
        PROVE  stating # {} /\ v = Stated(line[Max(stating)], a, op, kind, g)
    <3>1. i \in stating /\ stating \in SUBSET (1 .. n)
      BY <2>1, <2>2, <2>5
    <3>2. \A j \in stating : j <= i
      <4> SUFFICES ASSUME NEW j \in 1 .. n, Stated(line[j], a, op, kind, g) # "none" PROVE j <= i
        BY <2>1
      <4>1. j \notin i + 1 .. n
        BY <2>2, <2>5
      <4>2. QED
        BY <2>1, <4>1
    <3> HIDE DEF stating
    <3>3. Max(stating) \in stating /\ \A j \in stating : j <= Max(stating)
      BY <2>1, <3>1, Largest
    <3>4. Max(stating) = i
      <4>1. PICK m : m = Max(stating)
        OBVIOUS
      <4>2. m \in 1 .. n /\ i \in 1 .. n /\ m <= i /\ i <= m
        BY <3>1, <3>2, <3>3, <4>1
      <4>3. QED
        BY <2>1, <4>1, <4>2
    <3>5. QED
      BY <2>2, <2>5, <3>1, <3>4
  <2>6. QED
    BY <2>3, <2>4, <2>5 DEF SaidLast, line, v
<1>2. Typed => NearestRuleCounts
  BY <1>1 DEF NearestRuleCounts, Line
<1>3. QED
  BY <1>2, InitTyped, NextTyped, PTL DEF Spec

-----------------------------------------------------------------------------
(* Who is touched by a change. A merge goes group by group, so the rule of  *)
(* one group for one operation and kind moves only what the merge says of   *)
(* that group and kind.                                                     *)

(* The rule in force for a group is determined by what the line says of it. *)
LEMMA MergedByGroup ==
  ASSUME NEW all, NEW new, NEW a \in Artifacts, NEW op, NEW kind, NEW g \in Groups,
         \A i \in DOMAIN Line(a) :
           Says(new, Line(a)[i], a, op, kind, g) = Says(all, Line(a)[i], a, op, kind, g)
  PROVE  Merged(new, a, op, kind)[g] = Merged(all, a, op, kind)[g]
<1> DEFINE line == Line(a)
           n == Len(line)
           v == Merged(all, a, op, kind)[g]
           w == Merged(new, a, op, kind)[g]
<1>1. n \in Nat /\ DOMAIN line = 1 .. n
  BY LineType
<1>2. \A i \in 1 .. n : Says(new, line[i], a, op, kind, g) = Says(all, line[i], a, op, kind, g)
  BY <1>1
<1>3. SaidLast(v, all, a, op, kind, line, n, g) /\ SaidLast(w, new, a, op, kind, line, n, g)
  BY MergedSaysLast
<1> HIDE DEF line, n, v, w
<1>4. SaidLast(w, all, a, op, kind, line, n, g)
  <2>1. \A i \in 1 .. n : \A j \in i + 1 .. n : j \in 1 .. n
    BY <1>1
  <2>2. QED
    BY <1>2, <1>3, <2>1 DEF SaidLast
<1>5. ASSUME NEW i \in 1 .. n, NEW j \in 1 .. n,
             Says(all, line[i], a, op, kind, g) # "none", Says(all, line[j], a, op, kind, g) # "none",
             \A k \in i + 1 .. n : Says(all, line[k], a, op, kind, g) = "none",
             \A k \in j + 1 .. n : Says(all, line[k], a, op, kind, g) = "none"
      PROVE  i = j
  <2>1. j \notin i + 1 .. n /\ i \notin j + 1 .. n
    BY <1>5
  <2>2. QED
    BY <1>1, <2>1
<1>6. v = w
  <2>1. CASE v = "none" /\ \A i \in 1 .. n : Says(all, line[i], a, op, kind, g) = "none"
    BY <1>4, <2>1 DEF SaidLast
  <2>2. CASE w = "none" /\ \A i \in 1 .. n : Says(all, line[i], a, op, kind, g) = "none"
    BY <1>3, <2>2 DEF SaidLast
  <2>3. ASSUME NEW i \in 1 .. n, v = Says(all, line[i], a, op, kind, g), v # "none",
               \A k \in i + 1 .. n : Says(all, line[k], a, op, kind, g) = "none",
               NEW j \in 1 .. n, w = Says(all, line[j], a, op, kind, g), w # "none",
               \A k \in j + 1 .. n : Says(all, line[k], a, op, kind, g) = "none"
        PROVE  v = w
    BY <1>5, <2>3
  <2>4. QED
    BY <1>3, <1>4, <2>1, <2>2, <2>3 DEF SaidLast
<1>7. QED
  BY <1>6 DEF v, w

\* The rules after an edit of those of x.
EditGives(x, e, g, new) == new = [rules EXCEPT ![x] = Applied(e, g, rules[x])]

(* What an edit of x's rules changes of what any artifact of a line says.   *)
LEMMA EditSays ==
  ASSUME Typed, NEW new, NEW x \in Artifacts, NEW e \in EditsOf(x), NEW g \in Groups,
         EditGives(x, e, g, new),
         NEW b \in Artifacts, NEW op \in ToSet(Operations[b]), NEW kind \in Kinds, NEW h \in Groups,
         NEW i \in DOMAIN Line(b),
         ~(e.what # "list" /\ kind = e.kind /\ h = g /\ Line(b)[i] = x)
  PROVE  Says(new, Line(b)[i], b, op, kind, h) = Says(rules, Line(b)[i], b, op, kind, h)
<1>1. PICK y \in Artifacts : y = Line(b)[i]
  BY LineType
<1>2. y = b \/ y \in ToSet(Chain[b])
  <2>1. Chain[b] \in Seq(Artifacts \ {b})
    BY PermissionsAssumption
  <2>2. y = b \/ Contains(Chain[b], y)
    BY <1>1, LineType
  <2>3. QED
    BY <2>1, <2>2 DEF Contains, ToSet
<1>3. rules[y] \in OwnRules(y) /\ rules[x] \in OwnRules(x)
  BY DEF Typed, AllRules
<1>4. new[y] = IF y = x THEN Applied(e, g, rules[x]) ELSE rules[y]
  BY DEF Typed, AllRules, EditGives
<1>5. CASE y # x
  BY <1>1, <1>4, <1>5 DEF Says
<1>6. CASE y = x
  <2>1. /\ new[y] \in OwnRules(y)
        /\ \A o \in ToSet(Operations[y]) :
             new[y][o][kind][h] = RuleAfter(e, g, rules[y], o, kind, h)
    BY <1>3, <1>4, <1>6, AppliedFacts
  <2>2. \A o \in ToSet(Operations[y]) : new[y][o][kind][h] = rules[y][o][kind][h]
    BY <1>1, <1>6, <2>1 DEF RuleAfter
  <2>3. DOMAIN new[y] = ToSet(Operations[y]) /\ DOMAIN rules[y] = ToSet(Operations[y])
    BY <1>3, <2>1 DEF OwnRules
  <2>4. op \notin ToSet(Operations[y]) => Alternative[b][op] \in ToSet(Operations[y]) \cup {None}
    BY <1>2, PermissionsAssumption
  <2>5. QED
    BY <1>1, <2>2, <2>3, <2>4 DEF Says
<1>7. QED
  BY <1>5, <1>6

LEMMA TouchesOne ==
  ASSUME Typed, NEW new, NEW x \in Artifacts, NEW e \in EditsOf(x), NEW g \in Groups,
         EditGives(x, e, g, new),
         NEW b \in Artifacts, NEW op \in ToSet(Operations[b]), NEW u \in Users,
         HasPermission(rules, u, b, op) # HasPermission(new, u, b, op)
  PROVE  /\ e.what # "list" /\ (g \in u) = (e.kind = "shared")
         /\ b = x \/ Contains(Chain[b], x)
<1> DEFINE was(kind) == Merged(rules, b, op, kind)
           is(kind) == Merged(new, b, op, kind)
           Touched(kind, h) == /\ e.what # "list" /\ kind = e.kind /\ h = g
                               /\ b = x \/ Contains(Chain[b], x)
<1>1. \A kind \in Kinds : DOMAIN was(kind) = Groups /\ DOMAIN is(kind) = Groups
  BY MergedSaysLast
<1>2. ASSUME NEW kind \in Kinds, NEW h \in Groups, ~Touched(kind, h)
      PROVE  is(kind)[h] = was(kind)[h]
  <2>1. \A i \in DOMAIN Line(b) : Line(b)[i] = b \/ Contains(Chain[b], Line(b)[i])
    BY LineType
  <2>2. \A i \in DOMAIN Line(b) : ~(e.what # "list" /\ kind = e.kind /\ h = g /\ Line(b)[i] = x)
    BY <1>2, <2>1
  <2>3. \A i \in DOMAIN Line(b) :
          Says(new, Line(b)[i], b, op, kind, h) = Says(rules, Line(b)[i], b, op, kind, h)
    BY <2>2, EditSays
  <2>4. Merged(new, b, op, kind)[h] = Merged(rules, b, op, kind)[h]
    BY <2>3, MergedByGroup
  <2>5. QED
    BY <2>4
<1>3. "shared" \in Kinds /\ "required" \in Kinds /\ u \subseteq Groups
  BY DEF Kinds, Users
<1> HIDE DEF was, is
<1>4. CASE \E h \in Groups : Touched("shared", h)
  <2>1. e.what # "list" /\ e.kind = "shared" /\ (b = x \/ Contains(Chain[b], x))
    BY <1>4
  <2>2. Holds(is("required")) = Holds(was("required"))
    BY <1>1, <1>2, <1>3, <2>1 DEF Holds
  <2>3. ASSUME g \notin u
        PROVE  \A h \in u : is("shared")[h] = was("shared")[h]
    BY <1>2, <1>3, <2>1, <2>3
  <2>4. g \notin u => u \cap Holds(is("shared")) = u \cap Holds(was("shared"))
    BY <1>1, <1>3, <2>3 DEF Holds
  <2>5. g \in u
    BY <2>2, <2>3, <2>4 DEF HasPermission, was, is
  <2>6. QED
    BY <2>1, <2>5
<1>5. CASE \E h \in Groups : Touched("required", h)
  <2>1. e.what # "list" /\ e.kind = "required" /\ (b = x \/ Contains(Chain[b], x))
    BY <1>5
  <2>2. \A h \in Groups : is("shared")[h] = was("shared")[h]
    BY <1>2, <1>3, <2>1
  <2>3. Holds(is("shared")) = Holds(was("shared"))
    BY <1>1, <1>3, <2>2 DEF Holds
  <2>4. \A h \in Groups : h # g => is("required")[h] = was("required")[h]
    BY <1>2, <1>3
  <2>5. g \in u => (Holds(is("required")) \subseteq u <=> Holds(was("required")) \subseteq u)
    BY <1>1, <1>3, <2>4 DEF Holds
  <2>6. g \notin u
    BY <1>3, <2>2, <2>3, <2>5 DEF HasPermission, was, is
  <2>7. QED
    BY <2>1, <2>6
<1>6. CASE \A h \in Groups : ~Touched("shared", h) /\ ~Touched("required", h)
  <2>1. \A h \in Groups : is("shared")[h] = was("shared")[h] /\ is("required")[h] = was("required")[h]
    BY <1>2, <1>3, <1>6
  <2>2. Holds(is("shared")) = Holds(was("shared")) /\ Holds(is("required")) = Holds(was("required"))
    BY <1>1, <1>3, <2>1 DEF Holds
  <2>3. FALSE
    BY <1>3, <2>1, <2>2 DEF HasPermission, was, is
  <2>4. QED
    BY <2>3
<1>7. QED
  BY <1>4, <1>5, <1>6

(* As long as requests never overlapped: what is changed for a group as     *)
(* shared changes rights of its members only, as required of the others     *)
(* only, and nowhere but where the changed rules are inherited              *)
(* (add_group_perm, remove_group_perm, has_permission).                     *)
THEOREM OnlyItsGroup == Spec => ChangeTouchesItsGroup
<1> DEFINE Touches == \A s \in Slots : PutPermission(s) /\ ~overlapped =>
       LET r == request[s]
           e == Head(r.todo)
       IN  \A u \in Users, b \in Artifacts : \A op \in ToSet(Operations[b]) :
             Can(u, b, op) # HasPermission(rules', u, b, op) =>
               /\ e.what # "list" /\ (r.group \in u) = (e.kind = "shared")
               /\ b = r.artifact \/ Contains(Chain[b], r.artifact)
<1>1. Typed /\ CopiesCurrent => Touches
  <2> SUFFICES ASSUME Typed, CopiesCurrent, NEW s \in Slots, PutPermission(s), ~overlapped,
                      NEW u \in Users, NEW b \in Artifacts, NEW op \in ToSet(Operations[b]),
                      Can(u, b, op) # HasPermission(rules', u, b, op)
               PROVE  /\ Head(request[s].todo).what # "list"
                      /\ (request[s].group \in u) = (Head(request[s].todo).kind = "shared")
                      /\ b = request[s].artifact \/ Contains(Chain[b], request[s].artifact)
    OBVIOUS
  <2>1. /\ s \in Busy /\ request[s].step = "put" /\ IsRequest(request[s])
        /\ Head(request[s].todo) \in EditsOf(request[s].artifact)
        /\ rules' = [rules EXCEPT ![request[s].artifact] = request[s].rules]
    BY PutFacts
  <2>2. PICK x, g, e :
          /\ x \in Artifacts /\ g \in Groups
          /\ x = request[s].artifact /\ g = request[s].group /\ e = Head(request[s].todo)
          /\ e \in EditsOf(x)
    BY <2>1 DEF IsRequest, RequestsOn
  <2>3. rules' = [rules EXCEPT ![x] = Applied(e, g, rules[x])]
    BY <2>1, <2>2 DEF CopiesCurrent, Current
  <2>4. PICK new : new = rules'
    OBVIOUS
  <2>5. HasPermission(rules, u, b, op) # HasPermission(new, u, b, op)
    BY <2>4 DEF Can
  <2>6. EditGives(x, e, g, new)
    BY <2>3, <2>4 DEF EditGives
  <2>7. /\ e.what # "list" /\ (g \in u) = (e.kind = "shared")
        /\ b = x \/ Contains(Chain[b], x)
    BY <2>2, <2>5, <2>6, TouchesOne
  <2>8. QED
    BY <2>2, <2>7
<1> HIDE DEF Touches
<1>2. Spec => [][Touches]_permVars
  BY CurrentAlways, <1>1, PTL
<1>3. QED
  BY <1>2 DEF ChangeTouchesItsGroup, Touches
=============================================================================
