----------------------------- MODULE VotesProofs -----------------------------
(***************************************************************************)
(* For every set of users, concepts and slots, every cost and every gift:  *)
(* the types of Votes; that nobody's points fall below zero however votes  *)
(* and daily distributions overlap; that a user has one vote, which the    *)
(* entity tells (VotesInStep); and, by induction over the set of users,    *)
(* that scores and points add up while nothing overlaps (Books).           *)
(***************************************************************************)
EXTENDS Votes, TLAPS, FiniteSetTheorems, WellFoundedInduction

-----------------------------------------------------------------------------
(* Types.                                                                  *)

(* What is at work in a slot is a request.                                 *)
LEMMA BusyIsRequest ==
  ASSUME TypeOK, NEW s \in Slots, NEW step, At(s, step)
  PROVE  request[s] \in Requests
  BY DEF At, Busy, TypeOK

LEMMA InitType == Init => TypeOK
<1> SUFFICES ASSUME Init PROVE TypeOK
  OBVIOUS
<1>1. overlapped \in BOOLEAN
  BY DEF Init
<1>2. QED
  BY <1>1, VotesAssumption DEF Init, TypeOK, Artifacts

(* A request that is charged stays a request, one that is refused ends.    *)
LEMMA ChargeType ==
  ASSUME TypeOK, NEW s \in Slots, request[s] \in Requests, Charge(s)
  PROVE  request' \in [Slots -> Requests \cup {Idle}] /\ uncounted' \in SUBSET Users
<1> DEFINE r == request[s]
           charged == [r EXCEPT !.step = "voted", !.changed = TRUE, !.points = @ - Cost,
                                !.scores[r.artifact] = @ + Sign(r.direction)]
<1>1. Sign(r.direction) \in Int
  BY DEF Sign
<1>2. r.points - Cost \in Int
  BY VotesAssumption DEF Requests
<1>3. [r.scores EXCEPT ![r.artifact] = @ + Sign(r.direction)] \in [Artifacts -> Int]
  BY <1>1 DEF Requests
<1>4. charged \in Requests
  BY <1>2, <1>3 DEF Requests
<1>5. uncounted' \in SUBSET Users
  BY DEF Charge, TypeOK, Requests
<1>6. QED
  BY <1>4, <1>5 DEF Charge, TypeOK

LEMMA NextType == TypeOK /\ [Next]_votesVars => TypeOK'
<1> SUFFICES ASSUME TypeOK, [Next]_votesVars PROVE TypeOK'
  OBVIOUS
<1>1. ASSUME NEW s \in Slots, NEW u \in Users, NEW x \in Artifacts,
             NEW d \in Directions, Load(s, u, x, d)
      PROVE  TypeOK'
  <2>1. Copied(x) \in [Artifacts -> Int]
    BY DEF Copied, TypeOK
  <2>2. [step |-> "loaded", id |-> asked, user |-> u, artifact |-> x, direction |-> d,
         points |-> spectra[u], scores |-> Copied(x), vote |-> None, changed |-> FALSE]
        \in Requests
    BY <2>1 DEF Requests, TypeOK
  <2>3. QED
    BY <1>1, <2>2 DEF Load, TypeOK
<1>2. ASSUME NEW s \in Slots, Find(s)
      PROVE  TypeOK'
  <2>1. request[s] \in Requests
    BY <1>2, BusyIsRequest DEF Find
  <2>2. PICK w \in VoteEntities \cup {None} :
           request' = [request EXCEPT ![s].vote = w, ![s].step = "found"]
    BY <1>2 DEF Find, VotesOf, TypeOK
  <2>3. [request[s] EXCEPT !.vote = w, !.step = "found"] \in Requests
    BY <2>1 DEF Requests
  <2>4. QED
    BY <1>2, <2>2, <2>3 DEF Find, TypeOK
<1>3. ASSUME NEW s \in Slots, NewVote(s)
      PROVE  TypeOK'
  <2>1. request[s] \in Requests
    BY <1>3, BusyIsRequest DEF NewVote
  <2>2. votes' \subseteq VoteEntities
    BY <1>3, <2>1 DEF NewVote, TypeOK, VoteEntities, Requests
  <2>3. QED
    BY <1>3, <2>1, <2>2, ChargeType DEF NewVote, TypeOK
<1>4. ASSUME NEW s \in Slots, TakeBack(s)
      PROVE  TypeOK'
  <2>1. request[s] \in Requests
    BY <1>4, BusyIsRequest DEF TakeBack
  <2>2. QED
    BY <1>4, <2>1, ChargeType DEF TakeBack, TypeOK
<1>5. ASSUME NEW s \in Slots, Repeat(s)
      PROVE  TypeOK'
  <2>1. request[s] \in Requests
    BY <1>5, BusyIsRequest DEF Repeat
  <2>2. [request[s] EXCEPT !.step = "voted"] \in Requests
    BY <2>1 DEF Requests
  <2>3. QED
    BY <1>5, <2>2 DEF Repeat, TypeOK
<1>6. ASSUME NEW s \in Slots, request[s] \in Requests
      PROVE  Counted(s) \in [Users \X Artifacts -> Int]
  BY <1>6 DEF Counted, Sign, TypeOK, Requests
<1>7. ASSUME NEW s \in Slots, SaveProject(s)
      PROVE  TypeOK'
  <2>1. request[s] \in Requests
    BY <1>7, BusyIsRequest DEF SaveProject
  <2>2. [request[s] EXCEPT !.step = "projectSaved"] \in Requests
    BY <2>1 DEF Requests
  <2>3. score' \in [Artifacts -> Int]
    BY <1>7, <2>1 DEF SaveProject, TypeOK, Requests, Artifacts
  <2>4. tally' \in [Users \X Artifacts -> Int]
    BY <1>6, <1>7, <2>1 DEF SaveProject, TypeOK
  <2>5. QED
    BY <1>7, <2>2, <2>3, <2>4 DEF SaveProject, TypeOK
<1>8. ASSUME NEW s \in Slots, SaveConcept(s)
      PROVE  TypeOK'
  <2>1. request[s] \in Requests
    BY <1>8, BusyIsRequest DEF SaveConcept
  <2>2. score' \in [Artifacts -> Int]
    BY <1>8, <2>1 DEF SaveConcept, TypeOK, Requests
  <2>3. tally' \in [Users \X Artifacts -> Int]
    BY <1>6, <1>8, <2>1 DEF SaveConcept
  <2>4. QED
    BY <1>8, <2>2, <2>3 DEF SaveConcept, TypeOK
<1>9. ASSUME NEW s \in Slots, SaveUser(s)
      PROVE  TypeOK'
  <2>1. request[s] \in Requests
    BY <1>9, BusyIsRequest DEF SaveUser
  <2>2. spectra' \in [Users -> Int] /\ paid' \in [Users -> Nat]
    BY <1>9, <2>1 DEF SaveUser, TypeOK, Requests
  <2>3. QED
    BY <1>9, <2>2 DEF SaveUser, TypeOK
<1>10. ASSUME NEW u \in Users, GiftRead(u)
       PROVE  TypeOK'
  BY <1>10 DEF GiftRead, TypeOK
<1>11. ASSUME NEW u \in Users, GiftWrite(u)
       PROVE  TypeOK'
  <2>1. giving[u] + Gift \in Int
    BY <1>11, VotesAssumption DEF GiftWrite, TypeOK
  <2>2. QED
    BY <1>11, <2>1 DEF GiftWrite, TypeOK
<1>12. ASSUME NEW s \in Slots, Fail(s)
       PROVE  TypeOK'
  <2>1. request[s].changed => request[s] \in Requests
    BY <1>12 DEF Fail, Busy, TypeOK
  <2>2. uncounted' \in SUBSET Users
    BY <1>12, <2>1 DEF Fail, TypeOK, Requests
  <2>3. QED
    BY <1>12, <2>2 DEF Fail, TypeOK
<1>13. ASSUME NEW u \in Users, GiftFails(u)
       PROVE  TypeOK'
  BY <1>13 DEF GiftFails, TypeOK
<1>14. CASE UNCHANGED votesVars
  BY <1>14 DEF votesVars, TypeOK
<1>15. QED
  BY <1>1, <1>2, <1>3, <1>4, <1>5, <1>7, <1>8, <1>9, <1>10, <1>11, <1>12, <1>13, <1>14
  DEF Next

(* Every variable of Votes keeps its type, for every value of the constants.*)
THEOREM TypeCorrect == Spec => []TypeOK
<1>1. QED
  BY InitType, NextType, PTL DEF Spec

-----------------------------------------------------------------------------
(* Points.                                                                 *)

(* NeverOverdrawn alone is not inductive: what is written is a copy, so the *)
(* copies that requests and distributions hold must be covered too.         *)
CopiesCovered ==
  /\ NeverOverdrawn
  /\ \A s \in Busy : request[s].points >= 0
  /\ \A u \in Users : giving[u] # None => giving[u] >= 0

LEMMA InitCovered == Init => CopiesCovered
  BY VotesAssumption DEF Init, CopiesCovered, NeverOverdrawn, Busy

(* A step that changes one slot keeps the copies covered if that slot's     *)
(* copy is.                                                                 *)
LEMMA OneSlot ==
  ASSUME TypeOK, CopiesCovered, NEW s \in Slots, NEW new,
         request' = [request EXCEPT ![s] = new],
         new # Idle => new.points >= 0
  PROVE  \A t \in Busy' : request'[t].points >= 0
<1> SUFFICES ASSUME NEW t \in Busy' PROVE request'[t].points >= 0
  OBVIOUS
<1>1. t \in Slots /\ request'[t] # Idle
  BY DEF Busy
<1>2. CASE t = s
  BY <1>1, <1>2 DEF TypeOK
<1>3. CASE t # s
  <2>1. request'[t] = request[t]
    BY <1>1, <1>3 DEF TypeOK
  <2>2. t \in Busy
    BY <1>1, <2>1 DEF Busy
  <2>3. QED
    BY <2>1, <2>2 DEF CopiesCovered
<1>4. QED
  BY <1>2, <1>3

(* Only a copy that covers the cost is charged.                             *)
LEMMA ChargeCovered ==
  ASSUME TypeOK, CopiesCovered, NEW s \in Slots, request[s] \in Requests, Charge(s)
  PROVE  \A t \in Busy' : request'[t].points >= 0
<1> DEFINE r == request[s]
           charged == [r EXCEPT !.step = "voted", !.changed = TRUE, !.points = @ - Cost,
                                !.scores[r.artifact] = @ + Sign(r.direction)]
<1>1. charged.points = r.points - Cost
  BY DEF Requests
<1>2. CASE Sufficient(r)
  <2>1. charged.points >= 0
    BY <1>1, <1>2 DEF Sufficient
  <2>2. request' = [request EXCEPT ![s] = charged]
    BY <1>2 DEF Charge
  <2> HIDE DEF charged
  <2>3. QED
    BY <2>1, <2>2, OneSlot
<1>3. CASE ~Sufficient(r)
  <2>1. request' = [request EXCEPT ![s] = Idle]
    BY <1>3 DEF Charge
  <2>2. QED
    BY <2>1, OneSlot
<1>4. QED
  BY <1>2, <1>3

LEMMA NextCovered == TypeOK /\ CopiesCovered /\ [Next]_votesVars => CopiesCovered'
<1> SUFFICES ASSUME TypeOK, CopiesCovered, [Next]_votesVars PROVE CopiesCovered'
  OBVIOUS
<1>a. ASSUME NEW s \in Slots, NEW step, At(s, step)
      PROVE  request[s] \in Requests /\ request[s].points >= 0
  BY <1>a, BusyIsRequest DEF At, CopiesCovered
<1>1. ASSUME NEW s \in Slots, NEW u \in Users, NEW x \in Artifacts,
             NEW d \in Directions, Load(s, u, x, d)
      PROVE  CopiesCovered'
  <2> DEFINE new == [step |-> "loaded", id |-> asked, user |-> u, artifact |-> x,
                     direction |-> d, points |-> spectra[u], scores |-> Copied(x),
                     vote |-> None, changed |-> FALSE]
  <2>1. new.points >= 0
    BY DEF CopiesCovered, NeverOverdrawn
  <2>2. request' = [request EXCEPT ![s] = new]
    BY <1>1 DEF Load
  <2> HIDE DEF new
  <2>3. \A t \in Busy' : request'[t].points >= 0
    BY <2>1, <2>2, OneSlot
  <2>4. QED
    BY <1>1, <2>3 DEF Load, CopiesCovered, NeverOverdrawn
<1>2. ASSUME NEW s \in Slots, Find(s)
      PROVE  CopiesCovered'
  <2>1. PICK w : request' = [request EXCEPT ![s].vote = w, ![s].step = "found"]
    BY <1>2 DEF Find
  <2> DEFINE new == [request[s] EXCEPT !.vote = w, !.step = "found"]
  <2>2. new.points >= 0
    BY <1>2, <1>a DEF Find, Requests
  <2>3. request' = [request EXCEPT ![s] = new]
    BY <2>1 DEF TypeOK
  <2> HIDE DEF new
  <2>4. \A t \in Busy' : request'[t].points >= 0
    BY <2>2, <2>3, OneSlot
  <2>5. QED
    BY <1>2, <2>4 DEF Find, CopiesCovered, NeverOverdrawn
<1>3. ASSUME NEW s \in Slots, NewVote(s) \/ TakeBack(s)
      PROVE  CopiesCovered'
  <2>1. \A t \in Busy' : request'[t].points >= 0
    BY <1>3, <1>a, ChargeCovered DEF NewVote, TakeBack
  <2>2. QED
    BY <1>3, <2>1 DEF NewVote, TakeBack, CopiesCovered, NeverOverdrawn
<1>4. ASSUME NEW s \in Slots, NEW step, request' = [request EXCEPT ![s].step = step],
             request[s] \in Requests, request[s].points >= 0
      PROVE  \A t \in Busy' : request'[t].points >= 0
  <2> DEFINE new == [request[s] EXCEPT !.step = step]
  <2>1. new.points >= 0
    BY <1>4 DEF Requests
  <2>2. request' = [request EXCEPT ![s] = new]
    BY <1>4
  <2> HIDE DEF new
  <2>3. QED
    BY <2>1, <2>2, OneSlot
<1>5. ASSUME NEW s \in Slots, Repeat(s)
      PROVE  CopiesCovered'
  BY <1>4, <1>5, <1>a DEF Repeat, CopiesCovered, NeverOverdrawn
<1>6. ASSUME NEW s \in Slots, SaveProject(s)
      PROVE  CopiesCovered'
  BY <1>4, <1>6, <1>a DEF SaveProject, CopiesCovered, NeverOverdrawn
<1>7. ASSUME NEW s \in Slots, SaveConcept(s)
      PROVE  CopiesCovered'
  <2>1. \A t \in Busy' : request'[t].points >= 0
    BY <1>7, OneSlot DEF SaveConcept
  <2>2. QED
    BY <1>7, <2>1 DEF SaveConcept, CopiesCovered, NeverOverdrawn
<1>8. ASSUME NEW s \in Slots, SaveUser(s)
      PROVE  CopiesCovered'
  <2>1. \A t \in Busy' : request'[t].points >= 0
    BY <1>8, OneSlot DEF SaveUser
  <2>2. NeverOverdrawn'
    BY <1>8, <1>a DEF SaveUser, CopiesCovered, NeverOverdrawn, TypeOK
  <2>3. QED
    BY <1>8, <2>1, <2>2 DEF SaveUser, CopiesCovered
<1>9. ASSUME NEW u \in Users, GiftRead(u)
      PROVE  CopiesCovered'
  BY <1>9 DEF GiftRead, CopiesCovered, NeverOverdrawn, Busy, TypeOK
<1>10. ASSUME NEW u \in Users, GiftWrite(u)
       PROVE  CopiesCovered'
  <2>1. giving[u] \in Int /\ giving[u] >= 0
    BY <1>10 DEF GiftWrite, CopiesCovered, TypeOK
  <2>2. giving[u] + Gift >= 0
    BY <2>1, VotesAssumption
  <2>3. QED
    BY <1>10, <2>2 DEF GiftWrite, CopiesCovered, NeverOverdrawn, Busy, TypeOK
<1>11. ASSUME NEW s \in Slots, Fail(s)
       PROVE  CopiesCovered'
  <2>1. \A t \in Busy' : request'[t].points >= 0
    BY <1>11, OneSlot DEF Fail
  <2>2. QED
    BY <1>11, <2>1 DEF Fail, CopiesCovered, NeverOverdrawn
<1>12. ASSUME NEW u \in Users, GiftFails(u)
       PROVE  CopiesCovered'
  BY <1>12 DEF GiftFails, CopiesCovered, NeverOverdrawn, Busy, TypeOK
<1>13. CASE UNCHANGED votesVars
  BY <1>13 DEF votesVars, CopiesCovered, NeverOverdrawn, Busy
<1>14. QED
  BY <1>1, <1>2, <1>3, <1>5, <1>6, <1>7, <1>8, <1>9, <1>10, <1>11, <1>12, <1>13 DEF Next

(* No order of overlapping votes, impatient users, late indexes and daily   *)
(* distributions leaves a user with negative points.                        *)
THEOREM PointsNeverNegative == Spec => []NeverOverdrawn
<1>1. TypeOK /\ CopiesCovered /\ [Next]_votesVars => (TypeOK /\ CopiesCovered)'
  BY NextType, NextCovered
<1>2. CopiesCovered => NeverOverdrawn
  BY DEF CopiesCovered
<1>3. QED
  BY InitType, InitCovered, <1>1, <1>2, PTL DEF Spec

-----------------------------------------------------------------------------
(* One vote each.                                                          *)

(* The entity of u on x is the one vote that shows n, or there is none.    *)
Shows(u, x, n) ==
  IF n = 0 THEN VotesOf(u, x) = {}
  ELSE \E w \in votes : VotesOf(u, x) = {w} /\ Sign(w.direction) = n

(* The request in s has changed the entity of u on x, but not yet saved the *)
(* score it is counted in.                                                  *)
Owes(s, u, x) ==
  /\ s \in Busy /\ request[s].user = u /\ request[s].artifact = x /\ request[s].changed
  /\ \/ request[s].step = "voted"
     \/ request[s].step = "projectSaved" /\ x # Project

PairInStep(u, x) ==
  /\ \A s \in Slots : Owes(s, u, x) =>
       Shows(u, x, tally[<<u, x>>] + Sign(request[s].direction))
  /\ (\A s \in Slots : ~Owes(s, u, x)) => Shows(u, x, tally[<<u, x>>])

OneRequestEach ==
  \A s, t \in Busy :
    request[s].user = request[t].user /\ request[s].user \notin Hasty => s = t

(* A request has changed nothing before it looked, and what it found is a   *)
(* vote of its user on its artifact.                                        *)
Coherent(r) ==
  /\ r.step \in {"loaded", "found"} => ~r.changed
  /\ r.vote # None => r.vote.user = r.user /\ r.vote.artifact = r.artifact

FoundIsStored ==
  \A s \in Busy : request[s].step = "found" /\ request[s].user \in Orderly =>
    VotesOf(request[s].user, request[s].artifact) =
      IF request[s].vote = None THEN {} ELSE {request[s].vote}

(* OneVoteEach and VoteShowsTally speak of the saved scores only: between   *)
(* the change of an entity and the save of its score the two differ by the  *)
(* vote of the one request that is under way, and a request acts on what it *)
(* found.                                                                   *)
VotesInStep ==
  /\ OneRequestEach
  /\ \A s \in Busy : Coherent(request[s])
  /\ FoundIsStored
  /\ OneVoteEach
  /\ \A u \in Orderly, x \in Artifacts : PairInStep(u, x)

LEMMA InitInStep == Init => VotesInStep
<1> SUFFICES ASSUME Init PROVE VotesInStep
  OBVIOUS
<1>1. Busy = {}
  BY DEF Init, Busy
<1>2. ASSUME NEW u \in Users, NEW x \in Artifacts
      PROVE  tally[<<u, x>>] = 0 /\ VotesOf(u, x) = {}
  BY DEF Init, VotesOf
<1>3. ASSUME NEW u \in Users, NEW x \in Artifacts
      PROVE  PairInStep(u, x)
  BY <1>1, <1>2 DEF PairInStep, Owes, Shows
<1>4. QED
  BY <1>1, <1>2, <1>3 DEF VotesInStep, OneRequestEach, FoundIsStored, OneVoteEach, Orderly

(* A step that writes one slot leaves the others alone.                     *)
LEMMA OtherSlots ==
  ASSUME TypeOK, NEW s \in Slots, NEW new, request' = [request EXCEPT ![s] = new]
  PROVE  /\ request'[s] = new
         /\ \A t \in Slots \ {s} : request'[t] = request[t] /\ (t \in Busy' <=> t \in Busy)
  BY DEF TypeOK, Busy

(* ... and if the slot keeps its user, nobody gets a second request.        *)
LEMMA OneRequestKept ==
  ASSUME TypeOK, VotesInStep, NEW s \in Busy, NEW new,
         request' = [request EXCEPT ![s] = new],
         new # Idle => new.user = request[s].user /\ Coherent(new)
  PROVE  OneRequestEach' /\ \A t \in Busy' : Coherent(request'[t])
<1>1. s \in Slots
  BY DEF Busy
<1>2. ASSUME NEW t \in Busy'
      PROVE  t \in Busy /\ request'[t].user = request[t].user /\ Coherent(request'[t])
  <2>1. t \in Slots /\ request'[t] # Idle
    BY DEF Busy
  <2>2. CASE t = s
    BY <1>1, <2>1, <2>2, OtherSlots
  <2>3. CASE t # s
    BY <1>1, <2>1, <2>3, OtherSlots DEF VotesInStep
  <2>4. QED
    BY <2>2, <2>3
<1>3. QED
  BY <1>2 DEF OneRequestEach, VotesInStep

(* What matters of a pair: its entities, its tally and who owes it.         *)
LEMMA PairKept ==
  ASSUME NEW u, NEW x, PairInStep(u, x), VotesOf(u, x)' = VotesOf(u, x),
         tally'[<<u, x>>] = tally[<<u, x>>],
         \A s \in Slots : Owes(s, u, x)' <=> Owes(s, u, x),
         \A s \in Slots : Owes(s, u, x) => request'[s].direction = request[s].direction
  PROVE  PairInStep(u, x)'
<1>1. ASSUME NEW n, Shows(u, x, n)
      PROVE  \A m : m = n => Shows(u, x, m)'
  BY <1>1 DEF Shows, VotesOf
<1>2. ASSUME NEW s \in Slots, Owes(s, u, x)'
      PROVE  Shows(u, x, tally[<<u, x>>] + Sign(request[s].direction))'
  BY <1>1, <1>2 DEF PairInStep
<1>3. ASSUME \A s \in Slots : ~Owes(s, u, x)'
      PROVE  Shows(u, x, tally[<<u, x>>])'
  BY <1>1, <1>3 DEF PairInStep
<1>4. QED
  BY <1>2, <1>3 DEF PairInStep

(* A pair that the written slot neither owed before nor owes afterwards.    *)
LEMMA PairUntouched ==
  ASSUME TypeOK, NEW u, NEW x, PairInStep(u, x), NEW s \in Slots, NEW new,
         request' = [request EXCEPT ![s] = new],
         VotesOf(u, x)' = VotesOf(u, x), tally'[<<u, x>>] = tally[<<u, x>>],
         ~Owes(s, u, x), ~Owes(s, u, x)'
  PROVE  PairInStep(u, x)'
<1>1. ASSUME NEW t \in Slots \ {s}
      PROVE  request'[t] = request[t] /\ (Owes(t, u, x)' <=> Owes(t, u, x))
  BY <1>1, OtherSlots DEF Owes
<1>2. QED
  BY <1>1, PairKept

(* A pair of an orderly user that ends with no request owing it.            *)
LEMMA PairSettled ==
  ASSUME TypeOK, NEW u, NEW x, NEW n, Shows(u, x, n), VotesOf(u, x)' = VotesOf(u, x),
         tally'[<<u, x>>] = n, \A t \in Slots : ~Owes(t, u, x)'
  PROVE  PairInStep(u, x)'
  BY DEF PairInStep, Shows, VotesOf

(* An orderly user's request is the only one that can owe to the user's     *)
(* votes.                                                                   *)
LEMMA OnlyOneOwes ==
  ASSUME VotesInStep, NEW s \in Busy, request[s].user \in Orderly, NEW x,
         NEW t \in Slots \ {s}
  PROVE  ~Owes(t, request[s].user, x)
  BY DEF VotesInStep, OneRequestEach, Owes, Orderly

(* What was found stays stored while only the entities of the slot that     *)
(* acts change.                                                             *)
LEMMA FoundKept ==
  ASSUME TypeOK, VotesInStep, NEW s \in Busy, NEW new,
         request' = [request EXCEPT ![s] = new], Orderly' \subseteq Orderly,
         \A u \in Orderly, x \in Artifacts :
           u # request[s].user => VotesOf(u, x)' = VotesOf(u, x),
         new = Idle \/ new.step # "found"
  PROVE  FoundIsStored'
<1> SUFFICES ASSUME NEW t \in Busy', request'[t].step = "found", request'[t].user \in Orderly'
             PROVE  VotesOf(request[t].user, request[t].artifact)' =
                      IF request'[t].vote = None THEN {} ELSE {request'[t].vote}
  BY DEF FoundIsStored
<1>1. t \in Slots /\ s \in Slots /\ request'[t] # Idle
  BY DEF Busy
<1>2. t # s
  BY <1>1, OtherSlots
<1>3. t \in Busy /\ request'[t] = request[t]
  BY <1>1, <1>2, OtherSlots
<1>4. request[t].user \in Orderly /\ request[t].user # request[s].user
  BY <1>2, <1>3 DEF VotesInStep, OneRequestEach, Orderly
<1>5. request[t].artifact \in Artifacts
  BY <1>1, <1>3 DEF TypeOK, Requests, Busy
<1>6. QED
  BY <1>3, <1>4, <1>5 DEF VotesInStep, FoundIsStored

(* An entity of one user and artifact is none of another pair.              *)
LEMMA OtherEntities ==
  ASSUME NEW w, NEW u, NEW x, w.user # u \/ w.artifact # x,
         votes' = votes \cup {w} \/ votes' = votes \ {w}
  PROVE  VotesOf(u, x)' = VotesOf(u, x)
  BY DEF VotesOf

(* NewVote and TakeBack, when the points suffice: the entities of the pair  *)
(* now show n, one vote from what is in the score, and the request owes it. *)
LEMMA ChargedInStep ==
  ASSUME TypeOK, VotesInStep, NEW s \in Slots, At(s, "found"), NEW n, NEW w,
         NEW v, NEW y, v = request[s].user, y = request[s].artifact,
         Charge(s), tally' = tally, w.user = v, w.artifact = y,
         votes' = votes \cup {w} \/ votes' = votes \ {w},
         v \in Orderly => /\ n = tally[<<v, y>>] + Sign(request[s].direction)
                          /\ Shows(v, y, n)'
  PROVE  VotesInStep'
<1> DEFINE r == request[s]
           charged == [r EXCEPT !.step = "voted", !.changed = TRUE, !.points = @ - Cost,
                                !.scores[r.artifact] = @ + Sign(r.direction)]
           new == IF Sufficient(r) THEN charged ELSE Idle
<1>1. s \in Busy /\ r \in Requests /\ r.step = "found" /\ ~r.changed /\ Coherent(r)
  BY BusyIsRequest DEF At, VotesInStep, Coherent
<1>2. request' = [request EXCEPT ![s] = new]
  BY DEF Charge
<1>3. /\ charged.user = r.user /\ charged.artifact = r.artifact /\ charged.vote = r.vote
      /\ charged.step = "voted" /\ charged.changed /\ charged.direction = r.direction
  BY <1>1 DEF Requests
<1>4. Coherent(charged)
  BY <1>1, <1>3 DEF Coherent
<1>5. charged # Idle
  <2>1. Idle.step = "idle"
    BY DEF Idle
  <2>2. QED
    BY <1>3, <2>1
<1> HIDE DEF charged
<1>6. Orderly' \subseteq Orderly
  BY DEF Charge, Orderly
<1>7. OneRequestEach' /\ \A t \in Busy' : Coherent(request'[t])
  BY <1>1, <1>2, <1>3, <1>4, OneRequestKept
<1>8. ASSUME NEW u, NEW x, u # r.user \/ x # r.artifact
      PROVE  VotesOf(u, x)' = VotesOf(u, x)
  BY <1>8, OtherEntities
<1>9. FoundIsStored'
  <2>1. new = Idle \/ new.step # "found"
    BY <1>3
  <2> HIDE DEF new
  <2>2. QED
    BY <1>1, <1>2, <1>6, <1>8, <2>1, FoundKept
<1>10. OneVoteEach'
  BY <1>6 DEF VotesInStep, OneVoteEach
<1>11. ASSUME NEW u \in Orderly', NEW x \in Artifacts
       PROVE  PairInStep(u, x)'
  <2>1. PairInStep(u, x)
    BY <1>6 DEF VotesInStep
  <2>2. CASE u # r.user \/ x # r.artifact
    <3>1. ~Owes(s, u, x)
      BY <1>1 DEF Owes
    <3>2. ~Owes(s, u, x)'
      <4>1. CASE new = Idle
        BY <1>2, <4>1, OtherSlots DEF Owes, Busy
      <4>2. CASE new = charged
        BY <1>2, <1>3, <2>2, <4>2, OtherSlots DEF Owes
      <4>3. QED
        BY <4>1, <4>2
    <3> HIDE DEF new
    <3>3. QED
      BY <1>2, <1>8, <2>1, <2>2, <3>1, <3>2, PairUntouched
  <2>3. CASE u = r.user /\ x = r.artifact
    <3>1. Sufficient(r)
      BY <2>3 DEF Charge, Orderly
    <3>2. request'[s] = charged /\ s \in Busy'
      BY <1>2, <1>5, <3>1, OtherSlots DEF Busy
    <3>3. Owes(s, u, x)'
      BY <1>3, <2>3, <3>2 DEF Owes
    <3>4. ASSUME NEW t \in Slots \ {s}
          PROVE  ~Owes(t, u, x)'
      <4>1. request'[t] = request[t] /\ (t \in Busy' <=> t \in Busy)
        BY <1>2, OtherSlots
      <4>2. ~Owes(t, u, x)
        BY <1>1, <1>6, <2>3, OnlyOneOwes
      <4>3. QED
        BY <4>1, <4>2 DEF Owes
    <3>5. Shows(u, x, tally[<<u, x>>] + Sign(request[s].direction))'
      BY <1>3, <1>6, <2>3, <3>2
    <3>6. QED
      BY <3>3, <3>4, <3>5 DEF PairInStep
  <2>4. QED
    BY <2>2, <2>3
<1>12. QED
  BY <1>7, <1>9, <1>10, <1>11 DEF VotesInStep

(* A found pair of an orderly user: nothing is owed, and the vote found is  *)
(* what the tally shows.                                                    *)
LEMMA FoundShowsTally ==
  ASSUME TypeOK, VotesInStep, NEW s \in Slots, At(s, "found"), request[s].user \in Orderly
  PROVE  /\ Shows(request[s].user, request[s].artifact,
                  tally[<<request[s].user, request[s].artifact>>])
         /\ VotesOf(request[s].user, request[s].artifact) =
              IF request[s].vote = None THEN {} ELSE {request[s].vote}
<1> DEFINE u == request[s].user
           x == request[s].artifact
<1>1. s \in Busy /\ request[s] \in Requests /\ ~request[s].changed
  BY BusyIsRequest DEF At, VotesInStep, Coherent
<1>2. u \in Users /\ x \in Artifacts
  BY <1>1 DEF Requests
<1>3. \A t \in Slots : ~Owes(t, u, x)
  <2>1. ~Owes(s, u, x)
    BY <1>1 DEF Owes
  <2>2. QED
    BY <1>1, <2>1, OnlyOneOwes
<1>4. QED
  BY <1>1, <1>2, <1>3 DEF VotesInStep, PairInStep, FoundIsStored, At

(* Saving the score a vote is counted in, or a save that counts nothing:    *)
(* the request moves on or ends, and tally changes by what it owed.         *)
LEMMA SavedInStep ==
  ASSUME TypeOK, VotesInStep, NEW s \in Slots, At(s, "voted") \/ At(s, "projectSaved"),
         NEW new, request' = [request EXCEPT ![s] = new],
         \/ new = Idle
         \/ new = [request[s] EXCEPT !.step = "projectSaved"],
         NEW v, NEW y, v = request[s].user, y = request[s].artifact,
         \/ tally' = tally /\ (Owes(s, v, y)' <=> Owes(s, v, y))
         \/ tally' = Counted(s) /\ Owes(s, v, y) /\ ~Owes(s, v, y)',
         votes' = votes, uncounted' = uncounted
  PROVE  VotesInStep'
<1> DEFINE r == request[s]
<1>1. s \in Busy /\ r \in Requests /\ Coherent(r)
  BY BusyIsRequest DEF At, VotesInStep
<1>2. /\ new # Idle => new.step = "projectSaved" /\ new.user = r.user
      /\ new # Idle => new.artifact = r.artifact /\ new.direction = r.direction /\ Coherent(new)
  BY <1>1 DEF Requests, Coherent
<1>3. OneRequestEach' /\ \A t \in Busy' : Coherent(request'[t])
  BY <1>1, <1>2, OneRequestKept
<1>4. Orderly' = Orderly /\ \A u, x : VotesOf(u, x)' = VotesOf(u, x)
  BY DEF Orderly, VotesOf
<1>5. FoundIsStored'
  BY <1>1, <1>2, <1>4, FoundKept
<1>6. r.user \in Users /\ r.artifact \in Artifacts
  BY <1>1 DEF Requests
<1>7. ASSUME NEW u \in Orderly, NEW x \in Artifacts
      PROVE  PairInStep(u, x)' /\ tally'[<<u, x>>] \in -1..1
  <2>1. PairInStep(u, x) /\ tally[<<u, x>>] \in -1..1
    BY DEF VotesInStep, OneVoteEach
  <2>2. CASE u # r.user \/ x # r.artifact
    <3>1. tally'[<<u, x>>] = tally[<<u, x>>]
      BY <1>6, <2>2 DEF Counted, TypeOK, Orderly
    <3>2. ~Owes(s, u, x) /\ ~Owes(s, u, x)'
      BY <1>2, <2>2, OtherSlots DEF Owes, Busy
    <3>3. QED
      BY <1>4, <2>1, <3>1, <3>2, PairUntouched
  <2>3. CASE u = r.user /\ x = r.artifact
    <3>1. ASSUME NEW t \in Slots \ {s}
          PROVE  ~Owes(t, u, x) /\ ~Owes(t, u, x)'
      <4>1. ~Owes(t, u, x)
        BY <1>1, <2>3, OnlyOneOwes
      <4>2. request'[t] = request[t] /\ (t \in Busy' <=> t \in Busy)
        BY OtherSlots
      <4>3. QED
        BY <4>1, <4>2 DEF Owes
    <3>2. CASE tally' = tally /\ (Owes(s, v, y)' <=> Owes(s, v, y))
      <4>1. Owes(s, u, x)' => request'[s].direction = r.direction
        BY <1>2, OtherSlots DEF Owes, Busy
      <4>2. Owes(s, u, x)' <=> Owes(s, u, x)
        BY <2>3, <3>2
      <4>3. \A t \in Slots : Owes(t, u, x)' <=> Owes(t, u, x)
        BY <3>1, <4>2
      <4>4. \A t \in Slots : Owes(t, u, x) => request'[t].direction = request[t].direction
        BY <3>1, <4>1, <4>2
      <4>5. PairInStep(u, x)'
        BY <1>4, <2>1, <3>2, <4>3, <4>4, PairKept
      <4>6. QED
        BY <2>1, <3>2, <4>5
    <3>3. CASE tally' = Counted(s) /\ Owes(s, v, y) /\ ~Owes(s, v, y)'
      <4> DEFINE n == tally[<<u, x>>] + Sign(r.direction)
      <4>1. Owes(s, u, x) /\ ~Owes(s, u, x)' /\ tally' = Counted(s)
        BY <2>3, <3>3
      <4>2. Shows(u, x, n)
        BY <2>1, <4>1 DEF PairInStep
      <4>3. tally'[<<u, x>>] = n
        BY <1>6, <2>3, <4>1 DEF Counted, TypeOK, Owes
      <4>4. n \in -1..1
        BY <4>2 DEF Shows, Sign
      <4> HIDE DEF n
      <4>5. PairInStep(u, x)'
        BY <1>4, <3>1, <4>1, <4>2, <4>3, PairSettled
      <4>6. QED
        BY <4>3, <4>4, <4>5
    <3>4. QED
      BY <3>2, <3>3
  <2>4. QED
    BY <2>2, <2>3
<1>8. QED
  BY <1>3, <1>4, <1>5, <1>7 DEF VotesInStep, OneVoteEach

(* A request that fails leaves its user's pair as it was, or the user is no *)
(* longer one whose votes all counted.                                      *)
LEMMA FailedInStep ==
  ASSUME TypeOK, VotesInStep, NEW s \in Slots, Fail(s)
  PROVE  VotesInStep'
<1> DEFINE r == request[s]
<1>1. s \in Busy /\ request' = [request EXCEPT ![s] = Idle] /\ votes' = votes /\ tally' = tally
  BY DEF Fail
<1>2. OneRequestEach' /\ \A t \in Busy' : Coherent(request'[t])
  BY <1>1, OneRequestKept
<1>3. Orderly' \subseteq Orderly /\ \A u, x : VotesOf(u, x)' = VotesOf(u, x)
  BY <1>1 DEF Fail, Orderly, VotesOf
<1>4. FoundIsStored'
  BY <1>1, <1>3, FoundKept
<1>5. OneVoteEach'
  BY <1>1, <1>3 DEF VotesInStep, OneVoteEach
<1>6. ASSUME NEW u \in Orderly', NEW x \in Artifacts
      PROVE  PairInStep(u, x)'
  <2>1. PairInStep(u, x)
    BY <1>3 DEF VotesInStep
  <2>2. ~Owes(s, u, x)
    <3>1. SUFFICES ASSUME Owes(s, u, x) PROVE FALSE
      OBVIOUS
    <3>2. r.user = u /\ r.changed /\ ~(r.step = "projectSaved" /\ r.artifact = Project)
      BY <3>1 DEF Owes
    <3>3. u \in uncounted'
      BY <3>2 DEF Fail
    <3>4. QED
      BY <3>3 DEF Orderly
  <2>3. ~Owes(s, u, x)'
    BY <1>1, OtherSlots DEF Owes, Busy
  <2>4. QED
    BY <1>1, <1>3, <2>1, <2>2, <2>3, PairUntouched
<1>7. QED
  BY <1>2, <1>4, <1>5, <1>6 DEF VotesInStep

LEMMA NextInStep == TypeOK /\ VotesInStep /\ [Next]_votesVars => VotesInStep'
<1> SUFFICES ASSUME TypeOK, VotesInStep, [Next]_votesVars PROVE VotesInStep'
  OBVIOUS
<1>a. ASSUME NEW s \in Slots, NEW step, At(s, step)
      PROVE  s \in Busy /\ request[s] \in Requests /\ Coherent(request[s])
  BY <1>a, BusyIsRequest DEF At, VotesInStep
<1>1. ASSUME NEW s \in Slots, NEW u \in Users, NEW x \in Artifacts,
             NEW d \in Directions, Load(s, u, x, d)
      PROVE  VotesInStep'
  <2> DEFINE new == [step |-> "loaded", id |-> asked, user |-> u, artifact |-> x,
                     direction |-> d, points |-> spectra[u], scores |-> Copied(x),
                     vote |-> None, changed |-> FALSE]
  <2>1. new.user = u /\ new.step = "loaded" /\ ~new.changed /\ Coherent(new)
    BY DEF Coherent
  <2>2. request' = [request EXCEPT ![s] = new] /\ s \notin Busy
    BY <1>1 DEF Load
  <2> HIDE DEF new
  <2>3. ASSUME NEW t \in Busy', t # s
        PROVE  t \in Busy /\ request'[t] = request[t]
    BY <2>2, <2>3, OtherSlots DEF Busy
  <2>4. request'[s] = new
    BY <2>2, OtherSlots
  <2>5. Orderly' = Orderly /\ \A v, y : VotesOf(v, y)' = VotesOf(v, y)
    BY <1>1 DEF Load, Orderly, VotesOf
  <2>6. OneRequestEach'
    <3>1. \A t \in Busy : request[t].user = u /\ u \notin Hasty => FALSE
      BY <1>1 DEF Load
    <3>2. QED
      BY <2>1, <2>3, <2>4, <3>1 DEF OneRequestEach, VotesInStep
  <2>7. \A t \in Busy' : Coherent(request'[t])
    BY <2>1, <2>3, <2>4 DEF VotesInStep
  <2>8. FoundIsStored'
    BY <2>1, <2>3, <2>4, <2>5 DEF FoundIsStored, VotesInStep
  <2>9. OneVoteEach'
    BY <1>1, <2>5 DEF Load, OneVoteEach, VotesInStep
  <2>10. ASSUME NEW v \in Orderly, NEW y \in Artifacts
         PROVE  PairInStep(v, y)'
    <3>1. ~Owes(s, v, y) /\ ~Owes(s, v, y)'
      BY <2>1, <2>2, <2>4 DEF Owes
    <3>2. PairInStep(v, y) /\ tally'[<<v, y>>] = tally[<<v, y>>]
      BY <1>1 DEF Load, VotesInStep
    <3>3. QED
      BY <2>2, <2>5, <3>1, <3>2, PairUntouched
  <2>11. QED
    BY <2>5, <2>6, <2>7, <2>8, <2>9, <2>10 DEF VotesInStep
<1>2. ASSUME NEW s \in Slots, Find(s)
      PROVE  VotesInStep'
  <2> DEFINE r == request[s]
  <2>1. s \in Busy /\ r \in Requests /\ r.step = "loaded" /\ ~r.changed
    BY <1>2, <1>a DEF Find, At, Coherent
  <2>2. PICK w \in VotesOf(r.user, r.artifact) \cup {None} :
           /\ w = None => VotesOf(r.user, r.artifact) = {} \/ r.user \in Hasty
           /\ request' = [request EXCEPT ![s].vote = w, ![s].step = "found"]
    BY <1>2 DEF Find
  <2> DEFINE new == [r EXCEPT !.vote = w, !.step = "found"]
  <2>3. /\ new.step = "found" /\ new.user = r.user /\ new.artifact = r.artifact
        /\ new.vote = w /\ new.changed = r.changed /\ new.direction = r.direction
    BY <2>1 DEF Requests
  <2>4. Coherent(new)
    BY <2>1, <2>2, <2>3 DEF Coherent, VotesOf
  <2>5. request' = [request EXCEPT ![s] = new]
    BY <2>2 DEF TypeOK
  <2> HIDE DEF new
  <2>6. OneRequestEach' /\ \A t \in Busy' : Coherent(request'[t])
    BY <2>1, <2>3, <2>4, <2>5, OneRequestKept
  <2>7. Orderly' = Orderly /\ \A v, y : VotesOf(v, y)' = VotesOf(v, y)
    BY <1>2 DEF Find, Orderly, VotesOf
  <2>8. FoundIsStored'
    <3>1. ASSUME r.user \in Orderly
          PROVE  VotesOf(r.user, r.artifact) = IF w = None THEN {} ELSE {w}
      <4>1. r.user \in Users /\ r.artifact \in Artifacts
        BY <2>1 DEF Requests
      <4>2. \A t \in Slots : ~Owes(t, r.user, r.artifact)
        <5>1. ~Owes(s, r.user, r.artifact)
          BY <2>1 DEF Owes
        <5>2. QED
          BY <2>1, <3>1, <5>1, OnlyOneOwes
      <4>3. Shows(r.user, r.artifact, tally[<<r.user, r.artifact>>])
        BY <3>1, <4>1, <4>2 DEF VotesInStep, PairInStep
      <4>4. r.user \notin Hasty
        BY <3>1 DEF Orderly
      <4>5. w # None => w \in VotesOf(r.user, r.artifact)
        BY <2>2
      <4>6. QED
        BY <2>2, <4>3, <4>4, <4>5 DEF Shows
    <3>2. ASSUME NEW t \in Busy', t # s
          PROVE  t \in Busy /\ request'[t] = request[t]
      BY <2>1, <2>5, <3>2, OtherSlots DEF Busy
    <3>3. request'[s] = new
      BY <2>1, <2>5, OtherSlots DEF Busy
    <3>4. QED
      BY <2>3, <2>7, <3>1, <3>2, <3>3 DEF FoundIsStored, VotesInStep
  <2>9. OneVoteEach'
    BY <1>2, <2>7 DEF Find, OneVoteEach, VotesInStep
  <2>10. ASSUME NEW v \in Orderly, NEW y \in Artifacts
         PROVE  PairInStep(v, y)'
    <3>1. ~Owes(s, v, y) /\ ~Owes(s, v, y)'
      BY <2>1, <2>3, <2>5, OtherSlots DEF Owes
    <3>2. PairInStep(v, y) /\ tally'[<<v, y>>] = tally[<<v, y>>]
      BY <1>2 DEF Find, VotesInStep
    <3>3. QED
      BY <2>5, <2>7, <3>1, <3>2, PairUntouched
  <2>11. QED
    BY <2>6, <2>7, <2>8, <2>9, <2>10 DEF VotesInStep
<1>3. ASSUME NEW s \in Slots, NewVote(s)
      PROVE  VotesInStep'
  <2> DEFINE r == request[s]
             w == [id |-> r.id, user |-> r.user, artifact |-> r.artifact,
                   direction |-> r.direction]
  <2>1. At(s, "found") /\ r.vote = None /\ Charge(s) /\ tally' = tally
        /\ votes' = votes \cup {w} /\ r \in Requests
    BY <1>3, <1>a DEF NewVote
  <2>2. PICK v, y, n : v = r.user /\ y = r.artifact
                       /\ n = tally[<<v, y>>] + Sign(r.direction)
    OBVIOUS
  <2>3. ASSUME v \in Orderly
        PROVE  Shows(v, y, n)'
    <3>1. VotesOf(v, y) = {} /\ tally[<<v, y>>] = 0
      BY <2>1, <2>2, <2>3, FoundShowsTally DEF Shows
    <3>2. VotesOf(v, y)' = {w}
      BY <2>1, <2>2, <3>1 DEF VotesOf
    <3>3. n = Sign(r.direction)
      BY <2>2, <3>1 DEF Sign
    <3>4. n = Sign(w.direction) /\ w \in votes'
      BY <2>1, <3>3
    <3> HIDE DEF w
    <3>5. QED
      BY <3>2, <3>4 DEF Shows, Sign
  <2>4. w.user = v /\ w.artifact = y
    BY <2>2
  <2> HIDE DEF w
  <2>5. QED
    BY <2>1, <2>2, <2>3, <2>4, ChargedInStep
<1>4. ASSUME NEW s \in Slots, TakeBack(s)
      PROVE  VotesInStep'
  <2> DEFINE r == request[s]
  <2>1. /\ At(s, "found") /\ r.vote # None /\ r.vote.direction # r.direction /\ Charge(s)
        /\ tally' = tally /\ votes' = votes \ {r.vote} /\ r \in Requests /\ Coherent(r)
    BY <1>4, <1>a DEF TakeBack
  <2>2. PICK v, y, n, w : v = r.user /\ y = r.artifact /\ w = r.vote
                          /\ n = tally[<<v, y>>] + Sign(r.direction)
    OBVIOUS
  <2>3. w.user = v /\ w.artifact = y
    BY <2>1, <2>2 DEF Coherent
  <2>4. ASSUME v \in Orderly
        PROVE  Shows(v, y, n)'
    <3>1. VotesOf(v, y) = {w} /\ Shows(v, y, tally[<<v, y>>])
      BY <2>1, <2>2, <2>4, FoundShowsTally
    <3>2. tally[<<v, y>>] = Sign(w.direction)
      BY <3>1 DEF Shows
    <3>3. w.direction \in Directions /\ r.direction \in Directions
      BY <2>1, <2>2 DEF Requests, VoteEntities
    <3>4. n = 0
      BY <2>1, <2>2, <3>2, <3>3 DEF Sign, Directions
    <3>5. VotesOf(v, y)' = {}
      BY <2>1, <2>2, <3>1 DEF VotesOf
    <3>6. QED
      BY <3>4, <3>5 DEF Shows
  <2>5. QED
    BY <2>1, <2>2, <2>3, <2>4, ChargedInStep
<1>5. ASSUME NEW s \in Slots, Repeat(s)
      PROVE  VotesInStep'
  <2> DEFINE r == request[s]
             new == [r EXCEPT !.step = "voted"]
  <2>1. s \in Busy /\ r \in Requests /\ r.step = "found" /\ ~r.changed /\ Coherent(r)
    BY <1>5, <1>a DEF Repeat, At, Coherent
  <2>2. new.step = "voted" /\ new.user = r.user /\ ~new.changed /\ Coherent(new)
    BY <2>1 DEF Requests, Coherent
  <2>3. request' = [request EXCEPT ![s] = new]
    BY <1>5 DEF Repeat
  <2> HIDE DEF new
  <2>4. OneRequestEach' /\ \A t \in Busy' : Coherent(request'[t])
    BY <2>1, <2>2, <2>3, OneRequestKept
  <2>5. Orderly' = Orderly /\ \A v, y : VotesOf(v, y)' = VotesOf(v, y)
    BY <1>5 DEF Repeat, Orderly, VotesOf
  <2>6. FoundIsStored'
    BY <2>1, <2>2, <2>3, <2>5, FoundKept
  <2>7. OneVoteEach'
    BY <1>5, <2>5 DEF Repeat, OneVoteEach, VotesInStep
  <2>8. ASSUME NEW v \in Orderly, NEW y \in Artifacts
        PROVE  PairInStep(v, y)'
    <3>1. ~Owes(s, v, y) /\ ~Owes(s, v, y)'
      BY <2>1, <2>2, <2>3, OtherSlots DEF Owes
    <3>2. PairInStep(v, y) /\ tally'[<<v, y>>] = tally[<<v, y>>]
      BY <1>5 DEF Repeat, VotesInStep
    <3>3. QED
      BY <2>3, <2>5, <3>1, <3>2, PairUntouched
  <2>9. QED
    BY <2>4, <2>5, <2>6, <2>7, <2>8 DEF VotesInStep
<1>6. ASSUME NEW s \in Slots, SaveProject(s)
      PROVE  VotesInStep'
  <2> DEFINE r == request[s]
             new == [r EXCEPT !.step = "projectSaved"]
  <2>1. s \in Busy /\ r \in Requests /\ r.step = "voted" /\ At(s, "voted")
    BY <1>6, <1>a DEF SaveProject, At
  <2>2. /\ new.step = "projectSaved" /\ new.user = r.user /\ new.artifact = r.artifact
        /\ new.changed = r.changed /\ new # Idle
    BY <2>1 DEF Requests, Idle
  <2>3. request' = [request EXCEPT ![s] = new] /\ votes' = votes /\ uncounted' = uncounted
    BY <1>6 DEF SaveProject
  <2>4. request'[s] = new /\ s \in Busy'
    BY <2>2, <2>3, OtherSlots DEF Busy
  <2>5. PICK v, y : v = r.user /\ y = r.artifact
    OBVIOUS
  <2>6. Owes(s, v, y) <=> r.changed
    BY <2>1, <2>5 DEF Owes
  <2>7. Owes(s, v, y)' <=> r.changed /\ y # Project
    BY <2>2, <2>4, <2>5 DEF Owes
  <2>8. \/ tally' = tally /\ (y # Project \/ ~r.changed)
        \/ tally' = Counted(s) /\ y = Project /\ r.changed
    BY <1>6, <2>5 DEF SaveProject, Counted
  <2>9. QED
    BY <2>1, <2>3, <2>5, <2>6, <2>7, <2>8, SavedInStep
<1>7. ASSUME NEW s \in Slots, SaveConcept(s) \/ SaveUser(s)
      PROVE  VotesInStep'
  <2> DEFINE r == request[s]
  <2>1. s \in Busy /\ r \in Requests /\ r.step = "projectSaved" /\ At(s, "projectSaved")
    BY <1>7, <1>a DEF SaveConcept, SaveUser, At
  <2>2. request' = [request EXCEPT ![s] = Idle] /\ votes' = votes /\ uncounted' = uncounted
    BY <1>7 DEF SaveConcept, SaveUser
  <2>3. PICK v, y : v = r.user /\ y = r.artifact
    OBVIOUS
  <2>4. ~Owes(s, v, y)'
    BY <2>2, OtherSlots DEF Owes, Busy
  <2>5. \/ tally' = tally /\ ~Owes(s, v, y)
        \/ tally' = Counted(s) /\ Owes(s, v, y)
    BY <1>7, <2>1, <2>3 DEF SaveConcept, SaveUser, Counted, Owes
  <2>6. QED
    BY <2>1, <2>2, <2>3, <2>4, <2>5, SavedInStep
<1>8. ASSUME UNCHANGED <<votes, request, tally, uncounted>>
      PROVE  VotesInStep'
  BY <1>8 DEF VotesInStep, OneRequestEach, FoundIsStored, OneVoteEach, PairInStep, Owes,
              Shows, VotesOf, Orderly, Busy
<1>9. ASSUME NEW u \in Users, GiftRead(u) \/ GiftWrite(u) \/ GiftFails(u)
      PROVE  VotesInStep'
  BY <1>8, <1>9 DEF GiftRead, GiftWrite, GiftFails
<1>10. CASE UNCHANGED votesVars
  BY <1>8, <1>10 DEF votesVars
<1>11. QED
  BY <1>1, <1>2, <1>3, <1>4, <1>5, <1>6, <1>7, <1>9, <1>10, FailedInStep DEF Next

LEMMA InStepAlways == Spec => [](TypeOK /\ VotesInStep)
<1>1. TypeOK /\ VotesInStep /\ [Next]_votesVars => (TypeOK /\ VotesInStep)'
  BY NextType, NextInStep
<1>2. QED
  BY InitType, InitInStep, <1>1, PTL DEF Spec

(* However the votes of any number of users overlap and wherever they fail, *)
(* a user who waits for each answer, never lacked the points and of whom no *)
(* request failed between vote and score puts at most one vote into a score.*)
THEOREM OneVotePerUser == Spec => []OneVoteEach
<1>1. VotesInStep => OneVoteEach
  BY DEF VotesInStep
<1>2. QED
  BY InStepAlways, <1>1, PTL

(* And between that user's requests the stored entity tells what the user   *)
(* put into the score.                                                      *)
THEOREM EntityTellsTally == Spec => []VoteShowsTally
<1>1. ASSUME VotesInStep
      PROVE  VoteShowsTally
  <2>1. ASSUME NEW u \in Orderly, NEW x \in Artifacts, \A s \in Busy : request[s].user # u
        PROVE  Shows(u, x, tally[<<u, x>>])
    BY <1>1, <2>1 DEF VotesInStep, PairInStep, Owes
  <2>2. QED
    BY <2>1 DEF VoteShowsTally, Shows
<1>2. QED
  BY InStepAlways, <1>1, PTL

-----------------------------------------------------------------------------
(* Sums, by induction over the subsets of a finite set.                    *)

(* Every nonempty set of natural numbers has a least element.              *)
LEMMA Least ==
  ASSUME NEW T, T \subseteq Nat, T # {}
  PROVE  \E n \in T : \A m \in T : n <= m
<1> DEFINE R == OpToRel(<, Nat)
<1>1. IsWellFoundedOn(R, Nat)
  BY NatLessThanWellFounded
<1>2. \A m, n \in Nat : m < n => <<m, n>> \in R
  BY DEF OpToRel
<1> HIDE DEF R
<1>3. PICK n \in T : \A m \in T : ~(<<m, n>> \in R)
  BY <1>1, WFMin
<1>4. ASSUME NEW m \in T
      PROVE  n <= m
  <2>1. m \in Nat /\ n \in Nat
    OBVIOUS
  <2>2. ~(m < n)
    BY <1>2, <1>3, <2>1, Zenon
  <2>3. QED
    BY <2>1, <2>2
<1>5. QED
  BY <1>4

(* The element a sum takes from a set next.                                *)
Some(s) == CHOOSE x \in s : TRUE

(* What holds of the empty set, and of a set if it holds without that       *)
(* element, holds of every subset of a finite set.                          *)
LEMMA SubsetInduction ==
  ASSUME NEW S, IsFiniteSet(S), NEW Q, {} \in Q,
         \A s \in SUBSET S : s # {} /\ s \ {Some(s)} \in Q => s \in Q
  PROVE  SUBSET S \subseteq Q
<1> DEFINE T == {n \in Nat : \E s \in SUBSET S : s \notin Q /\ Cardinality(s) = n}
<1>1. SUFFICES ASSUME NEW s \in SUBSET S, s \notin Q PROVE FALSE
  OBVIOUS
<1>2. \A t \in SUBSET S : IsFiniteSet(t) /\ Cardinality(t) \in Nat
  BY FS_Subset, FS_CardinalityType
<1>3. Cardinality(s) \in T
  BY <1>1, <1>2
<1>4. PICK n \in T : \A m \in T : n <= m
  <2> HIDE DEF T
  <2>1. T \subseteq Nat /\ T # {}
    BY <1>3 DEF T
  <2>2. QED
    BY <2>1, Least
<1>5. PICK t \in SUBSET S : t \notin Q /\ Cardinality(t) = n
  OBVIOUS
<1>6. t # {} /\ Some(t) \in t
  BY <1>5 DEF Some
<1>7. t \ {Some(t)} \in SUBSET S /\ t \ {Some(t)} \notin Q
  BY <1>5, <1>6
<1>8. Cardinality(t \ {Some(t)}) = n - 1
  BY <1>2, <1>5, <1>6, FS_RemoveElement
<1>9. n - 1 \in T
  BY <1>2, <1>7, <1>8
<1>10. QED
  BY <1>4, <1>9

(* it sums what t says of x over every subset of S.                        *)
IsSum(it, t, x, S) ==
  it = [s \in SUBSET S |-> IF s = {} THEN 0 ELSE t[<<Some(s), x>>] + it[s \ {Some(s)}]]

SumOver(t, x, S) == MapThenSumSet(LAMBDA u : t[<<u, x>>], S)

(* The sum is what the recursive function of a fold says.                   *)
LEMMA SumRule ==
  ASSUME NEW S, IsFiniteSet(S), NEW t, NEW x
  PROVE  \E it : IsSum(it, t, x, S) /\ SumOver(t, x, S) = it[S]
<1> DEFINE Level(n) == {s \in SUBSET S : Cardinality(s) <= n}
           IsSumTo(it, n) ==
             it = [s \in Level(n) |-> IF s = {} THEN 0 ELSE t[<<Some(s), x>>] + it[s \ {Some(s)}]]
           T == {n \in Nat : ~\E it : IsSumTo(it, n)}
<1>1. \A s \in SUBSET S : IsFiniteSet(s) /\ Cardinality(s) \in Nat
  BY FS_Subset, FS_CardinalityType
<1>2. 0 \notin T
  <2> DEFINE it == [s \in Level(0) |-> 0]
  <2>1. \A s \in Level(0) : s = {}
    BY <1>1, FS_EmptySet
  <2>2. IsSumTo(it, 0)
    BY <2>1
  <2>3. QED
    BY <2>2
<1>3. ASSUME NEW n \in Nat, n \notin T
      PROVE  n + 1 \notin T
  <2>1. PICK it : IsSumTo(it, n)
    BY <1>3
  <2> DEFINE h == [s \in Level(n + 1) |-> IF s = {} THEN 0 ELSE t[<<Some(s), x>>] + it[s \ {Some(s)}]]
  <2>2. ASSUME NEW s \in Level(n)
        PROVE  s \in Level(n + 1) /\ h[s] = it[s]
    <3>1. s \in Level(n + 1)
      BY <1>1
    <3>2. it[s] = IF s = {} THEN 0 ELSE t[<<Some(s), x>>] + it[s \ {Some(s)}]
      BY <2>1
    <3>3. QED
      BY <3>1, <3>2
  <2>3. ASSUME NEW s \in Level(n + 1), s # {}
        PROVE  s \ {Some(s)} \in Level(n)
    <3>1. Some(s) \in s
      BY <2>3 DEF Some
    <3>2. Cardinality(s \ {Some(s)}) = Cardinality(s) - 1
      BY <1>1, <3>1, FS_RemoveElement
    <3>3. QED
      BY <1>1, <3>2
  <2>4. \A s \in Level(n + 1) : s # {} => h[s \ {Some(s)}] = it[s \ {Some(s)}]
    BY <2>2, <2>3
  <2> DEFINE k == [s \in Level(n + 1) |-> IF s = {} THEN 0 ELSE t[<<Some(s), x>>] + h[s \ {Some(s)}]]
  <2>5. h = k
    <3> HIDE DEF Level
    <3>1. \A s \in Level(n + 1) : h[s] = k[s]
      <4>1. SUFFICES ASSUME NEW s \in Level(n + 1) PROVE h[s] = k[s]
        OBVIOUS
      <4>2. h[s] = IF s = {} THEN 0 ELSE t[<<Some(s), x>>] + it[s \ {Some(s)}]
        OBVIOUS
      <4>3. k[s] = IF s = {} THEN 0 ELSE t[<<Some(s), x>>] + h[s \ {Some(s)}]
        BY Zenon
      <4> HIDE DEF h, k
      <4>4. QED
        BY <2>4, <4>2, <4>3
    <3>2. h = [s \in Level(n + 1) |-> h[s]]
      BY Zenon
    <3> HIDE DEF h
    <3>3. k = [s \in Level(n + 1) |-> k[s]]
      BY Zenon
    <3> HIDE DEF k
    <3>4. QED
      BY <3>1, <3>2, <3>3
  <2>6. IsSumTo(h, n + 1)
    BY <2>5, Zenon
  <2>7. QED
    BY <2>6
<1>4. T = {}
  <2> HIDE DEF T
  <2>1. SUFFICES ASSUME T # {} PROVE FALSE
    OBVIOUS
  <2>2. T \subseteq Nat
    BY DEF T
  <2>3. PICK n \in T : \A m \in T : n <= m
    BY <2>1, <2>2, Least
  <2>4. n # 0 /\ n - 1 \in Nat /\ n - 1 \notin T
    BY <1>2, <2>2, <2>3
  <2>5. QED
    BY <1>3, <2>2, <2>3, <2>4
<1>5. PICK it : IsSumTo(it, Cardinality(S))
  BY <1>1, <1>4
<1>6. Level(Cardinality(S)) = SUBSET S
  BY <1>1, FS_Subset
<1>7. IsSum(it, t, x, S)
  BY <1>5, <1>6 DEF IsSum
<1>8. IsSum(CHOOSE f : IsSum(f, t, x, S), t, x, S)
  BY <1>7
<1>9. SumOver(t, x, S) = (CHOOSE f : IsSum(f, t, x, S))[S]
  BY DEF SumOver, MapThenSumSet, MapThenFoldSet, IsSum, Some
<1>10. QED
  BY <1>8, <1>9

(* A sum of zeroes is zero.                                                *)
LEMMA SumOfZeroes ==
  ASSUME NEW S, IsFiniteSet(S), NEW t, NEW x, \A u \in S : t[<<u, x>>] = 0
  PROVE  SumOver(t, x, S) = 0
<1>1. PICK it : IsSum(it, t, x, S) /\ SumOver(t, x, S) = it[S]
  BY SumRule
<1> DEFINE Q == {s \in SUBSET S : it[s] = 0}
<1>2. {} \in Q
  BY <1>1 DEF IsSum
<1>3. ASSUME NEW s \in SUBSET S, s # {}, s \ {Some(s)} \in Q
      PROVE  s \in Q
  <2>1. Some(s) \in S
    BY <1>3 DEF Some
  <2>2. it[s] = t[<<Some(s), x>>] + it[s \ {Some(s)}]
    BY <1>1, <1>3 DEF IsSum
  <2>3. QED
    BY <1>3, <2>1, <2>2
<1>4. SUBSET S \subseteq Q
  <2> HIDE DEF Q
  <2>1. QED
    BY <1>2, <1>3, SubsetInduction
<1>5. QED
  BY <1>1, <1>4

(* Changing what one element is worth changes the sum by as much.          *)
LEMMA SumChange ==
  ASSUME NEW S, IsFiniteSet(S), NEW t, NEW x, NEW h, NEW v \in S, NEW d \in Int,
         \A u \in S : t[<<u, x>>] \in Int,
         \A u \in S : h[<<u, x>>] = IF u = v THEN t[<<u, x>>] + d ELSE t[<<u, x>>]
  PROVE  SumOver(t, x, S) \in Int /\ SumOver(h, x, S) = SumOver(t, x, S) + d
<1>1. PICK it : IsSum(it, t, x, S) /\ SumOver(t, x, S) = it[S]
  BY SumRule
<1>2. PICK ih : IsSum(ih, h, x, S) /\ SumOver(h, x, S) = ih[S]
  BY SumRule
<1> DEFINE Q == {s \in SUBSET S : it[s] \in Int /\ ih[s] = IF v \in s THEN it[s] + d ELSE it[s]}
<1>3. {} \in Q
  BY <1>1, <1>2 DEF IsSum
<1>4. ASSUME NEW s \in SUBSET S, s # {}, s \ {Some(s)} \in Q
      PROVE  s \in Q
  <2>1. Some(s) \in S /\ Some(s) \in s
    BY <1>4 DEF Some
  <2>2. it[s] = t[<<Some(s), x>>] + it[s \ {Some(s)}]
    BY <1>1, <1>4 DEF IsSum
  <2>3. ih[s] = h[<<Some(s), x>>] + ih[s \ {Some(s)}]
    BY <1>2, <1>4 DEF IsSum
  <2>4. CASE Some(s) = v
    BY <1>4, <2>1, <2>2, <2>3, <2>4
  <2>5. CASE Some(s) # v
    BY <1>4, <2>1, <2>2, <2>3, <2>5
  <2>6. QED
    BY <2>4, <2>5
<1>5. SUBSET S \subseteq Q
  <2> HIDE DEF Q
  <2>1. QED
    BY <1>3, <1>4, SubsetInduction
<1>6. QED
  BY <1>1, <1>2, <1>5

-----------------------------------------------------------------------------
(* The books: as long as requests never overlapped.                        *)

Alone ==
  /\ \A s, t \in Busy : s = t
  /\ \A u, v \in Users : giving[u] # None /\ giving[v] # None => u = v
  /\ Busy # {} => \A u \in Users : giving[u] = None

(* The copies of the only request are what is stored, but for what the      *)
(* request itself has changed and not yet saved.                            *)
CopiesMatch(r) ==
  /\ r.points = spectra[r.user] - (IF r.changed THEN Cost ELSE 0)
  /\ r.artifact # Project \/ r.step # "projectSaved" =>
       r.scores[r.artifact] = score[r.artifact] + (IF r.changed THEN Sign(r.direction) ELSE 0)
  /\ r.artifact # Project => r.scores[Project] = score[Project]

ScoresAddUp == \A x \in Artifacts : score[x] = SumOver(tally, x, Users)

PointsAddUp ==
  \A u \in Users : spectra[u] = StartSpectra + Gift * given[u] - Cost * paid[u]

(* ScoreIsTally and SpectraAddUp speak of the states in which nothing runs; *)
(* in between, the running request or distribution must hold fresh copies.  *)
Books ==
  ~overlapped =>
    /\ Alone /\ ScoresAddUp /\ PointsAddUp
    /\ \A u \in Users : giving[u] # None => giving[u] = spectra[u]
    /\ \A s \in Busy : CopiesMatch(request[s])

LEMMA InitBooks == Init => Books
<1> SUFFICES ASSUME Init PROVE Books
  OBVIOUS
<1>1. Busy = {} /\ \A u \in Users : giving[u] = None
  BY DEF Init, Busy
<1>2. ScoresAddUp
  BY SumOfZeroes, VotesAssumption DEF Init, ScoresAddUp
<1>3. PointsAddUp
  BY <1>1, VotesAssumption DEF Init, PointsAddUp
<1>4. QED
  BY <1>1, <1>2, <1>3 DEF Books, Alone

(* Something that begins while nothing runs is alone.                      *)
LEMMA NothingRuns ==
  ASSUME ~(Running > 0)
  PROVE  Busy = {} /\ \A u \in Users : giving[u] = None
<1> DEFINE G == {u \in Users : giving[u] # None}
<1>1. Busy \in SUBSET Slots /\ G \in SUBSET Users
  BY DEF Busy
<1>2. IsFiniteSet(Busy) /\ IsFiniteSet(G)
  BY <1>1, VotesAssumption, FS_Subset
<1>3. Cardinality(Busy) \in Nat /\ Cardinality(G) \in Nat
  BY <1>2, FS_CardinalityType
<1>4. Cardinality(Busy) = 0 /\ Cardinality(G) = 0
  BY <1>3 DEF Running
<1>5. Busy = {} /\ G = {}
  BY <1>2, <1>4, FS_EmptySet
<1>6. QED
  BY <1>5

(* What a step leaves to check when the only request writes its slot.      *)
LEMMA OnlySlot ==
  ASSUME TypeOK, ~overlapped, overlapped' = overlapped, Books,
         NEW s \in Busy, NEW new, request' = [request EXCEPT ![s] = new],
         giving' = giving, ScoresAddUp', PointsAddUp',
         new # Idle => CopiesMatch(new)'
  PROVE  Books'
<1>1. s \in Slots
  BY DEF Busy
<1>2. ASSUME NEW t \in Busy'
      PROVE  t = s /\ new # Idle /\ request'[t] = new
  <2>1. t \in Slots /\ request'[t] # Idle
    BY DEF Busy
  <2>2. CASE t = s
    BY <1>1, <2>1, <2>2, OtherSlots
  <2>3. CASE t # s
    BY <1>1, <2>1, <2>3, OtherSlots DEF Books, Alone, Busy
  <2>4. QED
    BY <2>2, <2>3
<1>3. \A u \in Users : giving[u] = None
  BY DEF Books, Alone
<1>4. Alone'
  BY <1>2, <1>3 DEF Alone
<1>5. \A t \in Busy' : CopiesMatch(request[t])'
  BY <1>2 DEF CopiesMatch
<1>6. QED
  BY <1>3, <1>4, <1>5 DEF Books

(* Counting a vote adds it to the sum of its artifact and to no other.     *)
LEMMA CountedSums ==
  ASSUME TypeOK, NEW s \in Slots, request[s] \in Requests, tally' = Counted(s),
         NEW x \in Artifacts
  PROVE  SumOver(tally', x, Users) = SumOver(tally, x, Users)
           + (IF request[s].changed /\ x = request[s].artifact
              THEN Sign(request[s].direction) ELSE 0)
<1> DEFINE r == request[s]
           d == IF r.changed /\ x = r.artifact THEN Sign(r.direction) ELSE 0
<1>1. r.user \in Users /\ r.artifact \in Artifacts /\ d \in Int
  BY DEF Requests, Sign
<1>2. \A u \in Users : tally[<<u, x>>] \in Int
  BY DEF TypeOK
<1>3. \A u \in Users : tally'[<<u, x>>] =
        IF u = r.user THEN tally[<<u, x>>] + d ELSE tally[<<u, x>>]
  BY <1>1, <1>2 DEF Counted, TypeOK
<1> HIDE DEF d
<1>4. PICK v \in Users : v = r.user
  BY <1>1
<1>5. PICK h : h = tally'
  OBVIOUS
<1>6. \A u \in Users : h[<<u, x>>] = IF u = v THEN tally[<<u, x>>] + d ELSE tally[<<u, x>>]
  BY <1>3, <1>4, <1>5
<1>7. IsFiniteSet(Users) /\ d \in Int
  BY <1>1, VotesAssumption
<1>8. SumOver(h, x, Users) = SumOver(tally, x, Users) + d
  BY <1>2, <1>6, <1>7, SumChange
<1>9. QED
  BY <1>5, <1>8 DEF d

LEMMA SumsAreInt ==
  ASSUME TypeOK, NEW x \in Artifacts, Users # {}
  PROVE  SumOver(tally, x, Users) \in Int
<1>1. PICK v \in Users : TRUE
  OBVIOUS
<1>2. \A u \in Users : tally[<<u, x>>] \in Int
  BY DEF TypeOK
<1>3. \A u \in Users :
        tally[<<u, x>>] = IF u = v THEN tally[<<u, x>>] + 0 ELSE tally[<<u, x>>]
  BY <1>2
<1>4. QED
  BY <1>2, <1>3, SumChange, VotesAssumption

LEMMA NextBooks ==
  TypeOK /\ VotesInStep /\ Books /\ [Next]_votesVars => Books'
<1> SUFFICES ASSUME TypeOK, VotesInStep, Books, [Next]_votesVars, ~overlapped'
             PROVE  Books'
  BY DEF Books
<1>a. ASSUME NEW s \in Slots, NEW step, At(s, step)
      PROVE  s \in Busy /\ request[s] \in Requests /\ Coherent(request[s])
  BY <1>a, BusyIsRequest DEF At, VotesInStep
<1>1. ASSUME NEW s \in Slots, NEW u \in Users, NEW x \in Artifacts,
             NEW d \in Directions, Load(s, u, x, d)
      PROVE  Books'
  <2> DEFINE new == [step |-> "loaded", id |-> asked, user |-> u, artifact |-> x,
                     direction |-> d, points |-> spectra[u], scores |-> Copied(x),
                     vote |-> None, changed |-> FALSE]
  <2>1. ~overlapped /\ ~(Running > 0) /\ request' = [request EXCEPT ![s] = new]
        /\ UNCHANGED <<score, spectra, given, giving, tally, paid>>
    BY <1>1 DEF Load
  <2>2. Busy = {} /\ \A v \in Users : giving[v] = None
    BY <2>1, NothingRuns
  <2>3. CopiesMatch(new)
    BY DEF CopiesMatch, Copied, TypeOK, Artifacts
  <2> HIDE DEF new
  <2>4. PICK now : now = new /\ CopiesMatch(now)'
    BY <2>1, <2>3 DEF CopiesMatch
  <2>5. \A t \in Busy' : t = s /\ request'[t] = now
    BY <2>1, <2>2, <2>4, OtherSlots DEF Busy
  <2>6. Alone' /\ \A t \in Busy' : CopiesMatch(request[t])'
    BY <2>1, <2>2, <2>4, <2>5 DEF Alone, CopiesMatch
  <2>7. QED
    BY <2>1, <2>2, <2>6 DEF Books, ScoresAddUp, PointsAddUp
<1>2. ASSUME NEW s \in Slots, Find(s)
      PROVE  Books'
  <2>1. s \in Busy /\ request[s] \in Requests /\ request[s].step = "loaded"
    BY <1>2, <1>a DEF Find, At
  <2>2. PICK w : request' = [request EXCEPT ![s].vote = w, ![s].step = "found"]
    BY <1>2 DEF Find
  <2>3. ~overlapped /\ overlapped' = overlapped
        /\ UNCHANGED <<score, spectra, given, giving, tally, paid>>
    BY <1>2 DEF Find
  <2>4. PICK new : new = [request[s] EXCEPT !.vote = w, !.step = "found"]
    OBVIOUS
  <2>4a. CopiesMatch(new)
    <3>1. CopiesMatch(request[s])
      BY <2>1, <2>3 DEF Books
    <3>2. QED
      BY <2>1, <2>4, <3>1 DEF CopiesMatch, Requests
  <2>5. request' = [request EXCEPT ![s] = new]
    BY <2>2, <2>4 DEF TypeOK
  <2>6. ScoresAddUp' /\ PointsAddUp' /\ CopiesMatch(new)'
    BY <2>3, <2>4a DEF Books, ScoresAddUp, PointsAddUp, CopiesMatch
  <2>7. QED
    BY <2>1, <2>3, <2>5, <2>6, OnlySlot
<1>3. ASSUME NEW s \in Slots, NewVote(s) \/ TakeBack(s)
      PROVE  Books'
  <2> DEFINE r == request[s]
             charged == [r EXCEPT !.step = "voted", !.changed = TRUE, !.points = @ - Cost,
                                  !.scores[r.artifact] = @ + Sign(r.direction)]
             new == IF Sufficient(r) THEN charged ELSE Idle
  <2>1. s \in Busy /\ r \in Requests /\ r.step = "found" /\ ~r.changed
    BY <1>3, <1>a DEF NewVote, TakeBack, At, Coherent
  <2>2. ~overlapped /\ overlapped' = overlapped /\ request' = [request EXCEPT ![s] = new]
        /\ UNCHANGED <<score, spectra, given, giving, tally, paid>>
    BY <1>3 DEF NewVote, TakeBack, Charge
  <2>3. CopiesMatch(r)
    BY <2>1, <2>2 DEF Books
  <2>4. r.user \in Users /\ r.artifact \in Artifacts /\ r.scores \in [Artifacts -> Int]
        /\ Sign(r.direction) \in Int /\ r.points \in Int /\ Project \in Artifacts
    BY <2>1 DEF Requests, Sign, Artifacts
  <2>5. /\ charged.user = r.user /\ charged.artifact = r.artifact /\ charged.step = "voted"
        /\ charged.changed = TRUE /\ charged.direction = r.direction
        /\ charged.points = r.points - Cost
        /\ charged.scores = [r.scores EXCEPT ![r.artifact] = @ + Sign(r.direction)]
    BY <2>1 DEF Requests
  <2> HIDE DEF charged
  <2>6. charged.points = spectra[r.user] - Cost
    BY <2>1, <2>3, <2>4, <2>5, VotesAssumption DEF CopiesMatch, TypeOK
  <2>7. charged.scores[r.artifact] = score[r.artifact] + Sign(r.direction)
    BY <2>1, <2>3, <2>4, <2>5 DEF CopiesMatch, TypeOK
  <2>8. r.artifact # Project => charged.scores[Project] = score[Project]
    BY <2>1, <2>3, <2>4, <2>5 DEF CopiesMatch
  <2>9. CopiesMatch(charged)
    BY <2>5, <2>6, <2>7, <2>8 DEF CopiesMatch
  <2>10. PICK now : now = new /\ (now # Idle => CopiesMatch(now))
    BY <2>9
  <2> HIDE DEF new
  <2>11. ScoresAddUp' /\ PointsAddUp' /\ (now # Idle => CopiesMatch(now)')
    BY <2>2, <2>10 DEF Books, ScoresAddUp, PointsAddUp, CopiesMatch
  <2>12. QED
    BY <2>1, <2>2, <2>10, <2>11, OnlySlot
<1>4. ASSUME NEW s \in Slots, Repeat(s)
      PROVE  Books'
  <2>1. s \in Busy /\ request[s] \in Requests /\ request[s].step = "found"
        /\ ~overlapped /\ overlapped' = overlapped
        /\ UNCHANGED <<score, spectra, given, giving, tally, paid>>
    BY <1>4, <1>a DEF Repeat, At
  <2>2. PICK new : new = [request[s] EXCEPT !.step = "voted"]
    OBVIOUS
  <2>2a. CopiesMatch(new)
    <3>1. CopiesMatch(request[s])
      BY <2>1 DEF Books
    <3>2. QED
      BY <2>1, <2>2, <3>1 DEF CopiesMatch, Requests
  <2>3. request' = [request EXCEPT ![s] = new]
    BY <1>4, <2>2 DEF Repeat
  <2>4. ScoresAddUp' /\ PointsAddUp' /\ CopiesMatch(new)'
    BY <2>1, <2>2a DEF Books, ScoresAddUp, PointsAddUp, CopiesMatch
  <2>5. QED
    BY <2>1, <2>3, <2>4, OnlySlot
<1>5. ASSUME NEW s \in Slots, SaveProject(s)
      PROVE  Books'
  <2> DEFINE r == request[s]
  <2>1. s \in Busy /\ r \in Requests /\ r.step = "voted" /\ ~overlapped
        /\ overlapped' = overlapped /\ UNCHANGED <<spectra, given, giving, paid>>
        /\ CopiesMatch(r)
    BY <1>5, <1>a DEF SaveProject, At, Books
  <2>2. r.user \in Users /\ r.artifact \in Artifacts /\ Project \in Artifacts
        /\ Sign(r.direction) \in Int
    BY <2>1 DEF Requests, Artifacts, Sign
  <2>3. score' = [score EXCEPT ![Project] = r.scores[Project]]
    BY <1>5 DEF SaveProject
  <2>4. PICK new : new = [r EXCEPT !.step = "projectSaved"]
    OBVIOUS
  <2>5. /\ new.step = "projectSaved" /\ new.user = r.user /\ new.artifact = r.artifact
        /\ new.scores = r.scores /\ new.changed = r.changed /\ new.points = r.points
        /\ new.direction = r.direction
    BY <2>1, <2>4 DEF Requests
  <2>6. request' = [request EXCEPT ![s] = new]
    BY <1>5, <2>4 DEF SaveProject
  <2>7. CopiesMatch(new)'
    BY <2>1, <2>2, <2>3, <2>5 DEF CopiesMatch, TypeOK
  <2>8. ScoresAddUp'
    <3>1. CASE r.artifact = Project
      <4>1. tally' = Counted(s)
        BY <1>5, <3>1 DEF SaveProject
      <4>2. ASSUME NEW x \in Artifacts
            PROVE  score'[x] = SumOver(tally', x, Users)
        <5>1. SumOver(tally', x, Users) = SumOver(tally, x, Users)
                + (IF r.changed /\ x = Project THEN Sign(r.direction) ELSE 0)
          BY <2>1, <3>1, <4>1, CountedSums
        <5>2. score[x] = SumOver(tally, x, Users) /\ score[x] \in Int
          BY <2>1 DEF Books, ScoresAddUp, TypeOK
        <5>3. score'[x] = IF x = Project THEN r.scores[Project] ELSE score[x]
          BY <2>3 DEF TypeOK
        <5>4. r.scores[Project] = score[Project]
                                  + (IF r.changed THEN Sign(r.direction) ELSE 0)
          BY <2>1, <3>1 DEF CopiesMatch
        <5>5. QED
          BY <2>2, <5>1, <5>2, <5>3, <5>4
      <4>3. QED
        BY <4>2 DEF ScoresAddUp
    <3>2. CASE r.artifact # Project
      <4>1. tally' = tally /\ r.scores[Project] = score[Project]
        BY <1>5, <2>1, <3>2 DEF SaveProject, CopiesMatch
      <4>2. score' = score
        BY <2>3, <4>1 DEF TypeOK
      <4>3. QED
        BY <2>1, <4>1, <4>2 DEF Books, ScoresAddUp
    <3>3. QED
      BY <3>1, <3>2
  <2>9. PointsAddUp'
    BY <2>1 DEF Books, PointsAddUp
  <2>10. QED
    BY <2>1, <2>6, <2>7, <2>8, <2>9, OnlySlot
<1>6. ASSUME NEW s \in Slots, SaveConcept(s)
      PROVE  Books'
  <2> DEFINE r == request[s]
  <2>1. s \in Busy /\ r \in Requests /\ r.step = "projectSaved" /\ ~overlapped
        /\ r.artifact # Project /\ request' = [request EXCEPT ![s] = Idle]
        /\ overlapped' = overlapped /\ UNCHANGED <<spectra, given, giving, paid>>
        /\ CopiesMatch(r)
    BY <1>6, <1>a DEF SaveConcept, At, Books
  <2>2. r.artifact \in Artifacts /\ Sign(r.direction) \in Int
    BY <2>1 DEF Requests, Sign
  <2>3. tally' = Counted(s) /\ score' = [score EXCEPT ![r.artifact] = r.scores[r.artifact]]
    BY <1>6 DEF SaveConcept
  <2>4. ASSUME NEW x \in Artifacts
        PROVE  score'[x] = SumOver(tally', x, Users)
    <3>1. SumOver(tally', x, Users) = SumOver(tally, x, Users)
            + (IF r.changed /\ x = r.artifact THEN Sign(r.direction) ELSE 0)
      BY <2>1, <2>3, CountedSums
    <3>2. score[x] = SumOver(tally, x, Users) /\ score[x] \in Int
      BY <2>1 DEF Books, ScoresAddUp, TypeOK
    <3>3. score'[x] = IF x = r.artifact THEN r.scores[r.artifact] ELSE score[x]
      BY <2>3 DEF TypeOK
    <3>4. r.scores[r.artifact] = score[r.artifact]
                                 + (IF r.changed THEN Sign(r.direction) ELSE 0)
      BY <2>1 DEF CopiesMatch
    <3>5. QED
      BY <2>2, <3>1, <3>2, <3>3, <3>4
  <2>5. ScoresAddUp' /\ PointsAddUp'
    BY <2>1, <2>4 DEF Books, PointsAddUp, ScoresAddUp
  <2>6. QED
    BY <2>1, <2>5, OnlySlot
<1>7. ASSUME NEW s \in Slots, SaveUser(s)
      PROVE  Books'
  <2> DEFINE r == request[s]
  <2>1. s \in Busy /\ r \in Requests /\ r.step = "projectSaved" /\ ~overlapped
        /\ request' = [request EXCEPT ![s] = Idle]
        /\ overlapped' = overlapped /\ UNCHANGED <<score, given, giving, tally>>
        /\ CopiesMatch(r) /\ PointsAddUp
    BY <1>7, <1>a DEF SaveUser, At, Books
  <2>2. r.user \in Users /\ r.points = spectra[r.user] - (IF r.changed THEN Cost ELSE 0)
    BY <2>1 DEF Requests, CopiesMatch
  <2>3. ASSUME NEW u \in Users
        PROVE  spectra'[u] = StartSpectra + Gift * given[u] - Cost * paid'[u]
    <3>1. spectra[u] = StartSpectra + Gift * given[u] - Cost * paid[u]
      BY <2>1 DEF PointsAddUp
    <3>2. spectra'[u] = IF u = r.user THEN r.points ELSE spectra[u]
      BY <1>7 DEF SaveUser, TypeOK
    <3>3. paid'[u] = IF u = r.user /\ r.changed THEN paid[u] + 1 ELSE paid[u]
      BY <1>7 DEF SaveUser, TypeOK
    <3>4. \A g \in Int, p \in Nat : Cost * (p + 1) = Cost * p + Cost
      BY VotesAssumption
    <3>5. /\ paid[u] \in Nat /\ Cost * paid[u] \in Int /\ Gift * given[u] \in Int
          /\ StartSpectra \in Int /\ Cost \in Int
      BY VotesAssumption DEF TypeOK
    <3>6. QED
      BY <2>2, <3>1, <3>2, <3>3, <3>4, <3>5
  <2>4. PointsAddUp'
    BY <2>1, <2>3 DEF PointsAddUp
  <2>5. ScoresAddUp'
    BY <2>1 DEF Books, ScoresAddUp
  <2>6. QED
    BY <2>1, <2>4, <2>5, OnlySlot
<1>8. ASSUME NEW u \in Users, GiftRead(u)
      PROVE  Books'
  <2>1. ~overlapped /\ ~(Running > 0) /\ giving' = [giving EXCEPT ![u] = spectra[u]]
        /\ UNCHANGED <<score, spectra, request, given, tally, paid>>
    BY <1>8 DEF GiftRead
  <2>2. Busy = {} /\ Busy' = {} /\ \A v \in Users : giving[v] = None
    BY <2>1, NothingRuns DEF Busy
  <2>3. \A v \in Users : giving'[v] = IF v = u THEN spectra[u] ELSE None
    BY <2>1, <2>2 DEF TypeOK
  <2>4. PointsAddUp' /\ ScoresAddUp'
    BY <2>1 DEF Books, PointsAddUp, ScoresAddUp
  <2>5. Alone' /\ \A v \in Users : giving'[v] # None => giving'[v] = spectra'[v]
    BY <2>1, <2>2, <2>3 DEF Alone
  <2>6. QED
    BY <2>2, <2>4, <2>5 DEF Books
<1>9. ASSUME NEW u \in Users, GiftWrite(u)
      PROVE  Books'
  <2>1. ~overlapped /\ giving[u] # None /\ giving' = [giving EXCEPT ![u] = None]
        /\ spectra' = [spectra EXCEPT ![u] = giving[u] + Gift]
        /\ given' = [given EXCEPT ![u] = @ + 1]
        /\ UNCHANGED <<score, request, tally, paid>>
    BY <1>9 DEF GiftWrite
  <2>2. Busy = {} /\ Busy' = {} /\ giving[u] = spectra[u]
        /\ \A v \in Users : v # u => giving[v] = None
    BY <2>1 DEF Books, Alone, Busy
  <2>3. \A v \in Users : giving'[v] = None
    BY <2>1, <2>2 DEF TypeOK
  <2>4. ASSUME NEW v \in Users
        PROVE  spectra'[v] = StartSpectra + Gift * given'[v] - Cost * paid[v]
    <3>1. spectra[v] = StartSpectra + Gift * given[v] - Cost * paid[v]
      BY <2>1 DEF Books, PointsAddUp
    <3>2. spectra'[v] = IF v = u THEN spectra[v] + Gift ELSE spectra[v]
      BY <2>1, <2>2 DEF TypeOK
    <3>3. given'[v] = IF v = u THEN given[v] + 1 ELSE given[v]
      BY <2>1 DEF TypeOK
    <3>4. given[v] \in Nat /\ Gift * given[v] \in Int /\ Cost * paid[v] \in Int
          /\ StartSpectra \in Int /\ Gift \in Int
      BY VotesAssumption DEF TypeOK
    <3>5. Gift * (given[v] + 1) = Gift * given[v] + Gift
      BY <3>4
    <3>6. QED
      BY <3>1, <3>2, <3>3, <3>4, <3>5
  <2>5. PointsAddUp' /\ ScoresAddUp'
    BY <2>1, <2>4 DEF Books, PointsAddUp, ScoresAddUp
  <2>6. QED
    BY <2>2, <2>3, <2>5 DEF Books, Alone
<1>10. ASSUME NEW u \in Users, GiftFails(u)
       PROVE  Books'
  <2>1. ~overlapped /\ giving[u] # None /\ giving' = [giving EXCEPT ![u] = None]
        /\ UNCHANGED <<score, spectra, request, given, tally, paid>>
    BY <1>10 DEF GiftFails
  <2>2. Busy = {} /\ Busy' = {} /\ \A v \in Users : giving'[v] = None
    BY <2>1 DEF Books, Alone, Busy, TypeOK
  <2>3. QED
    BY <2>1, <2>2 DEF Books, Alone, PointsAddUp, ScoresAddUp
<1>11. ASSUME NEW s \in Slots, Fail(s)
       PROVE  Books'
  <2>1. s \in Busy /\ ~overlapped /\ overlapped' = overlapped
        /\ request' = [request EXCEPT ![s] = Idle]
        /\ UNCHANGED <<score, spectra, given, giving, tally, paid>>
    BY <1>11 DEF Fail
  <2>2. ScoresAddUp' /\ PointsAddUp'
    BY <2>1 DEF Books, ScoresAddUp, PointsAddUp
  <2>3. QED
    BY <2>1, <2>2, OnlySlot
<1>12. CASE UNCHANGED votesVars
  BY <1>12 DEF votesVars, Books, Alone, ScoresAddUp, PointsAddUp, CopiesMatch, Busy
<1>13. QED
  BY <1>1, <1>2, <1>3, <1>4, <1>5, <1>6, <1>7, <1>8, <1>9, <1>10, <1>11, <1>12 DEF Next

LEMMA BooksAlways == Spec => [](TypeOK /\ Books)
<1>1. TypeOK /\ VotesInStep /\ Books /\ [Next]_votesVars => Books'
  BY NextBooks
<1>2. QED
  BY InStepAlways, InitBooks, <1>1, PTL DEF Spec

(* As long as requests never overlapped, every score is the sum of what the *)
(* users' requests were told they changed, for any number of users.         *)
THEOREM ScoresAreTallies == Spec => []ScoreIsTally
<1>1. Books => ScoreIsTally
  BY DEF Books, ScoresAddUp, ScoreIsTally, SumOver
<1>2. QED
  BY BooksAlways, <1>1, PTL

(* ... and a user's points are what was given less what the saved votes on  *)
(* the project cost.                                                        *)
THEOREM PointsAreAccounted == Spec => []SpectraAddUp
<1>1. ASSUME TypeOK, Books, ~overlapped, Running = 0, NEW u \in Users
      PROVE  spectra[u] = StartSpectra + Gift * given[u] - Cost * paid[u]
  BY <1>1 DEF Books, PointsAddUp
<1>2. TypeOK /\ Books => SpectraAddUp
  BY <1>1 DEF SpectraAddUp
<1>3. QED
  BY BooksAlways, <1>2, PTL
=============================================================================
