---------------------------- MODULE Permissions ----------------------------
(***************************************************************************)
(* Who may do what (models/artifacts/artifact.py): every artifact has a    *)
(* Permission entity with rules for groups, and inherits those of a chain  *)
(* of other artifacts. Administrators change rules through the handlers of *)
(* handlers/artifacts/project.py, which are the same for concepts and for   *)
(* documents; a change on the project also keeps Group.artifacts, the list  *)
(* by which the members of a group find the project. Requests overlap, each *)
(* on its own copies of the entities; an action of a request is one write,  *)
(* with the code before it.                                                 *)
(***************************************************************************)
EXTENDS Integers, SequencesExt, FiniteSetsExt

CONSTANTS
  Artifacts, Project,
  Chain,        \* artifact -> parent_perms: whose rules it inherits, root first
  Operations,   \* artifact -> its operations_list
  Alternative,  \* artifact -> the operation that stands for one the chain lacks
  Organized,    \* the artifacts that have an organization
  Groups,
  Slots,        \* requests that can run at the same time
  None,
  MaxRequests,  \* bound on the requests
  MaxRunning    \* bound on the requests that overlap

AllOperations == UNION {ToSet(Operations[a]) : a \in Artifacts}

ASSUME PermissionsAssumption ==
  /\ Project \in Artifacts /\ Chain[Project] = <<>>
  /\ \A a \in Artifacts : Chain[a] \in Seq(Artifacts \ {a})
  /\ \A a \in Artifacts : Operations[a] \in Seq(AllOperations) /\ "read" \in ToSet(Operations[a])
  /\ \A a \in Artifacts : \A op \in ToSet(Operations[a]), b \in ToSet(Chain[a]) :
       op \in ToSet(Operations[b]) \/ Alternative[a][op] \in ToSet(Operations[b]) \cup {None}

VARIABLES
  rules,       \* Permission.permissions of every artifact
  listed,      \* the groups whose artifacts name the project
  request,     \* the request in each slot
  asked,       \* requests so far
  told,        \* the users the last finished request sent its change to
  stopped,     \* whether the last finished request raised or was stopped
  overlapped,  \* whether requests ever ran at the same time
  inherited,   \* groups that were ever set to inherit on the project
  torn         \* groups of which a request was stopped between the group and the rules

permVars == <<rules, listed, request, asked, told, stopped, overlapped, inherited, torn>>

Kinds == {"shared", "required"}
Rule == {"allow", "deny", "none"}

\* What matters of a user who is neither owner nor administrator: the groups.
Users == SUBSET Groups

NoRules(a) == [op \in ToSet(Operations[a]) |-> [k \in Kinds |-> [g \in Groups |-> "none"]]]

Edits ==
  [what : {"set"}, op : AllOperations, kind : Kinds, rule : {"allow", "deny"}]
  \cup [what : {"drop"}, op : AllOperations, kind : Kinds]
  \cup [what : {"list"}]

Idle == [step |-> "idle"]

IsRules(a, r) ==
  /\ DOMAIN r = ToSet(Operations[a])
  /\ \A op \in DOMAIN r : r[op] \in [Kinds -> [Groups -> Rule]]
                          /\ "deny" \notin Range(r[op].required)

TypeOK ==
  /\ \A a \in Artifacts : IsRules(a, rules[a])
  /\ listed \in SUBSET Groups /\ inherited \in SUBSET Groups
  /\ told \in SUBSET Users /\ stopped \in BOOLEAN /\ torn \in SUBSET Groups
  /\ asked \in Nat /\ overlapped \in BOOLEAN
  /\ \A s \in Slots : request[s] # Idle =>
       /\ request[s].step \in {"edit", "put", "tell"}
       /\ request[s].group \in Groups
       /\ IsRules(request[s].artifact, request[s].rules)
       /\ ToSet(request[s].todo) \subseteq Edits
       /\ (request[s].todo = <<>>) = (request[s].step = "tell")

Init ==
  /\ rules = [a \in Artifacts |-> NoRules(a)]
  /\ listed = {}
  /\ request = [s \in Slots |-> Idle]
  /\ asked = 0
  /\ told = {} /\ stopped = FALSE
  /\ overlapped = FALSE
  /\ inherited = {} /\ torn = {}

-----------------------------------------------------------------------------
\* Variant: the artifact's own rules are overridden by those it inherits.
MergedOwnFirst(all, a, op, kind) ==
  FoldLeft(LAMBDA merged, b :
             LET pop == IF op \in DOMAIN all[b] THEN op ELSE Alternative[a][op] IN
             IF pop = None THEN merged
             ELSE [g \in Groups |-> IF all[b][pop][kind][g] # "none"
                                    THEN all[b][pop][kind][g] ELSE merged[g]],
           [g \in Groups |-> "none"], <<a>> \o Chain[a])

\* refresh_permission_inheritance: the rules of the chain, then its own, later
\* ones over earlier ones. An operation an ancestor lacks is looked up there by
\* its alternative, or not at all.
Merged(all, a, op, kind) ==
  FoldLeft(LAMBDA merged, b :
             LET pop == IF op \in DOMAIN all[b] THEN op ELSE Alternative[a][op] IN
             IF pop = None THEN merged
             ELSE [g \in Groups |-> IF all[b][pop][kind][g] # "none"
                                    THEN all[b][pop][kind][g] ELSE merged[g]],
           [g \in Groups |-> "none"], Append(Chain[a], a))

Holds(merged) == {g \in DOMAIN merged : merged[g] # "none"}

\* has_permission of a user who is neither owner, administrator nor the world
\* user: in every required group, and allowed by one shared group.
HasPermission(all, u, a, op) ==
  LET shared == Merged(all, a, op, "shared") IN
  /\ Holds(Merged(all, a, op, "required")) \subseteq u
  /\ \E g \in u \cap Holds(shared) : shared[g] = "allow"

\* has_group_perms
HasGroupPerms(own, g) == \E op \in DOMAIN own, k \in Kinds : own[op][k][g] # "none"

-----------------------------------------------------------------------------
Busy == {s \in Slots : request[s] # Idle}

(* A request of an owner or administrator on artifact a for group g, with   *)
(* the edits it will make: it reads the entities and passes the checks.     *)
Start(s, a, g, todo) ==
  /\ s \notin Busy /\ asked < MaxRequests /\ Cardinality(Busy) < MaxRunning
  /\ asked' = asked + 1
  /\ overlapped' = (overlapped \/ Busy # {})
  /\ request' = [request EXCEPT ![s] =
       [artifact |-> a, group |-> g, todo |-> todo, step |-> "edit",
        listed |-> g \in listed, was |-> rules, rules |-> rules[a]]]
  /\ told' = {} /\ stopped' = FALSE
  /\ UNCHANGED <<rules, listed, torn>>

\* Variant: deny as a rule of a required group.
AddPermAnyRule(s, a, g, op, kind, rule) ==
  /\ op \in ToSet(Operations[a])
  /\ Start(s, a, g, <<[what |-> "set", op |-> op, kind |-> kind, rule |-> rule]>>)
  /\ UNCHANGED inherited

(* _add_perm with allow or deny. 'You can not set deny on required          *)
(* operations'.                                                             *)
AddPerm(s, a, g, op, kind, rule) ==
  /\ op \in ToSet(Operations[a]) /\ ~(kind = "required" /\ rule = "deny")
  /\ Start(s, a, g, <<[what |-> "set", op |-> op, kind |-> kind, rule |-> rule]>>)
  /\ UNCHANGED inherited

(* _add_perm with inherit or none: the rule is removed, then add_group_perm *)
(* goes on as if it had been set.                                           *)
AddInherit(s, a, g, op, kind) ==
  /\ op \in ToSet(Operations[a])
  /\ Start(s, a, g, <<[what |-> "drop", op |-> op, kind |-> kind], [what |-> "list"]>>)
  /\ inherited' = IF a = Project THEN inherited \cup {g} ELSE inherited

RmPerm(s, a, g, op, kind) ==
  /\ op \in ToSet(Operations[a])
  /\ Start(s, a, g, <<[what |-> "drop", op |-> op, kind |-> kind]>>)
  /\ UNCHANGED inherited

(* _remove_group calls remove_group_perm for every operation, twice.        *)
RemoveGroup(s, a, g) ==
  /\ Start(s, a, g,
       [i \in 1 .. 2 * Len(Operations[a]) |->
          [what |-> "drop", op |-> Operations[a][(i + 1) \div 2],
           kind |-> IF i % 2 = 1 THEN "shared" ELSE "required"]])
  /\ UNCHANGED inherited

\* The rules after one edit of add_group_perm or remove_group_perm.
Edited(r) ==
  LET e == Head(r.todo) IN
  CASE e.what = "set"  -> [r.rules EXCEPT ![e.op][e.kind][r.group] = e.rule]
    [] e.what = "drop" -> [r.rules EXCEPT ![e.op][e.kind][r.group] = "none"]
    [] OTHER -> r.rules

\* Variant: a group stays listed until its last rule of the kind that went.
ListsLate(r) ==
  IF Head(r.todo).what # "drop" THEN TRUE
  ELSE r.listed /\ \E op \in DOMAIN r.rules : r.rules[op][Head(r.todo).kind][r.group] # "none"

\* Whether the group shall list the project: it is added whatever was set, and
\* taken out with its last rule.
Lists(r) ==
  IF Head(r.todo).what # "drop" THEN TRUE
  ELSE r.listed /\ HasGroupPerms(Edited(r), r.group)

(* The edit is made on the copy; on the project the group is saved first.   *)
EditAndPutGroup(s) ==
  LET r == request[s]
      lists == IF r.artifact = Project THEN Lists(r) ELSE r.listed
  IN
  /\ s \in Busy /\ r.step = "edit"
  /\ request' = [request EXCEPT ![s].rules = Edited(r), ![s].listed = lists,
                                ![s].step = "put"]
  /\ listed' = IF lists = r.listed THEN listed
               ELSE IF lists THEN listed \cup {r.group} ELSE listed \ {r.group}
  /\ UNCHANGED <<rules, asked, told, stopped, overlapped, inherited, torn>>

\* Variant: the rules of all groups go with those of one.
PutAlone(s) ==
  LET r == request[s] IN
  /\ s \in Busy /\ r.step = "put"
  /\ rules' = [rules EXCEPT ![r.artifact] =
       [op \in DOMAIN r.rules |-> [k \in Kinds |->
          [g \in Groups |-> IF g = r.group THEN r.rules[op][k][g] ELSE "none"]]]]
  /\ request' = [request EXCEPT ![s].todo = Tail(@),
                                ![s].step = IF Len(r.todo) = 1 THEN "tell" ELSE "edit"]
  /\ UNCHANGED <<listed, asked, told, stopped, overlapped, inherited, torn>>

(* perm.put(): the whole entity.                                            *)
PutPermission(s) ==
  LET r == request[s] IN
  /\ s \in Busy /\ r.step = "put"
  /\ rules' = [rules EXCEPT ![r.artifact] = r.rules]
  /\ request' = [request EXCEPT ![s].todo = Tail(@),
                                ![s].step = IF Len(r.todo) = 1 THEN "tell" ELSE "edit"]
  /\ UNCHANGED <<listed, asked, told, stopped, overlapped, inherited, torn>>

\* The entities as the request has them in the end.
Now(r) == [r.was EXCEPT ![r.artifact] = r.rules]

\* Variant: old_permissions are those after the change.
AudienceAfter(r) == {u \in Users : HasPermission(Now(r), u, r.artifact, "read")}

\* has_permission_read or had_permission_read, by old_permissions.
Audience(r) ==
  {u \in Users : HasPermission(Now(r), u, r.artifact, "read")
                 \/ HasPermission(r.was, u, r.artifact, "read")}

(* The change is sent to the users who may, or could, read the artifact.    *)
(* Before that the handler takes organization.get() of the artifact, which  *)
(* raises when it has none.                                                 *)
Tell(s) ==
  /\ s \in Busy /\ request[s].step = "tell" /\ request[s].artifact \in Organized
  /\ told' = Audience(request[s]) /\ stopped' = FALSE
  /\ request' = [request EXCEPT ![s] = Idle]
  /\ UNCHANGED <<rules, listed, asked, overlapped, inherited, torn>>

(* The request raises, on a put, on its Transaction or for want of an       *)
(* organization, or its instance stops: what it saved stays, nobody is told.*)
Fail(s) ==
  LET r == request[s] IN
  /\ s \in Busy
  /\ told' = {} /\ stopped' = TRUE
  /\ torn' = IF r.artifact = Project /\ r.step = "put" THEN torn \cup {r.group} ELSE torn
  /\ request' = [request EXCEPT ![s] = Idle]
  /\ UNCHANGED <<rules, listed, asked, overlapped, inherited>>

Next ==
  \E s \in Slots :
    \/ \E a \in Artifacts, g \in Groups :
         \/ \E op \in AllOperations, kind \in Kinds :
              \/ \E rule \in {"allow", "deny"} : AddPerm(s, a, g, op, kind, rule)
              \/ AddInherit(s, a, g, op, kind) \/ RmPerm(s, a, g, op, kind)
         \/ RemoveGroup(s, a, g)
    \/ EditAndPutGroup(s) \/ PutPermission(s) \/ Tell(s) \/ Fail(s)

Spec == Init /\ [][Next]_permVars
-----------------------------------------------------------------------------
Can(u, a, op) == HasPermission(rules, u, a, op)

\* What b states about a group for an operation of a.
Stated(b, a, op, kind, g) ==
  LET pop == IF op \in ToSet(Operations[b]) THEN op ELSE Alternative[a][op] IN
  IF pop = None THEN "none" ELSE rules[b][pop][kind][g]

(* The rule in force for a group is the nearest one stated: an artifact's   *)
(* own, or else that of the last in its chain that states one.              *)
NearestRuleCounts ==
  \A a \in Artifacts, kind \in Kinds, g \in Groups : \A op \in ToSet(Operations[a]) :
    LET line == Append(Chain[a], a)
        stating == {i \in DOMAIN line : Stated(line[i], a, op, kind, g) # "none"}
    IN  Merged(rules, a, op, kind)[g] =
          IF stating = {} THEN "none" ELSE Stated(line[Max(stating)], a, op, kind, g)

(* As long as requests never overlapped: between requests a group lists the *)
(* project if it has a rule there, by which its members find the project,   *)
(* and only then, except after the rule inherit, and unless a request for   *)
(* it was stopped between the group and the rules.                          *)
ListedIffRules ==
  ~overlapped /\ Busy = {} => \A g \in Groups \ torn :
    /\ HasGroupPerms(rules[Project], g) => g \in listed
    /\ g \in listed => HasGroupPerms(rules[Project], g) \/ g \in inherited

(* As long as requests never overlapped: once a request has ended, whoever  *)
(* gained or lost the right to read the artifact by it has been sent the    *)
(* change. A request that raised or was stopped, and so every request on an *)
(* artifact without organization, saves its change and tells nobody.        *)
ToldIfAffected ==
  [][\A s \in Slots : s \in Busy /\ s \notin Busy' /\ ~overlapped /\ ~stopped' =>
       LET r == request[s] IN
       /\ r.artifact \in Organized
       /\ \A u \in Users :
            HasPermission(r.was, u, r.artifact, "read") # Can(u, r.artifact, "read")
              => u \in told']_permVars

(* As long as requests never overlapped: what is changed for a group as     *)
(* shared changes rights of its members only, as required of the others     *)
(* only, and nowhere but on the artifact and where its rules are inherited. *)
ChangeTouchesItsGroup ==
  [][\A s \in Slots : PutPermission(s) /\ ~overlapped =>
       LET r == request[s]
           e == Head(r.todo)
       IN  \A u \in Users, b \in Artifacts : \A op \in ToSet(Operations[b]) :
             Can(u, b, op) # HasPermission(rules', u, b, op) =>
               /\ e.what # "list" /\ (r.group \in u) = (e.kind = "shared")
               /\ b = r.artifact \/ Contains(Chain[b], r.artifact)]_permVars

=============================================================================
