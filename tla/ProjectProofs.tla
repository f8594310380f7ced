---------------------------- MODULE ProjectProofs ----------------------------
(***************************************************************************)
(* Two things around a whole project.                                       *)
(*   - Its removal, for every project, every number of requests and threads *)
(*     and failures at any step: the types of ProjectRemoval, that nobody is *)
(*     shown a project that is being taken apart unless a thread put it     *)
(*     back, and that nothing of it is forgotten when it is gone.           *)
(*   - Who is present in it, for any tabs, requests and bounds: the types of *)
(*     Channels, that the flag always has a task that gives it back, and    *)
(*     that a tab that answers is kept.                                     *)
(***************************************************************************)
EXTENDS ProjectRemoval, Channels, TLAPS

-----------------------------------------------------------------------------
(* Types.                                                                  *)

LEMMA GoneType == Gone \in Project
  BY DEF Gone, Project

LEMMA NoJobType == NoJob \in Job
  BY GoneType DEF NoJob, Attempt, Job

LEMMA InitType == Init => TypeOK
<1> SUFFICES ASSUME Init PROVE TypeOK
  OBVIOUS
<1>1. project \in Project
  BY DEF Init, Project
<1>2. job \in [Requests -> Job] /\ thread \in [Late -> Thread]
  BY NoJobType, GoneType DEF Init, NoThread, Thread
<1>3. QED
  BY <1>1, <1>2 DEF Init, TypeOK

(* What a step of a request or of its task makes of its job is a job.       *)
LEMMA StepType ==
  ASSUME TypeOK, NEW r \in Requests, Load(r) \/ Step(r) \/ TaskFails(r) \/ RequestFails(r)
  PROVE  \E j \in Job : job' = [job EXCEPT ![r] = j]
<1> DEFINE j == job[r]
<1>0. /\ j \in Job /\ project \in Project /\ docs \subseteq Docs /\ roots \subseteq Roots
      /\ job \in [Requests -> Job]
  BY DEF TypeOK
<1>1. ASSUME NEW to \in {"hidden", "cleaned", "docs", "delete", "children", "permission", "key",
                         "done", "dropped"}, GoOn(r, to)
      PROVE  \E k \in Job : job' = [job EXCEPT ![r] = k]
  <2>1. [j EXCEPT !.pc = to] \in Job
    BY <1>0 DEF Job
  <2>2. QED
    BY <1>1, <2>1 DEF GoOn
<1>2. CASE Load(r)
  <2>1. [j EXCEPT !.pc = "loaded", !.self = [project EXCEPT !.owned = FALSE]] \in Job
    BY <1>0 DEF Job, Project
  <2>2. QED
    BY <1>2, <2>1 DEF Load
<1>3. CASE \/ Hide(r) \/ ForgetInGroups(r) \/ Defer(r) \/ DeleteRules(r) \/ DeleteDocuments(r)
           \/ GroupsOfRules(r) \/ DeletePermission(r) \/ DeleteProject(r) \/ RequestFails(r)
  BY <1>1, <1>3 DEF Hide, ForgetInGroups, Defer, DeleteRules, DeleteDocuments, GroupsOfRules,
     DeletePermission, DeleteProject, RequestFails
<1>4. CASE GetDocuments(r)
  <2>1. ToDelete \subseteq Docs
    BY RemovalAssumption DEF ToDelete
  <2>2. [j EXCEPT !.pc = "sweep", !.loaded = ToDelete \cap docs, !.todo = ToDelete] \in Job
    BY <1>0, <2>1 DEF Job
  <2>3. QED
    BY <1>4, <2>2 DEF GetDocuments
<1>5. ASSUME NEW d \in Docs, NEW i \in Items, Sweep(r, d, i)
      PROVE  \E k \in Job : job' = [job EXCEPT ![r] = k]
  BY <1>0, <1>5 DEF Sweep, TypeOK
<1>6. ASSUME NEW d \in Docs, Swept(r, d)
      PROVE  \E k \in Job : job' = [job EXCEPT ![r] = k]
  <2>1. [j EXCEPT !.todo = j.todo \ {d}] \in Job
    BY <1>0 DEF Job
  <2>2. QED
    BY <1>6, <2>1 DEF Swept
<1>7. CASE GetChildren(r)
  <2>1. PICK shown \in SUBSET roots, removed \in SUBSET Roots :
           job' = [job EXCEPT ![r].pc = "roots", ![r].todo = shown,
                     ![r].context = IF removed = {} THEN @
                                    ELSE [job[r].self EXCEPT !.children = @ \ removed]]
    BY <1>7 DEF GetChildren
  <2> DEFINE repaired == [j.self EXCEPT !.children = j.self.children \ removed]
             context == IF removed = {} THEN j.context ELSE repaired
  <2>2. context \in Project
    BY <1>0 DEF Job, Project
  <2>3. [j EXCEPT !.pc = "roots", !.todo = shown, !.context = context] \in Job
    BY <1>0, <2>2 DEF Job
  <2>4. QED
    BY <1>0, <2>1, <2>3
<1>8. ASSUME NEW c \in Roots, Rdelete(r, c)
      PROVE  \E k \in Job : job' = [job EXCEPT ![r] = k]
  <2> DEFINE pro == IF j.context.stored THEN j.context ELSE project
             without == [pro EXCEPT !.children = pro.children \ {c}]
  <2>1. without \in Project
    BY <1>0 DEF Job, Project
  <2>2. /\ [j EXCEPT !.todo = j.todo \ {c}] \in Job
        /\ [j EXCEPT !.todo = j.todo \ {c}, !.context = without] \in Job
    BY <1>0, <2>1 DEF Job
  <2>3. QED
    BY <1>8, <2>2 DEF Rdelete
<1>9. CASE Raise(r) \/ TaskFails(r)
  <2>1. \A to \in {"docs", "dropped"} : Attempt(to, 1, j.self) \in Job
    BY <1>0, GoneType DEF Attempt, Job
  <2>2. QED
    BY <1>9, <2>1 DEF Raise, TaskFails, Retried
<1>10. QED
  BY <1>2, <1>3, <1>4, <1>5, <1>6, <1>7, <1>8, <1>9 DEF Step

LEMMA NextType == TypeOK /\ [Next]_removalVars => TypeOK'
<1> SUFFICES ASSUME TypeOK, [Next]_removalVars PROVE TypeOK'
  OBVIOUS
<1>1. ASSUME NEW r \in Requests, Load(r) \/ Step(r) \/ TaskFails(r) \/ RequestFails(r)
      PROVE  TypeOK'
  <2>1. job' \in [Requests -> Job]
    BY <1>1, StepType DEF TypeOK
  <2> DEFINE Others ==
        /\ project' \in Project
        /\ docs' \subseteq Docs /\ docRules' \subseteq Docs /\ items' \subseteq Items
        /\ roots' \subseteq Roots /\ groups' \subseteq OrgGroups \cup OtherGroups
        /\ rules' \in BOOLEAN /\ faults' \in Nat
        /\ revived' \subseteq {"project"} \cup Docs \cup Items
        /\ missed' \subseteq Items \cup Roots
  <2>2. Others
    <3>0. job[r] \in Job
      BY DEF TypeOK
    <3>1. CASE Load(r) \/ Defer(r) \/ GetDocuments(r) \/ TaskFails(r) \/ RequestFails(r) \/ Raise(r)
      BY <3>1 DEF Load, Defer, GetDocuments, TaskFails, RequestFails, Raise, TypeOK
    <3>a. CASE ForgetInGroups(r) \/ GroupsOfRules(r)
      BY <3>a DEF ForgetInGroups, GroupsOfRules, TypeOK
    <3>b. CASE DeleteRules(r) \/ DeleteDocuments(r) \/ DeletePermission(r)
      BY <3>b DEF DeleteRules, DeleteDocuments, DeletePermission, TypeOK
    <3>2. CASE Hide(r) \/ DeleteProject(r)
      BY <3>0, <3>2, GoneType DEF Hide, DeleteProject, TypeOK, Job
    <3>3. ASSUME NEW d \in Docs, Swept(r, d) \/ \E i \in Items : Sweep(r, d, i)
          PROVE  Others
      BY <3>3 DEF Swept, Sweep, TypeOK
    <3>4. CASE GetChildren(r)
      <4>1. \A removed : [job[r].self EXCEPT !.children = @ \ removed] \in Project
        BY <3>0 DEF Job, Project
      <4>2. project' \in Project
        BY <3>4, <4>1 DEF GetChildren, TypeOK
      <4>3. missed' \subseteq Items \cup Roots /\ revived' \subseteq revived \cup {"project"}
        BY <3>4 DEF GetChildren, TypeOK
      <4>4. QED
        BY <3>4, <4>2, <4>3 DEF GetChildren, TypeOK
    <3>5. ASSUME NEW c \in Roots, Rdelete(r, c)
          PROVE  Others
      <4> DEFINE pro == IF job[r].context.stored THEN job[r].context ELSE project
                 without == [pro EXCEPT !.children = pro.children \ {c}]
      <4>1. without \in Project
        BY <3>0 DEF Job, Project, TypeOK
      <4>2. QED
        BY <3>5, <4>1 DEF Rdelete, TypeOK
    <3>6. QED
      BY <1>1, <3>1, <3>2, <3>3, <3>4, <3>5, <3>a, <3>b DEF Step
  <2>3. UNCHANGED thread
    BY <1>1 DEF Load, Hide, ForgetInGroups, Defer, GetDocuments, Sweep, Swept, DeleteRules,
       DeleteDocuments, GetChildren, Rdelete, GroupsOfRules, DeletePermission, DeleteProject,
       Raise, TaskFails, RequestFails, Step
  <2>4. QED
    BY <2>1, <2>2, <2>3 DEF TypeOK
<1>2. ASSUME NEW p \in Late,
             Publish(p) \/ Store(p) \/ List(p) \/ SaveProject(p) \/ ThreadFails(p)
      PROVE  TypeOK'
  <2>1. p \in Items /\ Doc[p] \in Docs /\ thread[p] \in Thread
    BY RemovalAssumption DEF TypeOK
  <2>2. \A to \in {"stored", "listed", "done"} : [thread[p] EXCEPT !.pc = to] \in Thread
    BY <2>1 DEF Thread
  <2>3. thread' \in [Late -> Thread]
    BY <1>2, <2>2 DEF Publish, Store, List, SaveProject, ThreadFails, TypeOK, Thread
  <2>4. project' \in Project
    BY <1>2, <2>1 DEF Publish, Store, List, SaveProject, ThreadFails, TypeOK, Thread
  <2>5. QED
    BY <1>2, <2>1, <2>3, <2>4 DEF Publish, Store, List, SaveProject, ThreadFails, TypeOK
<1>3. CASE UNCHANGED removalVars
  BY <1>3 DEF removalVars, TypeOK
<1>4. QED
  BY <1>1, <1>2, <1>3 DEF Next

(* Every state is well formed.                                             *)
THEOREM TypesHold == Spec => []TypeOK
<1>1. QED
  BY InitType, NextType, PTL DEF Spec

-----------------------------------------------------------------------------
(* Nobody is shown a project that is taken apart. A task begins once its    *)
(* request has hidden the project and left the groups' lists; until the     *)
(* first one begins, nothing is missing; and whoever holds a copy with      *)
(* owners, other than a publisher's thread, holds one that was put back.    *)

Whole == docs = Docs /\ docRules = Docs /\ roots = Roots /\ rules

Begun(j) ==
  \/ j.pc \in {"docs", "sweep", "delete", "children", "roots", "permission", "key", "done"}
  \/ j.tries = 1
Hiding(j) == j.pc \notin {"none", "loaded"}

CopiesHidden ==
  \A r \in Requests :
    /\ job[r].pc # "none" => ~job[r].self.owned
    /\ job[r].context.owned => "project" \in revived
HidesOwners == \A r \in Requests :
  Hiding(job[r]) /\ "project" \notin revived => ~project.owned
LeavesGroups == \A r \in Requests :
  job[r].pc = "cleaned" \/ Begun(job[r]) => groups \cap OrgGroups = {}
WholeBefore == Whole \/ \E r \in Requests : Begun(job[r]) /\ Hiding(job[r])

Inv == TypeOK /\ CopiesHidden /\ HidesOwners /\ LeavesGroups /\ WholeBefore

LEMMA InitInv == Init => Inv
  BY InitType DEF Init, Inv, CopiesHidden, HidesOwners, LeavesGroups, WholeBefore, Whole,
     Begun, Hiding, NoJob, Attempt, Gone

(* A step that makes x of one job, seen from the four conjuncts.            *)
LEMMA JobStep ==
  ASSUME Inv, TypeOK', NEW r \in Requests, NEW x \in Job, job' = [job EXCEPT ![r] = x],
         revived \subseteq revived', groups' \subseteq groups,
         x.pc # "none", ~x.self.owned, x.context.owned => "project" \in revived',
         project'.owned /\ "project" \notin revived' => project.owned /\ (Hiding(x) => Hiding(job[r])),
         (x.pc = "cleaned" \/ Begun(x)) =>
           (job[r].pc = "cleaned" \/ Begun(job[r]) \/ groups' \cap OrgGroups = {}),
         Begun(job[r]) /\ Hiding(job[r]) => Begun(x) /\ Hiding(x),
         (Begun(x) /\ Hiding(x)) \/ UNCHANGED <<docs, docRules, roots, rules>>
  PROVE  Inv'
<1>0. /\ job'[r] = x /\ \A q \in Requests \ {r} : job'[q] = job[q]
      /\ job \in [Requests -> Job]
  BY DEF Inv, TypeOK
<1>1. CopiesHidden'
  BY <1>0 DEF Inv, CopiesHidden
<1>2. HidesOwners'
  <2> SUFFICES ASSUME NEW q \in Requests, Hiding(job[q])', "project" \notin revived', project'.owned
               PROVE  FALSE
    BY DEF HidesOwners
  <2>1. Hiding(job[q])
    BY <1>0 DEF Hiding
  <2>2. QED
    BY <2>1 DEF Inv, HidesOwners
<1>3. LeavesGroups'
  BY <1>0 DEF Inv, LeavesGroups, Begun
<1>4. WholeBefore'
  <2>1. CASE Begun(x) /\ Hiding(x)
    BY <1>0, <2>1 DEF WholeBefore, Begun, Hiding
  <2>2. CASE UNCHANGED <<docs, docRules, roots, rules>> /\ Whole
    BY <2>2 DEF WholeBefore, Whole
  <2>3. CASE \E q \in Requests : Begun(job[q]) /\ Hiding(job[q])
    BY <1>0, <2>3 DEF WholeBefore, Begun, Hiding
  <2>4. QED
    BY <2>1, <2>2, <2>3 DEF Inv, WholeBefore
<1>5. QED
  BY <1>1, <1>2, <1>3, <1>4 DEF Inv

(* Steps that only take the job further.                                    *)
LEMMA GoOnStep ==
  ASSUME Inv, TypeOK', NEW r \in Requests,
         NEW to \in {"hidden", "cleaned", "docs", "delete", "children", "permission", "key",
                     "done", "dropped"},
         GoOn(r, to), job[r].pc # "none", to = "hidden" => job[r].pc = "loaded",
         to = "dropped" => job[r].pc \in {"hidden", "cleaned"},
         revived \subseteq revived', groups' \subseteq groups,
         (project' = project /\ Hiding(job[r])) \/ ~project'.owned,
         to = "cleaned" => groups' \cap OrgGroups = {},
         to = "cleaned" => job[r].pc = "hidden", to = "docs" => job[r].pc = "cleaned",
         to \in {"delete", "children", "permission", "key", "done"} => Begun(job[r]),
         \/ UNCHANGED <<docs, docRules, roots, rules>>
         \/ to \in {"delete", "children", "permission", "key", "done"}
  PROVE  Inv'
<1> DEFINE x == [job[r] EXCEPT !.pc = to]
<1>1. job[r] \in Job /\ job' = [job EXCEPT ![r] = x]
  BY DEF Inv, TypeOK, GoOn
<1>2. x \in Job /\ x.pc = to /\ x.tries = job[r].tries /\ x.self = job[r].self
      /\ x.context = job[r].context
  BY <1>1 DEF Job
<1> HIDE DEF x
<1>3. ~x.self.owned /\ (x.context.owned => "project" \in revived')
  BY <1>2 DEF Inv, CopiesHidden
<1>4. Begun(job[r]) /\ Hiding(job[r]) => Begun(x) /\ Hiding(x)
  BY <1>1, <1>2 DEF Begun, Hiding
<1>5. x.pc = "cleaned" \/ Begun(x) =>
        job[r].pc = "cleaned" \/ Begun(job[r]) \/ groups' \cap OrgGroups = {}
  BY <1>2 DEF Begun
<1>6. (Begun(x) /\ Hiding(x)) \/ UNCHANGED <<docs, docRules, roots, rules>>
  BY <1>2 DEF Begun, Hiding
<1>7. project'.owned /\ "project" \notin revived' => project.owned /\ (Hiding(x) => Hiding(job[r]))
  OBVIOUS
<1>8. QED
  BY <1>1, <1>2, <1>3, <1>4, <1>5, <1>6, <1>7, JobStep

(* An attempt that raised is followed by another, or by none.               *)
LEMMA RetryStep ==
  ASSUME Inv, TypeOK', NEW r \in Requests, InTask(r), Retried(r),
         UNCHANGED <<project, docs, docRules, roots, rules, groups, revived>>
  PROVE  Inv'
<1>0. job[r] \in Job
  BY DEF Inv, TypeOK
<1> DEFINE x == Attempt(IF job[r].tries = 0 THEN "docs" ELSE "dropped", 1, job[r].self)
<1>1. job' = [job EXCEPT ![r] = x]
  BY DEF Retried
<1>2. x.pc \in {"docs", "dropped"} /\ x.tries = 1 /\ x.self = job[r].self /\ ~x.context.owned
  BY DEF Attempt, Gone
<1>3. x \in Job
  BY <1>0, GoneType DEF Attempt, Job
<1> HIDE DEF x
<1>4. ~x.self.owned
  BY <1>2 DEF Inv, CopiesHidden, InTask
<1>5. Begun(x) /\ Hiding(x) /\ Begun(job[r]) /\ Hiding(job[r])
  BY <1>2 DEF Begun, Hiding, InTask
<1>6. QED
  BY <1>1, <1>2, <1>3, <1>4, <1>5, JobStep

LEMMA NextInv == Inv /\ [Next]_removalVars => Inv'
<1> SUFFICES ASSUME Inv, [Next]_removalVars PROVE Inv'
  OBVIOUS
<1>0. TypeOK' /\ TypeOK
  BY NextType DEF Inv
<1>a. \A r \in Requests : job[r] \in Job
  BY <1>0 DEF TypeOK
<1>1. ASSUME NEW r \in Requests, Load(r)
      PROVE  Inv'
  <2> DEFINE x == [job[r] EXCEPT !.pc = "loaded", !.self = [project EXCEPT !.owned = FALSE]]
  <2>1. job' = [job EXCEPT ![r] = x]
    BY <1>0, <1>1 DEF Load, TypeOK
  <2>2. [project EXCEPT !.owned = FALSE] \in Project /\ ~[project EXCEPT !.owned = FALSE].owned
    BY <1>0 DEF TypeOK, Project
  <2>3. x \in Job /\ x.pc = "loaded" /\ ~x.self.owned /\ x.tries = job[r].tries
        /\ x.context = job[r].context
    BY <1>a, <2>2 DEF Job
  <2> HIDE DEF x
  <2>4. x.context.owned => "project" \in revived
    BY <2>3 DEF Inv, CopiesHidden
  <2>5. ~Hiding(x) /\ (Begun(x) => Begun(job[r])) /\ ~Hiding(job[r])
    BY <1>1, <2>3 DEF Hiding, Begun, Load
  <2>6. UNCHANGED <<project, docs, docRules, roots, rules, groups, revived>>
    BY <1>1 DEF Load
  <2>7. QED
    BY <1>0, <2>1, <2>3, <2>4, <2>5, <2>6, JobStep
<1>2. ASSUME NEW r \in Requests, Hide(r)
      PROVE  Inv'
  <2>1. ~job[r].self.owned
    BY <1>2 DEF Hide, Inv, CopiesHidden
  <2>2. QED
    BY <1>0, <1>2, <2>1, GoOnStep DEF Hide
<1>3. ASSUME NEW r \in Requests, ForgetInGroups(r)
      PROVE  Inv'
  BY <1>0, <1>3, GoOnStep DEF ForgetInGroups, Hiding
<1>4. ASSUME NEW r \in Requests, Defer(r)
      PROVE  Inv'
  BY <1>0, <1>4, GoOnStep DEF Defer, Hiding
<1>5. ASSUME NEW r \in Requests, DeleteRules(r) \/ DeleteDocuments(r) \/ DeletePermission(r)
      PROVE  Inv'
  BY <1>0, <1>5, GoOnStep DEF DeleteRules, DeleteDocuments, DeletePermission, Hiding, Begun
<1>6. ASSUME NEW r \in Requests, GroupsOfRules(r) \/ DeleteProject(r)
      PROVE  Inv'
  BY <1>0, <1>6, GoOnStep DEF GroupsOfRules, DeleteProject, Gone, Hiding, Begun
<1>7. ASSUME NEW r \in Requests, RequestFails(r)
      PROVE  Inv'
  BY <1>0, <1>7, GoOnStep DEF RequestFails, Hiding
<1>8. ASSUME NEW r \in Requests, TaskFails(r) \/ Raise(r)
      PROVE  Inv'
  BY <1>0, <1>8, RetryStep DEF TaskFails, Raise, InTask
<1>9. ASSUME NEW r \in Requests, GetDocuments(r)
      PROVE  Inv'
  <2> DEFINE x == [job[r] EXCEPT !.pc = "sweep", !.loaded = ToDelete \cap docs, !.todo = ToDelete]
  <2>1. job' = [job EXCEPT ![r] = x]
    BY <1>0, <1>9 DEF GetDocuments, TypeOK
  <2>2. x \in Job /\ x.pc = "sweep" /\ x.self = job[r].self /\ x.context = job[r].context
    BY <1>a, <1>0, RemovalAssumption DEF Job, ToDelete, TypeOK
  <2> HIDE DEF x
  <2>3. ~x.self.owned /\ (x.context.owned => "project" \in revived)
    BY <1>9, <2>2 DEF Inv, CopiesHidden, GetDocuments
  <2>4. Begun(x) /\ Hiding(x) /\ Begun(job[r]) /\ Hiding(job[r])
    BY <1>9, <2>2 DEF Begun, Hiding, GetDocuments
  <2>5. UNCHANGED <<project, docs, docRules, roots, rules, groups, revived>>
    BY <1>9 DEF GetDocuments
  <2>6. QED
    BY <1>0, <2>1, <2>2, <2>3, <2>4, <2>5, JobStep
<1>10. ASSUME NEW r \in Requests, NEW d \in Docs, Swept(r, d)
       PROVE  Inv'
  <2> DEFINE x == [job[r] EXCEPT !.todo = job[r].todo \ {d}]
  <2>1. job' = [job EXCEPT ![r] = x]
    BY <1>0, <1>10 DEF Swept, TypeOK
  <2>2. x \in Job /\ x.pc = "sweep" /\ x.self = job[r].self /\ x.context = job[r].context
    BY <1>a, <1>10 DEF Job, Swept
  <2> HIDE DEF x
  <2>3. ~x.self.owned /\ (x.context.owned => "project" \in revived)
    BY <1>10, <2>2 DEF Inv, CopiesHidden, Swept
  <2>4. Begun(x) /\ Hiding(x) /\ Begun(job[r]) /\ Hiding(job[r])
    BY <1>10, <2>2 DEF Begun, Hiding, Swept
  <2>5. UNCHANGED <<project, docs, docRules, roots, rules, groups, revived>>
    BY <1>10 DEF Swept
  <2>6. QED
    BY <1>0, <2>1, <2>2, <2>3, <2>4, <2>5, JobStep
<1>11. ASSUME NEW r \in Requests, NEW d \in Docs, NEW i \in Items, Sweep(r, d, i)
       PROVE  Inv'
  <2>1. /\ UNCHANGED <<project, job, groups, roots, rules, docRules>>
        /\ revived \subseteq revived'
    BY <1>11 DEF Sweep
  <2>2. Begun(job[r]) /\ Hiding(job[r])
    BY <1>11 DEF Begun, Hiding, Sweep
  <2>3. QED
    BY <1>0, <2>1, <2>2 DEF Inv, CopiesHidden, HidesOwners, LeavesGroups, WholeBefore,
       Begun, Hiding
<1>12. ASSUME NEW r \in Requests, GetChildren(r)
       PROVE  Inv'
  <2>1. PICK shown \in SUBSET roots, removed \in SUBSET Roots :
           /\ job' = [job EXCEPT ![r].pc = "roots", ![r].todo = shown,
                        ![r].context = IF removed = {} THEN @
                                       ELSE [job[r].self EXCEPT !.children = @ \ removed]]
           /\ project' = IF removed = {} THEN project
                         ELSE [job[r].self EXCEPT !.children = @ \ removed]
           /\ revived \subseteq revived'
    BY <1>12 DEF GetChildren
  <2> DEFINE repaired == [job[r].self EXCEPT !.children = job[r].self.children \ removed]
             context == IF removed = {} THEN job[r].context ELSE repaired
             x == [job[r] EXCEPT !.pc = "roots", !.todo = shown, !.context = context]
  <2>2. /\ job[r].self \in Project /\ ~job[r].self.owned
        /\ job[r].context.owned => "project" \in revived
    BY <1>a, <1>12 DEF Job, GetChildren, Inv, CopiesHidden
  <2>3. repaired \in Project /\ ~repaired.owned
    BY <2>2 DEF Project
  <2>4. context.owned => "project" \in revived
    BY <2>2, <2>3
  <2>5. x \in Job /\ x.pc = "roots" /\ x.self = job[r].self /\ x.context = context
    BY <1>a, <1>0, <2>3 DEF Job, TypeOK
  <2>6. job' = [job EXCEPT ![r] = x] /\ (project' = project \/ project' = repaired)
    BY <1>0, <2>1 DEF TypeOK
  <2>7. UNCHANGED <<docs, docRules, roots, rules, groups>> /\ job[r].pc = "children"
    BY <1>12 DEF GetChildren
  <2> HIDE DEF x, repaired, context
  <2>8. Begun(x) /\ Hiding(x) /\ Begun(job[r]) /\ Hiding(job[r])
    BY <2>5, <2>7 DEF Begun, Hiding
  <2>9. QED
    BY <1>0, <2>1, <2>2, <2>3, <2>4, <2>5, <2>6, <2>7, <2>8, JobStep
<1>13. ASSUME NEW r \in Requests, NEW c \in Roots, Rdelete(r, c)
       PROVE  Inv'
  <2> DEFINE pro == IF job[r].context.stored THEN job[r].context ELSE project
             without == [pro EXCEPT !.children = pro.children \ {c}]
             x == [job[r] EXCEPT !.todo = job[r].todo \ {c}]
             y == [job[r] EXCEPT !.todo = job[r].todo \ {c}, !.context = without]
  <2>0. /\ job[r].pc = "roots" /\ Hiding(job[r]) /\ Begun(job[r])
        /\ UNCHANGED <<docs, docRules, rules, groups>> /\ revived \subseteq revived'
    BY <1>13 DEF Rdelete, Hiding, Begun
  <2>1. /\ ~job[r].self.owned
        /\ job[r].context.owned \/ project.owned => "project" \in revived
    BY <2>0 DEF Inv, CopiesHidden, HidesOwners
  <2>2. without \in Project /\ without.owned = pro.owned
    BY <1>a, <1>0 DEF Job, TypeOK, Project
  <2>3. x \in Job /\ x.pc = "roots" /\ x.self = job[r].self /\ x.context = job[r].context
    BY <1>a, <2>0 DEF Job
  <2>4. y \in Job /\ y.pc = "roots" /\ y.self = job[r].self /\ y.context = without
    BY <1>a, <2>0, <2>2 DEF Job
  <2>5. without.owned => "project" \in revived
    BY <2>1, <2>2
  <2>6. \/ job' = [job EXCEPT ![r] = x] /\ UNCHANGED <<project, revived>>
        \/ job' = [job EXCEPT ![r] = y] /\ (project' = without \/ project' = project)
    BY <1>0, <1>13 DEF Rdelete, TypeOK
  <2> HIDE DEF x, y, without, pro
  <2>7. Begun(x) /\ Hiding(x) /\ Begun(y) /\ Hiding(y)
    BY <2>3, <2>4 DEF Begun, Hiding
  <2>8. CASE job' = [job EXCEPT ![r] = x] /\ UNCHANGED <<project, revived>>
    BY <1>0, <2>0, <2>1, <2>3, <2>7, <2>8, JobStep
  <2>9. CASE job' = [job EXCEPT ![r] = y] /\ (project' = without \/ project' = project)
    BY <1>0, <2>0, <2>1, <2>4, <2>5, <2>7, <2>9, JobStep
  <2>10. QED
    BY <2>6, <2>8, <2>9
<1>14. ASSUME NEW p \in Late,
              Publish(p) \/ Store(p) \/ List(p) \/ SaveProject(p) \/ ThreadFails(p)
       PROVE  Inv'
  <2>1. UNCHANGED <<job, groups, roots, rules, docRules>> /\ revived \subseteq revived'
    BY <1>14 DEF Publish, Store, List, SaveProject, ThreadFails
  <2>2. CopiesHidden' /\ LeavesGroups'
    BY <2>1 DEF Inv, CopiesHidden, LeavesGroups, Begun
  <2>3. docs = Docs => docs' = Docs
    BY <1>14, RemovalAssumption DEF Publish, Store, List, SaveProject, ThreadFails
  <2>4. WholeBefore'
    BY <2>1, <2>3 DEF Inv, WholeBefore, Whole, Begun, Hiding
  <2>5. HidesOwners'
    <3>1. project' = project \/ (Hidden => "project" \in revived')
      BY <1>14 DEF Publish, Store, List, SaveProject, ThreadFails
    <3>2. QED
      BY <2>1, <3>1 DEF Inv, HidesOwners, Hiding, Hidden
  <2>6. QED
    BY <1>0, <2>2, <2>4, <2>5 DEF Inv
<1>15. CASE UNCHANGED removalVars
  BY <1>0, <1>15 DEF removalVars, Inv, CopiesHidden, HidesOwners, LeavesGroups, WholeBefore,
     Whole, Begun, Hiding
<1>16. QED
  BY <1>1, <1>2, <1>3, <1>4, <1>5, <1>6, <1>7, <1>8, <1>9, <1>10, <1>11, <1>12, <1>13, <1>14,
     <1>15 DEF Next, Step

(* Owners and the groups of the organization see the project whole or not   *)
(* at all, whatever overlaps or fails (Project.delete, delete_project).      *)
THEOREM ShownOnlyWhole == Spec => []ShownIsWhole
<1>1. Inv => ShownIsWhole
  <2> SUFFICES ASSUME Inv, "project" \notin revived, project.owned \/ groups \cap OrgGroups # {}
               PROVE  Whole
    BY DEF ShownIsWhole, Whole
  <2>1. ASSUME NEW r \in Requests, Begun(job[r]), Hiding(job[r]) PROVE FALSE
    BY <2>1 DEF Inv, HidesOwners, LeavesGroups
  <2>2. QED
    BY <2>1 DEF Inv, WholeBefore
<1>2. Spec => []Inv
  BY InitInv, NextInv, PTL DEF Spec
<1>3. QED
  BY <1>1, <1>2, PTL

-----------------------------------------------------------------------------
(* What is left.                                                           *)

(* Once DeleteProject has run nothing says any more which steps led to it;  *)
(* so for each step of a task what the steps before it have cleared, and    *)
(* keeps cleared. A publication or a document that reappears is recorded.   *)
Left(j) ==
  /\ j.pc # "none" => j.self.stored
  /\ j.pc = "sweep" => /\ Docs \ j.todo \subseteq j.loaded
                       /\ \A i \in items : Doc[i] \in j.todo \/ i \in revived \cup missed
  /\ j.pc \in {"delete", "children", "roots", "permission", "key", "done"} =>
       docRules = {} /\ items \subseteq revived \cup missed
  /\ j.pc \in {"children", "roots", "permission", "key", "done"} => docs \subseteq revived
  /\ j.pc = "roots" => roots \subseteq j.todo \cup Kept \cup missed
  /\ j.pc \in {"permission", "key", "done"} =>
       roots \subseteq Kept \cup missed /\ groups \cap RuleGroups = {}
  /\ j.pc \in {"key", "done"} => ~rules

Clears ==
  /\ \A r \in Requests : Left(job[r])
  /\ \A p \in Late : thread[p].pc # "none" => thread[p].self.stored
  /\ project.stored \/ \E r \in Requests : job[r].pc = "done"

LEMMA InitClears == Init => Clears
  BY DEF Init, Clears, Left, NoJob, Attempt, NoThread

(* Nothing is added that is not recorded.                                  *)
Shrinks ==
  /\ docRules' \subseteq docRules /\ roots' \subseteq roots /\ groups' \subseteq groups
  /\ (rules' => rules) /\ missed \subseteq missed'
  /\ revived \subseteq revived' /\ docs' \subseteq docs \cup revived'
  /\ Hidden => items' \subseteq items \cup revived'

LEMMA LeftKept ==
  ASSUME TypeOK, NEW q \in Requests, Left(job[q]), Shrinks, job'[q] = job[q]
  PROVE  Left(job[q])'
<1>1. CASE job[q].pc \in {"none", "loaded"}
  BY <1>1 DEF Left
<1>2. CASE job[q].pc \notin {"none", "loaded"}
  <2>1. Hidden
    BY <1>2 DEF Hidden
  <2>2. items' \subseteq items \cup revived'
    BY <2>1 DEF Shrinks
  <2>3. CASE job[q].pc = "sweep"
    <3>1. \A i \in items : Doc[i] \in job[q].todo \/ i \in revived \/ i \in missed
      BY <2>3 DEF Left
    <3>2. \A i \in items' : Doc[i] \in job[q].todo \/ i \in revived' \/ i \in missed'
      BY <2>2, <3>1 DEF Shrinks
    <3>3. QED
      BY <2>3, <3>2 DEF Left
  <2>4. CASE job[q].pc # "sweep"
    <3>1. items \subseteq revived \cup missed => items' \subseteq revived' \cup missed'
      BY <2>2 DEF Shrinks
    <3>2. QED
      BY <2>4, <3>1 DEF Left, Shrinks
  <2>5. QED
    BY <2>3, <2>4
<1>3. QED
  BY <1>1, <1>2

(* A step that makes x of one job.                                         *)
LEMMA OneJobClears ==
  ASSUME TypeOK, Clears, NEW r \in Requests, NEW x, job' = [job EXCEPT ![r] = x],
         Left(x)', Shrinks, thread' = thread,
         project'.stored \/ x.pc = "done" \/ (project' = project /\ job[r].pc # "done")
  PROVE  Clears'
<1>1. job'[r] = x /\ \A q \in Requests \ {r} : job'[q] = job[q]
  BY DEF TypeOK
<1>2. \A q \in Requests \ {r} : Left(job[q])'
  BY <1>1, LeftKept DEF Clears
<1>3. Left(job[r])'
  BY <1>1 DEF Left
<1>4. project'.stored \/ \E q \in Requests : job'[q].pc = "done"
  BY <1>1 DEF Clears
<1>5. QED
  BY <1>2, <1>3, <1>4 DEF Clears

(* ... or that takes it one step further.                                  *)
LEMMA GoOnClears ==
  ASSUME TypeOK, Clears, NEW r \in Requests, NEW to, GoOn(r, to),
         \A x : x.self = job[r].self /\ x.loaded = job[r].loaded /\ x.todo = job[r].todo
                /\ x.pc = to => Left(x)',
         Shrinks, thread' = thread,
         project'.stored \/ to = "done" \/ (project' = project /\ job[r].pc # "done")
  PROVE  Clears'
<1>1. job[r] \in Job
  BY DEF TypeOK
<1>2. PICK x : x = [job[r] EXCEPT !.pc = to]
  OBVIOUS
<1>3. x.pc = to /\ x.self = job[r].self /\ x.loaded = job[r].loaded /\ x.todo = job[r].todo
  BY <1>1, <1>2 DEF Job
<1>4. job' = [job EXCEPT ![r] = x]
  BY <1>2 DEF GoOn
<1>5. QED
  BY <1>3, <1>4, OneJobClears

(* A step of a thread.                                                     *)
LEMMA ThreadClears ==
  ASSUME TypeOK, Clears, Shrinks, job' = job,
         \A p \in Late : thread'[p].pc # "none" => thread'[p].self.stored,
         project'.stored \/ project' = project
  PROVE  Clears'
  BY LeftKept DEF Clears

LEMMA NextClears == TypeOK /\ Clears /\ [Next]_removalVars => Clears'
<1> SUFFICES ASSUME TypeOK, Clears, [Next]_removalVars PROVE Clears'
  OBVIOUS
<1>a. ASSUME NEW r \in Requests
      PROVE  job[r] \in Job /\ Left(job[r])
  BY DEF TypeOK, Clears
<1>1. ASSUME NEW r \in Requests, Load(r)
      PROVE  Clears'
  <2>1. PICK x : x = [job[r] EXCEPT !.pc = "loaded", !.self = [project EXCEPT !.owned = FALSE]]
    OBVIOUS
  <2>2. x.pc = "loaded" /\ x.self.stored
    BY <1>1, <1>a, <2>1 DEF Load, Job, TypeOK, Project
  <2>3. job' = [job EXCEPT ![r] = x]
    BY <1>1, <2>1 DEF Load, TypeOK
  <2>4. Left(x)' /\ Shrinks
    BY <1>1, <2>2 DEF Left, Shrinks, Load
  <2>5. QED
    BY <1>1, <2>3, <2>4, OneJobClears DEF Load
<1>2. ASSUME NEW r \in Requests, Hide(r)
      PROVE  Clears'
  <2>1. job[r].self.stored
    BY <1>2, <1>a DEF Hide, Left
  <2>2. Shrinks
    BY <1>2 DEF Hide, Shrinks
  <2>3. \A x : x.self = job[r].self /\ x.pc = "hidden" => Left(x)'
    BY <2>1 DEF Left
  <2>4. QED
    BY <1>2, <2>1, <2>2, <2>3, GoOnClears DEF Hide
<1>3. ASSUME NEW r \in Requests, ForgetInGroups(r) \/ Defer(r) \/ RequestFails(r)
      PROVE  Clears'
  <2>1. job[r].pc \in {"hidden", "cleaned"} /\ Shrinks /\ project' = project /\ thread' = thread
    BY <1>3 DEF ForgetInGroups, Defer, RequestFails, Shrinks
  <2>2. job[r].self.stored
    BY <2>1, <1>a DEF Left
  <2>3. PICK to \in {"cleaned", "docs", "dropped"} : GoOn(r, to)
    BY <1>3 DEF ForgetInGroups, Defer, RequestFails
  <2>4. \A x : x.self = job[r].self /\ x.pc = to => Left(x)'
    BY <2>2 DEF Left
  <2>5. QED
    BY <2>1, <2>3, <2>4, GoOnClears
<1>4. ASSUME NEW r \in Requests, GetDocuments(r)
      PROVE  Clears'
  <2>1. PICK x : x = [job[r] EXCEPT !.pc = "sweep", !.loaded = ToDelete \cap docs,
                                    !.todo = ToDelete]
    OBVIOUS
  <2>2. x.pc = "sweep" /\ x.todo = Docs /\ x.self = job[r].self
    BY <1>a, <2>1, RemovalAssumption DEF Job, ToDelete
  <2>3. job' = [job EXCEPT ![r] = x]
    BY <1>4, <2>1 DEF GetDocuments, TypeOK
  <2>4. \A i \in items' : Doc[i] \in Docs
    BY <1>4, RemovalAssumption DEF GetDocuments, TypeOK
  <2>5. Left(x)' /\ Shrinks
    BY <1>4, <1>a, <2>2, <2>4 DEF Left, Shrinks, GetDocuments
  <2>6. QED
    BY <1>4, <2>3, <2>5, OneJobClears DEF GetDocuments
<1>5. ASSUME NEW r \in Requests, NEW d \in Docs, NEW i \in Items, Sweep(r, d, i)
      PROVE  Clears'
  <2>1. PICK x : x = job[r]
    OBVIOUS
  <2>2. job' = [job EXCEPT ![r] = x]
    BY <1>5, <2>1 DEF Sweep, TypeOK
  <2>3. Shrinks
    BY <1>5 DEF Sweep, Shrinks
  <2>4. Left(x)'
    BY <1>5, <1>a, <2>1, <2>3 DEF Left, Sweep, Shrinks
  <2>5. QED
    BY <1>5, <2>2, <2>3, <2>4, OneJobClears DEF Sweep
<1>6. ASSUME NEW r \in Requests, NEW d \in Docs, Swept(r, d)
      PROVE  Clears'
  <2>1. PICK x : x = [job[r] EXCEPT !.todo = @ \ {d}]
    OBVIOUS
  <2>2. x.pc = "sweep" /\ x.todo = job[r].todo \ {d} /\ x.self = job[r].self
        /\ x.loaded = job[r].loaded
    BY <1>6, <1>a, <2>1 DEF Job, Swept
  <2>3. job' = [job EXCEPT ![r] = x]
    BY <1>6, <2>1 DEF Swept, TypeOK
  <2>4. Left(x)' /\ Shrinks
    BY <1>6, <1>a, <2>2 DEF Left, Shrinks, Swept
  <2>5. QED
    BY <1>6, <2>3, <2>4, OneJobClears DEF Swept
<1>7. ASSUME NEW r \in Requests, DeleteRules(r)
      PROVE  Clears'
  <2>1. Docs \subseteq job[r].loaded /\ items \subseteq revived \cup missed /\ job[r].self.stored
    BY <1>7, <1>a DEF DeleteRules, Left
  <2>2. docRules' = {} /\ items' \subseteq revived' \cup missed' /\ Shrinks
    BY <1>7, <2>1 DEF DeleteRules, TypeOK, Shrinks
  <2>3. \A x : x.self = job[r].self /\ x.pc = "delete" => Left(x)'
    BY <2>1, <2>2 DEF Left
  <2>4. QED
    BY <1>7, <2>2, <2>3, GoOnClears DEF DeleteRules
<1>8. ASSUME NEW r \in Requests, DeleteDocuments(r)
      PROVE  Clears'
  <2>1. docs' = {} /\ Shrinks
    BY <1>8, RemovalAssumption DEF DeleteDocuments, ToDelete, TypeOK, Shrinks
  <2>2. \A x : x.self = job[r].self /\ x.pc = "children" => Left(x)'
    BY <1>8, <1>a, <2>1 DEF Left, DeleteDocuments
  <2>3. QED
    BY <1>8, <2>1, <2>2, GoOnClears DEF DeleteDocuments
<1>9. ASSUME NEW r \in Requests, GetChildren(r)
      PROVE  Clears'
  <2>1. job[r].pc = "children" /\ Left(job[r]) /\ job[r] \in Job
    BY <1>9, <1>a DEF GetChildren
  <2>2. PICK shown \in SUBSET roots, removed \in SUBSET Roots :
           /\ missed' = missed \cup (roots \ shown)
           /\ job' = [job EXCEPT ![r].pc = "roots", ![r].todo = shown,
                        ![r].context = IF removed = {} THEN @
                                       ELSE [job[r].self EXCEPT !.children = @ \ removed]]
           /\ project' = IF removed = {} THEN project
                         ELSE [job[r].self EXCEPT !.children = @ \ removed]
           /\ revived \subseteq revived'
    BY <1>9 DEF GetChildren
  <2>3. PICK x : x = [job[r] EXCEPT !.pc = "roots", !.todo = shown,
                        !.context = IF removed = {} THEN @
                                    ELSE [job[r].self EXCEPT !.children = @ \ removed]]
    OBVIOUS
  <2>4. x.pc = "roots" /\ x.todo = shown /\ x.self = job[r].self
    BY <2>1, <2>3 DEF Job
  <2>5. job' = [job EXCEPT ![r] = x]
    BY <2>2, <2>3 DEF TypeOK
  <2>6. UNCHANGED <<docs, docRules, items, roots, rules, groups, thread>>
    BY <1>9 DEF GetChildren
  <2>7. Shrinks
    BY <2>2, <2>6 DEF Shrinks
  <2>8. project' = project \/ project'.stored
    BY <2>1, <2>2 DEF Left, Job, Project
  <2>9. roots' \subseteq x.todo \cup Kept \cup missed'
    BY <2>2, <2>4, <2>6
  <2>10. Left(x)'
    <3>1. docRules' = {} /\ docs' \subseteq revived' /\ items' \subseteq revived' \cup missed'
      <4>1. docRules = {} /\ docs \subseteq revived /\ items \subseteq revived \cup missed
        BY <2>1 DEF Left
      <4>2. QED
        BY <2>6, <2>7, <4>1 DEF Shrinks
    <3>2. QED
      BY <2>1, <2>4, <2>9, <3>1 DEF Left
  <2>11. QED
    BY <2>1, <2>5, <2>6, <2>7, <2>8, <2>10, OneJobClears
<1>10. ASSUME NEW r \in Requests, NEW c \in Roots, Rdelete(r, c)
       PROVE  Clears'
  <2> DEFINE pro == IF job[r].context.stored THEN job[r].context ELSE project
             without == [pro EXCEPT !.children = @ \ {c}]
  <2>1. job[r].pc = "roots" /\ Left(job[r]) /\ job[r] \in Job /\ c \in job[r].todo
        /\ UNCHANGED <<docs, docRules, items, rules, groups, thread, missed>>
    BY <1>10, <1>a DEF Rdelete
  <2>2. pro.stored => without.stored
    BY <2>1 DEF Job, TypeOK, Project
  <2>3. Shrinks /\ (project' = project \/ project'.stored) /\ (c \notin Kept => roots' = roots \ {c})
    <3>1. CASE c \in Kept
      BY <1>10, <2>1, <3>1 DEF Rdelete, Shrinks
    <3>2. CASE c \notin Kept
      <4>1. pro.stored /\ roots' = roots \ {c} /\ revived \subseteq revived'
            /\ project' = IF c \in pro.children THEN without ELSE project
        BY <1>10, <3>2 DEF Rdelete
      <4> HIDE DEF without
      <4>2. QED
        BY <2>1, <2>2, <4>1 DEF Shrinks
    <3>3. QED
      BY <3>1, <3>2
  <2>4. PICK x : /\ job' = [job EXCEPT ![r] = x]
                 /\ x.pc = "roots" /\ x.todo = job[r].todo \ {c} /\ x.self = job[r].self
    <3>1. CASE c \in Kept
      <4>1. PICK x : x = [job[r] EXCEPT !.todo = @ \ {c}]
        OBVIOUS
      <4>2. x.pc = "roots" /\ x.todo = job[r].todo \ {c} /\ x.self = job[r].self
        BY <2>1, <4>1 DEF Job
      <4>3. job' = [job EXCEPT ![r] = x]
        BY <1>10, <3>1, <4>1 DEF Rdelete, TypeOK
      <4>4. QED
        BY <4>2, <4>3
    <3>2. CASE c \notin Kept
      <4>1. PICK x : x = [job[r] EXCEPT !.todo = @ \ {c}, !.context = without]
        OBVIOUS
      <4> HIDE DEF without
      <4>2. x.pc = "roots" /\ x.todo = job[r].todo \ {c} /\ x.self = job[r].self
        BY <2>1, <4>1 DEF Job
      <4>3. job' = [job EXCEPT ![r] = x]
        BY <1>10, <3>2, <4>1 DEF Rdelete, TypeOK, without
      <4>4. QED
        BY <4>2, <4>3
    <3>3. QED
      BY <3>1, <3>2
  <2>5. Left(x)'
    <3>1. docRules' = {} /\ docs' \subseteq revived' /\ items' \subseteq revived' \cup missed'
      BY <2>1, <2>3 DEF Left, Shrinks
    <3>2. roots' \subseteq x.todo \cup Kept \cup missed'
      BY <2>1, <2>3, <2>4 DEF Left, Shrinks
    <3>3. QED
      BY <2>1, <2>4, <3>1, <3>2 DEF Left
  <2>6. QED
    BY <2>1, <2>3, <2>4, <2>5, OneJobClears
<1>11. ASSUME NEW r \in Requests, GroupsOfRules(r)
       PROVE  Clears'
  <2>1. \A x : x.self = job[r].self /\ x.pc = "permission" => Left(x)'
    BY <1>11, <1>a DEF Left, GroupsOfRules
  <2>2. QED
    BY <1>11, <2>1, GoOnClears DEF GroupsOfRules, Shrinks
<1>12. ASSUME NEW r \in Requests, DeletePermission(r)
       PROVE  Clears'
  <2>1. \A x : x.self = job[r].self /\ x.pc = "key" => Left(x)'
    BY <1>12, <1>a DEF Left, DeletePermission
  <2>2. QED
    BY <1>12, <2>1, GoOnClears DEF DeletePermission, Shrinks
<1>13. ASSUME NEW r \in Requests, DeleteProject(r)
       PROVE  Clears'
  <2>1. \A x : x.self = job[r].self /\ x.pc = "done" => Left(x)'
    BY <1>13, <1>a DEF Left, DeleteProject
  <2>2. QED
    BY <1>13, <2>1, GoOnClears DEF DeleteProject, Shrinks
<1>14. ASSUME NEW r \in Requests, Raise(r) \/ TaskFails(r)
       PROVE  Clears'
  <2>1. /\ job[r].pc \notin {"none", "done"} /\ Shrinks /\ project' = project /\ thread' = thread
        /\ Retried(r)
    BY <1>14 DEF Raise, TaskFails, InTask, Shrinks
  <2>2. PICK x : x = Attempt(IF job[r].tries = 0 THEN "docs" ELSE "dropped", 1, job[r].self)
    OBVIOUS
  <2>3. x.pc \in {"docs", "dropped"} /\ x.self.stored
    BY <1>a, <2>1, <2>2 DEF Attempt, Left
  <2>4. Left(x)'
    BY <2>3 DEF Left
  <2>5. QED
    BY <2>1, <2>2, <2>4, OneJobClears DEF Retried
<1>15. ASSUME NEW p \in Late, \/ Publish(p) \/ Store(p) \/ List(p) \/ SaveProject(p)
                              \/ ThreadFails(p)
       PROVE  Clears'
  <2>1. thread[p].pc # "none" => thread[p].self.stored
    BY DEF Clears
  <2>2. PICK t : thread' = [thread EXCEPT ![p] = t] /\ t.self.stored
    <3>1. thread[p] \in Thread
      BY DEF TypeOK
    <3>2. CASE Publish(p)
      <4>1. [pc |-> "read", self |-> project].self.stored
        BY <3>2 DEF Publish
      <4>2. QED
        BY <3>2, <4>1 DEF Publish
    <3>3. CASE \E to : thread[p].pc # "none" /\ thread' = [thread EXCEPT ![p].pc = to]
      <4>1. PICK to : thread[p].pc # "none" /\ thread' = [thread EXCEPT ![p].pc = to]
        BY <3>3
      <4>2. [thread[p] EXCEPT !.pc = to].self.stored
        BY <2>1, <3>1, <4>1 DEF Thread
      <4>3. QED
        BY <4>1, <4>2
    <3>4. QED
      BY <1>15, <3>2, <3>3 DEF Store, List, SaveProject, ThreadFails
  <2>3. \A q \in Late : thread'[q].pc # "none" => thread'[q].self.stored
    BY <2>2 DEF Clears, TypeOK
  <2>4. Shrinks /\ job' = job
    BY <1>15 DEF Publish, Store, List, SaveProject, ThreadFails, Shrinks
  <2>5. project'.stored \/ project' = project
    BY <1>15, <2>1 DEF Publish, Store, List, SaveProject, ThreadFails
  <2>6. QED
    BY <2>3, <2>4, <2>5, ThreadClears
<1>16. CASE UNCHANGED removalVars
  BY <1>16, ThreadClears DEF removalVars, Shrinks, Clears
<1>17. ASSUME NEW r \in Requests, Step(r)
       PROVE  Clears'
  BY <1>2, <1>3, <1>4, <1>5, <1>6, <1>7, <1>8, <1>9, <1>10, <1>11, <1>12, <1>13, <1>14, <1>17
     DEF Step
<1>18. QED
  BY <1>1, <1>3, <1>14, <1>15, <1>16, <1>17 DEF Next

(* However attempts and threads fail, and two tasks and any number of       *)
(* threads get in each other's way: when the project is gone, so are its    *)
(* documents, what hangs on them and its concepts, but for what was put      *)
(* back, what had to stay and what no query showed (delete_project).        *)
THEOREM NothingForgotten == Spec => []NothingLeft
<1>1. (Inv /\ Clears) /\ [Next]_removalVars => (Inv /\ Clears)'
  BY NextInv, NextClears DEF Inv
<1>2. Inv /\ Clears => NothingLeft
  <2> SUFFICES ASSUME Inv, Clears, ~project.stored
               PROVE  NothingLeft
    BY DEF NothingLeft
  <2>1. PICK r \in Requests : job[r].pc = "done" /\ Left(job[r])
    BY DEF Clears
  <2>2. groups \cap OrgGroups = {}
    BY <2>1 DEF Inv, LeavesGroups, Begun
  <2>3. groups \cap (OrgGroups \cup RuleGroups) = {}
    BY <2>1, <2>2 DEF Left
  <2>4. QED
    BY <2>1, <2>3 DEF Left, NothingLeft
<1>3. QED
  BY InitInv, InitClears, <1>1, <1>2, PTL DEF Spec

-----------------------------------------------------------------------------
(* Presence.                                                               *)

(* A task has tokens in hand only while it runs. *)
TodoInTasks == \A n \in Asks : todo[n] # {} => Running(n)

(* As long as no two requests raced, a task holds the flag, and alone. *)
FlagIsHeld == ~raced => \A n \in Asks : Running(n) => flag
OneTask == ~raced => \A m, n \in Asks : Running(m) /\ Running(n) => m = n

(* Answers belong to a task that has sent its pings ... *)
HeardByTask == ~raced /\ heard # {} => \E n \in Asks : pc[n] \in {"wait", "collect"}

(* ... and are there for it until it has looked them up. *)
RepliesWait ==
  ~raced => \A t \in heard :
    /\ t \in tokens \/ DroppedAnyway(t)
    /\ \A n \in Asks : t \in todo[n] => t \in reply

(* AnswererKept is not inductive: that a task finds the reply rests on its  *)
(* being the only one, and that on the flag.                                *)
Round ==
  /\ ChannelsTypeOK /\ TodoInTasks /\ FlagHasTask /\ FlagIsHeld /\ OneTask
  /\ HeardByTask /\ RepliesWait

(* What get_by_project_key does to the tokens.                              *)
LEMMA PruneTypes ==
  ASSUME NEW a \in SUBSET Tabs, ChannelsTypeOK, Prune(a)
  PROVE  tokens' \subseteq Tabs
BY DEF ChannelsTypeOK, Prune, Dropped

LEMMA PruneKeeps ==
  ASSUME NEW a \in SUBSET Tabs, Prune(a)
  PROVE  \A t \in Tabs : t \in tokens => t \in tokens' \/ DroppedAnyway(t)
BY DEF Prune, Dropped, Invalid, DroppedAnyway

(* A token that may be dropped stays so: a status that went off never comes  *)
(* back, but with the token of a tab that enters.                           *)
LEMMA StillDropped ==
  ASSUME ChannelsTypeOK, NEW t \in Tabs, Enter(t) \/ Leave(t) \/ Blip(t) \/ Age(t) \/ Act(t)
  PROVE  \A u \in Tabs : DroppedAnyway(u) => u \in tokens' \/ DroppedAnyway(u)'
<1>1. CASE Enter(t)
  BY <1>1 DEF Enter, DroppedAnyway, On, ChannelsTypeOK
<1>2. CASE Leave(t) \/ Blip(t) \/ Age(t)
  BY <1>2 DEF Leave, Blip, Age, TurnOff, DroppedAnyway, On, ChannelsTypeOK
<1>3. CASE Act(t)
  BY <1>3 DEF Act, ActWithout, GetToken, PutToken, tabVars, DroppedAnyway, On
<1>4. QED
  BY <1>1, <1>2, <1>3

LEMMA InitRound == ChannelsInit => Round
<1> SUFFICES ASSUME ChannelsInit PROVE Round
  OBVIOUS
<1>1. ChannelsTypeOK
  <2>1. deaths \in 0..MaxDeaths
    BY ChannelsAssumption DEF ChannelsInit
  <2> QED
    BY <2>1, Zenon DEF ChannelsInit, ChannelsTypeOK
<1>2. TodoInTasks /\ FlagHasTask /\ FlagIsHeld /\ OneTask
  BY DEF ChannelsInit, TodoInTasks, FlagHasTask, FlagIsHeld, OneTask, Running
<1>3. HeardByTask /\ RepliesWait
  BY DEF ChannelsInit, HeardByTask, RepliesWait
<1> QED
  BY <1>1, <1>2, <1>3 DEF Round

LEMMA TypesStep == ChannelsTypeOK /\ [ChannelsNext]_channelVars => ChannelsTypeOK'
<1> SUFFICES ASSUME ChannelsTypeOK, [ChannelsNext]_channelVars PROVE ChannelsTypeOK'
  OBVIOUS
<1> USE ChannelsAssumption DEF ChannelsTypeOK, tabVars, roundVars
<1>1. ASSUME NEW t \in Tabs, Enter(t) \/ Leave(t) \/ Blip(t) \/ Age(t) PROVE ChannelsTypeOK'
  BY <1>1 DEF Enter, Leave, Blip, Age, TurnOff
<1>2. ASSUME NEW t \in Tabs, Answer(t) PROVE ChannelsTypeOK'
  BY <1>2 DEF Answer
<1>3. ASSUME NEW t \in Tabs, Act(t) PROVE ChannelsTypeOK'
  BY <1>3, PruneTypes DEF Act, ActWithout, GetToken, PutToken
<1>4. ASSUME NEW n \in Asks, GetFlag(n) PROVE ChannelsTypeOK'
  BY <1>4, PruneTypes DEF GetFlag
<1>5. ASSUME NEW n \in Asks, SetFlag(n) PROVE ChannelsTypeOK'
  <2>1. pc' \in [Asks -> {"none", "free", "queued", "wait", "collect", "lost"}]
    BY <1>5 DEF SetFlag
  <2>2. deaths' \in 0..MaxDeaths
    BY <1>5 DEF SetFlag
  <2>3. flag' \in BOOLEAN /\ raced' \in BOOLEAN /\ heard' \subseteq Tabs
    BY <1>5, Zenon DEF SetFlag
  <2>4. QED
    BY <1>5, <2>1, <2>2, <2>3 DEF SetFlag
<1>6. ASSUME NEW n \in Asks, PingAll(n) PROVE ChannelsTypeOK'
  BY <1>6, PruneTypes DEF PingAll
<1>7. ASSUME NEW n \in Asks, NEW t \in Tabs, Collect(n, t) PROVE ChannelsTypeOK'
  BY <1>7 DEF Collect
<1>8. ASSUME NEW n \in Asks, Finally(n) \/ Raises(n) PROVE ChannelsTypeOK'
  BY <1>8 DEF Finally, Raises, TaskOver
<1>9. ASSUME NEW n \in Asks, Dies(n) PROVE ChannelsTypeOK'
  <2>1. deaths' \in 0..MaxDeaths
    BY <1>9 DEF Dies
  <2>2. QED
    BY <1>9, <2>1 DEF Dies, TaskOver
<1>10. CASE UNCHANGED channelVars
  BY <1>10 DEF channelVars
<1>11. QED
  BY <1>1, <1>2, <1>3, <1>4, <1>5, <1>6, <1>7, <1>8, <1>9, <1>10, Zenon DEF ChannelsNext, Task

-----------------------------------------------------------------------------
(* Steps that leave the flag, the requests and their tasks alone keep what   *)
(* is said of those alone.                                                  *)
LEMMA RoundsAlone ==
  ASSUME TodoInTasks, FlagHasTask, FlagIsHeld, OneTask, UNCHANGED roundVars
  PROVE  (TodoInTasks /\ FlagHasTask /\ FlagIsHeld /\ OneTask)'
BY Zenon DEF roundVars, TodoInTasks, FlagHasTask, FlagIsHeld, OneTask, Running

LEMMA TabStep ==
  ASSUME Round, NEW t \in Tabs, Enter(t) \/ Leave(t) \/ Blip(t) \/ Age(t) \/ Act(t)
  PROVE  (FlagHasTask /\ TodoInTasks /\ FlagIsHeld /\ OneTask /\ HeardByTask /\ RepliesWait)'
<1>1. UNCHANGED roundVars /\ UNCHANGED reply
  BY DEF Enter, Leave, Blip, Age, Act, ActWithout, GetToken, PutToken
<1>2. heard' = heard /\ heard \subseteq Tabs
  BY DEF Round, ChannelsTypeOK, Enter, Leave, Blip, Age, Act, ActWithout, GetToken, PutToken
<1>3. \A u \in Tabs : u \in tokens => u \in tokens' \/ DroppedAnyway(u)
  BY PruneKeeps DEF Enter, Leave, Blip, Age, Act, ActWithout, GetToken, PutToken
<1>4. \A u \in heard : u \in tokens \/ DroppedAnyway(u) => u \in tokens' \/ DroppedAnyway(u)'
  BY <1>2, <1>3, StillDropped DEF Round
<1>5. HeardByTask' /\ RepliesWait'
  BY <1>1, <1>2, <1>4 DEF Round, HeardByTask, RepliesWait, roundVars
<1>6. QED
  BY <1>1, <1>5, RoundsAlone DEF Round

LEMMA AnswerStep ==
  ASSUME Round, NEW t \in Tabs, Answer(t)
  PROVE  (FlagHasTask /\ TodoInTasks /\ FlagIsHeld /\ OneTask /\ HeardByTask /\ RepliesWait)'
<1>1. UNCHANGED roundVars /\ UNCHANGED tokens
  BY DEF Answer
<1>2. HeardByTask'
  BY <1>1 DEF Round, Answer, Waiting, HeardByTask, roundVars
<1>3. RepliesWait'
  BY <1>1 DEF Round, Answer, RepliesWait, roundVars, tabVars, DroppedAnyway, On
<1>4. QED
  BY <1>1, <1>2, <1>3, RoundsAlone DEF Round

LEMMA GetFlagStep ==
  ASSUME Round, NEW n \in Asks, GetFlag(n)
  PROVE  (FlagHasTask /\ TodoInTasks /\ FlagIsHeld /\ OneTask /\ HeardByTask /\ RepliesWait)'
<1>1. \A m \in Asks : pc'[m] = pc[m] \/ (pc[m] = "none" /\ pc'[m] = "free")
  BY DEF Round, ChannelsTypeOK, GetFlag
<1>2. \A m \in Asks : Running(m)' <=> Running(m)
  BY <1>1 DEF Running
<1>3. UNCHANGED <<todo, flag, raced, reply>>
  BY DEF GetFlag
<1>4. heard' = heard /\ \A u \in heard : u \in tokens => u \in tokens' \/ DroppedAnyway(u)
  BY PruneKeeps DEF Round, ChannelsTypeOK, GetFlag
<1>5. FlagHasTask'
  BY <1>1, <1>2, <1>3 DEF Round, FlagHasTask
<1>6. TodoInTasks' /\ FlagIsHeld' /\ OneTask'
  BY <1>2, <1>3 DEF Round, TodoInTasks, FlagIsHeld, OneTask
<1>7. HeardByTask' /\ RepliesWait'
  BY <1>1, <1>3, <1>4 DEF Round, HeardByTask, RepliesWait, GetFlag, tabVars, DroppedAnyway, On
<1>8. QED
  BY <1>5, <1>6, <1>7

(* If the flag was not set no task was running, and this one is alone.      *)
LEMMA SetFlagStep ==
  ASSUME Round, NEW n \in Asks, SetFlag(n)
  PROVE  (FlagHasTask /\ TodoInTasks /\ FlagIsHeld /\ OneTask /\ HeardByTask /\ RepliesWait)'
<1>1. pc' \in [Asks -> {"none", "free", "queued", "wait", "collect", "lost"}]
  BY TypesStep DEF Round, ChannelsTypeOK, SetFlag
<1>2. /\ pc'[n] \in {"queued", "lost"} /\ ~Running(n)
      /\ \A m \in Asks : m # n => pc'[m] = pc[m]
  BY DEF Round, ChannelsTypeOK, SetFlag, Running
<1>3. FlagHasTask'
  BY <1>2 DEF FlagHasTask, Running
<1>4. TodoInTasks'
  BY <1>2 DEF Round, TodoInTasks, SetFlag, Running
<1>5. FlagIsHeld'
  BY Zenon DEF SetFlag, FlagIsHeld
<1>6. CASE raced'
  BY <1>3, <1>4, <1>5, <1>6 DEF OneTask, HeardByTask, RepliesWait
<1>7. CASE ~raced'
  <2>1. ~raced /\ ~flag
    BY <1>7, Zenon DEF SetFlag
  <2>2. \A m \in Asks : ~Running(m)
    BY <2>1 DEF Round, FlagIsHeld
  <2>3. heard = {} /\ heard' = {}
    BY <2>1, <2>2 DEF Round, HeardByTask, Running, SetFlag
  <2>4. OneTask'
    BY <1>2, <2>2 DEF OneTask, Running
  <2>5. QED
    BY <1>3, <1>4, <1>5, <2>3, <2>4 DEF HeardByTask, RepliesWait
<1>8. QED
  BY <1>6, <1>7

(* No answers are left over when a task sends its pings: it is the only one. *)
LEMMA PingAllStep ==
  ASSUME Round, NEW n \in Asks, PingAll(n)
  PROVE  (FlagHasTask /\ TodoInTasks /\ FlagIsHeld /\ OneTask /\ HeardByTask /\ RepliesWait)'
<1>1. /\ pc[n] = "queued" /\ pc'[n] = "wait"
      /\ \A m \in Asks : m # n => pc'[m] = pc[m] /\ todo'[m] = todo[m]
  BY DEF Round, ChannelsTypeOK, PingAll
<1>2. \A m \in Asks : Running(m)' <=> Running(m)
  BY <1>1 DEF Running
<1>3. UNCHANGED <<flag, raced, reply>>
  BY DEF PingAll
<1>4. FlagHasTask' /\ FlagIsHeld' /\ OneTask'
  BY <1>1, <1>2, <1>3 DEF Round, FlagHasTask, FlagIsHeld, OneTask
<1>5. TodoInTasks'
  BY <1>1, <1>2 DEF Round, TodoInTasks, Running
<1>6. ~raced => heard = {}
  BY <1>1 DEF Round, HeardByTask, OneTask, Running
<1>7. ~raced => heard' = {}
  BY <1>6 DEF PingAll
<1>8. QED
  BY <1>3, <1>4, <1>5, <1>7 DEF HeardByTask, RepliesWait

(* A reply that is missing was never there, as no other task took it.       *)
LEMMA CollectStep ==
  ASSUME Round, NEW n \in Asks, NEW t \in Tabs, Collect(n, t)
  PROVE  (FlagHasTask /\ TodoInTasks /\ FlagIsHeld /\ OneTask /\ HeardByTask /\ RepliesWait)'
<1>1. /\ pc[n] \in {"wait", "collect"} /\ pc'[n] = "collect" /\ t \in todo[n]
      /\ todo'[n] = todo[n] \ {t}
      /\ \A m \in Asks : m # n => pc'[m] = pc[m] /\ todo'[m] = todo[m]
  BY DEF Round, ChannelsTypeOK, Collect
<1>2. \A m \in Asks : Running(m)' <=> Running(m)
  BY <1>1 DEF Running
<1>3. UNCHANGED <<flag, raced, heard>>
  BY DEF Collect
<1>4. FlagHasTask' /\ FlagIsHeld' /\ OneTask'
  BY <1>1, <1>2, <1>3 DEF Round, FlagHasTask, FlagIsHeld, OneTask
<1>5. TodoInTasks'
  BY <1>1, <1>2 DEF Round, TodoInTasks
<1>6. HeardByTask'
  BY <1>1, <1>3 DEF Round, HeardByTask
<1>7. RepliesWait'
  <2>1. SUFFICES ASSUME ~raced, NEW u \in heard
                 PROVE  /\ u \in tokens' \/ DroppedAnyway(u)'
                        /\ \A m \in Asks : u \in todo'[m] => u \in reply'
    BY <1>3 DEF RepliesWait
  <2>2. /\ u \in tokens \/ DroppedAnyway(u)
        /\ \A m \in Asks : u \in todo[m] => u \in reply
    BY <2>1 DEF Round, RepliesWait
  <2>3. u \in tokens' \/ DroppedAnyway(u)'
    BY <1>1, <2>2 DEF Collect, tabVars, DroppedAnyway, On
  <2>4. \A m \in Asks : u \in todo'[m] => u \in todo[m] /\ u # t
    BY <1>1, <2>1 DEF Round, TodoInTasks, OneTask, Running
  <2>5. QED
    BY <2>2, <2>3, <2>4 DEF Collect
<1>8. QED
  BY <1>4, <1>5, <1>6, <1>7

(* With a task that is over go its answers.                                 *)
LEMMA GoneStep ==
  ASSUME Round, NEW n \in Asks, NEW next \in {"none", "queued", "lost"}, TaskOver(n, next)
  PROVE  /\ pc'[n] = next /\ todo'[n] = {} /\ heard' = {}
         /\ \A m \in Asks : m # n => pc'[m] = pc[m] /\ todo'[m] = todo[m]
         /\ TodoInTasks'
<1>1. /\ pc'[n] = next /\ todo'[n] = {} /\ heard' = {}
      /\ \A m \in Asks : m # n => pc'[m] = pc[m] /\ todo'[m] = todo[m]
  BY DEF Round, ChannelsTypeOK, TaskOver
<1>2. TodoInTasks'
  BY <1>1 DEF Round, TodoInTasks, Running
<1>3. QED
  BY <1>1, <1>2

LEMMA EndStep ==
  ASSUME Round, NEW n \in Asks, Finally(n) \/ Raises(n)
  PROVE  (FlagHasTask /\ TodoInTasks /\ FlagIsHeld /\ OneTask /\ HeardByTask /\ RepliesWait)'
<1>1. Running(n) /\ TaskOver(n, "none") /\ flag' = FALSE /\ raced' = raced
  BY DEF Finally, Raises, Running
<1>2. /\ pc'[n] = "none" /\ heard' = {} /\ TodoInTasks'
      /\ \A m \in Asks : m # n => pc'[m] = pc[m]
  BY <1>1, GoneStep
<1>3. FlagHasTask' /\ HeardByTask' /\ RepliesWait'
  BY <1>1, <1>2 DEF FlagHasTask, HeardByTask, RepliesWait
<1>4. \A m \in Asks : ~raced => ~Running(m)'
  BY <1>1, <1>2 DEF Round, OneTask, Running
<1>5. FlagIsHeld' /\ OneTask'
  BY <1>1, <1>4 DEF FlagIsHeld, OneTask
<1>6. QED
  BY <1>2, <1>3, <1>5

LEMMA DiesStep ==
  ASSUME Round, NEW n \in Asks, Dies(n)
  PROVE  (FlagHasTask /\ TodoInTasks /\ FlagIsHeld /\ OneTask /\ HeardByTask /\ RepliesWait)'
<1>1. PICK next \in {"queued", "lost"} : TaskOver(n, next)
  BY DEF Dies
<1>2. /\ pc'[n] = next /\ heard' = {} /\ TodoInTasks'
      /\ \A m \in Asks : m # n => pc'[m] = pc[m]
  BY <1>1, GoneStep
<1>3. Running(n) /\ UNCHANGED <<flag, raced>>
  BY DEF Dies
<1>4. \A m \in Asks : Running(m)' => Running(m)
  BY <1>2, <1>3 DEF Running
<1>5. \A m \in Asks : Running(m) \/ pc[m] = "lost" => Running(m)' \/ pc'[m] = "lost"
  BY <1>2 DEF Running
<1>6. FlagHasTask' /\ HeardByTask' /\ RepliesWait'
  BY <1>2, <1>3, <1>5 DEF Round, FlagHasTask, HeardByTask, RepliesWait
<1>7. FlagIsHeld' /\ OneTask'
  BY <1>3, <1>4 DEF Round, FlagIsHeld, OneTask
<1>8. QED
  BY <1>2, <1>6, <1>7

-----------------------------------------------------------------------------
LEMMA RoundStep == Round /\ [ChannelsNext]_channelVars => Round'
<1> SUFFICES ASSUME Round, [ChannelsNext]_channelVars PROVE Round'
  OBVIOUS
<1>1. ChannelsTypeOK'
  BY TypesStep DEF Round
<1>2. CASE UNCHANGED channelVars
  BY <1>2, Zenon DEF channelVars, Round, ChannelsTypeOK, TodoInTasks, FlagHasTask,
     FlagIsHeld, OneTask, HeardByTask, RepliesWait, Running, DroppedAnyway, On
<1>3. CASE ChannelsNext
  <2>1. (FlagHasTask /\ TodoInTasks /\ FlagIsHeld /\ OneTask /\ HeardByTask /\ RepliesWait)'
    BY <1>3, TabStep, AnswerStep, GetFlagStep, SetFlagStep, PingAllStep, CollectStep, EndStep,
       DiesStep, Zenon DEF ChannelsNext, Task
  <2>2. QED
    BY <1>1, <2>1 DEF Round
<1>4. QED
  BY <1>2, <1>3

(* Every state has the declared types.                                      *)
THEOREM PresenceTyped == ChannelsSpec => []ChannelsTypeOK
<1>1. Round => ChannelsTypeOK
  BY DEF Round
<1>2. QED
  BY <1>1, InitRound, RoundStep, PTL DEF ChannelsSpec

(* Whenever the flag is set, a task that will give it back is on its way,   *)
(* unless an instance stopped where nothing gives it back: for any number   *)
(* of requests at once, and races between them.                             *)
THEOREM FlagAlwaysHasTask == ChannelsSpec => []FlagHasTask
<1>1. Round => FlagHasTask
  BY DEF Round
<1>2. QED
  BY <1>1, InitRound, RoundStep, PTL DEF ChannelsSpec

(* A tab that answers while a round waits keeps its token through the round, *)
(* for any tabs, users and requests, unless two requests raced for the flag  *)
(* or its connection was lost and a request dropped it for that.            *)
THEOREM AnswerersKept == ChannelsSpec => []AnswererKept
<1>1. Round => AnswererKept
  BY DEF Round, RepliesWait, AnswererKept
<1>2. QED
  BY <1>1, InitRound, RoundStep, PTL DEF ChannelsSpec
=============================================================================
