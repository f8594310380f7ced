--------------------------- MODULE ProjectRemoval ---------------------------
(***************************************************************************)
(* Deleting a project (models/artifacts/project.py). The request hides it   *)
(* from its owners and from the groups of its organization and queues the   *)
(* rest as a task, which takes the project apart one datastore operation    *)
(* after the other and is tried twice (queue.yaml, projectDel). Two users   *)
(* may ask for it at once, and a publisher's thread                         *)
(* (handlers/background/publish.py) that read the project and one of its    *)
(* documents earlier puts both back when it is done. The task finds what it *)
(* removes by queries without an ancestor, whose indexes lag behind the     *)
(* store: what was put shortly before may not be shown.                     *)
(***************************************************************************)
EXTENDS Naturals, FiniteSets

CONSTANTS
  Docs,         \* the documents of the project
  Distilled,    \* its distilled document, which project.documents does not list
  Items,        \* markers, publications, summaries and presentations
  Doc,          \* the document of each
  Publications, \* those whose delete hook saves their document
  Late,         \* those that a publisher's thread adds
  Roots,        \* the top concepts, each with the subtree below it
  Kept,         \* those that the user may not write
  OrgGroups,    \* groups of the organization that the project is shared with
  OtherGroups,  \* and groups outside it, as that of all users
  RuleGroups,   \* those with a rule in the project's permission; a group may list
                \* the project without one
  Fresh,        \* items and top concepts put so shortly before that a query may or
                \* may not show them
  Requests,
  MaxFaults     \* bound on requests, attempts and threads that stop half way

ASSUME RemovalAssumption ==
  /\ Distilled \in Docs /\ Doc \in [Items -> Docs]
  /\ Late \subseteq Publications /\ Publications \subseteq Items
  /\ Kept \subseteq Roots /\ MaxFaults \in Nat
  /\ RuleGroups \subseteq OrgGroups \cup OtherGroups
  /\ Late \subseteq Fresh /\ Fresh \subseteq Items \cup Roots

VARIABLES
  project,   \* the entity: stored or not, with owners or not, its children
  docs,      \* stored documents
  docRules,  \* stored permissions of documents
  items,     \* stored items
  roots,     \* stored top concepts
  rules,     \* whether the project's permission is stored
  groups,    \* groups with the project among their artifacts
  job,       \* each request, and its task from the second attempt on
  thread,    \* the publisher's thread of each late publication
  faults,
  revived,   \* history: what was put back once the project was hidden
  missed     \* history: what a task passed over because no query showed it

removalVars == <<project, docs, docRules, items, roots, rules, groups, job, thread,
                 faults, revived, missed>>

Project == [stored : BOOLEAN, owned : BOOLEAN, children : SUBSET Roots]
Gone == [stored |-> FALSE, owned |-> FALSE, children |-> {}]
Attempt(pc, tries, self) ==
  [pc |-> pc, tries |-> tries, self |-> self, loaded |-> {}, todo |-> {}, context |-> Gone]
NoJob == Attempt("none", 0, Gone)
NoThread == [pc |-> "none", self |-> Gone]

Job == [pc : {"none", "loaded", "hidden", "cleaned", "docs", "sweep", "delete",
              "children", "roots", "permission", "key", "done", "dropped"},
        tries : 0..1, self : Project, loaded : SUBSET Docs, todo : SUBSET (Docs \cup Roots),
        context : Project]
Thread == [pc : {"none", "read", "stored", "listed", "done"}, self : Project]

TypeOK ==
  /\ project \in Project
  /\ docs \subseteq Docs /\ docRules \subseteq Docs /\ items \subseteq Items
  /\ roots \subseteq Roots /\ groups \subseteq OrgGroups \cup OtherGroups
  /\ rules \in BOOLEAN /\ faults \in Nat
  /\ job \in [Requests -> Job] /\ thread \in [Late -> Thread]
  /\ revived \subseteq {"project"} \cup Docs \cup Items
  /\ missed \subseteq Items \cup Roots

Init ==
  /\ project = [stored |-> TRUE, owned |-> TRUE, children |-> Roots]
  /\ docs = Docs /\ docRules = Docs /\ items = Items \ Late
  /\ roots = Roots /\ rules = TRUE
  /\ groups = OrgGroups \cup OtherGroups
  /\ job = [r \in Requests |-> NoJob]
  /\ thread = [p \in Late |-> NoThread]
  /\ faults = 0 /\ revived = {} /\ missed = {}

Hidden == \E r \in Requests : job[r].pc \notin {"none", "loaded"}
InTask(r) == job[r].pc \in {"docs", "sweep", "delete", "children", "roots", "permission", "key"}
GoOn(r, pc) == job' = [job EXCEPT ![r].pc = pc]
-----------------------------------------------------------------------------
(* The request.                                                            *)

\* ProjectHandler.delete finds the project and lets the user delete it.
Load(r) ==
  /\ job[r].pc = "none" /\ project.stored
  /\ job' = [job EXCEPT ![r].pc = "loaded", ![r].self = [project EXCEPT !.owned = FALSE]]
  /\ UNCHANGED <<project, docs, docRules, items, roots, rules, groups, thread, faults, revived, missed>>

Hide(r) ==
  /\ job[r].pc = "loaded"
  /\ project' = job[r].self
  /\ GoOn(r, "hidden")
  /\ revived' = revived \cup (IF project.stored THEN {} ELSE {"project"})
  /\ UNCHANGED <<docs, docRules, items, roots, rules, groups, thread, faults, missed>>

ForgetInGroups(r) ==
  /\ job[r].pc = "hidden"
  /\ groups' = groups \ OrgGroups
  /\ GoOn(r, "cleaned")
  /\ UNCHANGED <<project, docs, docRules, items, roots, rules, thread, faults, revived, missed>>

\* Variant: the task is queued before the groups are put.
DeferFirst(r) ==
  /\ job[r].pc = "hidden"
  /\ GoOn(r, "docs")
  /\ UNCHANGED <<project, docs, docRules, items, roots, rules, groups, thread, faults, revived, missed>>

Defer(r) ==
  /\ job[r].pc = "cleaned"
  /\ GoOn(r, "docs")
  /\ UNCHANGED <<project, docs, docRules, items, roots, rules, groups, thread, faults, revived, missed>>
-----------------------------------------------------------------------------
(* The task.                                                               *)

\* Variant: the distilled document is not appended.
ToDeleteListed == Docs \ {Distilled}

\* The documents of the pickled project, the distilled one among them.
ToDelete == (Docs \ {Distilled}) \cup {Distilled}

GetDocuments(r) ==
  /\ job[r].pc = "docs"
  /\ job' = [job EXCEPT ![r].pc = "sweep", ![r].loaded = ToDelete \cap docs,
                        ![r].todo = ToDelete]
  /\ UNCHANGED <<project, docs, docRules, items, roots, rules, groups, thread, faults, revived, missed>>

\* What hangs on document d goes, one item after the other. The hook of a
\* publication saves the document as the task read it when it lists the
\* publication, which it does not yet while a thread is at it.
Sweep(r, d, i) ==
  /\ job[r].pc = "sweep" /\ d \in job[r].todo \cap job[r].loaded
  /\ i \in items /\ Doc[i] = d
  /\ items' = items \ {i}
  /\ \/ /\ i \in Publications
        /\ docs' = docs \cup {d}
        /\ revived' = revived \cup ({d} \ docs)
     \/ /\ i \notin Publications \/ i \in Late
        /\ UNCHANGED <<docs, revived>>
  /\ UNCHANGED <<project, docRules, roots, rules, groups, job, thread, faults, missed>>

\* Variant: each document goes as soon as it is swept.
SweptAndDeleted(r, d) ==
  /\ job[r].pc = "sweep" /\ d \in job[r].todo \cap job[r].loaded
  /\ \A i \in items : Doc[i] # d
  /\ job' = [job EXCEPT ![r].todo = @ \ {d}]
  /\ docs' = docs \ {d}
  /\ UNCHANGED <<project, docRules, items, roots, rules, groups, thread, faults, revived, missed>>

\* The queries show no more: what is left of document d is missed.
Swept(r, d) ==
  LET unseen == {i \in items : Doc[i] = d} IN
  /\ job[r].pc = "sweep" /\ d \in job[r].todo \cap job[r].loaded
  /\ unseen \subseteq Fresh
  /\ missed' = missed \cup unseen
  /\ job' = [job EXCEPT ![r].todo = @ \ {d}]
  /\ UNCHANGED <<project, docs, docRules, items, roots, rules, groups, thread, faults, revived>>

DeleteRules(r) ==
  /\ job[r].pc = "sweep" /\ job[r].todo = {}
  /\ docRules' = docRules \ job[r].loaded
  /\ GoOn(r, "delete")
  /\ UNCHANGED <<project, docs, items, roots, rules, groups, thread, faults, revived, missed>>

DeleteDocuments(r) ==
  /\ job[r].pc = "delete"
  /\ docs' = docs \ ToDelete
  /\ GoOn(r, "children")
  /\ UNCHANGED <<project, docRules, items, roots, rules, groups, thread, faults, revived, missed>>

(* get_children removes concepts that the query does not show from the list *)
(* of the pickled project and saves it; the entity then stays in the context *)
(* of the task. It removes one at least, and which others depends on their   *)
(* order (Repaired of ChildList), which is left out here.                   *)
GetChildren(r) ==
  /\ job[r].pc = "children"
  /\ \E shown \in SUBSET roots, removed \in SUBSET Roots :
       LET dead == job[r].self.children \ shown
           repaired == [job[r].self EXCEPT !.children = @ \ removed]
       IN
       /\ roots \ shown \subseteq Fresh
       /\ removed \subseteq dead /\ (removed = {} => dead = {})
       /\ missed' = missed \cup (roots \ shown)
       /\ job' = [job EXCEPT ![r].pc = "roots", ![r].todo = shown,
                             ![r].context = IF removed = {} THEN @ ELSE repaired]
       /\ project' = IF removed = {} THEN project ELSE repaired
       /\ revived' = revived \cup (IF project'.stored /\ ~project.stored THEN {"project"} ELSE {})
  /\ UNCHANGED <<docs, docRules, items, roots, rules, groups, thread, faults>>

\* rdelete takes a top concept and what is below it from the project that the
\* task has in its context, or reads; a concept the user may not write stays.
Rdelete(r, c) ==
  LET pro == IF job[r].context.stored THEN job[r].context ELSE project
      without == [pro EXCEPT !.children = @ \ {c}]
  IN
  /\ job[r].pc = "roots" /\ c \in job[r].todo
  /\ IF c \in Kept
     THEN /\ rules
          /\ job' = [job EXCEPT ![r].todo = @ \ {c}]
          /\ UNCHANGED <<project, roots, revived>>
     ELSE /\ pro.stored
          /\ roots' = roots \ {c}
          /\ job' = [job EXCEPT ![r].todo = @ \ {c}, ![r].context = without]
          /\ project' = IF c \in pro.children THEN without ELSE project
          /\ revived' = revived \cup (IF project'.stored /\ ~project.stored
                                      THEN {"project"} ELSE {})
  /\ UNCHANGED <<docs, docRules, items, rules, groups, thread, faults, missed>>

\* get_groups asks the rules, so a group that lists the project without one goes on.
GroupsOfRules(r) ==
  /\ job[r].pc = "roots" /\ job[r].todo = {} /\ rules
  /\ groups' = groups \ RuleGroups
  /\ GoOn(r, "permission")
  /\ UNCHANGED <<project, docs, docRules, items, roots, rules, thread, faults, revived, missed>>

DeletePermission(r) ==
  /\ job[r].pc = "permission"
  /\ rules' = FALSE
  /\ GoOn(r, "key")
  /\ UNCHANGED <<project, docs, docRules, items, roots, groups, thread, faults, revived, missed>>

DeleteProject(r) ==
  /\ job[r].pc = "key"
  /\ project' = Gone
  /\ GoOn(r, "done")
  /\ UNCHANGED <<docs, docRules, items, roots, rules, groups, thread, faults, revived, missed>>
-----------------------------------------------------------------------------
\* A task that raised is tried once more, from the project as it was pickled.
Retried(r) ==
  job' = [job EXCEPT ![r] =
    Attempt(IF job[r].tries = 0 THEN "docs" ELSE "dropped", 1, job[r].self)]

(* What is gone raises: a document in the loop, the permission that tells   *)
(* the groups, and in rdelete that permission or the concept's phrasings    *)
(* when they are asked for, and the project it is removed from.             *)
Raise(r) ==
  /\ \/ job[r].pc = "sweep" /\ ~(job[r].todo \subseteq job[r].loaded)
     \/ job[r].pc = "roots" /\ job[r].todo = {} /\ ~rules
     \/ /\ job[r].pc = "roots" /\ job[r].todo # {}
        /\ \/ ~rules \/ ~(job[r].todo \subseteq roots)
           \/ ~(project.stored \/ job[r].context.stored)
  /\ Retried(r)
  /\ UNCHANGED <<project, docs, docRules, items, roots, rules, groups, thread, faults, revived, missed>>

TaskFails(r) ==
  /\ InTask(r) /\ faults < MaxFaults
  /\ Retried(r)
  /\ faults' = faults + 1
  /\ UNCHANGED <<project, docs, docRules, items, roots, rules, groups, thread, revived, missed>>

\* One that stops before its first put changes nothing.
RequestFails(r) ==
  /\ job[r].pc \in {"hidden", "cleaned"} /\ faults < MaxFaults
  /\ GoOn(r, "dropped")
  /\ faults' = faults + 1
  /\ UNCHANGED <<project, docs, docRules, items, roots, rules, groups, thread, revived, missed>>
-----------------------------------------------------------------------------
(* A publisher's thread: publication, document, project.                   *)

Publish(p) ==
  /\ thread[p].pc = "none" /\ project.stored /\ Doc[p] \in docs
  /\ thread' = [thread EXCEPT ![p] = [pc |-> "read", self |-> project]]
  /\ UNCHANGED <<project, docs, docRules, items, roots, rules, groups, job, faults, revived, missed>>

Store(p) ==
  /\ thread[p].pc = "read"
  /\ items' = items \cup {p}
  /\ thread' = [thread EXCEPT ![p].pc = "stored"]
  /\ revived' = revived \cup (IF Hidden THEN {p} ELSE {})
  /\ UNCHANGED <<project, docs, docRules, roots, rules, groups, job, faults, missed>>

List(p) ==
  /\ thread[p].pc = "stored"
  /\ docs' = docs \cup {Doc[p]}
  /\ thread' = [thread EXCEPT ![p].pc = "listed"]
  /\ revived' = revived \cup ({Doc[p]} \ docs)
  /\ UNCHANGED <<project, docRules, items, roots, rules, groups, job, faults, missed>>

SaveProject(p) ==
  /\ thread[p].pc = "listed"
  /\ project' = thread[p].self
  /\ thread' = [thread EXCEPT ![p].pc = "done"]
  /\ revived' = revived \cup (IF Hidden THEN {"project"} ELSE {})
  /\ UNCHANGED <<docs, docRules, items, roots, rules, groups, job, faults, missed>>

ThreadFails(p) ==
  /\ thread[p].pc \in {"read", "stored", "listed"} /\ faults < MaxFaults
  /\ thread' = [thread EXCEPT ![p].pc = "done"]
  /\ faults' = faults + 1
  /\ UNCHANGED <<project, docs, docRules, items, roots, rules, groups, job, revived, missed>>
-----------------------------------------------------------------------------
Step(r) ==
  \/ Hide(r) \/ ForgetInGroups(r) \/ Defer(r)
  \/ GetDocuments(r) \/ DeleteRules(r) \/ DeleteDocuments(r)
  \/ \E d \in Docs : Swept(r, d) \/ \E i \in Items : Sweep(r, d, i)
  \/ GetChildren(r) \/ \E c \in Roots : Rdelete(r, c)
  \/ GroupsOfRules(r) \/ DeletePermission(r) \/ DeleteProject(r)
  \/ Raise(r)

Next ==
  \/ \E r \in Requests : Load(r) \/ Step(r) \/ TaskFails(r) \/ RequestFails(r)
  \/ \E p \in Late : Publish(p) \/ Store(p) \/ List(p) \/ SaveProject(p) \/ ThreadFails(p)

(* A request or a task that was begun goes on.                             *)
Fairness == \A r \in Requests : WF_removalVars(Step(r))

Spec == Init /\ [][Next]_removalVars /\ Fairness
-----------------------------------------------------------------------------
(* What delete_project leaves behind of the documents, of what hangs on them *)
(* and of the concepts when the project is gone, whatever failed on the way, *)
(* however two tasks got in each other's way, and even while the other is    *)
(* still at work: the concepts the user may not write, what somebody else    *)
(* put back meanwhile, and what was put so shortly before that the indexes   *)
(* did not show it. No group with a rule and none of the organization lists  *)
(* the project any more; one that lists it without a rule still does.        *)
NothingLeft ==
  ~project.stored =>
    /\ docs \subseteq revived /\ items \subseteq revived \cup missed
    /\ docRules = {} /\ roots \subseteq Kept \cup missed
    /\ ~rules /\ groups \cap (OrgGroups \cup RuleGroups) = {}

(* Owners and the groups of the organization are shown the project whole or *)
(* not at all: delete takes it from their lists before the task is queued,   *)
(* which removes documents long before it removes the project. Only a        *)
(* thread that puts the project back shows it again.                        *)
ShownIsWhole ==
  (project.stored /\ "project" \notin revived /\ (project.owned \/ groups \cap OrgGroups # {})) =>
    /\ docs = Docs /\ docRules = Docs /\ roots = Roots /\ rules

(* The retry that queue.yaml allows makes good for a first attempt that     *)
(* failed before delete_multi, however much of the sweep it had done; once   *)
(* documents are gone no attempt can, as the loop raises on the first.      *)
OnlyTask(r) == \A q \in Requests \ {r} : job[q].pc = "none"
RetryHeals ==
  \A r \in Requests :
    (job[r].pc = "docs" /\ job[r].tries = 1 /\ docRules = Docs /\ faults = MaxFaults /\ OnlyTask(r))
      ~> (~project.stored \/ ~OnlyTask(r))
=============================================================================
