--------------------------- MODULE ConceptForest ---------------------------
(***************************************************************************)
(* What the concept tree of one project promises, without lists, links or  *)
(* permissions: every stored concept points to the project or to a concept *)
(* (Concept.parent, None for the project), and the handlers of             *)
(* handlers/artifacts/concept.py create, move and delete concepts.         *)
(* ConceptTree refines this module.                                        *)
(***************************************************************************)
EXTENDS Naturals

CONSTANTS
  Concepts,   \* keys a request may create; a uuid is never used twice
  Project,    \* key of the project, the root of the tree
  Protected   \* concepts a collaborator without write permission cannot delete

\* Assumed by the theorems about this module; ConceptTree assumes more.
ForestAssumption == Project \notin Concepts /\ Protected \subseteq Concepts

VARIABLES
  used,       \* keys handed out so far
  live,       \* concepts in the datastore
  parent,     \* Concept.parent; Project stands for None
  orphans     \* Project.orphan_concept

forestVars == <<used, live, parent, orphans>>

Nodes == Concepts \cup {Project}

TypeOK ==
  /\ used \in SUBSET Concepts
  /\ live \in SUBSET used
  /\ parent \in [Concepts -> Nodes]
  /\ orphans \in SUBSET used

Init ==
  /\ used = {}
  /\ live = {}
  /\ parent = [c \in Concepts |-> Project]
  /\ orphans = {}

\* Sets of stored concepts that contain the children of their members, the
\* locked ones excepted.
ClosedUnder(S, locked) ==
  \A y \in live \ locked : parent[y] \in S => y \in S

\* The concepts get_children reaches from c without passing a locked one.
Reach(c, locked) ==
  {x \in live : \A S \in SUBSET live :
                   (c \in S /\ ClosedUnder(S, locked)) => x \in S}

Subtree(c) == Reach(c, {})

Create(c, p) ==
  /\ c \notin used
  /\ p \in live \cup {Project}
  /\ used' = used \cup {c}
  /\ live' = live \cup {c}
  /\ parent' = [parent EXCEPT ![c] = p]
  /\ UNCHANGED orphans

\* A move checked on the tree it meets: the browser takes a concept nowhere below
\* itself. The server does not check, see ConceptTree.
Move(c, p) ==
  /\ c \in live
  /\ p \in live \cup {Project}
  /\ p \notin Subtree(c)
  /\ parent' = [parent EXCEPT ![c] = p]
  /\ UNCHANGED <<used, live, orphans>>

\* rdelete stops at the concepts the caller may not write and leaves them, with
\* everything below them, as orphans.
Delete(c, locked) ==
  LET removed == Reach(c, locked) IN
  /\ c \in live \ locked
  /\ live' = live \ removed
  /\ parent' = [x \in Concepts |-> IF x \in removed THEN Project ELSE parent[x]]
  /\ orphans' = orphans \cup {y \in live \cap locked : parent[y] \in removed}
  /\ UNCHANGED used

Next ==
  \/ \E c \in Concepts, p \in Nodes : Create(c, p) \/ Move(c, p)
  \/ \E c \in Concepts, locked \in {{}, Protected} : Delete(c, locked)

Spec == Init /\ [][Next]_forestVars

-----------------------------------------------------------------------------
(* No group of stored concepts hangs from itself: from each one the parent  *)
(* pointers lead out, so Concept.depth and get_parent_id_list, which follow *)
(* them in a loop, end.                                                     *)
Acyclic ==
  \A S \in SUBSET live : S # {} => \E x \in S : parent[x] \notin S

(* A stored concept whose parent was deleted is recorded in the project's   *)
(* orphan_concept, the only place that still names it.                      *)
OrphansRecorded ==
  \A x \in live :
    parent[x] \notin live \cup {Project} => x \in orphans

(* A step that removes concepts removes one concept and only concepts below *)
(* it: nothing outside the deleted subtree disappears.                      *)
DeletesOneSubtree ==
  [][live \ live' # {} =>
       \E c \in live \ live' : live \ live' \subseteq Subtree(c)]_forestVars

=============================================================================
