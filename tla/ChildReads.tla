----------------------------- MODULE ChildReads -----------------------------
(***************************************************************************)
(* Repeated get_children calls on one node whose list went wrong: keys of  *)
(* deleted concepts, duplicates, children missing from the list. The list  *)
(* lags behind because concurrent requests save whole entities; meanwhile  *)
(* the children themselves do not change here.                             *)
(***************************************************************************)
EXTENDS ChildList

CONSTANTS
  Keys,    \* concept keys a list may name
  MaxLen   \* bound on the length of the list at the start

ASSUME ReadsAssumption == MaxLen \in Nat /\ IsFiniteSet(Keys)

VARIABLES
  stored,    \* the stored children of the node
  named,     \* its list now
  answer     \* what the last read returned

readVars == <<stored, named, answer>>

ReadsInit ==
  /\ stored \in SUBSET Keys
  /\ named \in BoundedSeq(Keys, MaxLen)
  /\ answer = <<>>

\* Concept.get_children and Project.get_children.
GetChildren ==
  /\ answer' \in Returned(named, stored)
  /\ named' = Repaired(named, stored)
  /\ UNCHANGED stored

ReadsNext == GetChildren

(* Every client that opens the project, and every create or move below the  *)
(* node, reads its children: as long as the project is used reads recur.    *)
ReadsSpec == ReadsInit /\ [][ReadsNext]_readVars /\ WF_readVars(GetChildren)

-----------------------------------------------------------------------------
\* x stands before y in s, each taken where it first occurs.
Before(s, x, y) == PyIndex(s, x) < PyIndex(s, y)

(* A read answers with all stored children, each once, and however the dead *)
(* keys were skipped and wherever duplicates stood, it neither drops a child *)
(* from the list nor moves one past another.                                *)
LosesNothing ==
  [][/\ ToSet(answer') = stored /\ Len(answer') = Cardinality(stored)
     /\ ToSet(named') \cap stored = ToSet(named) \cap stored
     /\ \A x, y \in ToSet(named') \cap stored :
          Before(named', x, y) <=> Before(named, x, y)]_readVars

(* Reading often enough rids the list of dead keys and duplicates for good. *)
EventuallyRepaired == <>[](ToSet(named) \subseteq stored /\ IsInjective(named))
=============================================================================
