--------------------------- MODULE MCConceptTree ---------------------------
(* Small instances of ConceptTree: four concepts without links, or three   *)
(* with one link. A uuid is never reused, so the number of concepts and of *)
(* link ids bounds how often a request may create one.                     *)
EXTENDS ConceptTree
CONSTANTS a, b, c, d, k

MCThree == {a, b, c}
MCFour == {a, b, c, d}
MCProtected == {a}
MCOne == {k}
MCNone == {}

MCConceptSymmetry == Permutations(Concepts \ Protected)
MCSymmetry == {f @@ g : f \in MCConceptSymmetry, g \in Permutations(LinkIds)}
=============================================================================
