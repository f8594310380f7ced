---------------------------- MODULE MCPhrasings ----------------------------
(* A project with its distilled document, another one, and its summary.    *)
EXTENDS Phrasings, TLC
CONSTANTS doc, sum, s1, s2

MCPlaces == {doc, sum}
MCKind == (doc :> "document") @@ (sum :> "summary")
MCSlots == {s1, s2}
MCSymmetry == Permutations(Slots)
=============================================================================
