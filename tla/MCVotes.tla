------------------------------ MODULE MCVotes ------------------------------
(* Two users vote on a project and one of its concepts.                    *)
EXTENDS Votes, TLC
CONSTANTS u, v, c, s1, s2

MCUsers == {u, v}
MCConcepts == {c}
MCOneSlot == {s1}
MCTwoSlots == {s1, s2}
MCNone == {}
MCHasty == {u}
MCSymmetry == Permutations(Users \ Hasty)
MCSlotSymmetry == Permutations(Slots)
=============================================================================
