-------------------------- MODULE MCProjectRemoval --------------------------
(* Two documents, one with a publication and a marker, a concept of either  *)
(* kind, two requests and a publisher's thread on either side of them; a     *)
(* group outside the organization without a rule (guests).                  *)
EXTENDS ProjectRemoval
CONSTANTS d1, d2, mark, old, new, c1, c2, g1, world, guests, q1, q2

MCDocs == {d1, d2}
MCItems == {mark, old, new}
MCDoc == [i \in MCItems |-> IF i = mark THEN d2 ELSE d1]
MCPublications == {old, new}
MCLate == {new}
MCRoots == {c1, c2}
MCKept == {c2}
MCOrgGroups == {g1}
MCOtherGroups == {world, guests}
MCRuleGroups == {g1, world}
MCFresh == {new, c1}
MCRequests == {q1, q2}
=============================================================================
