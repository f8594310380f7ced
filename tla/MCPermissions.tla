--------------------------- MODULE MCPermissions ---------------------------
(* A project without organization and a document in it with one, whose      *)
(* annotations fall back to read.                                           *)
EXTENDS Permissions, TLC
CONSTANTS doc, g, h, s1, s2

MCArtifacts == {Project, doc}
MCChain == (Project :> <<>>) @@ (doc :> <<Project>>)
MCOperations == (Project :> <<"read">>) @@ (doc :> <<"read", "annotation_read">>)
MCAlternative ==
  (Project :> [op \in {"read", "annotation_read"} |-> None])
    @@ (doc :> [op \in {"read", "annotation_read"} |-> "read"])
MCOrganized == {doc}
MCGroups == {g, h}
MCSlots == {s1, s2}
MCSymmetry == {f @@ k : f \in Permutations(Groups), k \in Permutations(Slots)}
=============================================================================
