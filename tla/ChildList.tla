----------------------------- MODULE ChildList -----------------------------
(***************************************************************************)
(* The children list of a Concept or a Project: a Python list of keys,     *)
(* indexed from 0, and the loop of get_children that repairs it against    *)
(* the concepts whose parent pointer names the node.                       *)
(***************************************************************************)
EXTENDS SequencesExt

\* list.index and list.insert; an index past the end appends.
PyIndex(list, x) == SelectInSeq(list, LAMBDA e : e = x) - 1

PyInsert(list, index, x) ==
  InsertAt(list, (IF index < Len(list) THEN index ELSE Len(list)) + 1, x)

\* What list has at the given positions, in its order.
Picked(list, positions) ==
  FoldLeftDomain(LAMBDA kept, i : IF i \in positions THEN Append(kept, list[i]) ELSE kept,
                 <<>>, list)

\* Variant: keep the last occurrence.
DedupLast(list) ==
  Picked(list, {i \in DOMAIN list : \A j \in (i + 1)..Len(list) : list[j] # list[i]})

\* _check_children_dups: keep the first occurrence of every key.
Dedup(list) ==
  Picked(list, {i \in DOMAIN list : \A j \in 1..(i - 1) : list[j] # list[i]})

(* get_children walks the list while removing dead keys from it: after a    *)
(* removal the iterator skips the key that slid into the freed place.       *)
Visited(list, kids) ==
  LET at[i \in 1..Len(list)] ==
        i = 1 \/ ~(at[i - 1] /\ list[i - 1] \notin kids)
  IN  {i \in 1..Len(list) : at[i]}

Living(list, kids) == {i \in DOMAIN list : list[i] \in kids}

\* Variant: the repair is not saved.
RepairedUnsaved(list, kids) == list

\* Variant: the walk starts at the back, where removing skips nothing, and a list
\* that lost a key is left in the order of the walk.
RepairedFromBack(list, kids) ==
  LET distinct == Dedup(list)
      living == Living(distinct, kids)
  IN  IF living = DOMAIN distinct THEN distinct ELSE Reverse(Picked(distinct, living))

\* What the list holds afterwards: unvisited dead keys survive the call.
Repaired(list, kids) ==
  LET distinct == Dedup(list) IN
  Picked(distinct, Living(distinct, kids) \cup (DOMAIN distinct \ Visited(distinct, kids)))

\* The children the walk visits, in order. get_children returns them, then the
\* other ones of kids in the arbitrary order of dict.values().
Listed(list, kids) ==
  LET distinct == Dedup(list) IN
  Picked(distinct, Living(distinct, kids) \cap Visited(distinct, kids))

Returned(list, kids) ==
  {Listed(list, kids) \o rest :
     rest \in SetToSeqs(kids \ ToSet(Listed(list, kids)))}

\* get_concept_index: the position in the returned list, its length when absent.
ConceptIndexes(list, kids, x) ==
  {IF Contains(r, x) THEN PyIndex(r, x) ELSE Len(r) : r \in Returned(list, kids)}
=============================================================================
