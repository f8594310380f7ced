------------------------- MODULE ConceptTreeProofs -------------------------
(***************************************************************************)
(* Theorems about the concept tree, for every set of concepts, protected    *)
(* concepts and link ids.                                                   *)
(*   - The pointers: whatever the lists and links look like, requests       *)
(*     create, move and delete concepts as ConceptForest does, late moves   *)
(*     apart. A browser's check holds until the next move is saved, so that *)
(*     without late moves there are no cycles. Orphans are recorded.        *)
(*   - Types of the detailed tree. Lists are built by folds and the         *)
(*     permissions along the tree, so this part begins with induction over  *)
(*     numbers, finite sets and pointers.                                   *)
(*   - Without links and late moves: exact lists, inheritance along the     *)
(*     ancestors, places.                                                   *)
(*   - Reads of a damaged list lose nothing (ChildReads).                   *)
(*   - The order of siblings, with links, dead keys and failed moves.       *)
(***************************************************************************)
EXTENDS ConceptTree, ChildReads, FiniteSetTheorems, SequenceTheorems, WellFoundedInduction, TLAPS

-----------------------------------------------------------------------------
(* Subtrees.                                                               *)

(* Reach(c, locked) is contained in every closed set around c.             *)
LEMMA ReachIsLeast ==
  ASSUME NEW c, NEW locked, NEW S \in SUBSET live, c \in S, Forest!ClosedUnder(S, locked)
  PROVE  Forest!Reach(c, locked) \subseteq S
  BY DEF Forest!Reach

(* A stored concept reaches itself.                                        *)
LEMMA ReachContainsRoot ==
  ASSUME NEW c \in live, NEW locked
  PROVE  c \in Forest!Reach(c, locked)
  BY DEF Forest!Reach

(* The children of a member are members, unless they are locked.           *)
LEMMA ReachIsClosed ==
  ASSUME NEW c, NEW locked, NEW y \in live \ locked, parent[y] \in Forest!Reach(c, locked)
  PROVE  y \in Forest!Reach(c, locked)
<1> SUFFICES ASSUME NEW S \in SUBSET live, c \in S, Forest!ClosedUnder(S, locked)
             PROVE  y \in S
  BY DEF Forest!Reach
<1>1. parent[y] \in S
  BY ReachIsLeast
<1>2. QED
  BY <1>1 DEF Forest!ClosedUnder

(* With fewer locked concepts more is reached; so a subtree contains all   *)
(* that a delete removes.                                                  *)
LEMMA ReachInSubtree ==
  ASSUME NEW c, NEW locked
  PROVE  Forest!Reach(c, locked) \subseteq Forest!Subtree(c)
<1> SUFFICES ASSUME NEW x \in Forest!Reach(c, locked),
                    NEW S \in SUBSET live, c \in S, Forest!ClosedUnder(S, {})
             PROVE  x \in S
  BY DEF Forest!Subtree, Forest!Reach
<1>1. Forest!ClosedUnder(S, locked)
  BY DEF Forest!ClosedUnder
<1>2. QED
  BY <1>1, ReachIsLeast

-----------------------------------------------------------------------------
(* What the requests do to the pointers.                                   *)

AnyMove(c, p) ==
  /\ c \in live /\ p \in Stored
  /\ parent' = [parent EXCEPT ![c] = p]
  /\ UNCHANGED <<used, live, orphans>>

Pointers ==
  \/ \E c \in Concepts, p \in Nodes : Forest!Create(c, p) \/ AnyMove(c, p)
  \/ \E c \in Concepts, locked \in {{}, Protected} : Forest!Delete(c, locked)
  \/ UNCHANGED forestVars

(* The two definitions of what a delete reaches agree.                     *)
LEMMA SameReach ==
  ASSUME NEW c, NEW locked
  PROVE  Reach(c, locked) = Forest!Reach(c, locked)
  BY DEF Reach, Forest!Reach, Forest!ClosedUnder

LEMMA SameSubtree ==
  ASSUME NEW c
  PROVE  Subtree(c) = Forest!Subtree(c)
  BY SameReach DEF Subtree, Forest!Subtree

LEMMA InitRefines == Init => Forest!Init
  BY DEF Init, Forest!Init

(* Every request but a move leaves the pointers alone or does what the      *)
(* forest does.                                                             *)
LEMMA OtherSteps ==
  ASSUME [Next]_treeVars
  PROVE  \/ \E c \in Concepts, p \in Nodes, s \in Concepts \cup {NoSibling} : Move(c, p, s)
         \/ \E c \in Concepts, p \in Nodes : Forest!Create(c, p)
         \/ \E c \in Concepts, locked \in {{}, Protected} : Forest!Delete(c, locked)
         \/ UNCHANGED forestVars
<1>1. ASSUME NEW c \in Concepts, NEW p \in Nodes, NEW s, Create(c, p, s)
      PROVE  Forest!Create(c, p)
  BY <1>1 DEF Create, Forest!Create, Stored
<1>2. ASSUME NEW c \in Concepts, NEW locked \in {{}, Protected}, Delete(c, locked)
      PROVE  Forest!Delete(c, locked)
  BY <1>2, SameReach DEF Delete, Forest!Delete
<1>3. ASSUME NEW c \in Concepts, NEW p \in Nodes, NEW s, NEW l,
             MoveFails(c, p, s) \/ MoveLink(c, l, p, s) \/ Link(c, l, p, s) \/ Unlink(c, l)
      PROVE  UNCHANGED forestVars
  BY <1>3 DEF MoveFails, MoveLink, Link, Unlink
<1>4. ASSUME NEW c, NEW p, Ask(c, p) \/ Withdraw(c, p)
      PROVE  UNCHANGED forestVars
  BY <1>4 DEF Ask, Withdraw
<1>5. ASSUME NEW n, NEW hidden, ReadChildren(n) \/ ServeProject(hidden)
      PROVE  UNCHANGED forestVars
  BY <1>5 DEF ReadChildren, ServeProject
<1>6. CASE UNCHANGED treeVars
  BY <1>6 DEF treeVars
<1>7. CASE \E c \in Concepts, p \in Nodes, s \in Concepts \cup {NoSibling} :
              \/ Create(c, p, s) \/ Move(c, p, s) \/ MoveFails(c, p, s)
              \/ \E l \in LinkIds : Link(c, l, p, s) \/ MoveLink(c, l, p, s)
  BY <1>1, <1>3, <1>7, Zenon
<1>8. CASE \E c \in Concepts, l \in LinkIds : Unlink(c, l)
  <2>1. PICK c \in Concepts, l \in LinkIds : Unlink(c, l)
    BY <1>8
  <2>2. QED
    BY <2>1 DEF Unlink
<1>9. CASE \E c \in Concepts, locked \in {{}, Protected} : Delete(c, locked)
  BY <1>2, <1>9, Zenon
<1>10. CASE \/ \E c \in Concepts, p \in Nodes : Ask(c, p) \/ Withdraw(c, p)
            \/ \E n \in Nodes : ReadChildren(n)
            \/ \E hidden \in {{}, Protected} : ServeProject(hidden)
  BY <1>4, <1>5, <1>10, Zenon
<1>11. QED
  BY <1>6, <1>7, <1>8, <1>9, <1>10 DEF Next

LEMMA NextPointers ==
  ASSUME [Next]_treeVars
  PROVE  Pointers
<1>1. ASSUME NEW c \in Concepts, NEW p \in Nodes, NEW s, Move(c, p, s)
      PROVE  AnyMove(c, p)
  BY <1>1 DEF Move, MayMove, AnyMove
<1>2. QED
  BY <1>1, OtherSteps, Zenon DEF Pointers

-----------------------------------------------------------------------------
(* Types of the pointers. A new concept is a leaf only if nothing points to *)
(* it yet: stored concepts point to keys that were used, hence never to a   *)
(* new one.                                                                 *)

ParentsUsed == \A x \in live : parent[x] \in used \cup {Project}

PointersTyped == Forest!TypeOK /\ ParentsUsed

LEMMA PointersInit == Init => PointersTyped
<1>1. Init => parent \in [Concepts -> Nodes] /\ used = {} /\ live = {} /\ orphans = {}
  BY DEF Init, Nodes
<1>2. QED
  BY <1>1 DEF PointersTyped, ParentsUsed, Forest!TypeOK, Forest!Nodes, Nodes

LEMMA PointersKept ==
  ASSUME PointersTyped, Pointers
  PROVE  PointersTyped'
<1> USE DEF PointersTyped, ParentsUsed, Forest!TypeOK, Forest!Nodes
<1>1. ASSUME NEW c \in Concepts, NEW p \in Nodes, Forest!Create(c, p)
      PROVE  PointersTyped'
  BY <1>1 DEF Forest!Create, Nodes
<1>2. ASSUME NEW c \in Concepts, NEW p \in Nodes, AnyMove(c, p)
      PROVE  PointersTyped'
  BY <1>2 DEF AnyMove, Stored, Nodes
<1>3. ASSUME NEW c \in Concepts, NEW locked \in {{}, Protected}, Forest!Delete(c, locked)
      PROVE  PointersTyped'
  BY <1>3 DEF Forest!Delete
<1>4. CASE UNCHANGED forestVars
  BY <1>4 DEF forestVars
<1> HIDE DEF PointersTyped
<1>5. QED
  BY <1>1, <1>2, <1>3, <1>4 DEF Pointers

-----------------------------------------------------------------------------
(* Acyclicity.                                                             *)

LEMMA CreateAcyclic ==
  ASSUME PointersTyped, Forest!Acyclic, NEW c \in Concepts, NEW p, Forest!Create(c, p)
  PROVE  Forest!Acyclic'
<1> USE DEF PointersTyped, Forest!TypeOK
<1> SUFFICES ASSUME NEW S \in SUBSET live', S # {}
             PROVE  \E x \in S : parent'[x] \notin S
  BY DEF Forest!Acyclic
<1>1. CASE c \notin S
  <2>1. S \in SUBSET live
    BY <1>1 DEF Forest!Create
  <2>2. PICK x \in S : parent[x] \notin S
    BY <2>1 DEF Forest!Acyclic
  <2>3. parent'[x] = parent[x]
    BY <1>1, <2>1 DEF Forest!Create
  <2>4. QED
    BY <2>2, <2>3
<1>2. CASE c \in S /\ S = {c}
  <2>1. parent'[c] = p /\ p # c
    BY TreeAssumption DEF Forest!Create
  <2>2. QED
    BY <1>2, <2>1
<1>3. CASE c \in S /\ S # {c}
  <2> DEFINE T == S \ {c}
  <2>1. T \in SUBSET live /\ T # {}
    BY <1>3 DEF Forest!Create
  <2>2. PICK x \in T : parent[x] \notin T
    BY <2>1 DEF Forest!Acyclic
  <2>3. parent[x] # c /\ parent'[x] = parent[x]
    BY <2>1, TreeAssumption DEF Forest!Create, ParentsUsed
  <2>4. QED
    BY <2>2, <2>3
<1>4. QED
  BY <1>1, <1>2, <1>3

(* Moving c below p is safe when p is outside the subtree of c: what of a  *)
(* group that hangs from itself lies outside that subtree would have hung  *)
(* from itself before.                                                     *)
LEMMA MoveAcyclic ==
  ASSUME PointersTyped, Forest!Acyclic, NEW c \in Concepts, NEW p, AnyMove(c, p),
         p \notin Forest!Subtree(c)
  PROVE  Forest!Acyclic'
<1> USE DEF PointersTyped, Forest!TypeOK
<1> SUFFICES ASSUME NEW S \in SUBSET live, S # {},
                    \A x \in S : parent'[x] \in S
             PROVE  FALSE
  BY DEF Forest!Acyclic, AnyMove
<1>1. \A x \in S : x # c => parent'[x] = parent[x]
  BY DEF AnyMove
<1>2. c \in S
  BY <1>1 DEF Forest!Acyclic
<1>3. parent'[c] = p
  BY DEF AnyMove
<1> DEFINE T == S \ Forest!Subtree(c)
<1>4. p \in T
  BY <1>2, <1>3
<1>5. ASSUME NEW x \in T
      PROVE  parent[x] \in T
  <2>1. x # c
    BY <1>2, ReachContainsRoot DEF Forest!Subtree
  <2>2. parent[x] \in S
    BY <1>1, <2>1
  <2>3. parent[x] \notin Forest!Subtree(c)
    BY ReachIsClosed DEF Forest!Subtree
  <2>4. QED
    BY <2>2, <2>3
<1>6. QED
  BY <1>4, <1>5 DEF Forest!Acyclic

LEMMA DeleteAcyclic ==
  ASSUME PointersTyped, Forest!Acyclic, NEW c \in Concepts, NEW locked, Forest!Delete(c, locked)
  PROVE  Forest!Acyclic'
<1> USE DEF PointersTyped, Forest!TypeOK
<1> SUFFICES ASSUME NEW S \in SUBSET live', S # {}
             PROVE  \E x \in S : parent'[x] \notin S
  BY DEF Forest!Acyclic
<1>1. S \in SUBSET live /\ \A x \in S : parent'[x] = parent[x]
  BY DEF Forest!Delete
<1>2. QED
  BY <1>1 DEF Forest!Acyclic

-----------------------------------------------------------------------------
(* The moves on their way. What a browser checked stays true until the next *)
(* move is saved: a new concept, which nothing is below, adds only itself   *)
(* to a subtree, a delete takes away.                                       *)

AskedTyped ==
  /\ asked \subseteq Concepts \X Nodes /\ IsFiniteSet(asked)
  /\ Cardinality(asked) <= MaxAsked
  /\ late \in 0 .. MaxLate

AskedOutside ==
  \A c, p : <<c, p>> \in asked =>
    /\ c \in used /\ p \in used \cup {Project}
    /\ c \in live => p \notin Forest!Subtree(c)

Moving == PointersTyped /\ AskedTyped /\ AskedOutside

LEMMA MovingInit == Init => Moving /\ NoCycle
<1> SUFFICES ASSUME Init PROVE Moving /\ NoCycle
  OBVIOUS
<1>1. asked = {} /\ late = 0 /\ live = {}
  BY DEF Init
<1>2. AskedTyped
  BY <1>1, FS_EmptySet, TreeAssumption DEF AskedTyped
<1>3. AskedOutside /\ NoCycle
  BY <1>1 DEF AskedOutside, NoCycle, Forest!Acyclic
<1>4. QED
  BY <1>2, <1>3, PointersInit DEF Moving

(* The subtree of a stored concept after a create.                          *)
LEMMA CreateOutside ==
  ASSUME PointersTyped, NEW d \in Concepts, NEW q, Forest!Create(d, q),
         NEW c \in live, NEW p \in used \cup {Project}, p \notin Forest!Subtree(c)
  PROVE  p \notin Forest!Subtree(c)'
<1> DEFINE S == Forest!Subtree(c) \cup (IF q \in Forest!Subtree(c) THEN {d} ELSE {})
<1>1. /\ d \notin used /\ d # p /\ d \notin live /\ q # d /\ c \in Concepts
      /\ live' = live \cup {d} /\ parent'[d] = q
      /\ \A y \in live : parent'[y] = parent[y] /\ parent[y] # d
      /\ Forest!Subtree(c) \subseteq live
  BY TreeAssumption
     DEF Forest!Create, PointersTyped, ParentsUsed, Forest!TypeOK, Forest!Subtree, Forest!Reach
<1>2. S \in SUBSET live' /\ c \in S /\ p \notin S
  BY <1>1, ReachContainsRoot DEF Forest!Subtree
<1>3. ASSUME NEW y \in live', parent'[y] \in S
      PROVE  y \in S
  <2>1. CASE y = d
    BY <1>1, <1>3, <2>1
  <2>2. CASE y # d
    <3>1. y \in live /\ parent[y] \in Forest!Subtree(c)
      BY <1>1, <1>3, <2>2
    <3>2. QED
      BY <3>1, ReachIsClosed DEF Forest!Subtree
  <2>3. QED
    BY <2>1, <2>2
<1> HIDE DEF S
<1>4. QED
  BY <1>2, <1>3 DEF Forest!Subtree, Forest!Reach, Forest!ClosedUnder

(* And after a delete that leaves it.                                       *)
LEMMA DeleteOutside ==
  ASSUME PointersTyped, NEW d, NEW locked, Forest!Delete(d, locked),
         NEW c \in live', NEW p, p \notin Forest!Subtree(c)
  PROVE  p \notin Forest!Subtree(c)'
<1> DEFINE S == Forest!Subtree(c) \cap live'
<1>1. /\ live' \subseteq live /\ \A y \in live' : parent'[y] = parent[y]
  BY DEF Forest!Delete, PointersTyped, Forest!TypeOK
<1>2. S \in SUBSET live' /\ c \in S /\ p \notin S
  BY <1>1, ReachContainsRoot DEF Forest!Subtree
<1>3. ASSUME NEW y \in live', parent'[y] \in S
      PROVE  y \in S
  <2>1. y \in live /\ parent[y] \in Forest!Subtree(c)
    BY <1>1, <1>3
  <2>2. QED
    BY <1>3, <2>1, ReachIsClosed DEF Forest!Subtree
<1> HIDE DEF S
<1>4. QED
  BY <1>2, <1>3 DEF Forest!Subtree, Forest!Reach, Forest!ClosedUnder

(* Everything but the four steps that touch what was asked.                 *)
LEMMA AskedTypedKept ==
  ASSUME AskedTyped, [Next]_treeVars
  PROVE  AskedTyped'
<1> USE TreeAssumption
<1>1. ASSUME NEW c \in Concepts, NEW p \in Nodes, Ask(c, p)
      PROVE  AskedTyped'
  <2>1. /\ asked' = asked \cup {<<c, p>>} /\ late' = late
        /\ Cardinality(asked) < MaxAsked /\ Cardinality(asked) \in Nat
    BY <1>1, FS_CardinalityType DEF Ask, AskedTyped
  <2>2. PICK m : m = <<c, p>>
    OBVIOUS
  <2>3. /\ IsFiniteSet(asked \cup {m})
        /\ Cardinality(asked \cup {m}) = IF m \in asked THEN Cardinality(asked)
                                         ELSE Cardinality(asked) + 1
    BY FS_AddElement DEF AskedTyped
  <2>4. IsFiniteSet(asked') /\ Cardinality(asked') <= Cardinality(asked) + 1
    BY <2>1, <2>2, <2>3
  <2>5. Cardinality(asked') \in Nat
    BY <2>4, FS_CardinalityType
  <2>6. QED
    BY <2>1, <2>4, <2>5 DEF AskedTyped
<1>2. ASSUME asked' \subseteq asked, late' = late
      PROVE  AskedTyped'
  <2>1. /\ IsFiniteSet(asked') /\ Cardinality(asked') <= Cardinality(asked)
        /\ Cardinality(asked) \in Nat /\ Cardinality(asked') \in Nat
    BY <1>2, FS_Subset, FS_CardinalityType DEF AskedTyped
  <2>2. QED
    BY <1>2, <2>1 DEF AskedTyped
<1>3. ASSUME NEW c \in Concepts, NEW p \in Nodes, NEW s, Move(c, p, s)
      PROVE  AskedTyped'
  <2>1. asked' = {} /\ late' \in 0 .. MaxLate
    BY <1>3 DEF Move, AskedTyped
  <2>2. QED
    BY <2>1, FS_EmptySet DEF AskedTyped
<1>4. ASSUME NEW c \in Concepts, NEW p \in Nodes, NEW s, NEW l,
             \/ Create(c, p, s) \/ MoveFails(c, p, s) \/ Withdraw(c, p)
             \/ Link(c, l, p, s) \/ MoveLink(c, l, p, s) \/ Unlink(c, l)
      PROVE  AskedTyped'
  BY <1>2, <1>4 DEF Create, MoveFails, Withdraw, Link, MoveLink, Unlink, moveVars
<1>5. ASSUME NEW c, NEW locked, NEW n, NEW hidden,
             Delete(c, locked) \/ ReadChildren(n) \/ ServeProject(hidden)
      PROVE  AskedTyped'
  BY <1>2, <1>5 DEF Delete, ReadChildren, ServeProject, moveVars
<1>6. CASE UNCHANGED treeVars
  BY <1>2, <1>6 DEF treeVars, moveVars
<1>7. CASE Next
  <2>1. Project \in Nodes
    BY DEF Nodes
  <2>2. QED
    BY <1>1, <1>3, <1>4, <1>5, <1>7, <2>1, Zenon DEF Next
<1>8. QED
  BY <1>6, <1>7

LEMMA AskedOutsideKept ==
  ASSUME Moving, [Next]_treeVars
  PROVE  AskedOutside'
<1>1. PointersTyped /\ AskedOutside
  BY DEF Moving
<1>2. ASSUME asked' \subseteq asked, UNCHANGED forestVars
      PROVE  AskedOutside'
  <2>1. \A c : Forest!Subtree(c)' = Forest!Subtree(c)
    BY <1>2 DEF forestVars, Forest!Subtree, Forest!Reach, Forest!ClosedUnder
  <2>2. QED
    BY <1>1, <1>2, <2>1 DEF forestVars, AskedOutside
<1>3. ASSUME NEW c \in Concepts, NEW p \in Nodes, Ask(c, p)
      PROVE  AskedOutside'
  <2>1. \A x : Forest!Subtree(x)' = Forest!Subtree(x)
    BY <1>3 DEF Ask, forestVars, Forest!Subtree, Forest!Reach, Forest!ClosedUnder
  <2>2. /\ c \in used /\ p \in used \cup {Project} /\ p \notin Forest!Subtree(c)
        /\ used' = used /\ live' = live /\ asked' = asked \cup {<<c, p>>}
    BY <1>1, <1>3, SameSubtree
       DEF Ask, Stored, forestVars, PointersTyped, Forest!TypeOK
  <2>3. QED
    BY <1>1, <2>1, <2>2 DEF AskedOutside
<1>4. ASSUME NEW c \in Concepts, NEW p \in Nodes, NEW s, Move(c, p, s)
      PROVE  AskedOutside'
  BY <1>4 DEF Move, AskedOutside
<1>5. ASSUME NEW d \in Concepts, NEW q \in Nodes, NEW s, Create(d, q, s)
      PROVE  AskedOutside'
  <2>1. Forest!Create(d, q) /\ asked' = asked
    BY <1>5 DEF Create, Forest!Create, Stored, moveVars
  <2>2. used' = used \cup {d} /\ live' = live \cup {d} /\ d \notin used
    BY <2>1 DEF Forest!Create
  <2>3. ASSUME NEW c, NEW p, <<c, p>> \in asked, c \in live'
        PROVE  p \notin Forest!Subtree(c)'
    <3>1. c \in live /\ p \in used \cup {Project} /\ p \notin Forest!Subtree(c)
      BY <1>1, <2>2, <2>3 DEF AskedOutside
    <3>2. QED
      BY <1>1, <2>1, <3>1, CreateOutside
  <2>4. QED
    BY <1>1, <2>1, <2>2, <2>3 DEF AskedOutside
<1>6. ASSUME NEW d \in Concepts, NEW locked \in {{}, Protected}, Delete(d, locked)
      PROVE  AskedOutside'
  <2>1. Forest!Delete(d, locked) /\ asked' = asked
    BY <1>6, SameReach DEF Delete, Forest!Delete, moveVars
  <2>2. used' = used /\ live' \subseteq live
    BY <2>1 DEF Forest!Delete
  <2>3. ASSUME NEW c, NEW p, <<c, p>> \in asked, c \in live'
        PROVE  p \notin Forest!Subtree(c)'
    <3>1. p \notin Forest!Subtree(c)
      BY <1>1, <2>2, <2>3 DEF AskedOutside
    <3>2. QED
      BY <1>1, <2>1, <2>3, <3>1, DeleteOutside
  <2>4. QED
    BY <1>1, <2>1, <2>2, <2>3 DEF AskedOutside
<1>7. ASSUME NEW c \in Concepts, NEW p \in Nodes, NEW s, NEW l,
             \/ MoveFails(c, p, s) \/ Withdraw(c, p)
             \/ Link(c, l, p, s) \/ MoveLink(c, l, p, s) \/ Unlink(c, l)
      PROVE  AskedOutside'
  BY <1>2, <1>7 DEF MoveFails, Withdraw, Link, MoveLink, Unlink, moveVars
<1>8. ASSUME NEW n, NEW hidden, ReadChildren(n) \/ ServeProject(hidden)
      PROVE  AskedOutside'
  BY <1>2, <1>8 DEF ReadChildren, ServeProject, moveVars
<1>9. CASE UNCHANGED treeVars
  BY <1>2, <1>9 DEF treeVars, moveVars
<1>10. CASE Next
  <2>1. Project \in Nodes
    BY DEF Nodes
  <2>2. QED
    BY <1>3, <1>4, <1>5, <1>6, <1>7, <1>8, <1>10, <2>1, Zenon DEF Next
<1>11. QED
  BY <1>9, <1>10

LEMMA MovingKept ==
  ASSUME Moving, [Next]_treeVars
  PROVE  Moving'
<1>1. QED
  BY NextPointers, PointersKept, AskedTypedKept, AskedOutsideKept DEF Moving

(* A move that leaves the count of late ones at 0 was checked, and its place *)
(* still is outside the subtree.                                             *)
LEMMA MoveOutside ==
  ASSUME Moving, NEW c, NEW p, NEW s, Move(c, p, s), late' = 0 \/ <<c, p>> \in asked
  PROVE  p \notin Forest!Subtree(c) /\ p \notin Subtree(c)
<1>1. c \in live /\ late \in Nat
  BY TreeAssumption DEF Move, MayMove, Moving, AskedTyped
<1>2. <<c, p>> \in asked
  BY <1>1 DEF Move
<1>3. QED
  BY <1>1, <1>2, SameSubtree DEF Moving, AskedOutside

(* Late moves are never forgotten.                                          *)
LEMMA LateStays ==
  ASSUME Moving, [Next]_treeVars, late' = 0
  PROVE  late = 0
<1>0. late \in Nat
  BY TreeAssumption DEF Moving, AskedTyped
<1>1. ASSUME NEW c \in Concepts, NEW p \in Nodes, NEW s, Move(c, p, s)
      PROVE  late = 0
  BY <1>0, <1>1 DEF Move
<1>2. ASSUME NEW c \in Concepts, NEW p \in Nodes, NEW s, NEW l,
             \/ Ask(c, p) \/ Withdraw(c, p) \/ Create(c, p, s) \/ MoveFails(c, p, s)
             \/ Link(c, l, p, s) \/ MoveLink(c, l, p, s) \/ Unlink(c, l)
      PROVE  late = 0
  BY <1>2 DEF Ask, Withdraw, Create, MoveFails, Link, MoveLink, Unlink, moveVars
<1>3. ASSUME NEW c, NEW locked, NEW n, NEW hidden,
             Delete(c, locked) \/ ReadChildren(n) \/ ServeProject(hidden)
      PROVE  late = 0
  BY <1>3 DEF Delete, ReadChildren, ServeProject, moveVars
<1>4. CASE UNCHANGED treeVars
  BY <1>4 DEF treeVars, moveVars
<1>5. CASE Next
  <2>1. Project \in Nodes
    BY DEF Nodes
  <2>2. QED
    BY <1>1, <1>2, <1>3, <1>5, <2>1, Zenon DEF Next
<1>6. QED
  BY <1>4, <1>5

LEMMA NoCycleKept ==
  ASSUME Moving, NoCycle, [Next]_treeVars
  PROVE  NoCycle'
<1> SUFFICES ASSUME late' = 0 PROVE Forest!Acyclic'
  BY DEF NoCycle
<1>1. PointersTyped /\ Forest!Acyclic
  BY LateStays DEF NoCycle, Moving
<1>2. ASSUME NEW c \in Concepts, NEW p \in Nodes, NEW s, Move(c, p, s)
      PROVE  Forest!Acyclic'
  <2>1. AnyMove(c, p) /\ p \notin Forest!Subtree(c)
    BY <1>2, MoveOutside DEF Move, MayMove, AnyMove
  <2>2. QED
    BY <1>1, <2>1, MoveAcyclic
<1>3. CASE UNCHANGED forestVars
  BY <1>1, <1>3 DEF forestVars, Forest!Acyclic
<1>4. QED
  BY <1>1, <1>2, <1>3, OtherSteps, CreateAcyclic, DeleteAcyclic

(* No concept hangs from itself while every move was saved on the tree its  *)
(* browser checked it on, so the loops of Concept.depth and                 *)
(* get_parent_id_list end, whatever other requests came in between.         *)
THEOREM TreeAcyclic == Spec => []NoCycle
<1>1. Moving /\ NoCycle /\ [Next]_treeVars => (Moving /\ NoCycle)'
  BY MovingKept, NoCycleKept
<1>2. QED
  BY <1>1, MovingInit, PTL DEF Spec

-----------------------------------------------------------------------------
(* The refinement.                                                         *)

LEMMA NextRefines ==
  ASSUME Moving, [Next]_treeVars
  PROVE  [Forest!Next \/ \E c \in Concepts, p \in Nodes : LateMove(c, p)]_forestVars
<1>1. ASSUME NEW c \in Concepts, NEW p \in Nodes, NEW s, Move(c, p, s)
      PROVE  Forest!Move(c, p) \/ LateMove(c, p)
  <2>1. AnyMove(c, p)
    BY <1>1 DEF Move, MayMove, AnyMove
  <2>2. CASE <<c, p>> \in asked
    <3>1. p \notin Forest!Subtree(c)
      BY <1>1, <2>2, MoveOutside
    <3>2. QED
      BY <2>1, <3>1 DEF AnyMove, Forest!Move, Stored
  <2>3. CASE <<c, p>> \notin asked
    BY <2>1, <2>3 DEF AnyMove, LateMove
  <2>4. QED
    BY <2>2, <2>3
<1>2. Forest!Nodes = Nodes
  BY DEF Nodes, Forest!Nodes
<1>3. QED
  BY <1>1, <1>2, OtherSteps, Zenon DEF Forest!Next

(* ConceptTree implements ConceptForest, but for the late moves.            *)
THEOREM Refinement == Spec => ForestSteps
<1>1. Moving /\ [Next]_treeVars => Moving'
  BY MovingKept
<1>2. Moving /\ [Next]_treeVars
        => [Forest!Next \/ \E c \in Concepts, p \in Nodes : LateMove(c, p)]_forestVars
  BY NextRefines
<1>3. Init => Moving
  BY MovingInit
<1>4. QED
  BY <1>1, <1>2, <1>3, InitRefines, PTL DEF Spec, ForestSteps

(* A delete that leaves a child behind records it: what lost its parent is *)
(* a locked concept the delete stopped at.                                 *)
LEMMA DeleteOrphans ==
  ASSUME PointersTyped, Forest!OrphansRecorded, NEW c \in Concepts,
         NEW locked \in {{}, Protected}, Forest!Delete(c, locked)
  PROVE  Forest!OrphansRecorded'
<1> USE DEF PointersTyped, Forest!TypeOK
<1> DEFINE removed == Forest!Reach(c, locked)
<1> SUFFICES ASSUME NEW x \in live', parent'[x] \notin live' \cup {Project}
             PROVE  x \in orphans'
  BY DEF Forest!OrphansRecorded
<1>1. x \in live \ removed /\ parent'[x] = parent[x]
  BY DEF Forest!Delete
<1>2. CASE parent[x] \in removed
  <2>1. x \in locked
    BY <1>1, <1>2, ReachIsClosed
  <2>2. QED
    BY <1>1, <1>2, <2>1 DEF Forest!Delete
<1>3. CASE parent[x] \notin removed
  BY <1>1, <1>3 DEF Forest!Delete, Forest!OrphansRecorded
<1>4. QED
  BY <1>2, <1>3

(* Every stored concept whose parent was deleted is in orphan_concept, late *)
(* moves or not.                                                            *)
THEOREM OrphansKept == Spec => []Forest!OrphansRecorded
<1>1. Init => Forest!OrphansRecorded
  BY DEF Init, Forest!OrphansRecorded
<1>2. PointersTyped /\ Forest!OrphansRecorded /\ Pointers => Forest!OrphansRecorded'
  <2> SUFFICES ASSUME PointersTyped, Forest!OrphansRecorded, Pointers
               PROVE  Forest!OrphansRecorded'
    OBVIOUS
  <2>1. ASSUME NEW c \in Concepts, NEW p \in Nodes, Forest!Create(c, p)
        PROVE  Forest!OrphansRecorded'
    BY <2>1 DEF Forest!Create, Forest!OrphansRecorded, PointersTyped, Forest!TypeOK
  <2>2. ASSUME NEW c \in Concepts, NEW p \in Nodes, AnyMove(c, p)
        PROVE  Forest!OrphansRecorded'
    BY <2>2 DEF AnyMove, Stored, Forest!OrphansRecorded, PointersTyped, Forest!TypeOK
  <2>3. ASSUME NEW c \in Concepts, NEW locked \in {{}, Protected}, Forest!Delete(c, locked)
        PROVE  Forest!OrphansRecorded'
    BY <2>3, DeleteOrphans
  <2>4. CASE UNCHANGED forestVars
    BY <2>4 DEF forestVars, Forest!OrphansRecorded
  <2>5. QED
    BY <2>1, <2>2, <2>3, <2>4 DEF Pointers
<1>3. PointersTyped /\ Pointers => PointersTyped'
  BY PointersKept
<1>4. [Next]_treeVars => Pointers
  BY NextPointers
<1>5. QED
  BY <1>1, <1>2, <1>3, <1>4, PointersInit, PTL DEF Spec

(* Every step deletes at most one subtree and nothing outside it, whatever  *)
(* is linked below what it deletes.                                         *)
THEOREM DeletesOneSubtree ==
  Spec => [][live \ live' # {} =>
               \E c \in live \ live' : live \ live' \subseteq Forest!Subtree(c)]_forestVars
<1>1. PointersTyped /\ Pointers =>
        [live \ live' # {} =>
           \E c \in live \ live' : live \ live' \subseteq Forest!Subtree(c)]_forestVars
  <2> SUFFICES ASSUME PointersTyped, Pointers, live \ live' # {}
               PROVE  \E c \in live \ live' : live \ live' \subseteq Forest!Subtree(c)
    OBVIOUS
  <2>1. PICK c \in Concepts, locked \in {{}, Protected} : Forest!Delete(c, locked)
    BY DEF Pointers, Forest!Create, AnyMove, forestVars
  <2>2. c \in live \ live'
    BY <2>1, ReachContainsRoot DEF Forest!Delete
  <2>3. live \ live' \subseteq Forest!Reach(c, locked)
    BY <2>1 DEF Forest!Delete
  <2>4. QED
    BY <2>2, <2>3, ReachInSubtree
<1>2. PointersTyped /\ Pointers => PointersTyped'
  BY PointersKept
<1>3. [Next]_treeVars => Pointers
  BY NextPointers
<1>4. QED
  BY <1>1, <1>2, <1>3, PointersInit, PTL DEF Spec

-----------------------------------------------------------------------------
(* Induction, and folds over lists.                                        *)

(* Every nonempty set of natural numbers has a least element.               *)
LEMMA Least ==
  ASSUME NEW T, T \subseteq Nat, T # {}
  PROVE  \E n \in T : \A m \in T : n <= m
<1> DEFINE R == OpToRel(<, Nat)
<1>1. IsWellFoundedOn(R, Nat)
  BY NatLessThanWellFounded
<1>2. \A m, n \in Nat : m < n => <<m, n>> \in R
  BY DEF OpToRel
<1> HIDE DEF R
<1>3. PICK n \in T : \A m \in T : ~(<<m, n>> \in R)
  BY <1>1, WFMin
<1>4. ASSUME NEW m \in T
      PROVE  n <= m
  <2>1. m \in Nat /\ n \in Nat
    OBVIOUS
  <2>2. ~(m < n)
    BY <1>2, <1>3, <2>1, Zenon
  <2>3. QED
    BY <2>1, <2>2
<1>5. QED
  BY <1>4

(* So what holds of 0, and of the next number whenever it holds of one,     *)
(* holds of every number.                                                   *)
LEMMA Counting ==
  ASSUME NEW Q, 0 \in Q, \A n \in Nat : n \in Q => n + 1 \in Q
  PROVE  Nat \subseteq Q
<1> SUFFICES ASSUME Nat \ Q # {} PROVE FALSE
  OBVIOUS
<1>1. PICK n \in Nat \ Q : \A m \in Nat \ Q : n <= m
  BY Least
<1>2. n # 0 /\ n - 1 \in Nat /\ n - 1 \in Q
  BY <1>1
<1>3. (n - 1) + 1 \in Q
  BY <1>2
<1>4. QED
  BY <1>1, <1>3

LEMMA Largest ==
  ASSUME NEW n \in Nat, NEW s \in SUBSET (1 .. n), s # {}
  PROVE  Max(s) \in s /\ \A y \in s : y <= Max(s)
<1> DEFINE T == {n - x : x \in s}
<1>0. \A x \in s : x \in Nat /\ n - x \in Nat
  OBVIOUS
<1>1. T \subseteq Nat /\ T # {}
  BY <1>0
<1>2. PICK m \in T : \A k \in T : m <= k
  <2> HIDE DEF T
  <2>1. QED
    BY <1>1, Least
<1>3. PICK x \in s : m = n - x
  OBVIOUS
<1>4. \A y \in s : x >= y
  <2> SUFFICES ASSUME NEW y \in s PROVE x >= y
    OBVIOUS
  <2>1. n - x <= n - y /\ x \in Nat /\ y \in Nat
    BY <1>0, <1>2, <1>3
  <2>2. QED
    BY <2>1
<1>5. Max(s) \in s /\ \A y \in s : Max(s) >= y
  BY <1>4 DEF Max
<1>6. QED
  BY <1>0, <1>5

\* The recursive function by which a fold over 1 .. n runs, with values in A.
IsFold(it, A, F, base, n) ==
  /\ it \in [SUBSET (1 .. n) -> A]
  /\ it = [s \in SUBSET (1 .. n) |->
             IF s = {} THEN base ELSE F[<<it[s \ {Max(s)}], Max(s)>>]]

(* There is one for every step function, and it stays in any set the step   *)
(* function does not leave.                                                 *)
LEMMA FoldExists ==
  ASSUME NEW A, NEW base \in A, NEW n \in Nat, NEW F \in [A \X (1 .. n) -> A]
  PROVE  \E it : IsFold(it, A, F, base, n)
<1> DEFINE Q == {k \in Nat : k <= n =>
                   \E it : IsFold(it, A, F, base, k)}
           Add(s, a) == F[<<a, Max(s)>>]
<1>1. 0 \in Q
  <2> DEFINE it == [s \in SUBSET (1 .. 0) |-> base]
  <2>1. \A s \in SUBSET (1 .. 0) : s = {}
    OBVIOUS
  <2>2. IsFold(it, A, F, base, 0)
    BY <2>1 DEF IsFold
  <2> HIDE DEF it
  <2>3. QED
    BY <2>2
<1>2. ASSUME NEW k \in Nat, k \in Q, k + 1 <= n
      PROVE  k + 1 \in Q
  <2>1. PICK it : IsFold(it, A, F, base, k)
    BY <1>2
  <2> DEFINE D == SUBSET (1 .. k + 1)
             h == [s \in D |-> IF s = {} THEN base ELSE Add(s, it[s \ {Max(s)}])]
             j == [s \in D |-> IF s = {} THEN base ELSE Add(s, h[s \ {Max(s)}])]
  <2>2. ASSUME NEW s \in SUBSET (1 .. k)
        PROVE  s \in D /\ h[s] = it[s]
    <3>1. s \in D
      BY <1>2
    <3>2. it[s] = IF s = {} THEN base ELSE Add(s, it[s \ {Max(s)}])
      BY <2>1 DEF IsFold
    <3>3. QED
      BY <3>1, <3>2
  <2>3. ASSUME NEW s \in D, s # {}
        PROVE  s \ {Max(s)} \in SUBSET (1 .. k) /\ Max(s) \in 1 .. k + 1
    <3>0. k + 1 \in Nat /\ s \in SUBSET (1 .. k + 1)
      BY <1>2
    <3>1. Max(s) \in s /\ \A y \in s : y <= Max(s)
      BY <2>3, <3>0, Largest
    <3>2. ASSUME NEW y \in s \ {Max(s)}
          PROVE  y \in 1 .. k
      <4>1. PICK m : m = Max(s)
        OBVIOUS
      <4>2. m \in 1 .. k + 1 /\ y \in 1 .. k + 1 /\ y <= m /\ y # m
        BY <3>0, <3>1, <4>1
      <4>3. QED
        BY <1>2, <4>2
    <3>3. QED
      BY <3>0, <3>1, <3>2
  <2>4. \A s \in D : s # {} => h[s \ {Max(s)}] = it[s \ {Max(s)}]
    BY <2>2, <2>3
  <2>5. h = j
    <3> HIDE DEF D, Add
    <3>1. ASSUME NEW s \in D PROVE h[s] = j[s]
      <4>1. h[s] = IF s = {} THEN base ELSE Add(s, it[s \ {Max(s)}])
        BY Zenon
      <4>2. j[s] = IF s = {} THEN base ELSE Add(s, h[s \ {Max(s)}])
        BY Zenon
      <4> HIDE DEF h, j
      <4>3. QED
        BY <2>4, <4>1, <4>2
    <3>2. h = [s \in D |-> h[s]]
      BY Zenon
    <3> HIDE DEF h
    <3>3. j = [s \in D |-> j[s]]
      BY Zenon
    <3> HIDE DEF j
    <3>4. QED
      BY <3>1, <3>2, <3>3
  <2>7. \A s \in D : h[s] \in A
    <3> SUFFICES ASSUME NEW s \in D PROVE h[s] \in A
      OBVIOUS
    <3>1. CASE s = {}
      BY <3>1
    <3>2. CASE s # {}
      <4>1. Max(s) \in 1 .. n /\ it[s \ {Max(s)}] \in A
        <5>1. Max(s) \in 1 .. k + 1 /\ s \ {Max(s)} \in SUBSET (1 .. k)
          BY <2>3, <3>2
        <5>2. \A x \in 1 .. k + 1 : x \in 1 .. n
          BY <1>2
        <5>3. QED
          BY <2>1, <5>1, <5>2 DEF IsFold
      <4>2. Add(s, it[s \ {Max(s)}]) \in A
        BY <4>1
      <4>3. h[s] = Add(s, it[s \ {Max(s)}])
        BY <3>2
      <4>4. QED
        BY <4>2, <4>3
    <3>3. QED
      BY <3>1, <3>2
  <2>8. h \in [D -> A]
    BY <2>7
  <2>9. IsFold(h, A, F, base, k + 1)
    BY <2>5, <2>8, Zenon DEF IsFold
  <2>10. QED
    BY <1>2, <2>9
<1>3. \A k \in Nat : k \in Q => k + 1 \in Q
  <2> SUFFICES ASSUME NEW k \in Nat, k \in Q PROVE k + 1 \in Q
    OBVIOUS
  <2>1. CASE k + 1 <= n
    BY <1>2, <2>1
  <2>2. CASE ~(k + 1 <= n)
    BY <2>2
  <2>3. QED
    BY <2>1, <2>2
<1>4. Nat \subseteq Q
  <2> HIDE DEF Q
  <2>1. QED
    BY <1>1, <1>3, Counting
<1>5. n \in Q
  BY <1>4
<1>6. QED
  BY <1>5

(* What such a function says about 1 .. k.                                  *)
LEMMA CountsTo ==
  ASSUME NEW n \in Nat, NEW k \in Nat, k + 1 <= n
  PROVE  /\ 1 .. k + 1 \in SUBSET (1 .. n) /\ 1 .. k + 1 # {}
         /\ Max(1 .. k + 1) = k + 1 /\ (1 .. k + 1) \ {k + 1} = 1 .. k
<1>1. 1 .. k + 1 \subseteq 1 .. n
  OBVIOUS
<1>2. 1 \in 1 .. k + 1
  OBVIOUS
<1>3. Max(1 .. k + 1) \in 1 .. k + 1 /\ \A y \in 1 .. k + 1 : y <= Max(1 .. k + 1)
  BY <1>1, <1>2, Largest
<1>4. PICK m : m = Max(1 .. k + 1)
  OBVIOUS
<1>5. m = k + 1
  BY <1>3, <1>4
<1>6. (1 .. k + 1) \ {k + 1} = 1 .. k
  OBVIOUS
<1>7. 1 .. k + 1 \in SUBSET (1 .. n)
  BY <1>1
<1>8. 1 .. k + 1 # {}
  BY <1>2
<1>9. Max(1 .. k + 1) = k + 1
  BY <1>4, <1>5
<1>10. QED
  BY <1>6, <1>7, <1>8, <1>9

\* Run(acc, list, positions): acc[k] is what the first k of the list add up to.
PickRun(acc, list, positions) ==
  /\ acc[0] = <<>>
  /\ \A k \in Nat : k + 1 <= Len(list) =>
       acc[k + 1] = IF k + 1 \in positions THEN Append(acc[k], list[k + 1]) ELSE acc[k]

LEMMA PickRuns ==
  ASSUME NEW S, NEW list \in Seq(S), NEW positions
  PROVE  \E acc : PickRun(acc, list, positions) /\ Picked(list, positions) = acc[Len(list)]
<1> DEFINE n == Len(list)
           A == Seq(S)
           F == [p \in A \X (1 .. n) |->
                   IF p[2] \in positions THEN Append(p[1], list[p[2]]) ELSE p[1]]
           id == [i \in DOMAIN list |-> i]
           Is(it) == it = [s \in SUBSET DOMAIN id |-> IF s = {} THEN <<>> ELSE
                       IF id[Max(s)] \in positions
                       THEN Append(it[s \ {Max(s)}], list[id[Max(s)]]) ELSE it[s \ {Max(s)}]]
<1>1. n \in Nat /\ DOMAIN list = 1 .. n /\ DOMAIN id = 1 .. n /\ <<>> \in A
  OBVIOUS
<1>2. F \in [A \X (1 .. n) -> A]
  OBVIOUS
<1>3. PICK it : IsFold(it, A, F, <<>>, n)
  <2> HIDE DEF F, A, n
  <2>1. QED
    BY <1>1, <1>2, FoldExists
<1>4. Is(it)
  <2>1. ASSUME NEW s \in SUBSET (1 .. n), s # {}
        PROVE  F[<<it[s \ {Max(s)}], Max(s)>>] =
                 IF id[Max(s)] \in positions
                 THEN Append(it[s \ {Max(s)}], list[id[Max(s)]]) ELSE it[s \ {Max(s)}]
    <3>1. Max(s) \in 1 .. n
      BY <1>1, <2>1, Largest
    <3>2. it[s \ {Max(s)}] \in A
      BY <1>3 DEF IsFold
    <3>3. id[Max(s)] = Max(s)
      BY <1>1, <3>1
    <3>4. <<it[s \ {Max(s)}], Max(s)>> \in A \X (1 .. n)
      BY <3>1, <3>2
    <3> HIDE DEF A, n, id
    <3>5. QED
      BY <3>3, <3>4
  <2> HIDE DEF F, A, n, id
  <2>2. QED
    BY <1>1, <1>3, <2>1, Zenon DEF IsFold
<1> DEFINE f == CHOOSE g : Is(g)
<1>5. Is(f)
  <2> HIDE DEF Is
  <2>1. QED
    BY <1>4
<1>6. Picked(list, positions) = f[DOMAIN id]
  BY DEF Picked, FoldLeftDomain, FoldLeft, MapThenFoldSet
<1> HIDE DEF f
<1> DEFINE acc == [k \in 0 .. n |-> f[1 .. k]]
<1>7. acc[0] = <<>>
  <2>1. 1 .. 0 = {} /\ {} \in SUBSET DOMAIN id
    OBVIOUS
  <2>2. f[{}] = <<>>
    BY <1>5, <2>1
  <2>3. QED
    BY <1>1, <2>1, <2>2
<1>8. ASSUME NEW k \in Nat, k + 1 <= n
      PROVE  acc[k + 1] = IF k + 1 \in positions THEN Append(acc[k], list[k + 1]) ELSE acc[k]
  <2>1. 1 .. k + 1 \in SUBSET DOMAIN id /\ 1 .. k + 1 # {}
        /\ Max(1 .. k + 1) = k + 1 /\ (1 .. k + 1) \ {k + 1} = 1 .. k
    BY <1>1, <1>8, CountsTo
  <2>2. id[k + 1] = k + 1
    BY <1>1, <1>8
  <2>3. f[1 .. k + 1] = IF k + 1 \in positions THEN Append(f[1 .. k], list[k + 1])
                        ELSE f[1 .. k]
    <3> HIDE DEF id, n
    <3>1. f[1 .. k + 1] = IF id[Max(1 .. k + 1)] \in positions
             THEN Append(f[(1 .. k + 1) \ {Max(1 .. k + 1)}], list[id[Max(1 .. k + 1)]])
             ELSE f[(1 .. k + 1) \ {Max(1 .. k + 1)}]
      BY <1>5, <2>1
    <3>2. QED
      BY <2>1, <2>2, <3>1
  <2>4. k + 1 \in 0 .. n /\ k \in 0 .. n
    BY <1>1, <1>8
  <2>5. QED
    BY <2>3, <2>4
<1>9. acc[n] = f[DOMAIN id]
  BY <1>1
<1> HIDE DEF acc, f, id
<1>10. QED
  BY <1>6, <1>7, <1>8, <1>9 DEF PickRun

(* What is picked is what stands at the positions.                          *)
LEMMA PickedType ==
  ASSUME NEW S, NEW list \in Seq(S), NEW positions, NEW T,
         \A i \in DOMAIN list : i \in positions => list[i] \in T
  PROVE  Picked(list, positions) \in Seq(T)
<1>1. PICK acc : PickRun(acc, list, positions) /\ Picked(list, positions) = acc[Len(list)]
  BY PickRuns
<1> DEFINE n == Len(list)
           Q == {k \in Nat : k <= n => acc[k] \in Seq(T)}
<1>2. n \in Nat /\ DOMAIN list = 1 .. n
  OBVIOUS
<1>3. 0 \in Q
  <2>1. acc[0] = <<>> /\ <<>> \in Seq(T)
    BY <1>1 DEF PickRun
  <2>2. QED
    BY <2>1
<1>4. ASSUME NEW k \in Nat, k \in Q
      PROVE  k + 1 \in Q
  <2> HIDE DEF n
  <2> SUFFICES ASSUME k + 1 <= n PROVE acc[k + 1] \in Seq(T)
    OBVIOUS
  <2>1. acc[k] \in Seq(T) /\ k + 1 \in DOMAIN list
    BY <1>2, <1>4
  <2>2. acc[k + 1] = IF k + 1 \in positions THEN Append(acc[k], list[k + 1]) ELSE acc[k]
    BY <1>1 DEF PickRun, n
  <2>3. QED
    BY <2>1, <2>2
<1>5. Nat \subseteq Q
  <2> HIDE DEF Q
  <2>1. QED
    BY <1>3, <1>4, Counting
<1>6. QED
  BY <1>1, <1>2, <1>5

(* Picking every position gives the list.                                   *)
LEMMA PickedAll ==
  ASSUME NEW S, NEW list \in Seq(S), NEW positions, DOMAIN list \subseteq positions
  PROVE  Picked(list, positions) = list
<1>1. PICK acc : PickRun(acc, list, positions) /\ Picked(list, positions) = acc[Len(list)]
  BY PickRuns
<1> DEFINE n == Len(list)
           Q == {k \in Nat : k <= n => /\ acc[k] \in Seq(S) /\ Len(acc[k]) = k
                                       /\ \A i \in 1 .. k : acc[k][i] = list[i]}
<1>2. n \in Nat /\ DOMAIN list = 1 .. n
  OBVIOUS
<1>3. 0 \in Q
  <2>1. acc[0] = <<>> /\ <<>> \in Seq(S) /\ Len(<<>>) = 0 /\ 1 .. 0 = {}
    BY <1>1 DEF PickRun
  <2>2. QED
    BY <2>1
<1>4. ASSUME NEW k \in Nat, k \in Q
      PROVE  k + 1 \in Q
  <2> HIDE DEF n
  <2> SUFFICES ASSUME k + 1 <= n
               PROVE  /\ acc[k + 1] \in Seq(S) /\ Len(acc[k + 1]) = k + 1
                      /\ \A i \in 1 .. k + 1 : acc[k + 1][i] = list[i]
    OBVIOUS
  <2>1. /\ acc[k] \in Seq(S) /\ Len(acc[k]) = k /\ k + 1 \in DOMAIN list
        /\ \A i \in 1 .. k : acc[k][i] = list[i]
    BY <1>2, <1>4
  <2>2. acc[k + 1] = Append(acc[k], list[k + 1])
    BY <1>1, <2>1 DEF PickRun, n
  <2>3. list[k + 1] \in S
    BY <2>1
  <2>4. QED
    BY <2>1, <2>2, <2>3
<1>5. Nat \subseteq Q
  <2> HIDE DEF Q
  <2>1. QED
    BY <1>3, <1>4, Counting
<1>6. /\ Picked(list, positions) \in Seq(S) /\ Len(Picked(list, positions)) = Len(list)
      /\ \A i \in 1 .. Len(list) : Picked(list, positions)[i] = list[i]
  BY <1>1, <1>2, <1>5
<1>7. QED
  BY <1>6
-----------------------------------------------------------------------------
(* Lists.                                                                   *)

\* A list that names every member of kids once, and nothing else.
Exact(list, kids) ==
  /\ list \in Seq(kids)
  /\ \A x \in kids : \E i \in 1 .. Len(list) : list[i] = x
  /\ \A i, j \in 1 .. Len(list) : list[i] = list[j] => i = j

LEMMA DedupType ==
  ASSUME NEW S, NEW list \in Seq(S)
  PROVE  Dedup(list) \in Seq(S)
<1>1. \A i \in DOMAIN list : list[i] \in S
  OBVIOUS
<1>2. QED
  BY <1>1, PickedType DEF Dedup

LEMMA RepairedType ==
  ASSUME NEW S, NEW list \in Seq(S), NEW kids
  PROVE  Repaired(list, kids) \in Seq(S) /\ Listed(list, kids) \in Seq(S)
<1>1. Dedup(list) \in Seq(S)
  BY DedupType
<1>2. PICK distinct \in Seq(S) : distinct = Dedup(list)
  BY <1>1
<1>3. \A i \in DOMAIN distinct : distinct[i] \in S
  OBVIOUS
<1>4. QED
  BY <1>2, <1>3, PickedType DEF Repaired, Listed

(* An exact list is left alone.                                             *)
LEMMA DedupExact ==
  ASSUME NEW kids, NEW list, Exact(list, kids)
  PROVE  Dedup(list) = list
<1>1. list \in Seq(kids) /\ DOMAIN list = 1 .. Len(list) /\ Len(list) \in Nat
  BY DEF Exact
<1>2. \A i \in DOMAIN list : \A j \in 1 .. (i - 1) : j \in DOMAIN list /\ list[j] # list[i]
  <2> SUFFICES ASSUME NEW i \in DOMAIN list, NEW j \in 1 .. (i - 1)
               PROVE  j \in DOMAIN list /\ list[j] # list[i]
    OBVIOUS
  <2>1. j \in 1 .. Len(list) /\ i \in 1 .. Len(list) /\ j # i
    BY <1>1
  <2>2. QED
    BY <1>1, <2>1 DEF Exact
<1>3. DOMAIN list \subseteq {i \in DOMAIN list : \A j \in 1 .. (i - 1) : list[j] # list[i]}
  BY <1>2
<1>4. QED
  BY <1>1, <1>3, PickedAll DEF Dedup

LEMMA RepairedExact ==
  ASSUME NEW kids, NEW list, Exact(list, kids)
  PROVE  Repaired(list, kids) = list
<1>1. list \in Seq(kids) /\ Dedup(list) = list
  BY DedupExact DEF Exact
<1>2. DOMAIN list \subseteq Living(list, kids) \cup (DOMAIN list \ Visited(list, kids))
  BY <1>1 DEF Living
<1>3. QED
  BY <1>1, <1>2, PickedAll DEF Repaired

LEMMA UnderType ==
  ASSUME NEW S, NEW chain \in Seq(S), NEW n \in S
  PROVE  Under(chain, n) \in Seq(S)
<1>1. \A i \in DOMAIN chain : chain[i] \in S
  OBVIOUS
<1>2. Picked(chain, {i \in DOMAIN chain : chain[i] # n}) \in Seq(S)
  BY <1>1, PickedType
<1>3. QED
  BY <1>2 DEF Under

(* list.index, list.insert and list.remove.                                 *)
LEMMA IndexFacts ==
  ASSUME NEW S, NEW list \in Seq(S), NEW x
  PROVE  /\ PyIndex(list, x) \in Int /\ PyIndex(list, x) + 1 \in 0 .. Len(list)
         /\ Contains(list, x) =>
              /\ PyIndex(list, x) \in 0 .. (Len(list) - 1)
              /\ list[PyIndex(list, x) + 1] = x
              /\ \A i \in 1 .. PyIndex(list, x) : list[i] # x
<1> DEFINE I == {i \in 1 .. Len(list) : list[i] = x}
<1>1. SelectInSeq(list, LAMBDA e : e = x) = IF I # {} THEN Min(I) ELSE 0
  BY DEF SelectInSeq
<1>2. Contains(list, x) => I # {}
  BY DEF Contains
<1>3. CASE I = {}
  <2>1. PyIndex(list, x) = -1
    BY <1>1, <1>3 DEF PyIndex
  <2>2. QED
    BY <1>2, <1>3, <2>1
<1>4. CASE I # {}
  <2>1. I \subseteq Nat
    OBVIOUS
  <2>2. PICK m \in I : \A k \in I : m <= k
    <3> HIDE DEF I
    <3>1. QED
      BY <1>4, <2>1, Least
  <2>3. Min(I) = m
    <3>1. Min(I) \in I /\ \A k \in I : Min(I) <= k
      BY <2>2 DEF Min
    <3>2. PICK q : q = Min(I)
      OBVIOUS
    <3>3. q \in I /\ q <= m /\ m <= q
      BY <2>2, <3>1, <3>2
    <3>4. q = m
      BY <3>3
    <3>5. QED
      BY <3>2, <3>4
  <2>4. PyIndex(list, x) = m - 1
    BY <1>1, <1>4, <2>3 DEF PyIndex
  <2>5. m \in 1 .. Len(list) /\ list[m] = x
    BY <2>2
  <2>6. ASSUME NEW i \in 1 .. (m - 1) PROVE list[i] # x
    <3>1. i \in 1 .. Len(list) /\ ~(m <= i)
      BY <2>5
    <3>2. QED
      BY <2>2, <3>1
  <2>7. QED
    BY <2>4, <2>5, <2>6
<1>5. QED
  BY <1>3, <1>4

LEMMA Slice ==
  ASSUME NEW S, NEW list \in Seq(S), NEW a \in Nat \ {0}, NEW b \in Nat,
         a <= b + 1, b <= Len(list), NEW d, d = (b + 1) - a
  PROVE  /\ d \in Nat /\ SubSeq(list, a, b) \in Seq(S) /\ Len(SubSeq(list, a, b)) = d
         /\ \A i \in 1 .. d : SubSeq(list, a, b)[i] = list[(a + i) - 1]
<1>1. \A i \in a .. b : list[i] \in S
  OBVIOUS
<1>2. /\ SubSeq(list, a, b) \in Seq(S)
      /\ Len(SubSeq(list, a, b)) = IF a <= b THEN b - a + 1 ELSE 0
      /\ \A i \in 1 .. b - a + 1 : SubSeq(list, a, b)[i] = list[a + i - 1]
  BY <1>1, SubSeqProperties
<1>3. d \in Nat /\ d = b - a + 1
  OBVIOUS
<1>4. (IF a <= b THEN b - a + 1 ELSE 0) = d
  BY <1>3
<1>5. QED
  BY <1>2, <1>3, <1>4

LEMMA Join ==
  ASSUME NEW S, NEW s1 \in Seq(S), NEW s2 \in Seq(S), NEW p, NEW q,
         Len(s1) = p, Len(s2) = q
  PROVE  /\ s1 \o s2 \in Seq(S) /\ Len(s1 \o s2) = p + q
         /\ \A i \in 1 .. p + q : (s1 \o s2)[i] = IF i <= p THEN s1[i] ELSE s2[i - p]
  BY ConcatProperties

\* list with x inserted behind its first m elements.
InsertedBehind(list, index, x, m) ==
  /\ m \in 0 .. Len(list) /\ m = IF index < Len(list) THEN index ELSE Len(list)
  /\ Len(PyInsert(list, index, x)) = Len(list) + 1
  /\ \A i \in 1 .. Len(list) + 1 :
       PyInsert(list, index, x)[i] =
         IF i <= m THEN list[i] ELSE IF i = m + 1 THEN x ELSE list[i - 1]

LEMMA InsertFacts ==
  ASSUME NEW S, NEW list \in Seq(S), NEW x \in S, NEW index \in Nat
  PROVE  /\ PyInsert(list, index, x) \in Seq(S)
         /\ \E m : InsertedBehind(list, index, x, m)
<1>1. PICK m : m = IF index < Len(list) THEN index ELSE Len(list)
  OBVIOUS
<1>2. m \in 0 .. Len(list) /\ Len(list) \in Nat
  BY <1>1
<1> DEFINE before == SubSeq(list, 1, m)
           after == SubSeq(list, m + 1, Len(list))
<1>3. PyInsert(list, index, x) = before \o <<x>> \o after
  <2>1. (m + 1) - 1 = m
    BY <1>2
  <2>2. QED
    BY <1>1, <2>1 DEF PyInsert, InsertAt
<1>4. before \in Seq(S) /\ Len(before) = m /\ \A i \in 1 .. m : before[i] = list[i]
  BY <1>2, SubSeqProperties
<1>5. PICK d : d = Len(list) - m
  OBVIOUS
<1>6. d \in Nat /\ after \in Seq(S) /\ Len(after) = d
       /\ \A i \in 1 .. d : after[i] = list[m + i]
  <2>1. PICK k, n : k = m + 1 /\ n = Len(list)
    OBVIOUS
  <2>2. d = (n + 1) - k /\ k \in Nat \ {0} /\ k <= n + 1 /\ n \in Nat /\ n <= Len(list)
    BY <1>2, <1>5, <2>1
  <2>3. /\ d \in Nat /\ SubSeq(list, k, n) \in Seq(S) /\ Len(SubSeq(list, k, n)) = d
        /\ \A i \in 1 .. d : SubSeq(list, k, n)[i] = list[(k + i) - 1]
    BY <2>2, Slice
  <2>4. after = SubSeq(list, k, n)
    BY <2>1
  <2>5. \A i \in 1 .. d : (k + i) - 1 = m + i
    BY <1>2, <2>1, <2>3
  <2>6. QED
    BY <2>3, <2>4, <2>5
<1> HIDE DEF before, after
<1>7. <<x>> \in Seq(S) /\ Len(<<x>>) = 1 /\ <<x>>[1] = x
  OBVIOUS
<1>8. PICK one : one = <<x>>
  OBVIOUS
<1>9. /\ before \o one \in Seq(S) /\ Len(before \o one) = m + 1
      /\ \A i \in 1 .. m + 1 : (before \o one)[i] = IF i <= m THEN list[i] ELSE x
  BY <1>2, <1>4, <1>7, <1>8, Join
<1>10. PICK both : both = before \o one
  OBVIOUS
<1>11. both \in Seq(S) /\ Len(both) = m + 1
      /\ \A i \in 1 .. m + 1 : both[i] = IF i <= m THEN list[i] ELSE x
  BY <1>9, <1>10
<1>12. both \o after \in Seq(S) /\ Len(both \o after) = Len(list) + 1
       /\ \A i \in 1 .. Len(list) + 1 : (both \o after)[i] =
            IF i <= m + 1 THEN both[i] ELSE after[i - (m + 1)]
  <2>1. (m + 1) + d = Len(list) + 1
    <3>1. PICK n : n = Len(list)
      OBVIOUS
    <3>2. m \in 0 .. n /\ n \in Nat /\ d = n - m /\ d \in Nat
      BY <1>2, <1>5, <1>6, <3>1
    <3>3. m \in Int /\ d \in Int /\ n \in Int /\ m + d = n
      BY <3>2
    <3>4. (m + 1) + d = n + 1
      BY <3>3
    <3>5. QED
      BY <3>1, <3>4
  <2>2. PICK k : k = m + 1
    OBVIOUS
  <2>3. /\ both \o after \in Seq(S) /\ Len(both \o after) = k + d
        /\ \A i \in 1 .. k + d :
             (both \o after)[i] = IF i <= k THEN both[i] ELSE after[i - k]
    <3>1. Len(both) = k /\ Len(after) = d /\ both \in Seq(S) /\ after \in Seq(S)
      BY <1>6, <1>11, <2>2
    <3>2. QED
      BY <3>1, Join
  <2>4. QED
    BY <2>1, <2>2, <2>3
<1>13. PyInsert(list, index, x) = both \o after
  BY <1>3, <1>8, <1>10
<1>14. ASSUME NEW i \in 1 .. Len(list) + 1
       PROVE  (both \o after)[i] =
                IF i <= m THEN list[i] ELSE IF i = m + 1 THEN x ELSE list[i - 1]
  <2>1. CASE i <= m + 1
    BY <1>2, <1>11, <1>12, <2>1
  <2>2. CASE ~(i <= m + 1)
    <3>1. i - (m + 1) \in 1 .. d /\ m + (i - (m + 1)) = i - 1 /\ ~(i <= m) /\ i # m + 1
      BY <1>2, <1>5, <1>6, <2>2
    <3>2. after[i - (m + 1)] = list[i - 1]
      BY <1>6, <3>1
    <3>3. QED
      BY <1>12, <2>2, <3>1, <3>2
  <2>3. QED
    BY <2>1, <2>2
<1>15. InsertedBehind(list, index, x, m)
  BY <1>2, <1>1, <1>12, <1>13, <1>14 DEF InsertedBehind
<1>16. QED
  BY <1>12, <1>13, <1>15

LEMMA RemoveFacts ==
  ASSUME NEW S, NEW list \in Seq(S), NEW x
  PROVE  /\ RemoveFirst(list, x) \in Seq(S)
         /\ ~Contains(list, x) => RemoveFirst(list, x) = list
         /\ Contains(list, x) =>
              /\ Len(RemoveFirst(list, x)) = Len(list) - 1
              /\ \A i \in 1 .. (Len(list) - 1) :
                   RemoveFirst(list, x)[i] =
                     IF i <= PyIndex(list, x) THEN list[i] ELSE list[i + 1]
<1>1. CASE ~Contains(list, x)
  BY <1>1 DEF RemoveFirst, Contains
<1>2. CASE Contains(list, x)
  <2>1. PICK m : m = PyIndex(list, x)
    OBVIOUS
  <2>2. m \in 0 .. (Len(list) - 1) /\ Len(list) \in Nat
    BY <1>2, <2>1, IndexFacts
  <2>3. SelectInSeq(list, LAMBDA v : v = x) = m + 1
    <3>1. PICK q : q = SelectInSeq(list, LAMBDA v : v = x)
      OBVIOUS
    <3>2. PyIndex(list, x) = q - 1
      BY <3>1 DEF PyIndex
    <3>3. q \in Int
      <4>1. PyIndex(list, x) + 1 \in 0 .. Len(list)
        BY IndexFacts
      <4> DEFINE I == {i \in 1 .. Len(list) : list[i] = x}
      <4>2. q = IF I # {} THEN Min(I) ELSE 0
        BY <3>1 DEF SelectInSeq
      <4>3. I # {}
        BY <1>2 DEF Contains
      <4>4. I \subseteq Nat
        OBVIOUS
      <4>5. PICK k \in I : \A j \in I : k <= j
        <5> HIDE DEF I
        <5>1. QED
          BY <4>3, <4>4, Least
      <4>6. Min(I) \in I
        BY <4>5 DEF Min
      <4>7. QED
        BY <4>2, <4>3, <4>6
    <3>4. q = m + 1
      BY <2>1, <2>2, <3>2, <3>3
    <3>5. QED
      BY <3>1, <3>4
  <2> DEFINE before == SubSeq(list, 1, m)
             after == SubSeq(list, m + 2, Len(list))
  <2>4. RemoveFirst(list, x) = before \o after
    <3>1. (m + 1) - 1 = m /\ (m + 1) + 1 = m + 2
      BY <2>2
    <3>2. RemoveFirst(list, x) = RemoveAt(list, m + 1)
      BY <1>2, <2>3 DEF RemoveFirst, Contains
    <3>3. QED
      BY <3>1, <3>2 DEF RemoveAt
  <2>5. before \in Seq(S) /\ Len(before) = m /\ \A i \in 1 .. m : before[i] = list[i]
    BY <2>2, SubSeqProperties
  <2>6. PICK d : d = (Len(list) - m) - 1
    OBVIOUS
  <2>61. d \in Nat /\ after \in Seq(S) /\ Len(after) = d
         /\ \A i \in 1 .. d : after[i] = list[(m + 1) + i]
    <3>1. d = (Len(list) + 1) - (m + 2) /\ m + 2 \in Nat \ {0} /\ m + 2 <= Len(list) + 1
      BY <2>2, <2>6
    <3>2. /\ d \in Nat /\ after \in Seq(S) /\ Len(after) = d
          /\ \A i \in 1 .. d : after[i] = list[((m + 2) + i) - 1]
      BY <2>2, <3>1, Slice
    <3>3. \A i \in 1 .. d : ((m + 2) + i) - 1 = (m + 1) + i
      BY <2>2, <3>2
    <3>4. QED
      BY <3>2, <3>3
  <2> HIDE DEF before, after
  <2>7. before \o after \in Seq(S) /\ Len(before \o after) = Len(list) - 1
        /\ \A i \in 1 .. (Len(list) - 1) : (before \o after)[i] =
             IF i <= m THEN before[i] ELSE after[i - m]
    <3>1. m + d = Len(list) - 1
      BY <2>2, <2>6
    <3>2. /\ before \o after \in Seq(S) /\ Len(before \o after) = m + d
          /\ \A i \in 1 .. m + d :
               (before \o after)[i] = IF i <= m THEN before[i] ELSE after[i - m]
      <4>1. Len(before) = m /\ Len(after) = d /\ before \in Seq(S) /\ after \in Seq(S)
        BY <2>5, <2>61
      <4>2. QED
        BY <4>1, Join
    <3>3. QED
      BY <3>1, <3>2
  <2>8. ASSUME NEW i \in 1 .. (Len(list) - 1)
        PROVE  (before \o after)[i] = IF i <= m THEN list[i] ELSE list[i + 1]
    <3>1. CASE i <= m
      BY <2>2, <2>5, <2>7, <3>1
    <3>2. CASE ~(i <= m)
      <4>1. i - m \in 1 .. d /\ (m + 1) + (i - m) = i + 1
        BY <2>2, <2>6, <3>2
      <4>2. QED
        BY <2>61, <2>7, <3>2, <4>1
    <3>3. QED
      BY <3>1, <3>2
  <2>9. QED
    BY <1>2, <2>1, <2>4, <2>7, <2>8
<1>3. QED
  BY <1>1, <1>2

(* A key is inserted into, and removed from, an exact list.                 *)
LEMMA InsertExact ==
  ASSUME NEW kids, NEW list, Exact(list, kids), NEW x, x \notin kids, NEW index \in Nat
  PROVE  Exact(PyInsert(list, index, x), kids \cup {x})
<1> DEFINE S == kids \cup {x}
<1>1. list \in Seq(S) /\ x \in S /\ Len(list) \in Nat
  <2>1. list \in Seq(kids)
    BY DEF Exact
  <2>2. QED
    BY <2>1
<1>2. PICK n, new : n = Len(list) /\ new = PyInsert(list, index, x)
  OBVIOUS
<1>3. PICK m : InsertedBehind(list, index, x, m)
  <2> HIDE DEF S
  <2>1. QED
    BY <1>1, InsertFacts
<1>4. new \in Seq(S)
  <2> HIDE DEF S
  <2>1. QED
    BY <1>1, <1>2, InsertFacts
<1>5. /\ new \in Seq(S) /\ Len(new) = n + 1 /\ m \in 0 .. n
      /\ \A i \in 1 .. n + 1 :
           new[i] = IF i <= m THEN list[i] ELSE IF i = m + 1 THEN x ELSE list[i - 1]
  <2> HIDE DEF S
  <2>1. QED
    BY <1>2, <1>3, <1>4 DEF InsertedBehind
<1>6. n \in Nat /\ \A i \in 1 .. n : list[i] \in kids /\ list[i] # x
  <2>1. list \in Seq(kids)
    BY DEF Exact
  <2>2. QED
    BY <1>2, <2>1
<1>7. ASSUME NEW y \in S
      PROVE  \E i \in 1 .. n + 1 : new[i] = y
  <2>1. CASE y = x
    <3>1. m + 1 \in 1 .. n + 1 /\ ~(m + 1 <= m)
      BY <1>5, <1>6
    <3>2. QED
      BY <1>5, <2>1, <3>1
  <2>2. CASE y # x
    <3>1. PICK i \in 1 .. n : list[i] = y
      BY <1>2, <2>2 DEF Exact
    <3>2. CASE i <= m
      <4>1. i \in 1 .. n + 1
        BY <1>6
      <4>2. QED
        BY <1>5, <3>1, <3>2, <4>1
    <3>3. CASE ~(i <= m)
      <4>1. i + 1 \in 1 .. n + 1 /\ ~(i + 1 <= m) /\ i + 1 # m + 1 /\ (i + 1) - 1 = i
        BY <1>5, <1>6, <3>3
      <4>2. QED
        BY <1>5, <3>1, <4>1
    <3>4. QED
      BY <3>2, <3>3
  <2>3. QED
    BY <2>1, <2>2
<1>8. ASSUME NEW i \in 1 .. n + 1, NEW j \in 1 .. n + 1, new[i] = new[j]
      PROVE  i = j
  <2>1. \A k, l \in 1 .. n : list[k] = list[l] => k = l
    BY <1>2 DEF Exact
  <2>2. ASSUME NEW k \in 1 .. n + 1, k # m + 1
        PROVE  \E l \in 1 .. n : new[k] = list[l] /\ l = (IF k <= m THEN k ELSE k - 1)
    <3>1. CASE k <= m
      BY <1>5, <1>6, <3>1
    <3>2. CASE ~(k <= m)
      <4>1. k - 1 \in 1 .. n
        BY <1>5, <1>6, <2>2, <3>2
      <4>2. QED
        BY <1>5, <2>2, <3>2, <4>1
    <3>3. QED
      BY <3>1, <3>2
  <2>3. \A k \in 1 .. n + 1 : k = m + 1 => new[k] = x
    BY <1>5, <1>6
  <2>4. \A k \in 1 .. n + 1 : k # m + 1 => new[k] # x
    BY <1>6, <2>2
  <2>5. CASE i = m + 1 \/ j = m + 1
    BY <1>8, <2>3, <2>4, <2>5
  <2>6. CASE i # m + 1 /\ j # m + 1
    <3>1. PICK k \in 1 .. n : new[i] = list[k] /\ k = (IF i <= m THEN i ELSE i - 1)
      BY <2>2, <2>6
    <3>2. PICK l \in 1 .. n : new[j] = list[l] /\ l = (IF j <= m THEN j ELSE j - 1)
      BY <2>2, <2>6
    <3>3. k = l
      BY <1>8, <2>1, <3>1, <3>2
    <3>4. QED
      BY <1>5, <1>6, <2>6, <3>1, <3>2, <3>3
  <2>7. QED
    BY <2>5, <2>6
<1>9. QED
  BY <1>2, <1>5, <1>7, <1>8 DEF Exact

LEMMA RemoveExact ==
  ASSUME NEW kids, NEW list, Exact(list, kids), NEW x \in kids
  PROVE  Exact(RemoveFirst(list, x), kids \ {x})
<1>1. list \in Seq(kids) /\ Len(list) \in Nat /\ Contains(list, x)
  <2>1. list \in Seq(kids)
    BY DEF Exact
  <2>2. QED
    BY <2>1 DEF Exact, Contains
<1>2. PICK m, n, new : m = PyIndex(list, x) /\ n = Len(list) /\ new = RemoveFirst(list, x)
  OBVIOUS
<1>3. n \in Nat /\ m \in 0 .. (n - 1) /\ list[m + 1] = x
  BY <1>1, <1>2, IndexFacts
<1>4. /\ new \in Seq(kids) /\ Len(new) = n - 1 /\ n - 1 \in Nat
      /\ \A i \in 1 .. (n - 1) : new[i] = IF i <= m THEN list[i] ELSE list[i + 1]
  BY <1>1, <1>2, <1>3, RemoveFacts
<1>5. \A k, l \in 1 .. n : list[k] = list[l] => k = l
  BY <1>2 DEF Exact
<1>6. ASSUME NEW i \in 1 .. (n - 1)
      PROVE  new[i] \in kids \ {x}
  <2>1. CASE i <= m
    <3>1. i \in 1 .. n /\ m + 1 \in 1 .. n /\ i # m + 1
      BY <1>3, <2>1
    <3>2. QED
      BY <1>1, <1>2, <1>3, <1>4, <1>5, <2>1, <3>1
  <2>2. CASE ~(i <= m)
    <3>1. i + 1 \in 1 .. n /\ m + 1 \in 1 .. n /\ i + 1 # m + 1
      BY <1>3, <2>2
    <3>2. QED
      BY <1>1, <1>2, <1>3, <1>4, <1>5, <2>2, <3>1
  <2>3. QED
    BY <2>1, <2>2
<1>7. new \in Seq(kids \ {x})
  <2>1. DOMAIN new = 1 .. (n - 1) /\ new = [i \in 1 .. (n - 1) |-> new[i]]
    BY <1>4
  <2>2. new \in [1 .. (n - 1) -> kids \ {x}]
    BY <1>6, <2>1
  <2>3. QED
    BY <1>4, <2>2
<1>8. ASSUME NEW y \in kids \ {x}
      PROVE  \E i \in 1 .. (n - 1) : new[i] = y
  <2>1. PICK k \in 1 .. n : list[k] = y
    BY <1>2 DEF Exact
  <2>2. k # m + 1
    BY <1>3, <2>1
  <2>3. CASE k <= m
    <3>1. k \in 1 .. (n - 1)
      BY <1>3, <2>3
    <3>2. QED
      BY <1>4, <2>1, <2>3, <3>1
  <2>4. CASE ~(k <= m)
    <3>1. k - 1 \in 1 .. (n - 1) /\ ~(k - 1 <= m) /\ (k - 1) + 1 = k
      BY <1>3, <2>2, <2>4
    <3>2. QED
      BY <1>4, <2>1, <3>1
  <2>5. QED
    BY <2>3, <2>4
<1>9. ASSUME NEW i \in 1 .. (n - 1), NEW j \in 1 .. (n - 1), new[i] = new[j]
      PROVE  i = j
  <2>1. PICK k \in 1 .. n : new[i] = list[k] /\ k = (IF i <= m THEN i ELSE i + 1)
    BY <1>3, <1>4
  <2>2. PICK l \in 1 .. n : new[j] = list[l] /\ l = (IF j <= m THEN j ELSE j + 1)
    BY <1>3, <1>4
  <2>3. k = l
    BY <1>5, <1>9, <2>1, <2>2
  <2>4. QED
    BY <1>3, <2>1, <2>2, <2>3
<1>10. QED
  BY <1>2, <1>4, <1>7, <1>8, <1>9 DEF Exact

-----------------------------------------------------------------------------
(* Subtrees of the detailed tree, and the inheritance along them.           *)

Typing == Forest!TypeOK

LEMMA SubtreeFacts ==
  ASSUME NEW e \in live
  PROVE  /\ Subtree(e) \subseteq live /\ e \in Subtree(e)
         /\ \A y \in live : parent[y] \in Subtree(e) => y \in Subtree(e)
         /\ \A x \in Subtree(e) : x # e => parent[x] \in Subtree(e)
<1>1. Subtree(e) \subseteq live /\ e \in Subtree(e)
  BY DEF Subtree, Reach
<1>2. ASSUME NEW y \in live, parent[y] \in Subtree(e)
      PROVE  y \in Subtree(e)
  BY <1>2 DEF Subtree, Reach
<1>3. ASSUME NEW x \in Subtree(e), x # e, parent[x] \notin Subtree(e)
      PROVE  FALSE
  <2> DEFINE S == Subtree(e) \ {x}
  <2>1. S \in SUBSET live /\ e \in S
    BY <1>1, <1>3
  <2>2. \A y \in live \ {} : parent[y] \in S => y \in S
    BY <1>2, <1>3
  <2>3. x \in S
    <3> HIDE DEF S
    <3>1. QED
      BY <2>1, <2>2 DEF Subtree, Reach
  <2>4. QED
    BY <2>3
<1>4. QED
  BY <1>1, <1>2, <1>3

(* Even when e hangs from itself, its subtree has a start in every part:    *)
(* from each concept of it the pointers lead to e.                          *)
LEMMA SubtreeFounded ==
  ASSUME NEW e \in live, NEW T \in SUBSET Subtree(e), T # {}
  PROVE  \E x \in T : x = e \/ parent[x] \notin T
<1> SUFFICES ASSUME \A x \in T : x # e /\ parent[x] \in T PROVE FALSE
  OBVIOUS
<1> DEFINE S == Subtree(e) \ T
<1>1. S \in SUBSET live /\ e \in S
  BY SubtreeFacts
<1>2. \A y \in live \ {} : parent[y] \in S => y \in S
  BY SubtreeFacts
<1>3. \A x \in Subtree(e) : x \in S
  <2> HIDE DEF S
  <2>1. QED
    BY <1>1, <1>2 DEF Subtree, Reach
<1>4. QED
  BY <1>3

\* The pairs of a concept of the subtree and what it inherits.
Derived(e, first) ==
  {z \in Subtree(e) \X Seq(Nodes) :
     \A T \in SUBSET (Subtree(e) \X Seq(Nodes)) :
       /\ <<e, first>> \in T
       /\ \A x \in Subtree(e), w \in Seq(Nodes) :
            x # e /\ <<parent[x], w>> \in T => <<x, Under(w, parent[x])>> \in T
       => z \in T}

LEMMA DerivedFacts ==
  ASSUME Typing, NEW e \in live, NEW first \in Seq(Nodes)
  PROVE  /\ <<e, first>> \in Derived(e, first)
         /\ \A x \in Subtree(e), w \in Seq(Nodes) :
              x # e /\ <<parent[x], w>> \in Derived(e, first)
                => <<x, Under(w, parent[x])>> \in Derived(e, first)
         /\ \A z \in Derived(e, first) :
              \/ z = <<e, first>>
              \/ \E x \in Subtree(e), w \in Seq(Nodes) :
                   /\ x # e /\ <<parent[x], w>> \in Derived(e, first)
                   /\ z = <<x, Under(w, parent[x])>>
<1> DEFINE sub == Subtree(e)
           R == Derived(e, first)
           U == sub \X Seq(Nodes)
<1>1. sub \subseteq live /\ e \in sub /\ \A x \in sub : x # e => parent[x] \in sub
  BY SubtreeFacts
<1>2. live \subseteq Nodes /\ \A x \in live : parent[x] \in Nodes
  BY DEF Typing, Forest!TypeOK, Nodes, Forest!Nodes
<1>3. \A x \in sub, w \in Seq(Nodes) : x # e => Under(w, parent[x]) \in Seq(Nodes)
  BY <1>1, <1>2, UnderType
<1>4. <<e, first>> \in R
  BY <1>1 DEF Derived
<1>5. ASSUME NEW x \in sub, NEW w \in Seq(Nodes), x # e, <<parent[x], w>> \in R
      PROVE  <<x, Under(w, parent[x])>> \in R
  <2>1. <<x, Under(w, parent[x])>> \in U
    BY <1>3, <1>5
  <2>2. ASSUME NEW T \in SUBSET U, <<e, first>> \in T,
               \A y \in sub, v \in Seq(Nodes) :
                 y # e /\ <<parent[y], v>> \in T => <<y, Under(v, parent[y])>> \in T
        PROVE  <<x, Under(w, parent[x])>> \in T
    <3>1. <<parent[x], w>> \in T
      BY <1>5, <2>2 DEF Derived
    <3>2. QED
      BY <1>5, <2>2, <3>1
  <2>3. QED
    BY <2>1, <2>2 DEF Derived
<1>6. ASSUME NEW z \in R, z # <<e, first>>,
             \A x \in sub, w \in Seq(Nodes) :
               x # e /\ <<parent[x], w>> \in R => z # <<x, Under(w, parent[x])>>
      PROVE  FALSE
  <2> DEFINE T == R \ {z}
  <2>1. T \in SUBSET U /\ <<e, first>> \in T
    BY <1>4, <1>6 DEF Derived
  <2>2. \A x \in sub, w \in Seq(Nodes) :
          x # e /\ <<parent[x], w>> \in T => <<x, Under(w, parent[x])>> \in T
    BY <1>5, <1>6
  <2>3. z \in T
    <3> HIDE DEF T
    <3>1. QED
      BY <2>1, <2>2 DEF Derived
  <2>4. QED
    BY <2>3
<1>7. QED
  BY <1>4, <1>5, <1>6

(* What one subtree inherits: there is a function along its pointers.       *)
LEMMA ChainExists ==
  ASSUME Typing, NEW e \in live, NEW first \in Seq(Nodes)
  PROVE  \E ch : /\ ch \in [Subtree(e) -> Seq(Nodes)]
                 /\ ch = [x \in Subtree(e) |-> IF x = e THEN first
                            ELSE Under(ch[parent[x]], parent[x])]
<1> DEFINE sub == Subtree(e)
           R == Derived(e, first)
           One(x) == \E v \in Seq(Nodes) :
                       <<x, v>> \in R /\ \A w : <<x, w>> \in R => w = v
           Bad == {x \in sub : ~One(x)}
<1>1. sub \subseteq live /\ e \in sub /\ \A x \in sub : x # e => parent[x] \in sub
  BY SubtreeFacts
<1>2. One(e)
  <2>1. <<e, first>> \in R
    BY DerivedFacts
  <2>2. ASSUME NEW w, <<e, w>> \in R PROVE w = first
    BY <2>2, DerivedFacts
  <2>3. QED
    BY <2>1, <2>2
<1>3. ASSUME NEW x \in sub, x # e, One(parent[x])
      PROVE  One(x)
  <2>1. PICK v \in Seq(Nodes) :
          <<parent[x], v>> \in R /\ \A w : <<parent[x], w>> \in R => w = v
    BY <1>3
  <2>2. <<x, Under(v, parent[x])>> \in R /\ Under(v, parent[x]) \in Seq(Nodes)
    <3>1. <<x, Under(v, parent[x])>> \in R
      BY <1>3, <2>1, DerivedFacts
    <3>2. QED
      BY <3>1 DEF Derived
  <2>3. ASSUME NEW w, <<x, w>> \in R PROVE w = Under(v, parent[x])
    <3>1. PICK y \in sub, u \in Seq(Nodes) :
            y # e /\ <<parent[y], u>> \in R /\ <<x, w>> = <<y, Under(u, parent[y])>>
      BY <1>3, <2>3, DerivedFacts
    <3>2. y = x /\ w = Under(u, parent[y])
      BY <3>1
    <3>3. u = v
      BY <2>1, <3>1, <3>2
    <3>4. QED
      BY <3>2, <3>3
  <2>4. QED
    BY <2>2, <2>3
<1>4. \A x \in sub : One(x)
  <2> HIDE DEF One, R
  <2> SUFFICES ASSUME Bad # {} PROVE FALSE
    OBVIOUS
  <2>1. PICK x \in Bad : x = e \/ parent[x] \notin Bad
    BY SubtreeFounded
  <2>2. QED
    BY <1>1, <1>2, <1>3, <2>1
<1> DEFINE ch == [x \in sub |-> CHOOSE v \in Seq(Nodes) : <<x, v>> \in R]
<1>5. ASSUME NEW x \in sub
      PROVE  ch[x] \in Seq(Nodes) /\ <<x, ch[x]>> \in R /\ \A w : <<x, w>> \in R => w = ch[x]
  <2>1. PICK v \in Seq(Nodes) : <<x, v>> \in R /\ \A w : <<x, w>> \in R => w = v
    BY <1>4
  <2>2. ch[x] \in Seq(Nodes) /\ <<x, ch[x]>> \in R
    BY <2>1
  <2>3. QED
    BY <2>1, <2>2
<1>6. ch \in [sub -> Seq(Nodes)]
  BY <1>5
<1>7. ASSUME NEW x \in sub
      PROVE  ch[x] = IF x = e THEN first ELSE Under(ch[parent[x]], parent[x])
  <2> HIDE DEF ch
  <2>1. CASE x = e
    BY <1>5, <2>1, DerivedFacts
  <2>2. CASE x # e
    <3>1. /\ parent[x] \in sub /\ <<parent[x], ch[parent[x]]>> \in R
          /\ ch[parent[x]] \in Seq(Nodes)
      BY <1>1, <1>5, <2>2
    <3>2. <<x, Under(ch[parent[x]], parent[x])>> \in R
      BY <2>2, <3>1, DerivedFacts
    <3>3. QED
      BY <1>5, <2>2, <3>2
  <2>3. QED
    BY <2>1, <2>2
<1>8. ch = [x \in sub |-> IF x = e THEN first ELSE Under(ch[parent[x]], parent[x])]
  <2> DEFINE other == [x \in sub |-> IF x = e THEN first ELSE Under(ch[parent[x]], parent[x])]
  <2>1. \A x \in sub : ch[x] = other[x]
    BY <1>7
  <2>2. other = [x \in sub |-> other[x]]
    <3> HIDE DEF ch, sub
    <3>1. QED
      BY Zenon
  <2>3. ch = [x \in sub |-> ch[x]]
    <3> HIDE DEF ch
    <3>1. QED
      BY <1>6
  <2> HIDE DEF ch, other
  <2>4. ch = other
    BY <2>1, <2>2, <2>3
  <2>5. QED
    BY <2>4 DEF other
<1> HIDE DEF ch
<1>9. QED
  BY <1>6, <1>8

(* What Inherit makes of the permissions: the subtree of e anew, the others *)
(* as they were.                                                            *)
LEMMA InheritFacts ==
  ASSUME Typing, NEW e \in live, NEW c \in Concepts, NEW perms \in [Concepts -> Seq(Nodes)]
  PROVE  /\ Inherit(perms, c, e) \in [Concepts -> Seq(Nodes)]
         /\ Inherit(perms, c, e)[e] = Under(perms[c], c)
         /\ \A x \in Subtree(e) : x # e =>
              Inherit(perms, c, e)[x] = Under(Inherit(perms, c, e)[parent[x]], parent[x])
         /\ \A x \in Concepts : x \notin Subtree(e) => Inherit(perms, c, e)[x] = perms[x]
<1> DEFINE sub == Subtree(e)
           first == Under(perms[c], c)
           Is(ch) == ch = [x \in sub |-> IF x = e THEN Under(perms[c], c)
                                         ELSE Under(ch[parent[x]], parent[x])]
           f == CHOOSE ch : Is(ch)
           new == [x \in Concepts |-> IF x \in sub THEN f[x] ELSE perms[x]]
<1>1. sub \subseteq Concepts /\ e \in sub /\ \A x \in sub : x # e => parent[x] \in sub
  BY SubtreeFacts DEF Typing, Forest!TypeOK
<1>2. first \in Seq(Nodes)
  <2>1. perms[c] \in Seq(Nodes) /\ c \in Nodes
    BY DEF Nodes
  <2>2. QED
    BY <2>1, UnderType
<1>3. \E ch : Is(ch)
  BY <1>2, ChainExists
<1>4. Is(f)
  <2> HIDE DEF Is
  <2>1. QED
    BY <1>3
<1>5. Inherit(perms, c, e) = new
  BY DEF Inherit
<1> HIDE DEF f
<1>6. f[e] = first /\ \A x \in sub : x # e => f[x] = Under(f[parent[x]], parent[x])
  BY <1>1, <1>4
<1>7. \A x \in sub : f[x] \in Seq(Nodes)
  <2> DEFINE Bad == {x \in sub : f[x] \notin Seq(Nodes)}
  <2> SUFFICES ASSUME Bad # {} PROVE FALSE
    OBVIOUS
  <2>1. PICK x \in Bad : x = e \/ parent[x] \notin Bad
    BY SubtreeFounded
  <2>2. x # e
    BY <1>2, <1>6
  <2>3. f[parent[x]] \in Seq(Nodes) /\ parent[x] \in Nodes
    BY <1>1, <2>1, <2>2 DEF Nodes
  <2>4. f[x] \in Seq(Nodes)
    BY <1>6, <2>2, <2>3, UnderType
  <2>5. QED
    BY <2>4
<1>8. new \in [Concepts -> Seq(Nodes)]
  BY <1>7
<1>9. \A x \in sub : new[x] = f[x]
  BY <1>1
<1>10. \A x \in Concepts : x \notin sub => new[x] = perms[x]
  OBVIOUS
<1> HIDE DEF new, Is
<1>11. QED
  BY <1>1, <1>5, <1>6, <1>8, <1>9, <1>10

InheritRun(acc, perms, c, list) ==
  /\ acc[0] = perms
  /\ \A k \in Nat : k + 1 <= Len(list) => acc[k + 1] = Inherit(acc[k], c, list[k + 1])

LEMMA InheritRuns ==
  ASSUME Typing, NEW c \in Concepts, NEW perms \in [Concepts -> Seq(Nodes)],
         NEW list \in Seq(live)
  PROVE  \E acc : /\ InheritRun(acc, perms, c, list)
                  /\ FoldLeft(LAMBDA was, e : Inherit(was, c, e), perms, list) = acc[Len(list)]
<1> DEFINE n == Len(list)
           A == [Concepts -> Seq(Nodes)]
           F == [p \in A \X (1 .. n) |-> Inherit(p[1], c, list[p[2]])]
           Is(it) == it = [s \in SUBSET DOMAIN list |-> IF s = {} THEN perms ELSE
                             Inherit(it[s \ {Max(s)}], c, list[Max(s)])]
<1>1. n \in Nat /\ DOMAIN list = 1 .. n /\ \A i \in 1 .. n : list[i] \in live
  OBVIOUS
<1>2. F \in [A \X (1 .. n) -> A]
  <2>1. \A a \in A, i \in 1 .. n : Inherit(a, c, list[i]) \in A
    BY <1>1, InheritFacts
  <2> HIDE DEF A, n
  <2>2. QED
    BY <2>1
<1>3. PICK it : IsFold(it, A, F, perms, n)
  <2> HIDE DEF F, n
  <2>1. QED
    BY <1>1, <1>2, FoldExists
<1>4. Is(it)
  <2>1. ASSUME NEW s \in SUBSET (1 .. n), s # {}
        PROVE  F[<<it[s \ {Max(s)}], Max(s)>>] = Inherit(it[s \ {Max(s)}], c, list[Max(s)])
    <3>1. Max(s) \in 1 .. n
      BY <1>1, <2>1, Largest
    <3>2. it[s \ {Max(s)}] \in A
      BY <1>3 DEF IsFold
    <3>4. <<it[s \ {Max(s)}], Max(s)>> \in A \X (1 .. n)
      BY <3>1, <3>2
    <3> HIDE DEF A, n
    <3>5. QED
      BY <3>4
  <2> HIDE DEF F, A, n
  <2>2. QED
    BY <1>1, <1>3, <2>1, Zenon DEF IsFold
<1> DEFINE f == CHOOSE g : Is(g)
<1>5. Is(f)
  <2> HIDE DEF Is
  <2>1. QED
    BY <1>4
<1>6. FoldLeft(LAMBDA was, e : Inherit(was, c, e), perms, list) = f[DOMAIN list]
  BY DEF FoldLeft, MapThenFoldSet
<1> HIDE DEF f
<1> DEFINE acc == [k \in 0 .. n |-> f[1 .. k]]
<1>7. acc[0] = perms
  <2>1. 1 .. 0 = {} /\ {} \in SUBSET DOMAIN list
    OBVIOUS
  <2>2. f[{}] = perms
    BY <1>5, <2>1
  <2>3. QED
    BY <1>1, <2>1, <2>2
<1>8. ASSUME NEW k \in Nat, k + 1 <= n
      PROVE  acc[k + 1] = Inherit(acc[k], c, list[k + 1])
  <2>1. 1 .. k + 1 \in SUBSET DOMAIN list /\ 1 .. k + 1 # {}
        /\ Max(1 .. k + 1) = k + 1 /\ (1 .. k + 1) \ {k + 1} = 1 .. k
    BY <1>1, <1>8, CountsTo
  <2>2. f[1 .. k + 1] = Inherit(f[1 .. k], c, list[k + 1])
    <3> HIDE DEF n
    <3>1. f[1 .. k + 1] =
             Inherit(f[(1 .. k + 1) \ {Max(1 .. k + 1)}], c, list[Max(1 .. k + 1)])
      BY <1>5, <2>1
    <3>2. QED
      BY <2>1, <3>1
  <2>3. k + 1 \in 0 .. n /\ k \in 0 .. n
    BY <1>1, <1>8
  <2>4. QED
    BY <2>2, <2>3
<1>9. acc[n] = f[DOMAIN list]
  BY <1>1
<1> HIDE DEF acc, f
<1>10. QED
  BY <1>6, <1>7, <1>8, <1>9 DEF InheritRun

LEMMA InheritRunType ==
  ASSUME Typing, NEW c \in Concepts, NEW perms \in [Concepts -> Seq(Nodes)],
         NEW list \in Seq(live), NEW acc, InheritRun(acc, perms, c, list)
  PROVE  \A k \in Nat : k <= Len(list) => acc[k] \in [Concepts -> Seq(Nodes)]
<1> DEFINE n == Len(list)
           A == [Concepts -> Seq(Nodes)]
           Q == {k \in Nat : k <= n => acc[k] \in A}
<1>1. 0 \in Q
  BY DEF InheritRun
<1>2. ASSUME NEW k \in Nat, k \in Q
      PROVE  k + 1 \in Q
  <2> SUFFICES ASSUME k + 1 <= n PROVE acc[k + 1] \in A
    OBVIOUS
  <2>1. acc[k] \in A /\ list[k + 1] \in live
    BY <1>2
  <2>2. acc[k + 1] = Inherit(acc[k], c, list[k + 1])
    BY DEF InheritRun
  <2>3. QED
    BY <2>1, <2>2, InheritFacts
<1>3. Nat \subseteq Q
  <2> HIDE DEF Q
  <2>1. QED
    BY <1>1, <1>2, Counting
<1>4. QED
  BY <1>3

-----------------------------------------------------------------------------
(* Types of the detailed tree.                                              *)

Links ==
  /\ usedLinks \in SUBSET LinkIds
  /\ DOMAIN linkedTo = Concepts
  /\ \A c \in Concepts : linkedTo[c] \in [DOMAIN linkedTo[c] -> Nodes]
                         /\ DOMAIN linkedTo[c] \subseteq usedLinks

TreeTyped ==
  /\ Moving
  /\ IsFiniteSet(live)
  /\ children \in [Nodes -> Seq(used)]
  /\ parentPerms \in [Concepts -> Seq(Nodes)]
  /\ Links

LEMMA TypedFacts ==
  ASSUME TreeTyped
  PROVE  /\ Typing /\ Nodes = Forest!Nodes /\ Concepts \subseteq Nodes /\ Project \in Nodes
         /\ used \subseteq Concepts /\ live \subseteq used /\ Stored \subseteq Nodes
         /\ parent \in [Concepts -> Nodes] /\ orphans \subseteq used
         /\ \A n \in Nodes :
              children[n] \in Seq(used) /\ IsFiniteSet(Kids(n)) /\ Kids(n) \subseteq live
<1>1. Nodes = Forest!Nodes
  BY DEF Nodes, Forest!Nodes
<1>2. Typing /\ used \subseteq Concepts /\ live \subseteq used /\ parent \in [Concepts -> Nodes]
      /\ orphans \subseteq used
  BY <1>1 DEF TreeTyped, Moving, PointersTyped, Typing, Forest!TypeOK
<1>3. \A n \in Nodes : IsFiniteSet(Kids(n)) /\ Kids(n) \subseteq live
  BY FS_Subset DEF Kids, TreeTyped
<1>4. QED
  BY <1>1, <1>2, <1>3 DEF TreeTyped, Nodes, Stored

LEMMA ElementsIn ==
  ASSUME NEW S, NEW s \in Seq(S)
  PROVE  ToSet(s) \subseteq S
  BY DEF ToSet

LEMMA TypedIsTypeOK ==
  ASSUME TreeTyped
  PROVE  TypeOK
<1>1. \A n \in Nodes : ToSet(children[n]) \subseteq used
  BY TypedFacts, ElementsIn
<1>2. \A c \in Concepts : ToSet(parentPerms[c]) \subseteq Nodes
  BY ElementsIn DEF TreeTyped
<1>3. QED
  BY <1>1, <1>2, TypedFacts DEF TypeOK, TreeTyped, Links, Moving, AskedTyped

(* The list operations leave lists of keys lists of keys.                   *)
LEMMA RepairKeeps ==
  ASSUME NEW U, NEW lists \in [Nodes -> Seq(U)], NEW n \in Nodes, NEW kids
  PROVE  Repair(lists, n, kids) \in [Nodes -> Seq(U)]
<1>1. Repaired(lists[n], kids) \in Seq(U)
  BY RepairedType
<1>2. QED
  BY <1>1 DEF Repair

LEMMA RepairUpdatedKeeps ==
  ASSUME NEW U, NEW lists \in [Nodes -> Seq(U)], NEW c
  PROVE  RepairUpdated(lists, c) \in [Nodes -> Seq(U)]
<1>1. \A n \in Nodes : Repaired(lists[n], Kids(n)) \in Seq(U)
  BY RepairedType
<1>2. QED
  BY <1>1 DEF RepairUpdated

LEMMA IndexesNat ==
  ASSUME NEW S, NEW list \in Seq(S), NEW kids, IsFiniteSet(kids), kids \subseteq S, NEW x
  PROVE  ConceptIndexes(list, kids, x) \subseteq Nat
<1> SUFFICES ASSUME NEW r \in Returned(list, kids)
             PROVE  (IF Contains(r, x) THEN PyIndex(r, x) ELSE Len(r)) \in Nat
  BY DEF ConceptIndexes
<1> DEFINE others == kids \ ToSet(Listed(list, kids))
<1>1. PICK rest \in SetToSeqs(others) : r = Listed(list, kids) \o rest
  BY DEF Returned
<1>2. IsFiniteSet(others)
  BY FS_Subset
<1>3. Cardinality(others) \in Nat
  <2> HIDE DEF others
  <2>1. QED
    BY <1>2, FS_CardinalityType
<1>4. rest \in [1 .. Cardinality(others) -> others]
  BY DEF SetToSeqs
<1>5. rest \in Seq(S)
  <2>1. others \subseteq S
    OBVIOUS
  <2> HIDE DEF others
  <2>2. rest \in [1 .. Cardinality(others) -> S]
    BY <1>4, <2>1
  <2>3. QED
    BY <1>3, <2>2
<1>6. Listed(list, kids) \in Seq(S)
  BY RepairedType
<1>7. r \in Seq(S) /\ Len(r) \in Nat
  BY <1>1, <1>5, <1>6, ConcatProperties
<1>8. QED
  BY <1>7, IndexFacts

LEMMA InsertIndexesNat ==
  ASSUME TreeTyped, NEW c, NEW p \in Nodes, NEW s, SiblingGiven(p, s)
  PROVE  InsertIndexes(c, p, s) \subseteq Nat
<1>1. children[p] \in Seq(used) /\ IsFiniteSet(Kids(p)) /\ Kids(p) \subseteq used
  BY TypedFacts
<1>2. CASE s = NoSibling
  BY <1>1, <1>2 DEF InsertIndexes
<1>3. CASE s # NoSibling
  <2>1. Contains(children[p], s)
    BY <1>3 DEF SiblingGiven
  <2>2. PICK at : at = PyIndex(children[p], s)
    OBVIOUS
  <2>3. at \in Nat
    BY <1>1, <2>1, <2>2, IndexFacts
  <2>4. ConceptIndexes(children[p], Kids(p), c) \subseteq Nat
    BY <1>1, IndexesNat
  <2>5. \A i \in ConceptIndexes(children[p], Kids(p), c) :
          (IF i + 1 < at THEN at - 1 ELSE at) \in Nat
    BY <2>3, <2>4
  <2>6. QED
    BY <1>3, <2>2, <2>3, <2>5 DEF InsertIndexes
<1>4. QED
  BY <1>2, <1>3

LEMMA PlaceKeeps ==
  ASSUME TreeTyped, NEW c \in used, NEW from \in Nodes, NEW p \in Nodes, NEW s, NEW i \in Nat
  PROVE  /\ Removed(c, from, p, s) \in [Nodes -> Seq(used)]
         /\ Inserted(c, from, p, s, i) \in [Nodes -> Seq(used)]
<1>1. ListsBefore(c, p, s) \in [Nodes -> Seq(used)]
  BY RepairKeeps DEF ListsBefore, TreeTyped
<1>2. PICK lists \in [Nodes -> Seq(used)] : lists = ListsBefore(c, p, s)
  BY <1>1
<1>3. RemoveFirst(lists[from], c) \in Seq(used)
  BY RemoveFacts
<1>4. Removed(c, from, p, s) \in [Nodes -> Seq(used)]
  BY <1>2, <1>3 DEF Removed
<1>5. PICK out \in [Nodes -> Seq(used)] : out = Removed(c, from, p, s)
  BY <1>4
<1>6. PyInsert(out[p], i, c) \in Seq(used)
  BY InsertFacts
<1>7. QED
  BY <1>4, <1>5, <1>6 DEF Inserted

LEMMA UpdatedType ==
  ASSUME TreeTyped, NEW c \in Nodes
  PROVE  Updated(c) \in Seq(live)
<1> DEFINE dead == {i \in DOMAIN children[c] : children[c][i] \notin live}
<1>1. children[c] \in Seq(used)
  BY TypedFacts
<1>2. PICK list \in Seq(used) : list = children[c]
  BY <1>1
<1>3. CASE dead = {}
  <2>1. \A i \in 1 .. Len(list) : list[i] \in live
    BY <1>2, <1>3
  <2>2. list \in Seq(live)
    <3>1. list \in [1 .. Len(list) -> live] /\ Len(list) \in Nat
      BY <2>1
    <3>2. QED
      BY <3>1
  <2>3. QED
    BY <1>2, <1>3, <2>2 DEF Updated
<1>4. CASE dead # {}
  <2>1. dead \subseteq 1 .. Len(list) /\ dead \subseteq Nat
    BY <1>2
  <2>2. PICK m \in dead : \A k \in dead : m <= k
    <3> HIDE DEF dead
    <3>1. QED
      BY <1>4, <2>1, Least
  <2>3. Min(dead) = m
    <3>1. Min(dead) \in dead /\ \A k \in dead : Min(dead) <= k
      BY <2>2 DEF Min
    <3>2. PICK q : q = Min(dead)
      OBVIOUS
    <3>3. q \in dead /\ q <= m /\ m <= q
      BY <2>2, <3>1, <3>2
    <3>4. q = m
      BY <2>1, <3>3
    <3>5. QED
      BY <3>2, <3>4
  <2>4. \A i \in 1 .. (m - 1) : list[i] \in live
    <3> SUFFICES ASSUME NEW i \in 1 .. (m - 1) PROVE list[i] \in live
      OBVIOUS
    <3>1. i \in 1 .. Len(list) /\ ~(m <= i)
      BY <2>1
    <3>2. i \notin dead
      BY <2>2, <3>1
    <3>3. QED
      BY <1>2, <3>1, <3>2
  <2>5. SubSeq(list, 1, m - 1) \in Seq(live)
    BY <2>1, <2>4, SubSeqProperties
  <2>6. QED
    BY <1>2, <1>4, <2>3, <2>5 DEF Updated
<1>5. QED
  BY <1>3, <1>4

LEMMA BelowType ==
  ASSUME TreeTyped, NEW p \in Nodes
  PROVE  Below(p, parentPerms) \in Seq(Nodes)
<1>1. CASE p = Project
  <2>1. <<Project>> \in Seq(Nodes)
    BY DEF Nodes
  <2>2. QED
    BY <1>1, <2>1 DEF Below
<1>2. CASE p # Project
  <2>1. parentPerms[p] \in Seq(Nodes)
    BY <1>2 DEF TreeTyped, Nodes
  <2>2. QED
    BY <1>2, <2>1, UnderType DEF Below
<1>3. QED
  BY <1>1, <1>2

LEMMA InheritAllType ==
  ASSUME TreeTyped, NEW c \in Concepts, NEW p \in Nodes
  PROVE  InheritAll(c, p) \in [Concepts -> Seq(Nodes)]
<1>1. Below(p, parentPerms) \in Seq(Nodes)
  BY BelowType
<1>2. [parentPerms EXCEPT ![c] = Below(p, parentPerms)] \in [Concepts -> Seq(Nodes)]
  BY <1>1 DEF TreeTyped
<1>3. PICK first \in [Concepts -> Seq(Nodes)] :
        first = [parentPerms EXCEPT ![c] = Below(p, parentPerms)]
  BY <1>2
<1>4. PICK list \in Seq(live) : list = Updated(c)
  BY UpdatedType DEF Nodes
<1>5. Typing
  BY TypedFacts
<1>6. PICK acc : /\ InheritRun(acc, first, c, list)
                 /\ FoldLeft(LAMBDA was, e : Inherit(was, c, e), first, list) = acc[Len(list)]
  BY <1>5, InheritRuns
<1>7. acc[Len(list)] \in [Concepts -> Seq(Nodes)]
  <2>1. \A k \in Nat : k <= Len(list) => acc[k] \in [Concepts -> Seq(Nodes)]
    BY <1>5, <1>6, InheritRunType
  <2>2. Len(list) \in Nat
    OBVIOUS
  <2>3. QED
    BY <2>1, <2>2
<1>8. InheritAll(c, p) = FoldLeft(LAMBDA was, e : Inherit(was, c, e), first, list)
  BY <1>3, <1>4 DEF InheritAll
<1>9. QED
  BY <1>6, <1>7, <1>8

\* One key of the list _serve_project_children_json goes through.
ServeStep(acc, list, hidden, k) ==
  IF acc.ended THEN acc
  ELSE IF list[k] \in live THEN [acc EXCEPT !.ended = list[k] \notin hidden]
  ELSE IF k > Len(acc.list) THEN [acc EXCEPT !.ended = TRUE]
  ELSE [acc EXCEPT !.list = RemoveFirst(@, @[k])]

ServeRun(acc, list, hidden) ==
  /\ acc[0] = [list |-> list, ended |-> FALSE]
  /\ \A k \in Nat : k + 1 <= Len(list) => acc[k + 1] = ServeStep(acc[k], list, hidden, k + 1)

LEMMA ServeStepType ==
  ASSUME NEW U, NEW a \in [list : Seq(U), ended : BOOLEAN], NEW list, NEW hidden, NEW k
  PROVE  ServeStep(a, list, hidden, k) \in [list : Seq(U), ended : BOOLEAN]
<1>1. a.list \in Seq(U) /\ a.ended \in BOOLEAN
  OBVIOUS
<1>2. PICK short \in Seq(U) : short = RemoveFirst(a.list, a.list[k])
  BY <1>1, RemoveFacts
<1>3. [a EXCEPT !.ended = list[k] \notin hidden] \in [list : Seq(U), ended : BOOLEAN]
  OBVIOUS
<1>4. [a EXCEPT !.ended = TRUE] \in [list : Seq(U), ended : BOOLEAN]
  OBVIOUS
<1>5. [a EXCEPT !.list = RemoveFirst(@, @[k])] = [a EXCEPT !.list = short]
  BY <1>2
<1>6. [a EXCEPT !.list = short] \in [list : Seq(U), ended : BOOLEAN]
  OBVIOUS
<1>7. QED
  BY <1>3, <1>4, <1>5, <1>6 DEF ServeStep

LEMMA ServeRuns ==
  ASSUME NEW U, NEW list \in Seq(U), NEW hidden
  PROVE  \E acc : ServeRun(acc, list, hidden) /\ ServedList(list, hidden) = acc[Len(list)].list
<1> DEFINE n == Len(list)
           A == [list : Seq(U), ended : BOOLEAN]
           first == [list |-> list, ended |-> FALSE]
           F == [p \in A \X (1 .. n) |-> ServeStep(p[1], list, hidden, p[2])]
           id == [k \in DOMAIN list |-> k]
           Is(it) == it = [s \in SUBSET DOMAIN id |-> IF s = {} THEN first ELSE
                             ServeStep(it[s \ {Max(s)}], list, hidden, id[Max(s)])]
<1>1. n \in Nat /\ DOMAIN list = 1 .. n /\ DOMAIN id = 1 .. n /\ first \in A
  OBVIOUS
<1>2. F \in [A \X (1 .. n) -> A]
  <2>1. \A a \in A, i \in 1 .. n : ServeStep(a, list, hidden, i) \in A
    BY ServeStepType
  <2> HIDE DEF A, n
  <2>2. QED
    BY <2>1
<1>3. PICK it : IsFold(it, A, F, first, n)
  <2> HIDE DEF F, A, n, first
  <2>1. QED
    BY <1>1, <1>2, FoldExists
<1>4. Is(it)
  <2>1. ASSUME NEW s \in SUBSET (1 .. n), s # {}
        PROVE  F[<<it[s \ {Max(s)}], Max(s)>>] =
                 ServeStep(it[s \ {Max(s)}], list, hidden, id[Max(s)])
    <3>1. Max(s) \in 1 .. n
      BY <1>1, <2>1, Largest
    <3>2. it[s \ {Max(s)}] \in A
      BY <1>3 DEF IsFold
    <3>3. id[Max(s)] = Max(s)
      BY <1>1, <3>1
    <3>4. <<it[s \ {Max(s)}], Max(s)>> \in A \X (1 .. n)
      BY <3>1, <3>2
    <3> HIDE DEF A, n, id
    <3>5. QED
      BY <3>3, <3>4
  <2> HIDE DEF F, A, n, id, first
  <2>2. QED
    BY <1>1, <1>3, <2>1, Zenon DEF IsFold
<1> DEFINE f == CHOOSE g : Is(g)
<1>5. Is(f)
  <2> HIDE DEF Is
  <2>1. QED
    BY <1>4
<1>6. ServedList(list, hidden) = f[DOMAIN id].list
  BY DEF ServedList, FoldLeft, MapThenFoldSet, ServeStep
<1> HIDE DEF f
<1> DEFINE acc == [k \in 0 .. n |-> f[1 .. k]]
<1>7. acc[0] = first
  <2>1. 1 .. 0 = {} /\ {} \in SUBSET DOMAIN id
    OBVIOUS
  <2>2. f[{}] = first
    BY <1>5, <2>1
  <2>3. QED
    BY <1>1, <2>1, <2>2
<1>8. ASSUME NEW k \in Nat, k + 1 <= n
      PROVE  acc[k + 1] = ServeStep(acc[k], list, hidden, k + 1)
  <2>1. 1 .. k + 1 \in SUBSET DOMAIN id /\ 1 .. k + 1 # {}
        /\ Max(1 .. k + 1) = k + 1 /\ (1 .. k + 1) \ {k + 1} = 1 .. k
    BY <1>1, <1>8, CountsTo
  <2>2. id[k + 1] = k + 1
    BY <1>1, <1>8
  <2>3. f[1 .. k + 1] = ServeStep(f[1 .. k], list, hidden, k + 1)
    <3> HIDE DEF n, id, first
    <3>1. f[1 .. k + 1] =
             ServeStep(f[(1 .. k + 1) \ {Max(1 .. k + 1)}], list, hidden, id[Max(1 .. k + 1)])
      BY <1>5, <2>1
    <3>2. QED
      BY <2>1, <2>2, <3>1
  <2>4. k + 1 \in 0 .. n /\ k \in 0 .. n
    BY <1>1, <1>8
  <2>5. QED
    BY <2>3, <2>4
<1>9. acc[n] = f[DOMAIN id]
  BY <1>1
<1> HIDE DEF acc, f, id
<1>10. QED
  BY <1>6, <1>7, <1>8, <1>9 DEF ServeRun

LEMMA ServedType ==
  ASSUME NEW U, NEW list \in Seq(U), NEW hidden
  PROVE  ServedList(list, hidden) \in Seq(U)
<1>1. PICK acc : ServeRun(acc, list, hidden) /\ ServedList(list, hidden) = acc[Len(list)].list
  BY ServeRuns
<1> DEFINE n == Len(list)
           A == [list : Seq(U), ended : BOOLEAN]
           Q == {k \in Nat : k <= n => acc[k] \in A}
<1>2. 0 \in Q
  <2>1. [list |-> list, ended |-> FALSE] \in A
    OBVIOUS
  <2>2. QED
    BY <1>1, <2>1 DEF ServeRun
<1>3. ASSUME NEW k \in Nat, k \in Q
      PROVE  k + 1 \in Q
  <2> SUFFICES ASSUME k + 1 <= n PROVE acc[k + 1] \in A
    OBVIOUS
  <2>1. acc[k] \in A
    BY <1>3
  <2>2. acc[k + 1] = ServeStep(acc[k], list, hidden, k + 1)
    BY <1>1 DEF ServeRun
  <2>3. QED
    BY <2>1, <2>2, ServeStepType
<1>4. Nat \subseteq Q
  <2> HIDE DEF Q
  <2>1. QED
    BY <1>2, <1>3, Counting
<1>5. n \in Nat
  OBVIOUS
<1>6. acc[n] \in A
  BY <1>4, <1>5
<1>7. QED
  BY <1>1, <1>6

(* Where every key has its concept the loop removes nothing.                *)
LEMMA ServedSame ==
  ASSUME NEW list \in Seq(live), NEW hidden
  PROVE  ServedList(list, hidden) = list
<1>1. PICK acc : ServeRun(acc, list, hidden) /\ ServedList(list, hidden) = acc[Len(list)].list
  BY ServeRuns
<1> DEFINE n == Len(list)
           A == [list : Seq(live), ended : BOOLEAN]
           Q == {k \in Nat : k <= n => acc[k] \in A /\ acc[k].list = list}
<1>2. 0 \in Q
  <2>1. [list |-> list, ended |-> FALSE] \in A /\ [list |-> list, ended |-> FALSE].list = list
    OBVIOUS
  <2>2. acc[0] = [list |-> list, ended |-> FALSE]
    BY <1>1 DEF ServeRun
  <2>3. acc[0] \in A /\ acc[0].list = list
    BY <2>1, <2>2
  <2>4. QED
    BY <2>3
<1>3. ASSUME NEW k \in Nat, k \in Q
      PROVE  k + 1 \in Q
  <2> SUFFICES ASSUME k + 1 <= n PROVE acc[k + 1] \in A /\ acc[k + 1].list = list
    OBVIOUS
  <2>1. acc[k] \in A /\ acc[k].list = list /\ list[k + 1] \in live
    BY <1>3
  <2>2. acc[k + 1] = ServeStep(acc[k], list, hidden, k + 1)
    BY <1>1 DEF ServeRun
  <2>3. QED
    BY <2>1, <2>2 DEF ServeStep
<1>4. Nat \subseteq Q
  <2> HIDE DEF Q
  <2>1. QED
    BY <1>2, <1>3, Counting
<1>5. n \in Nat
  OBVIOUS
<1>6. acc[n].list = list
  BY <1>4, <1>5
<1>7. QED
  BY <1>1, <1>6

LEMMA InitTreeTyped == Init => TreeTyped
<1> SUFFICES ASSUME Init PROVE TreeTyped
  OBVIOUS
<1>1. Moving
  BY MovingInit
<1>2. IsFiniteSet(live)
  BY FS_EmptySet DEF Init
<1>3. children \in [Nodes -> Seq(used)] /\ parentPerms \in [Concepts -> Seq(Nodes)]
  BY DEF Init
<1>4. Links
  <2>1. NoLinks \in [DOMAIN NoLinks -> Nodes] /\ DOMAIN NoLinks = {}
    BY DEF NoLinks
  <2>2. QED
    BY <2>1 DEF Init, Links
<1>5. QED
  BY <1>1, <1>2, <1>3, <1>4 DEF TreeTyped

LEMMA CreateTyped ==
  ASSUME TreeTyped, NEW c \in Concepts, NEW p \in Nodes, NEW s, Create(c, p, s)
  PROVE  /\ IsFiniteSet(live') /\ children' \in [Nodes -> Seq(used')]
         /\ parentPerms' \in [Concepts -> Seq(Nodes)] /\ Links'
<1> DEFINE U == used \cup {c}
           kids == Kids(p)
           before == IF s = NoSibling THEN children[p] ELSE Repaired(children[p], kids)
           indexes == IF s = NoSibling THEN {Len(children[p])}
                      ELSE ConceptIndexes(children[p], kids, s)
           Respond(list) == IF Rooted(p)
                            THEN Repaired(Repaired(list, kids \cup {c}), kids \cup {c})
                            ELSE list
<1>1. children[p] \in Seq(used) /\ IsFiniteSet(kids) /\ kids \subseteq used
  BY TypedFacts
<1>2. before \in Seq(U)
  <2>1. children[p] \in Seq(U)
    BY <1>1
  <2>2. QED
    BY <2>1, RepairedType
<1>3. indexes \subseteq Nat
  <2>1. ConceptIndexes(children[p], kids, s) \subseteq Nat
    BY <1>1, IndexesNat
  <2>2. Len(children[p]) \in Nat
    BY <1>1
  <2> HIDE DEF kids
  <2>3. QED
    BY <2>1, <2>2
<1>4. PICK i \in indexes : children' = [children EXCEPT ![p] = Respond(PyInsert(before, i, c))]
  BY DEF Create
<1>5. ASSUME NEW list \in Seq(U)
      PROVE  Respond(list) \in Seq(U)
  <2>1. Repaired(list, kids \cup {c}) \in Seq(U)
    BY RepairedType
  <2>2. Repaired(Repaired(list, kids \cup {c}), kids \cup {c}) \in Seq(U)
    BY <2>1, RepairedType
  <2>3. QED
    BY <2>2
<1>6. PyInsert(before, i, c) \in Seq(U)
  <2>1. c \in U /\ i \in Nat
    BY <1>3
  <2> HIDE DEF U, before
  <2>2. QED
    BY <1>2, <2>1, InsertFacts
<1>7. Respond(PyInsert(before, i, c)) \in Seq(U)
  <2> HIDE DEF Respond, U, before
  <2>1. QED
    BY <1>5, <1>6
<1>8. children' \in [Nodes -> Seq(U)]
  <2>1. children \in [Nodes -> Seq(U)]
    BY DEF TreeTyped
  <2> HIDE DEF Respond, U, before
  <2>2. QED
    BY <1>4, <1>7, <2>1
<1>9. used' = U
  BY DEF Create
<1>10. IsFiniteSet(live')
  <2>1. live' = live \cup {c}
    BY DEF Create
  <2>2. QED
    BY <2>1, FS_AddElement DEF TreeTyped
<1>11. parentPerms' \in [Concepts -> Seq(Nodes)]
  BY BelowType DEF Create, TreeTyped
<1>12. Links'
  BY DEF Create, TreeTyped, Links
<1>13. QED
  BY <1>8, <1>9, <1>10, <1>11, <1>12

LEMMA MoveTyped ==
  ASSUME TreeTyped, NEW c \in Concepts, NEW p \in Nodes, NEW s, Move(c, p, s)
  PROVE  /\ IsFiniteSet(live') /\ children' \in [Nodes -> Seq(used')]
         /\ parentPerms' \in [Concepts -> Seq(Nodes)] /\ Links'
<1>1. c \in live /\ c \in used /\ parent[c] \in Nodes /\ SiblingGiven(p, s)
  BY TypedFacts DEF Move, MayMove
<1>2. PICK i \in InsertIndexes(c, p, s) :
        children' = IF Rooted(p) /\ p \notin Subtree(c)
          THEN Repair(Repair(RepairUpdated(Inserted(c, parent[c], p, s, i), c), c, Kids(c)),
                      p, Kids(p) \cup {c})
          ELSE RepairUpdated(Inserted(c, parent[c], p, s, i), c)
  BY DEF Move
<1>3. i \in Nat
  BY <1>1, InsertIndexesNat
<1>4. PICK moved \in [Nodes -> Seq(used)] :
        moved = RepairUpdated(Inserted(c, parent[c], p, s, i), c)
  BY <1>1, <1>3, PlaceKeeps, RepairUpdatedKeeps
<1>5. Repair(moved, c, Kids(c)) \in [Nodes -> Seq(used)]
  BY RepairKeeps DEF Nodes
<1>6. Repair(Repair(moved, c, Kids(c)), p, Kids(p) \cup {c}) \in [Nodes -> Seq(used)]
  BY <1>5, RepairKeeps
<1>7. children' \in [Nodes -> Seq(used)] /\ used' = used
  BY <1>2, <1>4, <1>6 DEF Move
<1>8. parentPerms' \in [Concepts -> Seq(Nodes)]
  BY InheritAllType DEF Move
<1>9. QED
  BY <1>7, <1>8 DEF Move, Links, TreeTyped

LEMMA MoveFailsTyped ==
  ASSUME TreeTyped, NEW c \in Concepts, NEW p \in Nodes, NEW s, MoveFails(c, p, s)
  PROVE  /\ IsFiniteSet(live') /\ children' \in [Nodes -> Seq(used')]
         /\ parentPerms' \in [Concepts -> Seq(Nodes)] /\ Links'
<1>1. c \in live /\ c \in used /\ parent[c] \in Nodes /\ SiblingGiven(p, s)
  BY TypedFacts DEF MoveFails, MayMove
<1>2. PICK i \in InsertIndexes(c, p, s) :
        LET moved == RepairUpdated(Inserted(c, parent[c], p, s, i), c)
            saved == RepairUpdated(Removed(c, parent[c], p, s), c)
        IN  children' = [saved EXCEPT ![p] =
                           IF p \in UNION {Subtree(e) : e \in ToSet(Updated(c))}
                           THEN moved[p] ELSE @]
  BY DEF MoveFails
<1>3. i \in Nat
  BY <1>1, InsertIndexesNat
<1>4. PICK moved \in [Nodes -> Seq(used)] :
        moved = RepairUpdated(Inserted(c, parent[c], p, s, i), c)
  BY <1>1, <1>3, PlaceKeeps, RepairUpdatedKeeps
<1>5. PICK saved \in [Nodes -> Seq(used)] :
        saved = RepairUpdated(Removed(c, parent[c], p, s), c)
  BY <1>1, <1>3, PlaceKeeps, RepairUpdatedKeeps
<1>6. PICK B : B = (p \in UNION {Subtree(e) : e \in ToSet(Updated(c))})
  OBVIOUS
<1>7. children' = [saved EXCEPT ![p] = IF B THEN moved[p] ELSE saved[p]]
  BY <1>2, <1>4, <1>5, <1>6
<1>8. children' \in [Nodes -> Seq(used)] /\ used' = used
  BY <1>7 DEF MoveFails, forestVars
<1>9. parentPerms' \in [Concepts -> Seq(Nodes)]
  BY InheritAllType DEF MoveFails, TreeTyped
<1>10. QED
  BY <1>8, <1>9 DEF MoveFails, Links, TreeTyped, forestVars

LEMMA LinkTyped ==
  ASSUME TreeTyped, NEW c \in Concepts, NEW l \in LinkIds, NEW p \in Nodes, NEW s,
         Link(c, l, p, s) \/ MoveLink(c, l, p, s)
  PROVE  /\ IsFiniteSet(live') /\ children' \in [Nodes -> Seq(used')]
         /\ parentPerms' \in [Concepts -> Seq(Nodes)] /\ Links'
<1>1. c \in live /\ c \in used /\ c \in Nodes /\ parent[c] \in Nodes /\ SiblingGiven(p, s)
  BY TypedFacts DEF Link, MoveLink
<1>2. used' = used /\ live' = live /\ parentPerms' = parentPerms
  BY DEF Link, MoveLink, forestVars
<1>3. ASSUME NEW lists \in [Nodes -> Seq(used)]
      PROVE  Repair(Repair(lists, c, Kids(c)), parent[c], Kids(parent[c]))
               \in [Nodes -> Seq(used)]
  <2>1. Repair(lists, c, Kids(c)) \in [Nodes -> Seq(used)]
    BY <1>1, RepairKeeps
  <2>2. QED
    BY <1>1, <2>1, RepairKeeps
<1>4. CASE Link(c, l, p, s)
  <2> DEFINE Read(lists) == Repair(Repair(lists, c, Kids(c)), parent[c], Kids(parent[c]))
             linked == [children EXCEPT ![p] =
                          PyInsert(@, IF s = NoSibling THEN Len(@) ELSE PyIndex(@, s), c)]
  <2>1. children[p] \in Seq(used)
    BY TypedFacts
  <2>2. (IF s = NoSibling THEN Len(children[p]) ELSE PyIndex(children[p], s)) \in Nat
    BY <1>1, <2>1, IndexFacts DEF SiblingGiven
  <2>3. PICK i \in Nat : i = IF s = NoSibling THEN Len(children[p]) ELSE PyIndex(children[p], s)
    BY <2>2
  <2>4. PyInsert(children[p], i, c) \in Seq(used)
    BY <1>1, <2>1, InsertFacts
  <2>5. linked = [children EXCEPT ![p] = PyInsert(children[p], i, c)]
    BY <2>3
  <2>6. linked \in [Nodes -> Seq(used)]
    BY <2>4, <2>5 DEF TreeTyped
  <2>7. Read(linked) \in [Nodes -> Seq(used)] /\ Read(Read(linked)) \in [Nodes -> Seq(used)]
    <3> HIDE DEF linked
    <3>1. Read(linked) \in [Nodes -> Seq(used)]
      BY <1>3, <2>6
    <3> HIDE DEF Read
    <3>2. PICK r \in [Nodes -> Seq(used)] : r = Read(linked)
      BY <3>1
    <3>3. Read(r) \in [Nodes -> Seq(used)]
      BY <1>3 DEF Read
    <3>4. QED
      BY <3>1, <3>2, <3>3
  <2>8. children' = IF parent[c] \in Stored THEN Read(Read(linked)) ELSE linked
    BY <1>4 DEF Link
  <2>9. Links'
    <3>1. /\ usedLinks' = usedLinks \cup {l}
          /\ linkedTo' = [linkedTo EXCEPT ![c] = LinkedBelow(@, l, p)]
      BY <1>4 DEF Link
    <3>2. PICK was : was = linkedTo[c]
      OBVIOUS
    <3>3. was \in [DOMAIN was -> Nodes] /\ DOMAIN was \subseteq usedLinks
      BY <3>2 DEF TreeTyped, Links
    <3>4. PICK new : new = LinkedBelow(was, l, p)
      OBVIOUS
    <3>5. new \in [DOMAIN new -> Nodes] /\ DOMAIN new = DOMAIN was \cup {l}
      BY <3>3, <3>4 DEF LinkedBelow
    <3>6. linkedTo' = [linkedTo EXCEPT ![c] = new]
      BY <3>1, <3>2, <3>4
    <3>7. QED
      BY <3>1, <3>3, <3>5, <3>6 DEF TreeTyped, Links
  <2> HIDE DEF Read, linked
  <2>10. QED
    BY <1>2, <2>6, <2>7, <2>8, <2>9 DEF TreeTyped
<1>5. CASE MoveLink(c, l, p, s)
  <2>1. PICK i \in InsertIndexes(c, p, s) :
          children' = IF Rooted(c)
            THEN Repair(Repair(Inserted(c, linkedTo[c][l], p, s, i), c, Kids(c)),
                        parent[c], Kids(parent[c]))
            ELSE Inserted(c, linkedTo[c][l], p, s, i)
    BY <1>5 DEF MoveLink
  <2>2. i \in Nat
    BY <1>1, InsertIndexesNat
  <2>3. l \in DOMAIN linkedTo[c] /\ linkedTo[c][l] \in Nodes
    BY <1>5 DEF MoveLink, TreeTyped, Links
  <2>4. PICK moved \in [Nodes -> Seq(used)] : moved = Inserted(c, linkedTo[c][l], p, s, i)
    BY <1>1, <2>2, <2>3, PlaceKeeps
  <2>5. children' \in [Nodes -> Seq(used)]
    BY <1>3, <2>1, <2>4
  <2>6. Links'
    <3>1. usedLinks' = usedLinks /\ linkedTo' = [linkedTo EXCEPT ![c][l] = p]
      BY <1>5 DEF MoveLink
    <3>2. PICK new : new = [linkedTo[c] EXCEPT ![l] = p]
      OBVIOUS
    <3>3. new \in [DOMAIN new -> Nodes] /\ DOMAIN new = DOMAIN linkedTo[c]
      BY <3>2 DEF TreeTyped, Links
    <3>4. linkedTo' = [linkedTo EXCEPT ![c] = new]
      BY <3>1, <3>2
    <3>5. QED
      BY <3>1, <3>3, <3>4 DEF TreeTyped, Links
  <2>7. QED
    BY <1>2, <2>5, <2>6 DEF TreeTyped
<1>6. QED
  BY <1>4, <1>5

LEMMA UnlinkTyped ==
  ASSUME TreeTyped, NEW c \in Concepts, NEW l \in LinkIds, Unlink(c, l)
  PROVE  /\ IsFiniteSet(live') /\ children' \in [Nodes -> Seq(used')]
         /\ parentPerms' \in [Concepts -> Seq(Nodes)] /\ Links'
<1>1. PICK from : from = linkedTo[c][l]
  OBVIOUS
<1>2. from \in Nodes
  BY <1>1 DEF Unlink, TreeTyped, Links
<1>3. RemoveFirst(children[from], c) \in Seq(used)
  BY <1>2, RemoveFacts DEF TreeTyped
<1>4. children' \in [Nodes -> Seq(used)] /\ used' = used
  BY <1>1, <1>2, <1>3 DEF Unlink, TreeTyped, forestVars
<1>5. Links'
  <2>1. PICK new : new = [k \in DOMAIN linkedTo[c] \ {l} |-> linkedTo[c][k]]
    OBVIOUS
  <2>2. new \in [DOMAIN new -> Nodes] /\ DOMAIN new \subseteq DOMAIN linkedTo[c]
    BY <2>1 DEF TreeTyped, Links
  <2>3. linkedTo' = [linkedTo EXCEPT ![c] = new] /\ usedLinks' = usedLinks
    BY <2>1 DEF Unlink
  <2>4. QED
    BY <2>2, <2>3 DEF TreeTyped, Links
<1>6. QED
  BY <1>4, <1>5 DEF Unlink, TreeTyped, forestVars

LEMMA DeleteTyped ==
  ASSUME TreeTyped, NEW c \in Concepts, NEW locked \in {{}, Protected}, Delete(c, locked)
  PROVE  /\ IsFiniteSet(live') /\ children' \in [Nodes -> Seq(used')]
         /\ parentPerms' \in [Concepts -> Seq(Nodes)] /\ Links'
<1> DEFINE removed == Reach(c, locked)
<1>1. IsFiniteSet(live')
  <2>1. live' \subseteq live
    BY DEF Delete
  <2>2. QED
    BY <2>1, FS_Subset DEF TreeTyped
<1>2. children' \in [Nodes -> Seq(used')]
  <2>1. \A n \in Nodes : RemoveFirst(children[n], c) \in Seq(used) /\ children[n] \in Seq(used)
    BY RemoveFacts DEF TreeTyped
  <2>2. used' = used /\ <<>> \in Seq(used)
    BY DEF Delete
  <2>3. children' = [n \in Nodes |-> IF n \in removed THEN <<>>
                                     ELSE IF n = parent[c] THEN RemoveFirst(children[n], c)
                                     ELSE children[n]]
    BY DEF Delete
  <2> HIDE DEF removed
  <2>4. QED
    BY <2>1, <2>2, <2>3
<1>3. parentPerms' \in [Concepts -> Seq(Nodes)]
  <2>1. parentPerms' = [x \in Concepts |-> IF x \in removed THEN <<>> ELSE parentPerms[x]]
    BY DEF Delete
  <2>2. <<>> \in Seq(Nodes)
    OBVIOUS
  <2> HIDE DEF removed
  <2>3. QED
    BY <2>1, <2>2 DEF TreeTyped
<1>4. Links'
  <2>1. linkedTo' = [x \in Concepts |-> IF x \in removed THEN NoLinks ELSE linkedTo[x]]
        /\ usedLinks' = usedLinks
    BY DEF Delete
  <2>2. NoLinks \in [DOMAIN NoLinks -> Nodes] /\ DOMAIN NoLinks = {}
    BY DEF NoLinks
  <2> HIDE DEF removed
  <2>3. \A x \in Concepts : linkedTo'[x] = NoLinks \/ linkedTo'[x] = linkedTo[x]
    BY <2>1
  <2>4. DOMAIN linkedTo' = Concepts
    BY <2>1
  <2>5. QED
    BY <2>1, <2>2, <2>3, <2>4 DEF TreeTyped, Links
<1>5. QED
  BY <1>1, <1>2, <1>3, <1>4

LEMMA ReadTyped ==
  ASSUME TreeTyped, NEW n \in Nodes, NEW hidden, ReadChildren(n) \/ ServeProject(hidden)
  PROVE  /\ IsFiniteSet(live') /\ children' \in [Nodes -> Seq(used')]
         /\ parentPerms' \in [Concepts -> Seq(Nodes)] /\ Links'
<1>1. CASE ReadChildren(n)
  <2>1. Repair(children, n, Kids(n)) \in [Nodes -> Seq(used)]
    BY RepairKeeps DEF TreeTyped
  <2>2. QED
    BY <1>1, <2>1 DEF ReadChildren, TreeTyped, Links, forestVars
<1>2. CASE ServeProject(hidden)
  <2>1. ServedList(children[Project], hidden) \in Seq(used)
    BY TypedFacts, ServedType
  <2>2. children' \in [Nodes -> Seq(used)]
    BY <1>2, <2>1 DEF ServeProject, TreeTyped, forestVars
  <2>3. QED
    BY <1>2, <2>2 DEF ServeProject, TreeTyped, Links, forestVars
<1>3. QED
  BY <1>1, <1>2

LEMMA NextTreeTyped == TreeTyped /\ [Next]_treeVars => TreeTyped'
<1> SUFFICES ASSUME TreeTyped, [Next]_treeVars PROVE TreeTyped'
  OBVIOUS
<1> DEFINE Kept == /\ IsFiniteSet(live') /\ children' \in [Nodes -> Seq(used')]
                   /\ parentPerms' \in [Concepts -> Seq(Nodes)] /\ Links'
<1>1. Moving'
  BY MovingKept DEF TreeTyped
<1>2. ASSUME NEW c \in Concepts, NEW p \in Nodes, NEW s \in Concepts \cup {NoSibling},
             \/ Create(c, p, s) \/ Move(c, p, s) \/ MoveFails(c, p, s)
             \/ \E l \in LinkIds : Link(c, l, p, s) \/ MoveLink(c, l, p, s)
      PROVE  Kept
  BY <1>2, CreateTyped, MoveTyped, MoveFailsTyped, LinkTyped
<1>3. ASSUME NEW c \in Concepts, NEW l \in LinkIds, Unlink(c, l)
      PROVE  Kept
  BY <1>3, UnlinkTyped
<1>4. ASSUME NEW c \in Concepts, NEW locked \in {{}, Protected}, Delete(c, locked)
      PROVE  Kept
  BY <1>4, DeleteTyped
<1>5. ASSUME NEW n \in Nodes, NEW hidden, ReadChildren(n) \/ ServeProject(hidden)
      PROVE  Kept
  BY <1>5, ReadTyped
<1>6. ASSUME UNCHANGED <<forestVars, listVars>>
      PROVE  Kept
  <2>1. /\ used' = used /\ live' = live /\ children' = children
        /\ parentPerms' = parentPerms /\ linkedTo' = linkedTo /\ usedLinks' = usedLinks
    BY <1>6 DEF forestVars, listVars
  <2>2. QED
    BY <2>1 DEF TreeTyped, Links
<1>7. Kept
  <2> HIDE DEF Kept
  <2>1. Project \in Nodes
    BY DEF Nodes
  <2>2. ASSUME NEW c, NEW p, Ask(c, p) \/ Withdraw(c, p) PROVE Kept
    BY <1>6, <2>2 DEF Ask, Withdraw
  <2>3. CASE Next
    BY <1>2, <1>3, <1>4, <1>5, <2>1, <2>2, <2>3, Zenon DEF Next
  <2>4. CASE UNCHANGED treeVars
    BY <1>6, <2>4 DEF treeVars
  <2>5. QED
    BY <2>3, <2>4
<1>8. QED
  BY <1>1, <1>7 DEF TreeTyped

LEMMA TypedAlways == Spec => []TreeTyped
<1>1. QED
  BY InitTreeTyped, NextTreeTyped, PTL DEF Spec

(* Lists hold keys that were handed out, pointers, chains and links name    *)
(* nodes, whatever is linked and whichever moves fail half way.             *)
THEOREM TreeTypeCorrect == Spec => []TypeOK
<1>1. QED
  BY TypedAlways, TypedIsTypeOK, PTL
-----------------------------------------------------------------------------
(* Without links and late moves the lists are exact. The invariant also     *)
(* says that a key without a concept has an empty list, for the next create *)
(* to fill.                                                                 *)

ExactLists ==
  /\ \A n \in Stored : Exact(children[n], Kids(n))
  /\ \A n \in Concepts \ live : children[n] = <<>>

(* An exact list is as long as there are children.                          *)
LEMMA ExactLength ==
  ASSUME NEW kids, NEW list, Exact(list, kids)
  PROVE  ToSet(list) = kids /\ IsFiniteSet(kids) /\ Len(list) = Cardinality(kids)
<1>1. list \in Seq(kids) /\ DOMAIN list = 1 .. Len(list) /\ Len(list) \in Nat
  BY DEF Exact
<1>2. list \in Bijection(1 .. Len(list), kids)
  <2>1. list \in [1 .. Len(list) -> kids]
    BY <1>1
  <2>2. QED
    BY <2>1 DEF Exact, Bijection, Injection, Surjection, IsInjective
<1>3. IsFiniteSet(1 .. Len(list)) /\ Cardinality(1 .. Len(list)) = Len(list)
  <2>1. /\ IsFiniteSet(1 .. Len(list))
        /\ Cardinality(1 .. Len(list)) = IF 1 > Len(list) THEN 0 ELSE Len(list) - 1 + 1
    BY <1>1, FS_Interval
  <2>2. QED
    BY <1>1, <2>1
<1>4. IsFiniteSet(kids) /\ Cardinality(kids) = Len(list)
  BY <1>2, <1>3, FS_Bijection DEF ExistsBijection
<1>5. ToSet(list) = kids
  BY <1>1 DEF ToSet, Exact
<1>6. QED
  BY <1>4, <1>5

(* What a delete reaches below c hangs from what it reaches.                *)
LEMMA ReachParents ==
  ASSUME NEW c \in live, NEW locked, c \notin locked,
         NEW x \in Reach(c, locked), x # c
  PROVE  parent[x] \in Reach(c, locked)
<1> SUFFICES ASSUME parent[x] \notin Reach(c, locked) PROVE FALSE
  OBVIOUS
<1> DEFINE S == Reach(c, locked) \ {x}
<1>1. S \in SUBSET live /\ c \in S
  BY DEF Reach
<1>2. ASSUME NEW y \in live \ locked, parent[y] \in S
      PROVE  y \in S
  <2>1. y \in Reach(c, locked)
    BY <1>2 DEF Reach
  <2>2. y # x
    BY <1>2
  <2>3. QED
    BY <2>1, <2>2
<1>3. x \in S
  <2> HIDE DEF S
  <2>1. QED
    BY <1>1, <1>2 DEF Reach
<1>4. QED
  BY <1>3

(* The subtree of c holds the subtrees of its children, but neither its     *)
(* parent nor, were it moved, its next one; c is below none of its children,*)
(* and what is below one child is below no other.                           *)
LEMMA BelowChildren ==
  ASSUME Forest!Acyclic, NEW c \in live
  PROVE  /\ parent[c] \notin Subtree(c)
         /\ \A e \in Kids(c) : Subtree(e) \subseteq Subtree(c) /\ c \notin Subtree(e)
         /\ \A e, f \in Kids(c) : e # f => Subtree(e) \cap Subtree(f) = {}
<1>1. /\ \A e \in Kids(c) : e \in live /\ parent[e] = c
      /\ \A S \in SUBSET live : S # {} => \E x \in S : parent[x] \notin S
  BY DEF Forest!Acyclic, Kids
<1>2. parent[c] \notin Subtree(c)
  BY <1>1, SubtreeFacts
<1>3. ASSUME NEW e \in Kids(c)
      PROVE  Subtree(e) \subseteq Subtree(c) /\ c \notin Subtree(e)
  <2>1. c \notin Subtree(e)
    BY <1>1, SubtreeFacts
  <2>2. e \in Subtree(c)
    BY <1>1, SubtreeFacts
  <2>3. \A x \in live : x \in Subtree(e) => x \in Subtree(c)
    BY <2>2, SubtreeFacts DEF Subtree, Reach
  <2>4. QED
    BY <1>1, <2>1, <2>3, SubtreeFacts
<1>4. ASSUME NEW e \in Kids(c), NEW f \in Kids(c), e # f,
             Subtree(e) \cap Subtree(f) # {}
      PROVE  FALSE
  <2>1. Subtree(e) \cap Subtree(f) \in SUBSET live
    BY <1>1, SubtreeFacts
  <2>2. PICK x \in Subtree(e) \cap Subtree(f) : parent[x] \notin Subtree(e) \cap Subtree(f)
    BY <1>1, <1>4, <2>1
  <2>3. x = e \/ x = f
    BY <1>1, <2>2, SubtreeFacts
  <2>4. e \in Subtree(f) \/ f \in Subtree(e)
    BY <2>2, <2>3
  <2>5. c \in Subtree(f) \/ c \in Subtree(e)
    BY <1>1, <1>4, <2>4, SubtreeFacts
  <2>6. QED
    BY <1>3, <2>5
<1>5. QED
  BY <1>2, <1>3, <1>4

(* Where the lists are exact, every child of c is updated by a move of c.   *)
LEMMA AllUpdated ==
  ASSUME ExactLists, NEW c \in live
  PROVE  Updated(c) = children[c] /\ children[c] \in Seq(live) /\ ToSet(Updated(c)) = Kids(c)
<1>1. Exact(children[c], Kids(c)) /\ Kids(c) \subseteq live
  BY DEF ExactLists, Stored, Kids
<1>2. children[c] \in Seq(live)
  <2>1. children[c] \in Seq(Kids(c))
    BY <1>1 DEF Exact
  <2>2. QED
    BY <1>1, <2>1
<1>3. {i \in DOMAIN children[c] : children[c][i] \notin live} = {}
  BY <1>2
<1>4. Updated(c) = children[c]
  BY <1>3 DEF Updated
<1>5. QED
  BY <1>1, <1>2, <1>4, ExactLength

LEMMA InitExact == Init => ExactLists
<1> SUFFICES ASSUME Init PROVE ExactLists
  OBVIOUS
<1>1. Stored = {Project} /\ Project \in Nodes /\ Kids(Project) = {}
  BY DEF Init, Stored, Kids, Nodes
<1>2. children[Project] = <<>> /\ \A n \in Concepts \ live : children[n] = <<>>
  BY <1>1 DEF Init, Nodes
<1>3. Exact(<<>>, {})
  <2>1. <<>> \in Seq({}) /\ Len(<<>>) = 0
    OBVIOUS
  <2>2. QED
    BY <2>1 DEF Exact
<1>4. QED
  BY <1>1, <1>2, <1>3 DEF ExactLists

(* A create puts the new key in one list; its two responses, which repair   *)
(* that list, change nothing.                                               *)
LEMMA CreatePlaces ==
  ASSUME TreeTyped, ExactLists, NEW c \in Concepts, NEW p \in Nodes, NEW s, Create(c, p, s)
  PROVE  \E i \in Nat :
           /\ children' = [children EXCEPT ![p] = PyInsert(children[p], i, c)]
           /\ p \in Stored /\ p # c /\ c \notin Kids(p)
           /\ Exact(children[p], Kids(p))
           /\ Exact(PyInsert(children[p], i, c), Kids(p) \cup {c})
<1> DEFINE kids == Kids(p)
           before == IF s = NoSibling THEN children[p] ELSE Repaired(children[p], kids)
           indexes == IF s = NoSibling THEN {Len(children[p])}
                      ELSE ConceptIndexes(children[p], kids, s)
           Respond(list) == IF Rooted(p)
                            THEN Repaired(Repaired(list, kids \cup {c}), kids \cup {c})
                            ELSE list
<1>1. Exact(children[p], kids) /\ p \in Stored /\ c \notin used /\ p # c /\ c \notin kids
  BY TypedFacts, TreeAssumption DEF ExactLists, Create, Stored, Kids
<1>2. before = children[p]
  BY <1>1, RepairedExact
<1>3. indexes \subseteq Nat
  <2>1. ConceptIndexes(children[p], kids, s) \subseteq Nat
    BY TypedFacts, IndexesNat
  <2>2. Len(children[p]) \in Nat
    BY TypedFacts
  <2> HIDE DEF kids
  <2>3. QED
    BY <2>1, <2>2
<1>4. PICK i \in indexes : children' = [children EXCEPT ![p] = Respond(PyInsert(before, i, c))]
  BY DEF Create
<1>5. PICK new : new = PyInsert(children[p], i, c)
  OBVIOUS
<1>6. Exact(new, kids \cup {c})
  <2>1. i \in Nat
    BY <1>3
  <2> HIDE DEF kids
  <2>2. QED
    BY <1>1, <1>5, <2>1, InsertExact
<1>7. Respond(new) = new
  <2> HIDE DEF kids
  <2>1. Repaired(new, kids \cup {c}) = new
    BY <1>6, RepairedExact
  <2>2. QED
    BY <2>1
<1>8. children' = [children EXCEPT ![p] = new]
  <2> HIDE DEF Respond, before
  <2>1. QED
    BY <1>2, <1>4, <1>5, <1>7
<1>9. i \in Nat
  BY <1>3
<1>10. QED
  BY <1>1, <1>5, <1>6, <1>8, <1>9

LEMMA CreateExact ==
  ASSUME TreeTyped, ExactLists, NEW c \in Concepts, NEW p \in Nodes, NEW s, Create(c, p, s)
  PROVE  ExactLists'
<1>1. PICK i \in Nat :
        /\ children' = [children EXCEPT ![p] = PyInsert(children[p], i, c)]
        /\ p \in Stored /\ p # c /\ c \notin Kids(p)
        /\ Exact(children[p], Kids(p))
        /\ Exact(PyInsert(children[p], i, c), Kids(p) \cup {c})
  BY CreatePlaces
<1>2. PICK new, kids : new = PyInsert(children[p], i, c) /\ kids = Kids(p)
  OBVIOUS
<1>3. /\ live' = live \cup {c} /\ Stored' = Stored \cup {c}
      /\ parent'[c] = p /\ \A x \in live : parent'[x] = parent[x] /\ parent[x] # c
      /\ c \notin live /\ DOMAIN children = Nodes
  BY <1>1, TypedFacts, TreeAssumption
     DEF Create, Stored, TreeTyped, Moving, PointersTyped, ParentsUsed
<1>4. ASSUME NEW n \in Stored'
       PROVE  Exact(children'[n], Kids(n)')
  <2>1. CASE n = c
    <3>1. Kids(n)' = {} /\ children'[n] = <<>>
      BY <1>1, <1>2, <1>3, <2>1 DEF Kids, ExactLists
    <3>2. QED
      BY <3>1 DEF Exact
  <2>2. CASE n = p
    <3>1. Kids(n)' = kids \cup {c} /\ children'[n] = new
      BY <1>1, <1>2, <1>3, <2>2 DEF Kids
    <3>2. QED
      BY <1>1, <1>2, <3>1
  <2>3. CASE n # c /\ n # p
    <3>1. Kids(n)' = Kids(n) /\ children'[n] = children[n] /\ n \in Stored
      BY <1>1, <1>2, <1>3, <2>3, TypedFacts DEF Kids
    <3>2. QED
      BY <3>1 DEF ExactLists
  <2>4. QED
    BY <2>1, <2>2, <2>3
<1>5. \A n \in Concepts \ live' : children'[n] = <<>>
  <2>1. \A n \in Concepts \ live' : n # p /\ n \in Concepts \ live /\ n \in Nodes
    BY <1>1, <1>3, TreeAssumption DEF Stored, Nodes
  <2>2. QED
    BY <1>1, <1>2, <1>3, <2>1 DEF ExactLists
<1>6. QED
  BY <1>4, <1>5 DEF ExactLists

(* A move takes c out of one list and puts it in another; the repairs it    *)
(* makes on its way change nothing.                                         *)
LEMMA MovePlaces ==
  ASSUME TreeTyped, Forest!Acyclic, ExactLists,
         NEW c \in Concepts, NEW p \in Nodes, NEW s, Move(c, p, s), late' = 0
  PROVE  \E i \in InsertIndexes(c, p, s), out \in [Nodes -> Seq(used)] :
           /\ i \in Nat
           /\ out = [children EXCEPT ![parent[c]] = RemoveFirst(children[parent[c]], c)]
           /\ \A n \in Stored : Exact(out[n], Kids(n) \ {c})
           /\ children' = [out EXCEPT ![p] = PyInsert(out[p], i, c)]
           /\ \A n \in Stored : Exact(children'[n], Kids(n)')
<1> DEFINE from == parent[c]
<1>1. /\ c \in live /\ p \in Stored /\ from \in Stored /\ Stored \subseteq Nodes /\ c \in used
      /\ SiblingGiven(p, s) /\ parent' = [parent EXCEPT ![c] = p] /\ live' = live
      /\ children \in [Nodes -> Seq(used)] /\ c \in Stored
      /\ parent \in [Concepts -> Nodes] /\ live \subseteq Concepts
  BY TypedFacts DEF Move, MayMove, TreeTyped, Stored
<1>2. p \notin Subtree(c) /\ from \notin Subtree(c) /\ c \in Subtree(c)
  BY <1>1, MoveOutside, BelowChildren, SubtreeFacts DEF TreeTyped
<1>3. ListsBefore(c, p, s) = children
  <2>1. Repaired(children[p], Kids(p)) = children[p]
    BY <1>1, RepairedExact DEF ExactLists
  <2>2. QED
    BY <1>1, <2>1 DEF ListsBefore, Repair
<1>4. PICK i \in InsertIndexes(c, p, s) :
        children' = IF Rooted(p) /\ p \notin Subtree(c)
          THEN Repair(Repair(RepairUpdated(Inserted(c, from, p, s, i), c), c, Kids(c)),
                      p, Kids(p) \cup {c})
          ELSE RepairUpdated(Inserted(c, from, p, s, i), c)
  BY DEF Move
<1>5. i \in Nat
  BY <1>1, InsertIndexesNat
<1>6. PICK out : out = Removed(c, from, p, s)
  OBVIOUS
<1>7. out \in [Nodes -> Seq(used)]
  BY <1>1, <1>5, <1>6, PlaceKeeps
<1>8. out = [children EXCEPT ![from] = RemoveFirst(children[from], c)]
  BY <1>3, <1>6 DEF Removed
<1>9. ASSUME NEW n \in Stored
      PROVE  Exact(out[n], Kids(n) \ {c})
  <2>1. Exact(children[n], Kids(n))
    BY DEF ExactLists
  <2>2. CASE n = from
    <3>1. c \in Kids(n)
      BY <1>1, <2>2 DEF Kids
    <3>2. Exact(RemoveFirst(children[n], c), Kids(n) \ {c})
      BY <2>1, <3>1, RemoveExact
    <3>3. QED
      BY <1>1, <1>8, <2>2, <3>2
  <2>3. CASE n # from
    <3>1. Kids(n) \ {c} = Kids(n)
      BY <2>3 DEF Kids
    <3>2. QED
      BY <1>1, <1>8, <2>1, <2>3, <3>1
  <2>4. QED
    BY <2>2, <2>3
<1>10. PICK ins : ins = Inserted(c, from, p, s, i)
  OBVIOUS
<1>11. ins = [out EXCEPT ![p] = PyInsert(out[p], i, c)] /\ ins \in [Nodes -> Seq(used)]
  BY <1>1, <1>5, <1>6, <1>10, PlaceKeeps DEF Inserted
<1>12. \A n \in Stored : Kids(n)' = IF n = p THEN (Kids(n) \ {c}) \cup {c} ELSE Kids(n) \ {c}
  BY <1>1 DEF Kids
<1>13. ASSUME NEW n \in Stored
       PROVE  Exact(ins[n], Kids(n)')
  <2>1. Exact(out[n], Kids(n) \ {c})
    BY <1>9
  <2>2. CASE n = p
    <3>1. Exact(PyInsert(out[n], i, c), (Kids(n) \ {c}) \cup {c})
      BY <1>5, <2>1, InsertExact
    <3>2. QED
      BY <1>1, <1>7, <1>11, <1>12, <2>2, <3>1
  <2>3. CASE n # p
    BY <1>1, <1>7, <1>11, <1>12, <2>1, <2>3
  <2>4. QED
    BY <2>2, <2>3
<1>14. ASSUME NEW n \in Subtree(c)
       PROVE  Repaired(ins[n], Kids(n)) = ins[n] /\ n \in Nodes
  <2>1. n \in Stored /\ n # p /\ n # from
    BY <1>1, <1>2, SubtreeFacts DEF Stored
  <2>2. Kids(n)' = Kids(n)
    BY <1>12, <2>1 DEF Kids
  <2>3. QED
    BY <1>1, <1>13, <2>1, <2>2, RepairedExact
<1>15. RepairUpdated(ins, c) = ins
  <2>1. UNION {Subtree(e) : e \in ToSet(Updated(c))} \subseteq Subtree(c)
    BY <1>1, AllUpdated, BelowChildren
  <2>2. PICK touched : touched = UNION {Subtree(e) : e \in ToSet(Updated(c))}
    OBVIOUS
  <2>3. \A n \in Nodes :
          (IF n \in touched THEN Repaired(ins[n], Kids(n)) ELSE ins[n]) = ins[n]
    BY <1>14, <2>1, <2>2
  <2>4. RepairUpdated(ins, c) = [n \in Nodes |-> ins[n]]
    BY <2>2, <2>3 DEF RepairUpdated
  <2>5. QED
    BY <1>11, <2>4
<1>16. Repair(ins, c, Kids(c)) = ins
  BY <1>2, <1>11, <1>14 DEF Repair
<1>17. Repair(ins, p, Kids(p) \cup {c}) = ins
  <2>1. Kids(p)' = Kids(p) \cup {c}
    BY <1>1, <1>12
  <2>2. Repaired(ins[p], Kids(p) \cup {c}) = ins[p]
    BY <1>1, <1>13, <2>1, RepairedExact
  <2>3. QED
    BY <1>1, <1>11, <2>2 DEF Repair
<1>18. children' = ins
  BY <1>4, <1>10, <1>15, <1>16, <1>17
<1>19. QED
  BY <1>5, <1>7, <1>8, <1>9, <1>11, <1>13, <1>18

LEMMA MoveExact ==
  ASSUME TreeTyped, Forest!Acyclic, ExactLists,
         NEW c \in Concepts, NEW p \in Nodes, NEW s, Move(c, p, s), late' = 0
  PROVE  ExactLists'
<1>1. PICK i \in InsertIndexes(c, p, s), out \in [Nodes -> Seq(used)] :
        /\ i \in Nat
        /\ out = [children EXCEPT ![parent[c]] = RemoveFirst(children[parent[c]], c)]
        /\ \A n \in Stored : Exact(out[n], Kids(n) \ {c})
        /\ children' = [out EXCEPT ![p] = PyInsert(out[p], i, c)]
        /\ \A n \in Stored : Exact(children'[n], Kids(n)')
  BY MovePlaces
<1>2. live' = live /\ Stored' = Stored /\ p \in Stored /\ parent[c] \in Stored
      /\ Concepts \subseteq Nodes /\ children \in [Nodes -> Seq(used)]
  BY TypedFacts DEF Move, MayMove, Stored, TreeTyped
<1>3. ASSUME NEW n \in Concepts \ live
      PROVE  children'[n] = <<>>
  <2>1. n # p /\ n # parent[c] /\ n \in Nodes
    BY <1>2, TreeAssumption DEF Stored
  <2>2. QED
    BY <1>1, <1>2, <2>1 DEF ExactLists
<1>4. QED
  BY <1>1, <1>2, <1>3 DEF ExactLists

LEMMA DeleteExact ==
  ASSUME TreeTyped, ExactLists, NEW c \in Concepts, NEW locked, Delete(c, locked)
  PROVE  ExactLists'
<1> DEFINE removed == Reach(c, locked)
<1>1. /\ c \in live /\ c \notin locked /\ live' = live \ removed
      /\ \A x \in Concepts : x \notin removed => parent'[x] = parent[x]
      /\ removed \subseteq live /\ c \in removed /\ live \subseteq Concepts
      /\ Concepts \subseteq Nodes /\ Stored \subseteq Nodes
  BY TypedFacts DEF Delete, Reach
<1>2. \A n \in Nodes : children'[n] = IF n \in removed THEN <<>>
                                     ELSE IF n = parent[c] THEN RemoveFirst(children[n], c)
                                     ELSE children[n]
  BY DEF Delete
<1>3. Stored' = Stored \ removed
  BY <1>1, TreeAssumption DEF Stored
<1>4. ASSUME NEW n \in Stored, n \notin removed
      PROVE  Exact(children'[n], Kids(n)')
  <2>1. \A x \in Kids(n) : x \in removed => x = c
    BY <1>1, <1>4, ReachParents DEF Kids
  <2>2. Kids(n)' = Kids(n) \ removed
    BY <1>1 DEF Kids
  <2>3. Exact(children[n], Kids(n))
    BY DEF ExactLists
  <2>4. CASE n = parent[c]
    <3>1. c \in Kids(n) /\ Kids(n)' = Kids(n) \ {c}
      BY <1>1, <2>1, <2>2, <2>4 DEF Kids
    <3>2. children'[n] = RemoveFirst(children[n], c)
      BY <1>1, <1>2, <1>4, <2>4
    <3>3. QED
      BY <2>3, <3>1, <3>2, RemoveExact
  <2>5. CASE n # parent[c]
    <3>1. Kids(n)' = Kids(n)
      BY <1>1, <2>1, <2>2, <2>5 DEF Kids
    <3>2. children'[n] = children[n]
      BY <1>1, <1>2, <1>4, <2>5
    <3>3. QED
      BY <2>3, <3>1, <3>2
  <2>6. QED
    BY <2>4, <2>5
<1>5. ASSUME NEW n \in Concepts \ live'
      PROVE  children'[n] = <<>>
  <2>1. CASE n \in removed
    BY <1>1, <1>2, <2>1
  <2>2. CASE n \notin removed
    <3>1. children[n] = <<>> /\ n \in Nodes
      BY <1>1, <2>2 DEF ExactLists
    <3>2. <<>> \in Seq({}) /\ ~Contains(<<>>, c)
      BY DEF Contains
    <3>3. RemoveFirst(<<>>, c) = <<>>
      BY <3>2, RemoveFacts
    <3>4. QED
      BY <1>2, <2>2, <3>1, <3>3
  <2>3. QED
    BY <2>1, <2>2
<1>6. QED
  BY <1>3, <1>4, <1>5 DEF ExactLists

(* The two reads change nothing.                                            *)
LEMMA ReadSame ==
  ASSUME TreeTyped, ExactLists, NEW n \in Nodes, NEW hidden,
         ReadChildren(n) \/ ServeProject(hidden)
  PROVE  children' = children /\ live' = live /\ parent' = parent
<1>1. children \in [Nodes -> Seq(used)]
  BY DEF TreeTyped
<1>2. CASE ReadChildren(n)
  <2>1. Repaired(children[n], Kids(n)) = children[n]
    BY <1>2, RepairedExact DEF ReadChildren, ExactLists
  <2>2. QED
    BY <1>1, <1>2, <2>1 DEF ReadChildren, Repair, forestVars
<1>3. CASE ServeProject(hidden)
  <2>1. children[Project] \in Seq(Kids(Project)) /\ Kids(Project) \subseteq live
    BY DEF ExactLists, Exact, Stored, Kids
  <2>2. children[Project] \in Seq(live)
    BY <2>1
  <2>3. ServedList(children[Project], hidden) = children[Project]
    BY <2>2, ServedSame
  <2>4. QED
    BY <1>1, <1>3, <2>3 DEF ServeProject, forestVars
<1>4. QED
  BY <1>2, <1>3

LEMMA ReadExact ==
  ASSUME TreeTyped, ExactLists, NEW n \in Nodes, NEW hidden,
         ReadChildren(n) \/ ServeProject(hidden)
  PROVE  ExactLists'
<1>1. children' = children /\ live' = live /\ parent' = parent
  BY ReadSame
<1>2. QED
  BY <1>1 DEF ExactLists, Stored, Kids

LEMMA NextExact ==
  ASSUME LinkIds = {}, TreeTyped, Forest!Acyclic, ExactLists, [Next]_treeVars, late' = 0
  PROVE  ExactLists'
<1>1. ASSUME NEW c \in Concepts, NEW p \in Nodes, NEW s, MoveFails(c, p, s)
      PROVE  FALSE
  BY <1>1, AllUpdated DEF MoveFails, MayMove
<1>2. ASSUME NEW c \in Concepts, NEW p \in Nodes, NEW s \in Concepts \cup {NoSibling},
             \/ Create(c, p, s) \/ Move(c, p, s) \/ MoveFails(c, p, s)
             \/ \E l \in LinkIds : Link(c, l, p, s) \/ MoveLink(c, l, p, s)
      PROVE  ExactLists'
  BY <1>1, <1>2, CreateExact, MoveExact
<1>3. ASSUME NEW c \in Concepts, NEW locked \in {{}, Protected}, Delete(c, locked)
      PROVE  ExactLists'
  BY <1>3, DeleteExact
<1>4. ASSUME NEW n \in Nodes, NEW hidden, ReadChildren(n) \/ ServeProject(hidden)
      PROVE  ExactLists'
  BY <1>4, ReadExact
<1>5. ASSUME UNCHANGED <<forestVars, listVars>>
      PROVE  ExactLists'
  BY <1>5 DEF forestVars, listVars, ExactLists, Stored, Kids
<1>6. ASSUME NEW c, NEW p, Ask(c, p) \/ Withdraw(c, p)
      PROVE  ExactLists'
  BY <1>5, <1>6 DEF Ask, Withdraw
<1>7. CASE Next
  <2>1. Project \in Nodes
    BY DEF Nodes
  <2>2. QED
    BY <1>2, <1>3, <1>4, <1>6, <1>7, <2>1, Zenon DEF Next
<1>8. CASE UNCHANGED treeVars
  BY <1>5, <1>8 DEF treeVars
<1>9. QED
  BY <1>7, <1>8

(* Up to the first late move there are no cycles and the lists are exact.   *)
Settled == NoCycle /\ (late = 0 => ExactLists)

LEMMA SettledKept ==
  ASSUME LinkIds = {}, TreeTyped, Settled, [Next]_treeVars
  PROVE  Settled'
<1>1. NoCycle'
  BY NoCycleKept DEF TreeTyped, Settled
<1>2. ASSUME late' = 0
      PROVE  ExactLists'
  <2>1. late = 0
    BY <1>2, LateStays DEF TreeTyped
  <2>2. QED
    BY <1>2, <2>1, NextExact DEF Settled, NoCycle
<1>3. QED
  BY <1>1, <1>2 DEF Settled

LEMMA InitSettled == Init => TreeTyped /\ Settled
  BY InitTreeTyped, MovingInit, InitExact DEF Settled

(* Without links no create, delete or read, and no move that a browser      *)
(* checked on the tree it met, in whatever order, loses a child from a      *)
(* list, names one twice or names one that is not there.                    *)
THEOREM ListsAreExact ==
  ASSUME LinkIds = {}
  PROVE  Spec => []ListsExact
<1>1. Settled => ListsExact
  BY ExactLength DEF Settled, ExactLists, ListsExact
<1>2. TreeTyped /\ Settled /\ [Next]_treeVars => (TreeTyped /\ Settled)'
  BY NextTreeTyped, SettledKept
<1>3. QED
  BY <1>1, <1>2, InitSettled, PTL DEF Spec

-----------------------------------------------------------------------------
(* Inheritance. What a fold over the children of c has made of the          *)
(* permissions after its first k children: their subtrees inherit from      *)
(* their parents, everything else is as before.                             *)

InheritedSoFar(perms, first, list, k) ==
  /\ \A j \in 1 .. k : \A x \in Subtree(list[j]) :
       perms[x] = Under(perms[parent[x]], parent[x])
  /\ \A x \in Concepts :
       (\A j \in 1 .. k : x \notin Subtree(list[j])) => perms[x] = first[x]

LEMMA InheritOneMore ==
  ASSUME TreeTyped, Forest!Acyclic, NEW c \in Concepts, c \in live,
         NEW list \in Seq(live), Exact(list, Kids(c)),
         NEW k \in Nat, k + 1 <= Len(list), NEW first,
         NEW perms \in [Concepts -> Seq(Nodes)], InheritedSoFar(perms, first, list, k)
  PROVE  InheritedSoFar(Inherit(perms, c, list[k + 1]), first, list, k + 1)
<1>1. PICK e, new : e = list[k + 1] /\ new = Inherit(perms, c, e)
  OBVIOUS
<1>2. /\ Len(list) \in Nat /\ k + 1 \in 1 .. Len(list) /\ e \in live /\ e \in Kids(c)
      /\ parent[e] = c /\ Typing /\ live \subseteq Concepts
      /\ parent \in [Concepts -> Nodes]
  <2>1. Len(list) \in Nat
    OBVIOUS
  <2>2. k + 1 \in 1 .. Len(list)
    BY <2>1
  <2>3. e \in live
    BY <1>1, <2>2
  <2>4. e \in Kids(c)
    BY <1>1, <2>2 DEF Exact
  <2>5. parent[e] = c
    BY <2>4 DEF Kids
  <2>6. Typing /\ live \subseteq Concepts /\ parent \in [Concepts -> Nodes]
    BY TypedFacts
  <2>7. QED
    BY <2>1, <2>2, <2>3, <2>4, <2>5, <2>6
<1>3. /\ new[e] = Under(perms[c], c)
      /\ \A x \in Subtree(e) : x # e => new[x] = Under(new[parent[x]], parent[x])
      /\ \A x \in Concepts : x \notin Subtree(e) => new[x] = perms[x]
  <2>1. Typing /\ e \in live
    BY <1>2
  <2>2. /\ Inherit(perms, c, e)[e] = Under(perms[c], c)
        /\ \A x \in Subtree(e) : x # e =>
             Inherit(perms, c, e)[x] = Under(Inherit(perms, c, e)[parent[x]], parent[x])
        /\ \A x \in Concepts : x \notin Subtree(e) => Inherit(perms, c, e)[x] = perms[x]
    BY <2>1, InheritFacts
  <2>3. QED
    BY <1>1, <2>2, Zenon
<1>4. c \notin Subtree(e) /\ new[c] = perms[c]
  BY <1>2, <1>3, BelowChildren
<1>5. ASSUME NEW j \in 1 .. k + 1, NEW x \in Subtree(list[j])
      PROVE  new[x] = Under(new[parent[x]], parent[x])
  <2>1. CASE j = k + 1
    BY <1>1, <1>2, <1>3, <1>4, <2>1
  <2>2. CASE j # k + 1
    <3>1. j \in 1 .. k /\ j \in 1 .. Len(list)
      BY <1>2, <2>2
    <3>2. list[j] # e
      BY <1>1, <1>2, <2>2, <3>1 DEF Exact
    <3>3. PICK f : f = list[j]
      OBVIOUS
    <3>4. f \in Kids(c) /\ f \in live /\ f # e
      <4>1. list \in Seq(Kids(c))
        BY DEF Exact
      <4>2. QED
        BY <3>1, <3>2, <3>3, <4>1
    <3>5. Subtree(f) \cap Subtree(e) = {} /\ parent[f] = c
      BY <1>2, <3>4, BelowChildren DEF Kids
    <3>6. x \in Concepts /\ x \notin Subtree(e) /\ new[x] = perms[x]
      BY <1>2, <1>3, <3>3, <3>4, <3>5, SubtreeFacts
    <3>7. new[parent[x]] = perms[parent[x]]
      <4>1. CASE x = f
        BY <1>4, <3>5, <4>1
      <4>2. CASE x # f
        <5>1. parent[x] \in Subtree(f) /\ Subtree(f) \subseteq live
          BY <3>3, <3>4, <4>2, SubtreeFacts
        <5>2. QED
          BY <1>2, <1>3, <3>5, <5>1
      <4>3. QED
        BY <4>1, <4>2
    <3>8. perms[x] = Under(perms[parent[x]], parent[x])
      BY <3>1 DEF InheritedSoFar
    <3>9. QED
      BY <3>6, <3>7, <3>8
  <2>3. QED
    BY <2>1, <2>2
<1>6. ASSUME NEW x \in Concepts, \A j \in 1 .. k + 1 : x \notin Subtree(list[j])
      PROVE  new[x] = first[x]
  <2>1. x \notin Subtree(e) /\ \A j \in 1 .. k : x \notin Subtree(list[j])
    BY <1>1, <1>6
  <2>2. QED
    BY <1>3, <2>1 DEF InheritedSoFar
<1>7. QED
  BY <1>1, <1>5, <1>6 DEF InheritedSoFar

(* So a move of c makes c inherit from its new parent, what is below it     *)
(* from its own, and leaves the others alone.                               *)
LEMMA InheritAllFacts ==
  ASSUME TreeTyped, Forest!Acyclic, ExactLists,
         NEW c \in Concepts, c \in live, NEW p \in Nodes, NEW perms, perms = InheritAll(c, p)
  PROVE  /\ perms[c] = Below(p, parentPerms)
         /\ \A e \in Kids(c) : \A x \in Subtree(e) :
              perms[x] = Under(perms[parent[x]], parent[x])
         /\ \A x \in Concepts :
              x # c /\ (\A e \in Kids(c) : x \notin Subtree(e)) => perms[x] = parentPerms[x]
<1>1. Updated(c) = children[c] /\ children[c] \in Seq(live) /\ Exact(children[c], Kids(c))
  BY AllUpdated DEF ExactLists, Stored
<1>2. PICK list \in Seq(live) : list = children[c]
  BY <1>1
<1>3. PICK first : first = [parentPerms EXCEPT ![c] = Below(p, parentPerms)]
  OBVIOUS
<1>4. first \in [Concepts -> Seq(Nodes)] /\ Typing
  BY <1>3, BelowType, TypedFacts DEF TreeTyped
<1>5. PICK acc : /\ InheritRun(acc, first, c, list)
                 /\ FoldLeft(LAMBDA was, e : Inherit(was, c, e), first, list) = acc[Len(list)]
  BY <1>4, InheritRuns
<1>6. \A k \in Nat : k <= Len(list) => acc[k] \in [Concepts -> Seq(Nodes)]
  BY <1>4, <1>5, InheritRunType
<1> DEFINE Q == {k \in Nat : k <= Len(list) => InheritedSoFar(acc[k], first, list, k)}
<1>7. 0 \in Q
  <2>1. acc[0] = first
    BY <1>5 DEF InheritRun
  <2>2. InheritedSoFar(acc[0], first, list, 0)
    BY <2>1 DEF InheritedSoFar
  <2>3. QED
    BY <2>2
<1>8. ASSUME NEW k \in Nat, k \in Q
      PROVE  k + 1 \in Q
  <2> SUFFICES ASSUME k + 1 <= Len(list)
               PROVE  InheritedSoFar(acc[k + 1], first, list, k + 1)
    OBVIOUS
  <2>1. InheritedSoFar(acc[k], first, list, k) /\ acc[k] \in [Concepts -> Seq(Nodes)]
    BY <1>6, <1>8
  <2>2. acc[k + 1] = Inherit(acc[k], c, list[k + 1])
    BY <1>5 DEF InheritRun
  <2>3. InheritedSoFar(Inherit(acc[k], c, list[k + 1]), first, list, k + 1)
    BY <1>1, <1>2, <2>1, InheritOneMore
  <2>4. QED
    BY <2>2, <2>3
<1>9. InheritedSoFar(acc[Len(list)], first, list, Len(list))
  <2>1. Nat \subseteq Q
    <3> HIDE DEF Q
    <3>1. QED
      BY <1>7, <1>8, Counting
  <2>2. Len(list) \in Nat
    OBVIOUS
  <2>3. QED
    BY <2>1, <2>2
<1>10. perms = acc[Len(list)]
  BY <1>1, <1>2, <1>3, <1>5 DEF InheritAll
<1>11. (\A j \in 1 .. Len(list) : list[j] \in Kids(c))
       /\ (\A e \in Kids(c) : \E j \in 1 .. Len(list) : list[j] = e)
  BY <1>1, <1>2 DEF Exact
<1>12. \A e \in Kids(c) : c \notin Subtree(e)
  BY BelowChildren
<1>13. perms[c] = Below(p, parentPerms)
  <2>1. perms[c] = first[c]
    BY <1>9, <1>10, <1>11, <1>12 DEF InheritedSoFar
  <2>2. QED
    BY <1>3, <2>1 DEF TreeTyped
<1>14. ASSUME NEW e \in Kids(c), NEW x \in Subtree(e)
       PROVE  perms[x] = Under(perms[parent[x]], parent[x])
  BY <1>9, <1>10, <1>11 DEF InheritedSoFar
<1>15. ASSUME NEW x \in Concepts, x # c, \A e \in Kids(c) : x \notin Subtree(e)
       PROVE  perms[x] = parentPerms[x]
  <2>1. perms[x] = first[x]
    BY <1>9, <1>10, <1>11, <1>15 DEF InheritedSoFar
  <2>2. QED
    BY <1>3, <1>15, <2>1 DEF TreeTyped
<1>16. QED
  BY <1>13, <1>14, <1>15

(* What InheritsFromAncestors says of trees without late moves.             *)
Inheriting == \A c \in live : parent[c] \in Stored => parentPerms[c] = Below(parent[c], parentPerms)

LEMMA CreateInherits ==
  ASSUME TreeTyped, Inheriting, NEW c \in Concepts, NEW p \in Nodes, NEW s,
         Create(c, p, s)
  PROVE  Inheriting'
<1>1. /\ live' = live \cup {c} /\ Stored' = Stored \cup {c} /\ p # c /\ c \notin live
      /\ parent'[c] = p /\ \A x \in live : parent'[x] = parent[x] /\ parent[x] # c
      /\ parentPerms' = [parentPerms EXCEPT ![c] = Below(p, parentPerms)]
      /\ c # Project /\ DOMAIN parentPerms = Concepts /\ live \subseteq Concepts
  BY TypedFacts, TreeAssumption
     DEF Create, Stored, TreeTyped, Moving, PointersTyped, ParentsUsed
<1>2. \A n : n # c => Below(n, parentPerms') = Below(n, parentPerms)
  <2>1. \A n : n # c => parentPerms'[n] = parentPerms[n]
    BY <1>1
  <2>2. QED
    BY <2>1 DEF Below
<1>3. ASSUME NEW x \in live', parent'[x] \in Stored'
      PROVE  parentPerms'[x] = Below(parent'[x], parentPerms')
  <2>1. CASE x = c
    BY <1>1, <1>2, <2>1
  <2>2. CASE x # c
    <3>1. x \in live /\ parent'[x] = parent[x] /\ parent[x] # c /\ parent[x] \in Stored
      BY <1>1, <1>3, <2>2
    <3>2. QED
      BY <1>1, <1>2, <2>2, <3>1 DEF Inheriting
  <2>3. QED
    BY <2>1, <2>2
<1>4. QED
  BY <1>3 DEF Inheriting

LEMMA MoveInherits ==
  ASSUME TreeTyped, Forest!Acyclic, ExactLists, Inheriting,
         NEW c \in Concepts, NEW p \in Nodes, NEW s, Move(c, p, s), late' = 0
  PROVE  Inheriting'
<1>1. /\ c \in live /\ p \in Stored /\ live' = live /\ Stored' = Stored
      /\ parent' = [parent EXCEPT ![c] = p] /\ parent \in [Concepts -> Nodes]
      /\ live \subseteq Concepts /\ c \in Subtree(c) /\ p \notin Subtree(c)
  BY TypedFacts, MoveOutside, SubtreeFacts DEF Move, MayMove, Stored, TreeTyped
<1>2. PICK perms : perms = InheritAll(c, p)
  OBVIOUS
<1>3. parentPerms' = perms
  BY <1>2 DEF Move
<1>4. /\ perms[c] = Below(p, parentPerms)
      /\ \A e \in Kids(c) : \A x \in Subtree(e) :
           perms[x] = Under(perms[parent[x]], parent[x])
      /\ \A x \in Concepts :
           x # c /\ (\A e \in Kids(c) : x \notin Subtree(e)) => perms[x] = parentPerms[x]
  BY <1>1, <1>2, InheritAllFacts
<1>5. /\ \A e \in Kids(c) : Subtree(e) \subseteq Subtree(c) /\ c \notin Subtree(e)
      /\ \A e \in Kids(c) : e \in live /\ parent[e] = c
  BY <1>1, BelowChildren DEF Kids
<1>6. ASSUME NEW x \in live, parent'[x] \in Stored
      PROVE  perms[x] = Below(parent'[x], perms)
  <2>1. CASE x = c
    <3>1. p = Project \/ perms[p] = parentPerms[p]
      BY <1>1, <1>4, <1>5 DEF Stored
    <3>2. Below(p, parentPerms) = Below(p, perms)
      BY <3>1 DEF Below
    <3>3. QED
      BY <1>1, <1>4, <2>1, <3>2
  <2>2. CASE \E e \in Kids(c) : x \in Subtree(e)
    <3>1. PICK e \in Kids(c) : x \in Subtree(e)
      BY <2>2
    <3>2. x # c /\ parent'[x] = parent[x]
      BY <1>1, <1>5, <3>1
    <3>3. parent[x] # Project
      <4>1. CASE x = e
        BY <1>1, <1>5, <4>1, TreeAssumption
      <4>2. CASE x # e
        BY <1>1, <1>5, <3>1, <4>2, SubtreeFacts, TreeAssumption
      <4>3. QED
        BY <4>1, <4>2
    <3>4. perms[x] = Under(perms[parent[x]], parent[x])
      BY <1>4, <3>1
    <3>5. QED
      BY <3>2, <3>3, <3>4 DEF Below
  <2>3. CASE x # c /\ \A e \in Kids(c) : x \notin Subtree(e)
    <3>1. parent'[x] = parent[x] /\ perms[x] = parentPerms[x]
      BY <1>1, <1>4, <2>3
    <3>2. parent[x] # c
      BY <2>3, SubtreeFacts DEF Kids
    <3>3. \A e \in Kids(c) : parent[x] \notin Subtree(e)
      BY <1>5, <2>3, SubtreeFacts
    <3>4. parent[x] = Project \/ perms[parent[x]] = parentPerms[parent[x]]
      BY <1>1, <1>4, <1>6, <3>1, <3>2, <3>3 DEF Stored
    <3>5. Below(parent[x], parentPerms) = Below(parent[x], perms)
      BY <3>4 DEF Below
    <3>6. parentPerms[x] = Below(parent[x], parentPerms)
      BY <1>6, <3>1 DEF Inheriting
    <3>7. QED
      BY <3>1, <3>5, <3>6
  <2>4. QED
    BY <2>1, <2>2, <2>3
<1>7. QED
  BY <1>1, <1>3, <1>6 DEF Inheriting

LEMMA DeleteInherits ==
  ASSUME TreeTyped, Inheriting, NEW c \in Concepts, NEW locked, Delete(c, locked)
  PROVE  Inheriting'
<1> DEFINE removed == Reach(c, locked)
<1>1. /\ live' = live \ removed /\ removed \subseteq live /\ live \subseteq Concepts
      /\ \A x \in Concepts : x \notin removed =>
           parent'[x] = parent[x] /\ parentPerms'[x] = parentPerms[x]
  BY TypedFacts DEF Delete, Reach
<1>2. Stored' = Stored \ removed
  BY <1>1, TreeAssumption DEF Stored
<1> HIDE DEF removed
<1>3. ASSUME NEW x \in live', parent'[x] \in Stored'
      PROVE  parentPerms'[x] = Below(parent'[x], parentPerms')
  <2>1. x \in live /\ x \notin removed /\ parent'[x] = parent[x]
        /\ parentPerms'[x] = parentPerms[x] /\ parent[x] \in Stored /\ parent[x] \notin removed
    BY <1>1, <1>2, <1>3
  <2>2. parent[x] = Project \/ parentPerms'[parent[x]] = parentPerms[parent[x]]
    BY <1>1, <2>1 DEF Stored
  <2>3. Below(parent[x], parentPerms') = Below(parent[x], parentPerms)
    BY <2>2 DEF Below
  <2>4. QED
    BY <2>1, <2>3 DEF Inheriting
<1>4. QED
  BY <1>3 DEF Inheriting

LEMMA NextInherits ==
  ASSUME LinkIds = {}, TreeTyped, Forest!Acyclic, ExactLists, Inheriting,
         [Next]_treeVars, late' = 0
  PROVE  Inheriting'
<1>1. ASSUME NEW c \in Concepts, NEW p \in Nodes, NEW s, MoveFails(c, p, s)
      PROVE  FALSE
  BY <1>1, AllUpdated DEF MoveFails, MayMove
<1>2. ASSUME NEW c \in Concepts, NEW p \in Nodes, NEW s \in Concepts \cup {NoSibling},
             \/ Create(c, p, s) \/ Move(c, p, s) \/ MoveFails(c, p, s)
             \/ \E l \in LinkIds : Link(c, l, p, s) \/ MoveLink(c, l, p, s)
      PROVE  Inheriting'
  BY <1>1, <1>2, CreateInherits, MoveInherits
<1>3. ASSUME NEW c \in Concepts, NEW locked \in {{}, Protected}, Delete(c, locked)
      PROVE  Inheriting'
  BY <1>3, DeleteInherits
<1>4. ASSUME UNCHANGED forestVars, parentPerms' = parentPerms
      PROVE  Inheriting'
  BY <1>4 DEF Inheriting, Stored, forestVars
<1>5. ASSUME NEW n, NEW hidden, NEW c, NEW p,
             ReadChildren(n) \/ ServeProject(hidden) \/ Ask(c, p) \/ Withdraw(c, p)
      PROVE  Inheriting'
  BY <1>4, <1>5 DEF ReadChildren, ServeProject, Ask, Withdraw, listVars
<1>6. CASE Next
  BY <1>2, <1>3, <1>5, <1>6, Zenon DEF Next
<1>7. CASE UNCHANGED treeVars
  BY <1>4, <1>7 DEF treeVars, listVars
<1>8. QED
  BY <1>6, <1>7

LEMMA InheritsKept ==
  ASSUME LinkIds = {}, TreeTyped, Settled, InheritsFromAncestors, [Next]_treeVars
  PROVE  InheritsFromAncestors'
<1>1. InheritsFromAncestors <=> (late = 0 => Inheriting)
  BY DEF InheritsFromAncestors, Inheriting
<1>2. InheritsFromAncestors' <=> (late' = 0 => Inheriting')
  BY DEF InheritsFromAncestors, Inheriting
<1>3. ASSUME late' = 0
      PROVE  Inheriting'
  <2>1. late = 0
    BY <1>3, LateStays DEF TreeTyped
  <2>2. QED
    BY <1>1, <1>3, <2>1, NextInherits DEF Settled, NoCycle
<1>4. QED
  BY <1>2, <1>3

(* Without links a concept inherits along its present ancestors: a move     *)
(* that a browser checked on the tree it met leaves no descendant, however  *)
(* deep, with the permissions of the place it came from.                    *)
THEOREM AncestorsInherited ==
  ASSUME LinkIds = {}
  PROVE  Spec => []InheritsFromAncestors
<1>1. Init => InheritsFromAncestors
  BY DEF Init, InheritsFromAncestors
<1>2. TreeTyped /\ Settled /\ InheritsFromAncestors /\ [Next]_treeVars
        => (TreeTyped /\ Settled /\ InheritsFromAncestors)'
  BY NextTreeTyped, SettledKept, InheritsKept
<1>3. QED
  BY <1>1, <1>2, InitSettled, PTL DEF Spec

-----------------------------------------------------------------------------
(* Places in an exact list.                                                 *)

LEMMA IndexIs ==
  ASSUME NEW kids, NEW list, Exact(list, kids), NEW i \in 1 .. Len(list)
  PROVE  PyIndex(list, list[i]) = i - 1
<1>1. list \in Seq(kids) /\ Len(list) \in Nat /\ Contains(list, list[i])
  BY DEF Exact, Contains
<1>2. PICK m : m = PyIndex(list, list[i])
  OBVIOUS
<1>3. m \in 0 .. (Len(list) - 1) /\ list[m + 1] = list[i]
  BY <1>1, <1>2, IndexFacts
<1>4. m + 1 = i
  <2>1. m + 1 \in 1 .. Len(list)
    BY <1>1, <1>3
  <2>2. QED
    BY <1>3, <2>1 DEF Exact
<1>5. QED
  BY <1>2, <1>3, <1>4

LEMMA IndexFound ==
  ASSUME NEW kids, NEW list, Exact(list, kids), NEW x \in kids
  PROVE  \E i \in 1 .. Len(list) : list[i] = x /\ PyIndex(list, x) = i - 1
<1>1. PICK i \in 1 .. Len(list) : list[i] = x
  BY DEF Exact
<1>2. PyIndex(list, list[i]) = i - 1
  BY IndexIs
<1>3. QED
  BY <1>1, <1>2

(* An insertion at m pushes everything from m on one place up.              *)
LEMMA InsertPlaces ==
  ASSUME NEW kids, NEW list, Exact(list, kids), NEW x, x \notin kids, NEW index \in Nat,
         NEW m, m = IF index < Len(list) THEN index ELSE Len(list)
  PROVE  /\ PyIndex(PyInsert(list, index, x), x) = m
         /\ \A y \in kids : PyIndex(PyInsert(list, index, x), y) =
              IF PyIndex(list, y) < m THEN PyIndex(list, y) ELSE PyIndex(list, y) + 1
<1>1. PICK n, new, S : n = Len(list) /\ new = PyInsert(list, index, x) /\ S = kids \cup {x}
  OBVIOUS
<1>2. list \in Seq(S) /\ x \in S /\ n \in Nat
  <2>1. list \in Seq(kids)
    BY DEF Exact
  <2>2. QED
    BY <1>1, <2>1
<1>3. /\ Len(new) = n + 1 /\ m \in 0 .. n
      /\ \A i \in 1 .. n + 1 :
           new[i] = IF i <= m THEN list[i] ELSE IF i = m + 1 THEN x ELSE list[i - 1]
  <2>1. PICK k : InsertedBehind(list, index, x, k)
    BY <1>2, InsertFacts
  <2>2. k = m
    BY <2>1 DEF InsertedBehind
  <2>3. QED
    BY <1>1, <2>1, <2>2 DEF InsertedBehind
<1>4. Exact(new, S)
  BY <1>1, InsertExact
<1>5. \A i \in 1 .. n + 1 : PyIndex(new, new[i]) = i - 1
  BY <1>3, <1>4, IndexIs
<1>6. PyIndex(new, x) = m
  <2>1. m + 1 \in 1 .. n + 1 /\ new[m + 1] = x
    BY <1>2, <1>3
  <2>2. PyIndex(new, x) = (m + 1) - 1
    BY <1>5, <2>1
  <2>3. QED
    BY <1>2, <1>3, <2>2
<1>7. ASSUME NEW y \in kids
      PROVE  PyIndex(new, y) =
               IF PyIndex(list, y) < m THEN PyIndex(list, y) ELSE PyIndex(list, y) + 1
  <2>1. PICK i \in 1 .. n : list[i] = y /\ PyIndex(list, y) = i - 1
    BY <1>1, IndexFound
  <2>2. CASE i <= m
    <3>1. i \in 1 .. n + 1 /\ new[i] = y
      BY <1>2, <1>3, <2>1, <2>2
    <3>2. PyIndex(new, y) = i - 1
      BY <1>5, <3>1
    <3>3. i - 1 < m
      BY <1>2, <1>3, <2>2
    <3>4. QED
      BY <2>1, <3>2, <3>3
  <2>3. CASE ~(i <= m)
    <3>1. i + 1 \in 1 .. n + 1 /\ ~(i + 1 <= m) /\ i + 1 # m + 1 /\ (i + 1) - 1 = i
      BY <1>2, <1>3, <2>3
    <3>2. new[i + 1] = y
      BY <1>3, <2>1, <3>1
    <3>3. PyIndex(new, y) = (i + 1) - 1
      BY <1>5, <3>1, <3>2
    <3>4. ~(i - 1 < m) /\ (i + 1) - 1 = (i - 1) + 1
      BY <1>2, <1>3, <2>3
    <3>5. QED
      BY <2>1, <3>3, <3>4
  <2>4. QED
    BY <2>2, <2>3
<1>8. QED
  BY <1>1, <1>6, <1>7

(* A removal lets everything behind it slide one place down.                *)
LEMMA RemovePlaces ==
  ASSUME NEW kids, NEW list, Exact(list, kids), NEW x \in kids, NEW y \in kids \ {x}
  PROVE  PyIndex(RemoveFirst(list, x), y) =
           IF PyIndex(list, y) < PyIndex(list, x) THEN PyIndex(list, y)
           ELSE PyIndex(list, y) - 1
<1>1. PICK n, new : n = Len(list) /\ new = RemoveFirst(list, x)
  OBVIOUS
<1>2. list \in Seq(kids) /\ n \in Nat /\ Contains(list, x)
  <2>1. list \in Seq(kids)
    BY DEF Exact
  <2>2. QED
    BY <1>1, <2>1 DEF Exact, Contains
<1>3. PICK k \in 1 .. n : list[k] = x /\ PyIndex(list, x) = k - 1
  BY <1>1, IndexFound
<1>4. PICK m : m = PyIndex(list, x)
  OBVIOUS
<1>5. /\ Len(new) = n - 1 /\ m = k - 1
      /\ \A i \in 1 .. (n - 1) : new[i] = IF i <= m THEN list[i] ELSE list[i + 1]
  BY <1>1, <1>2, <1>3, <1>4, RemoveFacts
<1>6. Exact(new, kids \ {x})
  BY <1>1, RemoveExact
<1>7. \A i \in 1 .. (n - 1) : PyIndex(new, new[i]) = i - 1
  BY <1>5, <1>6, IndexIs
<1>8. PICK i \in 1 .. n : list[i] = y /\ PyIndex(list, y) = i - 1
  BY <1>1, IndexFound
<1>9. i # k
  BY <1>3, <1>8
<1>10. CASE i < k
  <2>1. i \in 1 .. (n - 1) /\ i <= m /\ i - 1 < m
    BY <1>2, <1>5, <1>10
  <2>2. new[i] = y
    BY <1>5, <1>8, <2>1
  <2>3. PyIndex(new, y) = i - 1
    BY <1>7, <2>1, <2>2
  <2>4. QED
    BY <1>1, <1>4, <1>8, <2>1, <2>3
<1>11. CASE ~(i < k)
  <2>1. i - 1 \in 1 .. (n - 1) /\ ~(i - 1 <= m) /\ ~(i - 1 < m) /\ (i - 1) + 1 = i
    BY <1>2, <1>5, <1>9, <1>11
  <2>2. new[i - 1] = y
    BY <1>5, <1>8, <2>1
  <2>3. PyIndex(new, y) = (i - 1) - 1
    BY <1>7, <2>1, <2>2
  <2>4. QED
    BY <1>1, <1>4, <1>8, <2>1, <2>3
<1>12. QED
  BY <1>10, <1>11

(* get_concept_index of a stored child is its place in the exact list.      *)
LEMMA ListedExact ==
  ASSUME NEW kids, NEW list, Exact(list, kids)
  PROVE  Listed(list, kids) = list
<1>1. list \in Seq(kids) /\ Dedup(list) = list
      /\ DOMAIN list = 1 .. Len(list) /\ Len(list) \in Nat
  BY DedupExact DEF Exact
<1>2. DOMAIN list \subseteq Living(list, kids)
  BY <1>1 DEF Living
<1>3. DOMAIN list \subseteq Visited(list, kids)
  <2> DEFINE Is(at) == at = [i \in 1 .. Len(list) |->
                               i = 1 \/ ~(at[i - 1] /\ list[i - 1] \notin kids)]
             all == [i \in 1 .. Len(list) |-> TRUE]
  <2>1. \A i \in 1 .. Len(list) : i # 1 => list[i - 1] \in kids
    <3> SUFFICES ASSUME NEW i \in 1 .. Len(list), i # 1 PROVE list[i - 1] \in kids
      OBVIOUS
    <3>1. i - 1 \in 1 .. Len(list)
      BY <1>1
    <3>2. QED
      BY <1>1, <3>1
  <2>2. \A at : \A i \in 1 .. Len(list) :
          (i = 1 \/ ~(at[i - 1] /\ list[i - 1] \notin kids)) = TRUE
    BY <2>1
  <2>3. Is(all)
    BY <2>2
  <2>4. PICK at : at = CHOOSE f : Is(f)
    OBVIOUS
  <2>5. Is(at)
    <3> HIDE DEF Is, all
    <3>1. QED
      BY <2>3, <2>4
  <2>6. \A i \in 1 .. Len(list) : at[i] = TRUE
    BY <2>2, <2>5
  <2>7. Visited(list, kids) = {i \in 1 .. Len(list) : at[i]}
    BY <2>4 DEF Visited
  <2>8. QED
    BY <1>1, <2>6, <2>7
<1>4. DOMAIN list \subseteq Living(list, kids) \cap Visited(list, kids)
  BY <1>2, <1>3
<1>5. QED
  BY <1>1, <1>4, PickedAll DEF Listed

LEMMA IndexesExact ==
  ASSUME NEW kids, NEW list, Exact(list, kids), NEW x \in kids,
         NEW i \in ConceptIndexes(list, kids, x)
  PROVE  i = PyIndex(list, x)
<1>1. PICK r \in Returned(list, kids) : i = IF Contains(r, x) THEN PyIndex(r, x) ELSE Len(r)
  BY DEF ConceptIndexes
<1>2. Listed(list, kids) = list /\ kids \ ToSet(list) = {} /\ Contains(list, x)
  <2>1. ToSet(list) = kids
    BY ExactLength
  <2>2. Contains(list, x)
    <3>1. list \in Seq(kids)
      BY DEF Exact
    <3>2. QED
      BY <3>1 DEF Exact, Contains
  <2>3. QED
    BY <2>1, <2>2, ListedExact
<1>3. PICK rest \in SetToSeqs({}) : r = list \o rest
  BY <1>1, <1>2 DEF Returned
<1>4. rest = <<>>
  <2>1. Cardinality({}) = 0
    BY FS_EmptySet
  <2>2. rest \in [1 .. 0 -> {}]
    BY <2>1 DEF SetToSeqs
  <2>3. QED
    BY <2>2
<1>5. r = list
  <2>1. list \in Seq(kids)
    BY DEF Exact
  <2>2. QED
    BY <1>3, <1>4, <2>1, ConcatEmptySeq
<1>6. QED
  BY <1>1, <1>2, <1>5

(* The place a move before s computes is right: directly before s once c is *)
(* out of the list, wherever in it c stood.                                 *)
LEMMA MoveBefore ==
  ASSUME TreeTyped, Forest!Acyclic, ExactLists,
         NEW c \in Concepts, NEW s \in Concepts, NEW p \in Nodes,
         late' = 0, c # s, Move(c, p, s), ~DirectlyBefore(c, s, children[p])
  PROVE  DirectlyBefore(c, s, children'[p])
<1>1. PICK i \in InsertIndexes(c, p, s), out \in [Nodes -> Seq(used)] :
        /\ i \in Nat
        /\ out = [children EXCEPT ![parent[c]] = RemoveFirst(children[parent[c]], c)]
        /\ \A n \in Stored : Exact(out[n], Kids(n) \ {c})
        /\ children' = [out EXCEPT ![p] = PyInsert(out[p], i, c)]
        /\ \A n \in Stored : Exact(children'[n], Kids(n)')
  BY MovePlaces
<1>2. /\ p \in Stored /\ s # NoSibling /\ Contains(children[p], s) /\ c \in live
      /\ children \in [Nodes -> Seq(used)] /\ Exact(children[p], Kids(p))
  BY TreeAssumption DEF Move, MayMove, SiblingGiven, ExactLists, TreeTyped
<1>3. s \in Kids(p) /\ s \in Kids(p) \ {c}
  <2>1. children[p] \in Seq(Kids(p))
    BY <1>2 DEF Exact
  <2>2. QED
    BY <1>2, <2>1 DEF Contains
<1>4. PICK list, new, kids : list = out[p] /\ new = children'[p] /\ kids = Kids(p) \ {c}
  OBVIOUS
<1>5. Exact(list, kids) /\ c \notin kids /\ s \in kids /\ new = PyInsert(list, i, c)
  BY <1>1, <1>2, <1>3, <1>4
<1>6. PICK at, was : at = PyIndex(list, s) /\ was = PyIndex(children[p], s)
  OBVIOUS
<1>7. Len(list) \in Nat /\ at \in 0 .. (Len(list) - 1)
  <2>1. PICK k \in 1 .. Len(list) : PyIndex(list, s) = k - 1
    BY <1>5, IndexFound
  <2>2. Len(list) \in Nat
    BY <1>5 DEF Exact
  <2>3. QED
    BY <1>6, <2>1, <2>2
<1>8. was \in Int
  BY <1>2, <1>6, IndexFacts
<1>9. i = at
  <2>1. CASE parent[c] # p
    <3>1. list = children[p]
      BY <1>1, <1>2, <1>4, <2>1
    <3>2. i = PyIndex(children[p], s)
      BY <1>1, <1>2, <2>1 DEF InsertIndexes
    <3>3. QED
      BY <1>6, <3>1, <3>2
  <2>2. CASE parent[c] = p
    <3>1. c \in Kids(p)
      BY <1>2, <2>2 DEF Kids
    <3>2. list = RemoveFirst(children[p], c)
      BY <1>1, <1>2, <1>4, <2>2
    <3>3. PICK mine : mine = PyIndex(children[p], c)
      OBVIOUS
    <3>4. mine \in Int /\ mine # was /\ mine + 1 # was
      <4>1. PICK k \in 1 .. Len(children[p]) : children[p][k] = c /\ mine = k - 1
        BY <1>2, <3>1, <3>3, IndexFound
      <4>2. PICK l \in 1 .. Len(children[p]) : children[p][l] = s /\ was = l - 1
        BY <1>2, <1>3, <1>6, IndexFound
      <4>3. k # l
        BY <4>1, <4>2
      <4>4. mine + 1 # was
        BY <1>6, <3>3 DEF DirectlyBefore
      <4>5. QED
        BY <4>1, <4>2, <4>3, <4>4
    <3>5. at = IF was < mine THEN was ELSE was - 1
      BY <1>2, <1>3, <1>6, <3>1, <3>2, <3>3, RemovePlaces
    <3>6. i = IF mine + 1 < was THEN was - 1 ELSE was
      <4>1. \A k \in ConceptIndexes(children[p], Kids(p), c) : k = mine
        BY <1>2, <3>1, <3>3, IndexesExact
      <4>2. i \in {IF k + 1 < was THEN was - 1 ELSE was :
                     k \in ConceptIndexes(children[p], Kids(p), c)}
        BY <1>2, <1>6, <2>2 DEF InsertIndexes
      <4>3. QED
        BY <4>1, <4>2
    <3>7. QED
      BY <1>8, <3>4, <3>5, <3>6
  <2>3. QED
    BY <2>1, <2>2
<1>10. i < Len(list) /\ ~(at < at)
  BY <1>7, <1>9
<1>11. PyIndex(new, c) = i /\ PyIndex(new, s) = at + 1
  <2>1. i = IF i < Len(list) THEN i ELSE Len(list)
    BY <1>10
  <2>2. /\ PyIndex(PyInsert(list, i, c), c) = i
        /\ PyIndex(PyInsert(list, i, c), s) =
             IF PyIndex(list, s) < i THEN PyIndex(list, s) ELSE PyIndex(list, s) + 1
    BY <1>1, <1>5, <2>1, InsertPlaces
  <2>3. QED
    BY <1>5, <1>6, <1>9, <1>10, <2>2
<1>12. QED
  BY <1>4, <1>9, <1>11 DEF DirectlyBefore

(* Without links and late moves a concept that is moved before a sibling    *)
(* ends up directly before it, wherever the two stood: the position         *)
(* set_parent takes in the old list is corrected by exactly what the        *)
(* removal shifts.                                                          *)
THEOREM PlacedBeforeSibling ==
  ASSUME LinkIds = {}
  PROVE  Spec => MovedBeforeSibling
<1>1. TreeTyped /\ Settled /\ [Next]_treeVars => (TreeTyped /\ Settled)'
  BY NextTreeTyped, SettledKept
<1>2. TreeTyped /\ Settled /\ [Next]_treeVars =>
        \A c, s \in Concepts, p \in Nodes :
          (late' = 0 /\ c # s /\ Move(c, p, s) /\ ~DirectlyBefore(c, s, children[p]))
            => DirectlyBefore(c, s, children'[p])
  <2> SUFFICES ASSUME TreeTyped, Settled, [Next]_treeVars,
                      NEW c \in Concepts, NEW s \in Concepts, NEW p \in Nodes,
                      late' = 0, c # s, Move(c, p, s), ~DirectlyBefore(c, s, children[p])
               PROVE  DirectlyBefore(c, s, children'[p])
    BY Zenon
  <2>1. late = 0
    BY LateStays DEF TreeTyped
  <2>2. Forest!Acyclic /\ ExactLists
    BY <2>1 DEF Settled, NoCycle
  <2>3. QED
    BY <2>2, MoveBefore
<1>3. QED
  BY <1>1, <1>2, InitSettled, PTL DEF Spec, MovedBeforeSibling

-----------------------------------------------------------------------------
(* Reads of a damaged list.                                                 *)

\* at lists, in ascending order, the positions among the first n of list that
\* are in positions, and picked has what stands there.
AtPlaces(picked, list, positions, n, at) ==
  /\ at \in Seq(Nat) /\ Len(at) = Len(picked)
  /\ \A i \in 1 .. Len(at) :
       at[i] \in 1 .. n /\ at[i] \in positions /\ picked[i] = list[at[i]]
  /\ \A i, j \in 1 .. Len(at) : i < j => at[i] < at[j]
  /\ \A p \in 1 .. n : p \in positions => \E i \in 1 .. Len(at) : at[i] = p

LEMMA PlaceAdded ==
  ASSUME NEW S, NEW list \in Seq(S), NEW positions, NEW k \in Nat, k + 1 <= Len(list),
         NEW picked \in Seq(S), NEW at, AtPlaces(picked, list, positions, k, at),
         k + 1 \in positions
  PROVE  AtPlaces(Append(picked, list[k + 1]), list, positions, k + 1, Append(at, k + 1))
<1> DEFINE m == Len(picked)
<1>1. m \in Nat /\ k + 1 \in Nat /\ k + 1 \in DOMAIN list /\ list[k + 1] \in S
  OBVIOUS
<1>2. PICK x : x = list[k + 1]
  OBVIOUS
<1>3. PICK more, new : more = Append(at, k + 1) /\ new = Append(picked, x)
  OBVIOUS
<1>4. /\ more \in Seq(Nat) /\ Len(more) = m + 1 /\ Len(new) = m + 1
      /\ \A i \in 1 .. m : more[i] = at[i] /\ new[i] = picked[i]
      /\ more[m + 1] = k + 1 /\ new[m + 1] = x
  BY <1>1, <1>2, <1>3 DEF AtPlaces
<1>5. \A i \in 1 .. m : at[i] \in 1 .. k /\ at[i] \in positions /\ picked[i] = list[at[i]]
  BY DEF AtPlaces
<1>6. \A i, j \in 1 .. m : i < j => at[i] < at[j]
  BY DEF AtPlaces
<1>7. \A p \in 1 .. k : p \in positions => \E i \in 1 .. m : at[i] = p
  BY DEF AtPlaces
<1> HIDE DEF m
<1>8. ASSUME NEW i \in 1 .. m + 1
      PROVE  more[i] \in 1 .. k + 1 /\ more[i] \in positions /\ new[i] = list[more[i]]
  <2>1. CASE i = m + 1
    BY <1>2, <1>4, <2>1
  <2>2. CASE i # m + 1
    <3>1. i \in 1 .. m
      BY <1>1, <2>2
    <3>2. QED
      BY <1>4, <1>5, <3>1
  <2>3. QED
    BY <2>1, <2>2
<1>9. ASSUME NEW i \in 1 .. m + 1, NEW j \in 1 .. m + 1, i < j
      PROVE  more[i] < more[j]
  <2>1. i \in 1 .. m
    BY <1>1, <1>9
  <2>2. CASE j = m + 1
    BY <1>4, <1>5, <2>1, <2>2
  <2>3. CASE j # m + 1
    <3>1. j \in 1 .. m
      BY <1>1, <2>3
    <3>2. QED
      BY <1>4, <1>6, <1>9, <2>1, <3>1
  <2>4. QED
    BY <2>2, <2>3
<1>10. ASSUME NEW p \in 1 .. k + 1, p \in positions
       PROVE  \E i \in 1 .. m + 1 : more[i] = p
  <2>1. CASE p = k + 1
    <3>1. m + 1 \in 1 .. m + 1
      BY <1>1
    <3>2. QED
      BY <1>4, <2>1, <3>1
  <2>2. CASE p # k + 1
    <3>1. p \in 1 .. k
      BY <2>2
    <3>2. PICK i \in 1 .. m : at[i] = p
      BY <1>7, <1>10, <3>1
    <3>3. i \in 1 .. m + 1
      BY <1>1
    <3>4. QED
      BY <1>4, <3>2, <3>3
  <2>3. QED
    BY <2>1, <2>2
<1>11. AtPlaces(new, list, positions, k + 1, more)
  BY <1>4, <1>8, <1>9, <1>10 DEF AtPlaces
<1>12. QED
  BY <1>2, <1>3, <1>11

(* What is picked stands in the order of the list.                          *)
LEMMA PickedPlaces ==
  ASSUME NEW S, NEW list \in Seq(S), NEW positions
  PROVE  /\ Picked(list, positions) \in Seq(S)
         /\ \E at : AtPlaces(Picked(list, positions), list, positions, Len(list), at)
<1>1. PICK acc : PickRun(acc, list, positions) /\ Picked(list, positions) = acc[Len(list)]
  BY PickRuns
<1> DEFINE n == Len(list)
           Good(k) == acc[k] \in Seq(S) /\ \E at : AtPlaces(acc[k], list, positions, k, at)
           Q == {k \in Nat : k <= n => Good(k)}
<1>2. n \in Nat /\ DOMAIN list = 1 .. n
  OBVIOUS
<1>3. 0 \in Q
  <2>1. acc[0] = <<>> /\ <<>> \in Seq(S) /\ <<>> \in Seq(Nat) /\ Len(<<>>) = 0 /\ 1 .. 0 = {}
    BY <1>1 DEF PickRun
  <2>2. AtPlaces(acc[0], list, positions, 0, <<>>)
    BY <2>1 DEF AtPlaces
  <2>3. QED
    BY <2>1, <2>2
<1>4. ASSUME NEW k \in Nat, k \in Q
      PROVE  k + 1 \in Q
  <2> HIDE DEF n
  <2> SUFFICES ASSUME k + 1 <= n PROVE Good(k + 1)
    OBVIOUS
  <2>1. Good(k)
    BY <1>2, <1>4
  <2>2. PICK at : AtPlaces(acc[k], list, positions, k, at)
    BY <2>1
  <2>3. acc[k + 1] = IF k + 1 \in positions THEN Append(acc[k], list[k + 1]) ELSE acc[k]
    BY <1>1 DEF PickRun, n
  <2>4. CASE k + 1 \in positions
    <3>1. PICK picked \in Seq(S) : picked = acc[k]
      BY <2>1
    <3>2. AtPlaces(Append(picked, list[k + 1]), list, positions, k + 1, Append(at, k + 1))
      <4>1. k + 1 <= Len(list)
        BY DEF n
      <4>2. QED
        BY <2>2, <2>4, <3>1, <4>1, PlaceAdded
    <3>3. Append(picked, list[k + 1]) \in Seq(S)
      <4>1. list[k + 1] \in S
        BY <1>2
      <4>2. QED
        BY <4>1
    <3>4. QED
      BY <2>3, <2>4, <3>1, <3>2, <3>3
  <2>5. CASE k + 1 \notin positions
    <3>1. AtPlaces(acc[k], list, positions, k + 1, at)
      <4>1. \A i \in 1 .. Len(at) : at[i] \in 1 .. k + 1
        BY <2>2 DEF AtPlaces
      <4>2. \A p \in 1 .. k + 1 : p \in positions => p \in 1 .. k
        BY <2>5
      <4>3. QED
        BY <2>2, <4>1, <4>2 DEF AtPlaces
    <3>2. QED
      BY <2>1, <2>3, <2>5, <3>1
  <2>6. QED
    BY <2>4, <2>5
<1>5. Nat \subseteq Q
  <2> HIDE DEF Q
  <2>1. QED
    BY <1>3, <1>4, Counting
<1>6. Good(n)
  BY <1>2, <1>5
<1>7. QED
  BY <1>1, <1>6

LEMMA FirstIndex ==
  ASSUME NEW S, NEW list \in Seq(S), NEW i \in 1 .. Len(list),
         \A j \in 1 .. (i - 1) : list[j] # list[i]
  PROVE  PyIndex(list, list[i]) = i - 1
<1>1. Contains(list, list[i])
  BY DEF Contains
<1>2. PICK m : m = PyIndex(list, list[i])
  OBVIOUS
<1>3. /\ m \in 0 .. (Len(list) - 1) /\ list[m + 1] = list[i]
      /\ \A j \in 1 .. m : list[j] # list[i]
  BY <1>1, <1>2, IndexFacts
<1>4. ~(i <= m) /\ ~(m + 1 <= i - 1)
  BY <1>3
<1>5. m = i - 1
  BY <1>3, <1>4
<1>6. QED
  BY <1>2, <1>5

\* No key occurs at one of the positions after it occurred before.
Firsts(list, positions) ==
  \A i \in 1 .. Len(list) : i \in positions => \A j \in 1 .. (i - 1) : list[j] # list[i]

Distinct(list) == \A i, j \in 1 .. Len(list) : list[i] = list[j] => i = j

\* picked has every key once, and those of list in the order of list.
KeepsOrder(picked, list) ==
  /\ Distinct(picked)
  /\ \A x, y \in ToSet(picked) : Before(picked, x, y) <=> Before(list, x, y)

LEMMA PickedKeepsOrder ==
  ASSUME NEW S, NEW list \in Seq(S), NEW positions, Firsts(list, positions)
  PROVE  /\ Picked(list, positions) \in Seq(S) /\ KeepsOrder(Picked(list, positions), list)
         /\ ToSet(Picked(list, positions)) = {list[i] : i \in positions \cap DOMAIN list}
<1>1. PICK n, picked : n = Len(list) /\ picked = Picked(list, positions)
  OBVIOUS
<1>2. picked \in Seq(S) /\ n \in Nat /\ DOMAIN list = 1 .. n
  BY <1>1, PickedPlaces
<1>3. PICK at : AtPlaces(picked, list, positions, n, at)
  BY <1>1, PickedPlaces
<1>4. PICK m : m = Len(picked)
  OBVIOUS
<1>5. /\ m \in Nat /\ DOMAIN picked = 1 .. m
      /\ \A i \in 1 .. m : at[i] \in 1 .. n /\ at[i] \in positions /\ picked[i] = list[at[i]]
      /\ \A i, j \in 1 .. m : i < j => at[i] < at[j]
      /\ \A p \in 1 .. n : p \in positions => \E i \in 1 .. m : at[i] = p
  <2>1. m \in Nat /\ DOMAIN picked = 1 .. m
    BY <1>2, <1>4
  <2>2. Len(at) = m
    BY <1>3, <1>4 DEF AtPlaces
  <2>3. \A i \in 1 .. m : at[i] \in 1 .. n /\ at[i] \in positions /\ picked[i] = list[at[i]]
    BY <1>3, <2>2, Zenon DEF AtPlaces
  <2>4. \A i, j \in 1 .. m : i < j => at[i] < at[j]
    BY <1>3, <2>2, Zenon DEF AtPlaces
  <2>5. \A p \in 1 .. n : p \in positions => \E i \in 1 .. m : at[i] = p
    BY <1>3, <2>2, Zenon DEF AtPlaces
  <2>6. QED
    BY <2>1, <2>3, <2>4, <2>5
<1>6. ASSUME NEW i \in 1 .. m, NEW j \in 1 .. m, i < j
      PROVE  picked[i] # picked[j]
  <2>1. at[i] < at[j] /\ at[i] \in 1 .. n /\ at[j] \in 1 .. n /\ at[j] \in positions
    BY <1>5, <1>6
  <2>2. at[i] \in 1 .. (at[j] - 1)
    BY <1>2, <2>1
  <2>3. list[at[i]] # list[at[j]]
    BY <1>1, <2>1, <2>2 DEF Firsts
  <2>4. QED
    BY <1>5, <2>3
<1>7. Distinct(picked)
  <2> SUFFICES ASSUME NEW i \in 1 .. m, NEW j \in 1 .. m, i # j
               PROVE  picked[i] # picked[j]
    BY <1>4 DEF Distinct
  <2>1. i < j \/ j < i
    BY <1>5
  <2>2. QED
    BY <1>6, <2>1
<1>8. \A i \in 1 .. m : PyIndex(picked, picked[i]) = i - 1
  <2> SUFFICES ASSUME NEW i \in 1 .. m PROVE PyIndex(picked, picked[i]) = i - 1
    OBVIOUS
  <2>1. \A j \in 1 .. (i - 1) : j \in 1 .. m /\ j < i
    BY <1>5
  <2>2. \A j \in 1 .. (i - 1) : picked[j] # picked[i]
    BY <1>6, <2>1
  <2>3. QED
    BY <1>2, <1>4, <2>2, FirstIndex
<1>9. \A i \in 1 .. m : PyIndex(list, picked[i]) = at[i] - 1
  <2> SUFFICES ASSUME NEW i \in 1 .. m PROVE PyIndex(list, picked[i]) = at[i] - 1
    OBVIOUS
  <2>1. PICK p : p = at[i]
    OBVIOUS
  <2>2. p \in 1 .. Len(list) /\ p \in positions /\ picked[i] = list[p]
    BY <1>1, <1>5, <2>1
  <2>3. \A j \in 1 .. (p - 1) : list[j] # list[p]
    BY <2>2 DEF Firsts
  <2>4. PyIndex(list, list[p]) = p - 1
    BY <2>2, <2>3, FirstIndex
  <2>5. QED
    BY <2>1, <2>2, <2>4
<1>10. ASSUME NEW x \in ToSet(picked), NEW y \in ToSet(picked)
       PROVE  Before(picked, x, y) <=> Before(list, x, y)
  <2>1. PICK i \in 1 .. m, j \in 1 .. m : x = picked[i] /\ y = picked[j]
    BY <1>5, <1>10 DEF ToSet
  <2>2. /\ PyIndex(picked, x) = i - 1 /\ PyIndex(picked, y) = j - 1
        /\ PyIndex(list, x) = at[i] - 1 /\ PyIndex(list, y) = at[j] - 1
    BY <1>8, <1>9, <2>1
  <2>3. at[i] \in Int /\ at[j] \in Int
    BY <1>5
  <2>4. CASE i < j
    <3>1. at[i] < at[j]
      BY <1>5, <2>4
    <3>2. i - 1 < j - 1 /\ at[i] - 1 < at[j] - 1
      BY <2>3, <2>4, <3>1
    <3>3. QED
      BY <2>2, <3>2 DEF Before
  <2>5. CASE i = j
    <3>1. ~(i - 1 < j - 1) /\ ~(at[i] - 1 < at[j] - 1)
      BY <2>3, <2>5
    <3>2. QED
      BY <2>2, <3>1 DEF Before
  <2>6. CASE j < i
    <3>1. at[j] < at[i]
      BY <1>5, <2>6
    <3>2. ~(i - 1 < j - 1) /\ ~(at[i] - 1 < at[j] - 1)
      BY <2>3, <2>6, <3>1
    <3>3. QED
      BY <2>2, <3>2 DEF Before
  <2>7. QED
    BY <2>4, <2>5, <2>6
<1>11. ToSet(picked) = {list[i] : i \in positions \cap DOMAIN list}
  <2>1. \A i \in DOMAIN picked : at[i] \in positions \cap DOMAIN list /\ picked[i] = list[at[i]]
    BY <1>2, <1>5
  <2>2. ASSUME NEW p \in positions \cap DOMAIN list
        PROVE  \E i \in DOMAIN picked : picked[i] = list[p]
    <3>1. PICK i \in 1 .. m : at[i] = p
      BY <1>2, <1>5, <2>2
    <3>2. QED
      BY <1>5, <3>1
  <2>3. QED
    BY <2>1, <2>2 DEF ToSet
<1>12. QED
  BY <1>1, <1>2, <1>7, <1>10, <1>11 DEF KeepsOrder

LEMMA DedupKeepsOrder ==
  ASSUME NEW S, NEW list \in Seq(S)
  PROVE  /\ Dedup(list) \in Seq(S) /\ KeepsOrder(Dedup(list), list)
         /\ ToSet(Dedup(list)) = ToSet(list)
<1> DEFINE P == {i \in DOMAIN list : \A j \in 1 .. (i - 1) : list[j] # list[i]}
<1>1. Firsts(list, P) /\ Dedup(list) = Picked(list, P)
  BY DEF Firsts, Dedup
<1>2. {list[i] : i \in P \cap DOMAIN list} = ToSet(list)
  <2>1. ASSUME NEW k \in DOMAIN list
        PROVE  \E i \in P : list[i] = list[k]
    <3>1. Contains(list, list[k])
      BY DEF Contains
    <3>2. PICK m : m = PyIndex(list, list[k])
      OBVIOUS
    <3>3. /\ m \in 0 .. (Len(list) - 1) /\ list[m + 1] = list[k]
          /\ \A j \in 1 .. m : list[j] # list[k]
      BY <3>1, <3>2, IndexFacts
    <3>4. m + 1 \in DOMAIN list /\ (m + 1) - 1 = m
      BY <3>3
    <3>5. m + 1 \in P
      BY <3>3, <3>4
    <3>6. QED
      BY <3>3, <3>5
  <2>2. P \subseteq DOMAIN list
    OBVIOUS
  <2> HIDE DEF P
  <2>3. QED
    BY <2>1, <2>2 DEF ToSet
<1> HIDE DEF P
<1>3. QED
  BY <1>1, <1>2, PickedKeepsOrder

(* Whatever is picked from a list without duplicates keeps its order.       *)
LEMMA PickedDistinct ==
  ASSUME NEW S, NEW list \in Seq(S), Distinct(list), NEW positions
  PROVE  /\ Picked(list, positions) \in Seq(S) /\ KeepsOrder(Picked(list, positions), list)
         /\ ToSet(Picked(list, positions)) = {list[i] : i \in positions \cap DOMAIN list}
<1>1. Firsts(list, positions)
  <2> SUFFICES ASSUME NEW i \in 1 .. Len(list), NEW j \in 1 .. (i - 1)
               PROVE  list[j] # list[i]
    BY DEF Firsts
  <2>1. j \in 1 .. Len(list) /\ j # i
    OBVIOUS
  <2>2. QED
    BY <2>1 DEF Distinct
<1>2. QED
  BY <1>1, PickedKeepsOrder

LEMMA RepairedKeepsOrder ==
  ASSUME NEW S, NEW list \in Seq(S), NEW kids
  PROVE  /\ ToSet(Repaired(list, kids)) \cap kids = ToSet(list) \cap kids
         /\ \A x, y \in ToSet(Repaired(list, kids)) :
              Before(Repaired(list, kids), x, y) <=> Before(list, x, y)
<1>1. PICK d \in Seq(S) : d = Dedup(list)
  BY DedupKeepsOrder
<1>2. /\ Distinct(d) /\ ToSet(d) = ToSet(list)
      /\ \A x, y \in ToSet(d) : Before(d, x, y) <=> Before(list, x, y)
  BY <1>1, DedupKeepsOrder DEF KeepsOrder
<1>3. PICK P : P = Living(d, kids) \cup (DOMAIN d \ Visited(d, kids))
  OBVIOUS
<1>4. PICK new : new = Picked(d, P)
  OBVIOUS
<1>5. new = Repaired(list, kids)
  BY <1>1, <1>3, <1>4 DEF Repaired
<1>6. /\ ToSet(new) = {d[i] : i \in P \cap DOMAIN d}
      /\ \A x, y \in ToSet(new) : Before(new, x, y) <=> Before(d, x, y)
  BY <1>2, <1>4, PickedDistinct DEF KeepsOrder
<1>7. \A i \in DOMAIN d : d[i] \in kids => i \in P
  BY <1>3 DEF Living
<1>8. ToSet(new) \subseteq ToSet(d) /\ ToSet(d) \cap kids \subseteq ToSet(new)
  BY <1>6, <1>7 DEF ToSet
<1>9. \A x, y \in ToSet(new) : Before(new, x, y) <=> Before(list, x, y)
  BY <1>2, <1>6, <1>8
<1>10. ToSet(new) \cap kids = ToSet(list) \cap kids
  BY <1>2, <1>8
<1>11. QED
  BY <1>5, <1>9, <1>10

(* A sequence of a finite set names all of it.                              *)
LEMMA ArrangedExact ==
  ASSUME NEW T, IsFiniteSet(T), NEW rest \in SetToSeqs(T)
  PROVE  Exact(rest, T)
<1>1. PICK n : n = Cardinality(T)
  OBVIOUS
<1>2. n \in Nat
  BY <1>1, FS_CardinalityType
<1>3. /\ rest \in [1 .. n -> T]
      /\ \A i, j \in 1 .. n : i # j => rest[i] # rest[j]
  BY <1>1 DEF SetToSeqs
<1>4. rest \in Injection(1 .. n, T)
  BY <1>3 DEF Injection, IsInjective
<1>5. IsFiniteSet(1 .. n) /\ Cardinality(1 .. n) = n
  <2>1. IsFiniteSet(1 .. n) /\ Cardinality(1 .. n) = IF 1 > n THEN 0 ELSE n - 1 + 1
    BY <1>2, FS_Interval
  <2>2. QED
    BY <1>2, <2>1
<1>6. rest \in Surjection(1 .. n, T)
  BY <1>1, <1>4, <1>5, FS_Injection
<1>7. \A x \in T : \E i \in 1 .. n : rest[i] = x
  BY <1>6 DEF Surjection
<1>8. rest \in Seq(T) /\ Len(rest) = n
  BY <1>2, <1>3
<1>9. QED
  BY <1>3, <1>7, <1>8 DEF Exact

(* Every answer of get_children names every stored child once.              *)
LEMMA ReturnedExact ==
  ASSUME NEW S, NEW list \in Seq(S), NEW kids, IsFiniteSet(kids),
         NEW r \in Returned(list, kids)
  PROVE  Exact(r, kids)
<1>1. PICK d \in Seq(S) : d = Dedup(list)
  BY DedupKeepsOrder
<1>2. PICK head, P : /\ head = Listed(list, kids) /\ head = Picked(d, P)
                     /\ P = Living(d, kids) \cap Visited(d, kids)
  BY <1>1 DEF Listed
<1>3. Distinct(d)
  BY <1>1, DedupKeepsOrder DEF KeepsOrder
<1>4. head \in Seq(S) /\ Distinct(head) /\ ToSet(head) = {d[i] : i \in P \cap DOMAIN d}
  BY <1>2, <1>3, PickedDistinct DEF KeepsOrder
<1>5. ToSet(head) \subseteq kids
  BY <1>2, <1>4 DEF Living
<1>6. head \in Seq(kids)
  <2>1. \A i \in 1 .. Len(head) : head[i] \in kids
    BY <1>4, <1>5 DEF ToSet
  <2>2. QED
    BY <1>4, <2>1
<1>7. PICK T : T = kids \ ToSet(head)
  OBVIOUS
<1>8. PICK rest \in SetToSeqs(T) : r = head \o rest
  BY <1>2, <1>7 DEF Returned
<1>9. IsFiniteSet(T)
  BY <1>7, FS_Difference
<1>10. Exact(rest, T)
  BY <1>9, ArrangedExact
<1>11. PICK p, q : p = Len(head) /\ q = Len(rest)
  OBVIOUS
<1>12. rest \in Seq(T) /\ rest \in Seq(kids) /\ p \in Nat /\ q \in Nat
  <2>1. rest \in Seq(T)
    BY <1>10 DEF Exact
  <2>2. T \subseteq kids
    BY <1>7
  <2>3. QED
    BY <1>6, <1>11, <2>1, <2>2
<1>13. /\ r \in Seq(kids) /\ Len(r) = p + q
       /\ \A i \in 1 .. p + q : r[i] = IF i <= p THEN head[i] ELSE rest[i - p]
  BY <1>6, <1>8, <1>11, <1>12, Join
<1>14. \A i \in 1 .. p : i \in 1 .. p + q /\ r[i] = head[i] /\ head[i] \in ToSet(head)
  BY <1>6, <1>11, <1>12, <1>13 DEF ToSet
<1>15. \A i \in 1 .. q : p + i \in 1 .. p + q /\ r[p + i] = rest[i] /\ rest[i] \in T
  <2> SUFFICES ASSUME NEW i \in 1 .. q
               PROVE  p + i \in 1 .. p + q /\ r[p + i] = rest[i] /\ rest[i] \in T
    OBVIOUS
  <2>1. p + i \in 1 .. p + q /\ ~(p + i <= p) /\ (p + i) - p = i
    BY <1>12
  <2>2. rest[i] \in T
    BY <1>11, <1>12
  <2>3. QED
    BY <1>13, <2>1, <2>2
<1>16. \A x \in kids : \E i \in 1 .. p + q : r[i] = x
  <2> SUFFICES ASSUME NEW x \in kids PROVE \E i \in 1 .. p + q : r[i] = x
    OBVIOUS
  <2>1. CASE x \in ToSet(head)
    <3>1. PICK i \in 1 .. p : head[i] = x
      BY <1>6, <1>11, <2>1 DEF ToSet
    <3>2. QED
      BY <1>14, <3>1
  <2>2. CASE x \notin ToSet(head)
    <3>1. PICK i \in 1 .. q : rest[i] = x
      BY <1>7, <1>10, <1>11, <2>2 DEF Exact
    <3>2. QED
      BY <1>15, <3>1
  <2>3. QED
    BY <2>1, <2>2
<1>17. \A i \in 1 .. p + q : i \in 1 .. p \/ \E k \in 1 .. q : i = p + k
  <2> SUFFICES ASSUME NEW i \in 1 .. p + q, i \notin 1 .. p
               PROVE  \E k \in 1 .. q : i = p + k
    OBVIOUS
  <2>1. i - p \in 1 .. q /\ i = p + (i - p)
    BY <1>12
  <2>2. QED
    BY <2>1
<1>18. ASSUME NEW i \in 1 .. p + q, NEW j \in 1 .. p + q, r[i] = r[j]
       PROVE  i = j
  <2>1. CASE i \in 1 .. p /\ j \in 1 .. p
    BY <1>4, <1>11, <1>14, <1>18, <2>1 DEF Distinct
  <2>2. CASE i \notin 1 .. p /\ j \notin 1 .. p
    <3>1. PICK k \in 1 .. q, l \in 1 .. q : i = p + k /\ j = p + l
      BY <1>17, <2>2
    <3>2. rest[k] = rest[l]
      BY <1>15, <1>18, <3>1
    <3>3. k = l
      BY <1>10, <1>11, <3>2 DEF Exact
    <3>4. QED
      BY <3>1, <3>3
  <2>3. CASE (i \in 1 .. p) # (j \in 1 .. p)
    <3>1. \A a, b \in 1 .. p + q : a \in 1 .. p /\ b \notin 1 .. p => r[a] # r[b]
      <4> SUFFICES ASSUME NEW a \in 1 .. p, NEW b \in 1 .. p + q, b \notin 1 .. p
                   PROVE  r[a] # r[b]
        OBVIOUS
      <4>1. PICK k \in 1 .. q : b = p + k
        BY <1>17
      <4>2. r[a] \in ToSet(head) /\ r[b] \in T
        BY <1>14, <1>15, <4>1
      <4>3. QED
        BY <1>7, <4>2
    <3>2. QED
      BY <1>18, <2>3, <3>1
  <2>4. QED
    BY <2>1, <2>2, <2>3
<1>19. QED
  BY <1>13, <1>16, <1>18 DEF Exact

\* Types of the reads.
ReadsTyped == stored \in SUBSET Keys /\ named \in Seq(Keys)

LEMMA ReadsTypedAlways == ReadsSpec => []ReadsTyped
<1>1. ReadsInit => ReadsTyped
  <2> SUFFICES ASSUME ReadsInit PROVE named \in Seq(Keys) /\ stored \in SUBSET Keys
    BY DEF ReadsTyped
  <2>1. PICK m \in 0 .. MaxLen : named \in [1 .. m -> Keys]
    BY DEF ReadsInit, BoundedSeq, SeqOf
  <2>2. m \in Nat
    BY ReadsAssumption
  <2>3. QED
    BY <2>1, <2>2 DEF ReadsInit
<1>2. ReadsTyped /\ [ReadsNext]_readVars => ReadsTyped'
  <2> SUFFICES ASSUME ReadsTyped, [ReadsNext]_readVars PROVE ReadsTyped'
    OBVIOUS
  <2>1. CASE GetChildren
    <3>1. Repaired(named, stored) \in Seq(Keys)
      BY RepairedType DEF ReadsTyped
    <3>2. QED
      BY <2>1, <3>1 DEF GetChildren, ReadsTyped
  <2>2. CASE UNCHANGED readVars
    BY <2>2 DEF readVars, ReadsTyped
  <2>3. QED
    BY <2>1, <2>2 DEF ReadsNext
<1>3. QED
  BY <1>1, <1>2, PTL DEF ReadsSpec

(* However damaged the list is, a read answers with every stored child      *)
(* once, and its repair neither drops a child from the list nor moves one   *)
(* past another: for any keys and lists of any length.                      *)
THEOREM ReadsLoseNothing == ReadsSpec => LosesNothing
<1> DEFINE Loses == /\ ToSet(answer') = stored /\ Len(answer') = Cardinality(stored)
                    /\ ToSet(named') \cap stored = ToSet(named) \cap stored
                    /\ \A x, y \in ToSet(named') \cap stored :
                         Before(named', x, y) <=> Before(named, x, y)
<1>1. ReadsTyped /\ [ReadsNext]_readVars => [Loses]_readVars
  <2> SUFFICES ASSUME ReadsTyped, GetChildren PROVE Loses
    BY DEF ReadsNext
  <2>1. named \in Seq(Keys) /\ IsFiniteSet(stored)
    BY ReadsAssumption, FS_Subset DEF ReadsTyped
  <2>2. PICK r, new : r = answer' /\ new = named'
    OBVIOUS
  <2>3. r \in Returned(named, stored) /\ new = Repaired(named, stored)
    BY <2>2 DEF GetChildren
  <2>4. Exact(r, stored)
    BY <2>1, <2>3, ReturnedExact
  <2>5. ToSet(r) = stored /\ Len(r) = Cardinality(stored)
    BY <2>4, ExactLength
  <2>6. /\ ToSet(new) \cap stored = ToSet(named) \cap stored
        /\ \A x, y \in ToSet(new) : Before(new, x, y) <=> Before(named, x, y)
    BY <2>1, <2>3, RepairedKeepsOrder
  <2>7. QED
    BY <2>2, <2>5, <2>6
<1>2. ReadsSpec => [][Loses]_readVars
  BY ReadsTypedAlways, <1>1, PTL DEF ReadsSpec
<1>3. QED
  BY <1>2 DEF LosesNothing, Loses

-----------------------------------------------------------------------------
(* The order of siblings, with links, dead keys and failed moves.           *)

\* A list that came from another one by taking entries out and putting entries
\* of c in: what the first names once the second names at most once, in the
\* same order.
OnceIn(list, x) == \A i, j \in 1 .. Len(list) : list[i] = x /\ list[j] = x => i = j

Follows(was, is, c) ==
  \A x \in ToSet(is) \ {c} :
    /\ x \in ToSet(was) /\ (OnceIn(was, x) => OnceIn(is, x))
    /\ \A y \in ToSet(is) \ {c} : OnceIn(was, x) /\ OnceIn(was, y) =>
         (PyIndex(was, x) < PyIndex(was, y) <=> PyIndex(is, x) < PyIndex(is, y))

LEMMA FollowsItself ==
  ASSUME NEW list, NEW c
  PROVE  Follows(list, list, c)
BY DEF Follows

LEMMA FollowsOn ==
  ASSUME NEW was, NEW mid, NEW is, NEW c, Follows(was, mid, c), Follows(mid, is, c)
  PROVE  Follows(was, is, c)
<1>1. ASSUME NEW x \in ToSet(is) \ {c}
      PROVE  /\ x \in ToSet(mid) \ {c} /\ x \in ToSet(was)
             /\ OnceIn(was, x) => OnceIn(mid, x) /\ OnceIn(is, x)
  BY <1>1 DEF Follows
<1>2. ASSUME NEW x \in ToSet(is) \ {c}, NEW y \in ToSet(is) \ {c},
             OnceIn(was, x), OnceIn(was, y)
      PROVE  PyIndex(was, x) < PyIndex(was, y) <=> PyIndex(is, x) < PyIndex(is, y)
  <2>1. x \in ToSet(mid) \ {c} /\ y \in ToSet(mid) \ {c} /\ OnceIn(mid, x) /\ OnceIn(mid, y)
    BY <1>1, <1>2
  <2>2. PyIndex(was, x) < PyIndex(was, y) <=> PyIndex(mid, x) < PyIndex(mid, y)
    BY <1>2, <2>1 DEF Follows
  <2>3. PyIndex(mid, x) < PyIndex(mid, y) <=> PyIndex(is, x) < PyIndex(is, y)
    BY <1>2, <2>1 DEF Follows
  <2>4. QED
    BY <2>2, <2>3
<1>3. QED
  BY <1>1, <1>2, Zenon DEF Follows

(* It is enough to say where in the first list the entries of the second    *)
(* come from.                                                               *)
LEMMA PlacesFollow ==
  ASSUME NEW S, NEW was \in Seq(S), NEW is \in Seq(S), NEW c, NEW at,
         \A i \in 1 .. Len(is) : is[i] # c => at[i] \in 1 .. Len(was) /\ is[i] = was[at[i]],
         \A i, j \in 1 .. Len(is) : is[i] # c /\ is[j] # c /\ i < j => at[i] < at[j]
  PROVE  Follows(was, is, c)
<1>1. PICK n, m : n = Len(was) /\ m = Len(is)
  OBVIOUS
<1>2. n \in Nat /\ m \in Nat /\ DOMAIN was = 1 .. n /\ DOMAIN is = 1 .. m
  BY <1>1
<1>3. ASSUME NEW i \in 1 .. m, is[i] # c
      PROVE  at[i] \in 1 .. n /\ is[i] = was[at[i]] /\ is[i] \in ToSet(was)
  BY <1>1, <1>2, <1>3 DEF ToSet
<1>4. ASSUME NEW i \in 1 .. m, NEW j \in 1 .. m, is[i] # c, is[i] = is[j], OnceIn(was, is[i])
      PROVE  i = j
  <2>1. at[i] = at[j] /\ at[i] \in Int
    BY <1>1, <1>3, <1>4 DEF OnceIn
  <2>2. ~(i < j) /\ ~(j < i)
    BY <1>1, <1>4, <2>1
  <2>3. QED
    BY <1>2, <2>2
<1>5. ASSUME NEW i \in 1 .. m, is[i] # c, OnceIn(was, is[i])
      PROVE  PyIndex(is, is[i]) = i - 1 /\ PyIndex(was, is[i]) = at[i] - 1
  <2>1. \A j \in 1 .. (i - 1) : is[j] # is[i]
    <3> SUFFICES ASSUME NEW j \in 1 .. (i - 1) PROVE is[j] # is[i]
      OBVIOUS
    <3>1. j \in 1 .. m /\ j # i
      BY <1>2
    <3>2. QED
      BY <1>4, <1>5, <3>1
  <2>2. PyIndex(is, is[i]) = i - 1
    BY <1>1, <2>1, FirstIndex
  <2>3. PICK q : q = at[i]
    OBVIOUS
  <2>4. q \in 1 .. Len(was) /\ was[q] = is[i]
    BY <1>1, <1>3, <1>5, <2>3
  <2>5. \A j \in 1 .. (q - 1) : was[j] # was[q]
    <3> SUFFICES ASSUME NEW j \in 1 .. (q - 1) PROVE was[j] # was[q]
      OBVIOUS
    <3>1. j \in 1 .. Len(was) /\ j # q
      BY <2>4
    <3>2. QED
      BY <1>5, <2>4, <3>1 DEF OnceIn
  <2>6. PyIndex(was, was[q]) = q - 1
    BY <2>4, <2>5, FirstIndex
  <2>7. QED
    BY <2>2, <2>3, <2>4, <2>6
<1>6. ASSUME NEW x \in ToSet(is) \ {c}
      PROVE  x \in ToSet(was) /\ (OnceIn(was, x) => OnceIn(is, x))
  <2>1. PICK i \in 1 .. m : is[i] = x
    BY <1>2, <1>6 DEF ToSet
  <2>2. x \in ToSet(was)
    BY <1>3, <1>6, <2>1
  <2>3. ASSUME OnceIn(was, x), NEW j \in 1 .. m, NEW k \in 1 .. m, is[j] = x, is[k] = x
        PROVE  j = k
    BY <1>4, <1>6, <2>3
  <2>4. QED
    BY <1>1, <2>2, <2>3 DEF OnceIn
<1>7. ASSUME NEW x \in ToSet(is) \ {c}, NEW y \in ToSet(is) \ {c},
             OnceIn(was, x), OnceIn(was, y)
      PROVE  PyIndex(was, x) < PyIndex(was, y) <=> PyIndex(is, x) < PyIndex(is, y)
  <2>1. PICK i \in 1 .. m, j \in 1 .. m : is[i] = x /\ is[j] = y
    BY <1>2, <1>7 DEF ToSet
  <2>2. PICK a, b : a = at[i] /\ b = at[j]
    OBVIOUS
  <2>3. /\ PyIndex(is, x) = i - 1 /\ PyIndex(is, y) = j - 1
        /\ PyIndex(was, x) = a - 1 /\ PyIndex(was, y) = b - 1
    BY <1>5, <1>7, <2>1, <2>2
  <2>4. /\ a \in Int /\ b \in Int /\ i \in Int /\ j \in Int
        /\ (i < j => a < b)
        /\ (j < i => b < a)
        /\ (i = j => a = b)
    BY <1>1, <1>3, <1>7, <2>1, <2>2
  <2>5. a - 1 < b - 1 <=> i - 1 < j - 1
    <3>1. i < j \/ j < i \/ i = j
      BY <2>4
    <3>2. QED
      BY <2>4, <3>1
  <2>6. QED
    BY <2>3, <2>5
<1>8. QED
  BY <1>6, <1>7, Zenon DEF Follows

LEMMA PickedFollows ==
  ASSUME NEW S, NEW list \in Seq(S), NEW positions, NEW c
  PROVE  Picked(list, positions) \in Seq(S) /\ Follows(list, Picked(list, positions), c)
<1>1. PICK new \in Seq(S) : new = Picked(list, positions)
  BY PickedPlaces
<1>2. PICK at : AtPlaces(new, list, positions, Len(list), at)
  BY <1>1, PickedPlaces
<1>3. Len(at) = Len(new)
  BY <1>2 DEF AtPlaces
<1>4. \A i \in 1 .. Len(new) : at[i] \in 1 .. Len(list) /\ new[i] = list[at[i]]
  BY <1>2, <1>3, Zenon DEF AtPlaces
<1>5. \A i, j \in 1 .. Len(new) : i < j => at[i] < at[j]
  BY <1>2, <1>3, Zenon DEF AtPlaces
<1>6. Follows(list, new, c)
  BY <1>4, <1>5, PlacesFollow
<1>7. QED
  BY <1>1, <1>6

LEMMA RepairedFollows ==
  ASSUME NEW S, NEW list \in Seq(S), NEW kids, NEW c
  PROVE  Repaired(list, kids) \in Seq(S) /\ Follows(list, Repaired(list, kids), c)
<1>1. Dedup(list) \in Seq(S) /\ Follows(list, Dedup(list), c)
  BY PickedFollows DEF Dedup
<1>2. PICK d \in Seq(S) : d = Dedup(list)
  BY <1>1
<1>3. PICK new : new = Picked(d, Living(d, kids) \cup (DOMAIN d \ Visited(d, kids)))
  OBVIOUS
<1>4. new \in Seq(S) /\ Follows(d, new, c)
  BY <1>3, PickedFollows
<1>5. new = Repaired(list, kids)
  BY <1>2, <1>3 DEF Repaired
<1>6. Follows(list, new, c)
  BY <1>1, <1>2, <1>4, FollowsOn
<1>7. QED
  BY <1>4, <1>5, <1>6

LEMMA InsertFollows ==
  ASSUME NEW S, NEW list \in Seq(S), NEW c \in S, NEW index \in Nat
  PROVE  PyInsert(list, index, c) \in Seq(S) /\ Follows(list, PyInsert(list, index, c), c)
<1>1. PICK new \in Seq(S) : new = PyInsert(list, index, c)
  BY InsertFacts
<1>2. PICK m : InsertedBehind(list, index, c, m)
  BY InsertFacts
<1>3. PICK n : n = Len(list)
  OBVIOUS
<1>4. /\ n \in Nat /\ m \in 0 .. n /\ Len(new) = n + 1
      /\ \A i \in 1 .. n + 1 :
           new[i] = IF i <= m THEN list[i] ELSE IF i = m + 1 THEN c ELSE list[i - 1]
  BY <1>1, <1>2, <1>3 DEF InsertedBehind
<1> DEFINE at == [i \in 1 .. n + 1 |-> IF i <= m THEN i ELSE i - 1]
<1>5. \A i \in 1 .. n + 1 : at[i] = IF i <= m THEN i ELSE i - 1
  OBVIOUS
<1> HIDE DEF at
<1>6. ASSUME NEW i \in 1 .. n + 1, new[i] # c
      PROVE  at[i] \in 1 .. n /\ new[i] = list[at[i]] /\ i # m + 1
  <2>1. i # m + 1
    BY <1>4, <1>6
  <2>2. CASE i <= m
    BY <1>4, <1>5, <2>2
  <2>3. CASE ~(i <= m)
    BY <1>4, <1>5, <2>1, <2>3
  <2>4. QED
    BY <2>1, <2>2, <2>3
<1>7. ASSUME NEW i \in 1 .. n + 1, NEW j \in 1 .. n + 1, new[i] # c, new[j] # c, i < j
      PROVE  at[i] < at[j]
  <2>1. i # m + 1 /\ j # m + 1
    BY <1>6, <1>7
  <2>2. QED
    BY <1>4, <1>5, <1>7, <2>1
<1>8. Follows(list, new, c)
  BY <1>3, <1>4, <1>6, <1>7, PlacesFollow
<1>9. QED
  BY <1>1, <1>8

LEMMA RemoveFollows ==
  ASSUME NEW S, NEW list \in Seq(S), NEW x, NEW c
  PROVE  RemoveFirst(list, x) \in Seq(S) /\ Follows(list, RemoveFirst(list, x), c)
<1>1. PICK new \in Seq(S) : new = RemoveFirst(list, x)
  BY RemoveFacts
<1>2. CASE ~Contains(list, x)
  BY <1>1, <1>2, RemoveFacts, FollowsItself
<1>3. CASE Contains(list, x)
  <2>1. PICK n, m : n = Len(list) /\ m = PyIndex(list, x)
    OBVIOUS
  <2>2. n \in Nat /\ m \in 0 .. (n - 1)
    BY <1>3, <2>1, IndexFacts
  <2>3. /\ Len(new) = n - 1
        /\ \A i \in 1 .. (n - 1) : new[i] = IF i <= m THEN list[i] ELSE list[i + 1]
    BY <1>1, <1>3, <2>1, RemoveFacts
  <2> DEFINE at == [i \in 1 .. (n - 1) |-> IF i <= m THEN i ELSE i + 1]
  <2>4. \A i \in 1 .. (n - 1) : at[i] = IF i <= m THEN i ELSE i + 1
    OBVIOUS
  <2> HIDE DEF at
  <2>5. \A i \in 1 .. (n - 1) : at[i] \in 1 .. n /\ new[i] = list[at[i]]
    BY <2>2, <2>3, <2>4
  <2>6. \A i, j \in 1 .. (n - 1) : i < j => at[i] < at[j]
    BY <2>2, <2>4
  <2>7. Follows(list, new, c)
    BY <2>1, <2>3, <2>5, <2>6, PlacesFollow
  <2>8. QED
    BY <1>1, <2>7
<1>4. QED
  BY <1>2, <1>3

LEMMA ServedFollows ==
  ASSUME NEW S, NEW list \in Seq(S), NEW hidden, NEW c
  PROVE  ServedList(list, hidden) \in Seq(S) /\ Follows(list, ServedList(list, hidden), c)
<1>1. PICK acc : ServeRun(acc, list, hidden) /\ ServedList(list, hidden) = acc[Len(list)].list
  BY ServeRuns
<1> DEFINE n == Len(list)
           A == [list : Seq(S), ended : BOOLEAN]
           Q == {k \in Nat : k <= n => acc[k] \in A /\ Follows(list, acc[k].list, c)}
<1>2. 0 \in Q
  <2>1. [list |-> list, ended |-> FALSE] \in A /\ [list |-> list, ended |-> FALSE].list = list
    OBVIOUS
  <2>2. acc[0] = [list |-> list, ended |-> FALSE]
    BY <1>1 DEF ServeRun
  <2>3. acc[0] \in A /\ acc[0].list = list
    BY <2>1, <2>2
  <2>4. QED
    BY <2>3, FollowsItself
<1>3. ASSUME NEW k \in Nat, k \in Q
      PROVE  k + 1 \in Q
  <2> SUFFICES ASSUME k + 1 <= n PROVE acc[k + 1] \in A /\ Follows(list, acc[k + 1].list, c)
    OBVIOUS
  <2>1. acc[k] \in A /\ Follows(list, acc[k].list, c)
    BY <1>3
  <2>2. acc[k + 1] = ServeStep(acc[k], list, hidden, k + 1)
    BY <1>1 DEF ServeRun
  <2>3. acc[k + 1] \in A
    BY <2>1, <2>2, ServeStepType
  <2>4. PICK short \in Seq(S) : short = RemoveFirst(acc[k].list, acc[k].list[k + 1])
    BY <2>1, RemoveFacts
  <2>5. acc[k + 1].list = acc[k].list \/ acc[k + 1].list = short
    BY <2>1, <2>2, <2>4 DEF ServeStep
  <2>6. Follows(list, short, c)
    <3>0. PICK mid \in Seq(S) : mid = acc[k].list
      BY <2>1
    <3>1. PICK x : x = mid[k + 1]
      OBVIOUS
    <3>2. Follows(mid, short, c)
      BY <2>4, <3>0, <3>1, RemoveFollows
    <3>3. QED
      BY <2>1, <3>0, <3>1, <3>2, FollowsOn
  <2>7. QED
    BY <2>1, <2>3, <2>5, <2>6
<1>4. Nat \subseteq Q
  <2> HIDE DEF Q
  <2>1. QED
    BY <1>2, <1>3, Counting
<1>5. n \in Nat
  OBVIOUS
<1>6. acc[n] \in A /\ Follows(list, acc[n].list, c)
  BY <1>4, <1>5
<1>7. QED
  BY <1>1, <1>6

\* Lists a request may leave that puts c into the lists of P only.
Traces(lists, c, P) ==
  /\ lists \in [Nodes -> Seq(Concepts)]
  /\ \A n \in Nodes : \A d : (n \in P => d = c) => Follows(children[n], lists[n], d)

LEMMA TracesNothing ==
  ASSUME TreeTyped, NEW c, NEW P
  PROVE  Traces(children, c, P)
<1>1. children \in [Nodes -> Seq(used)] /\ used \subseteq Concepts
  BY TypedFacts DEF TreeTyped
<1>2. children \in [Nodes -> Seq(Concepts)]
  BY <1>1
<1>3. QED
  BY <1>2, FollowsItself DEF Traces

LEMMA TracesOne ==
  ASSUME NEW lists, NEW c, NEW P, Traces(lists, c, P), NEW n \in Nodes, NEW new \in Seq(Concepts),
         \A d : (n \in P => d = c) => Follows(lists[n], new, d)
  PROVE  Traces([lists EXCEPT ![n] = new], c, P)
<1>1. PICK made : made = [lists EXCEPT ![n] = new]
  OBVIOUS
<1>2. /\ made \in [Nodes -> Seq(Concepts)] /\ made[n] = new
      /\ \A k \in Nodes \ {n} : made[k] = lists[k]
  BY <1>1 DEF Traces
<1>3. ASSUME NEW k \in Nodes, NEW d, k \in P => d = c
      PROVE  Follows(children[k], made[k], d)
  <2>1. Follows(children[k], lists[k], d)
    BY <1>3 DEF Traces
  <2>2. CASE k = n
    BY <1>2, <1>3, <2>1, <2>2, FollowsOn
  <2>3. CASE k # n
    BY <1>2, <2>1, <2>3
  <2>4. QED
    BY <2>2, <2>3
<1>4. Traces(made, c, P)
  BY <1>2, <1>3 DEF Traces
<1>5. QED
  BY <1>1, <1>4

LEMMA TracesRepair ==
  ASSUME NEW lists, NEW c, NEW P, Traces(lists, c, P), NEW n \in Nodes, NEW kids
  PROVE  Traces(Repair(lists, n, kids), c, P)
<1>1. PICK list \in Seq(Concepts) : list = lists[n]
  BY DEF Traces
<1>2. PICK new : new = Repaired(list, kids)
  OBVIOUS
<1>3. new \in Seq(Concepts) /\ \A d : Follows(list, new, d)
  BY <1>2, RepairedFollows
<1>4. Traces([lists EXCEPT ![n] = new], c, P)
  BY <1>1, <1>3, TracesOne
<1>5. Repair(lists, n, kids) = [lists EXCEPT ![n] = new]
  BY <1>1, <1>2 DEF Repair
<1>6. QED
  BY <1>4, <1>5

LEMMA TracesRepairUpdated ==
  ASSUME NEW lists, NEW c, NEW P, Traces(lists, c, P), NEW e
  PROVE  Traces(RepairUpdated(lists, e), c, P)
<1>1. PICK made : made = RepairUpdated(lists, e)
  OBVIOUS
<1>2. lists \in [Nodes -> Seq(Concepts)]
  BY DEF Traces
<1>3. /\ DOMAIN made = Nodes /\ made = [k \in Nodes |-> made[k]]
      /\ \A k \in Nodes : made[k] = lists[k] \/ made[k] = Repaired(lists[k], Kids(k))
  BY <1>1 DEF RepairUpdated
<1>4. ASSUME NEW k \in Nodes
      PROVE  made[k] \in Seq(Concepts) /\ \A d : Follows(lists[k], made[k], d)
  <2>1. PICK list \in Seq(Concepts) : list = lists[k]
    BY <1>2
  <2>2. PICK new : new = Repaired(list, Kids(k))
    OBVIOUS
  <2>3. new \in Seq(Concepts) /\ \A d : Follows(list, new, d)
    BY <2>2, RepairedFollows
  <2>4. \A d : Follows(list, list, d)
    BY FollowsItself
  <2>5. made[k] = list \/ made[k] = new
    BY <1>3, <2>1, <2>2
  <2>6. QED
    BY <2>1, <2>3, <2>4, <2>5
<1>5. made \in [Nodes -> Seq(Concepts)]
  BY <1>3, <1>4
<1>6. ASSUME NEW k \in Nodes, NEW d, k \in P => d = c
      PROVE  Follows(children[k], made[k], d)
  BY <1>4, <1>6, FollowsOn DEF Traces
<1>7. QED
  BY <1>1, <1>5, <1>6 DEF Traces

LEMMA TracesRemoval ==
  ASSUME NEW lists, NEW c, NEW P, Traces(lists, c, P), NEW n \in Nodes, NEW x
  PROVE  Traces([lists EXCEPT ![n] = RemoveFirst(lists[n], x)], c, P)
<1>1. PICK list \in Seq(Concepts) : list = lists[n]
  BY DEF Traces
<1>2. PICK new : new = RemoveFirst(list, x)
  OBVIOUS
<1>3. new \in Seq(Concepts) /\ \A d : Follows(list, new, d)
  BY <1>2, RemoveFollows
<1>4. Traces([lists EXCEPT ![n] = new], c, P)
  BY <1>1, <1>3, TracesOne
<1>5. QED
  BY <1>1, <1>2, <1>4

LEMMA TracesInsertion ==
  ASSUME NEW lists, NEW c \in Concepts, NEW n \in Nodes, Traces(lists, c, {n}), NEW i \in Nat
  PROVE  Traces([lists EXCEPT ![n] = PyInsert(lists[n], i, c)], c, {n})
<1>1. PICK list \in Seq(Concepts) : list = lists[n]
  BY DEF Traces
<1>2. PICK new : new = PyInsert(list, i, c)
  OBVIOUS
<1>3. new \in Seq(Concepts) /\ Follows(list, new, c)
  BY <1>2, InsertFollows
<1>4. \A d : (n \in {n} => d = c) => Follows(lists[n], new, d)
  BY <1>1, <1>3
<1>5. Traces([lists EXCEPT ![n] = new], c, {n})
  BY <1>3, <1>4, TracesOne
<1>6. QED
  BY <1>1, <1>2, <1>5

(* set_parent leaves such lists behind, before c is put in and after.       *)
LEMMA TracesPlacing ==
  ASSUME TreeTyped, NEW c \in Concepts, NEW from \in Nodes, NEW p \in Nodes, NEW s, NEW i \in Nat
  PROVE  Traces(Removed(c, from, p, s), c, {p}) /\ Traces(Inserted(c, from, p, s, i), c, {p})
<1>1. PICK before : before = ListsBefore(c, p, s)
  OBVIOUS
<1>2. Traces(before, c, {p})
  BY <1>1, TracesNothing, TracesRepair DEF ListsBefore
<1>3. PICK out : out = Removed(c, from, p, s)
  OBVIOUS
<1>4. out = [before EXCEPT ![from] = RemoveFirst(before[from], c)]
  BY <1>1, <1>3 DEF Removed
<1>5. Traces(out, c, {p})
  BY <1>2, <1>4, TracesRemoval
<1>6. Traces([out EXCEPT ![p] = PyInsert(out[p], i, c)], c, {p})
  BY <1>5, TracesInsertion
<1>7. Inserted(c, from, p, s, i) = [out EXCEPT ![p] = PyInsert(out[p], i, c)]
  BY <1>3 DEF Inserted
<1>8. QED
  BY <1>3, <1>5, <1>6, <1>7

SameOrder(was, is, S) ==
  \A x, y \in S : PyIndex(was, x) < PyIndex(was, y) <=> PyIndex(is, x) < PyIndex(is, y)

Staying(n) == live \cap NamedOnce(children[n]) \cap ToSet(children'[n])

Arranged(n) ==
  \/ children'[n] = children[n]
  \/ SameOrder(children[n], children'[n], Staying(n))
  \/ \E c \in Staying(n) :
       SameOrder(children[n], children'[n], Staying(n) \ {c}) /\ Placed(c)

(* A request that is to place c, or puts in what no concept was, leaves     *)
(* the others arranged.                                                     *)
LEMMA FollowsArranged ==
  ASSUME TreeTyped, NEW n \in Nodes, NEW c, Follows(children[n], children'[n], c),
         c \in Staying(n) => Placed(c)
  PROVE  Arranged(n)
<1>1. PICK was, is, stay : was = children[n] /\ is = children'[n] /\ stay = Staying(n)
  OBVIOUS
<1>2. stay \subseteq NamedOnce(was) /\ stay \subseteq ToSet(is)
  BY <1>1 DEF Staying
<1>3. was \in Seq(used)
  BY <1>1, TypedFacts
<1>4. \A x \in stay : OnceIn(was, x)
  BY <1>2, <1>3 DEF NamedOnce, OnceIn
<1>5. Follows(was, is, c)
  BY <1>1
<1>6. SameOrder(was, is, stay \ {c})
  BY <1>2, <1>4, <1>5 DEF SameOrder, Follows
<1>7. CASE c \in stay
  BY <1>1, <1>6, <1>7 DEF Arranged
<1>8. CASE c \notin stay
  <2>1. stay \ {c} = stay
    BY <1>8
  <2>2. QED
    BY <1>1, <1>6, <2>1 DEF Arranged
<1>9. QED
  BY <1>7, <1>8

LEMMA TracesArranged ==
  ASSUME TreeTyped, NEW c, NEW P, Traces(children', c, P), NEW n \in Nodes,
         n \in P /\ c \in Staying(n) => Placed(c)
  PROVE  Arranged(n)
<1>1. PICK new : new = children'
  OBVIOUS
<1>2. Traces(new, c, P)
  BY <1>1
<1>3. CASE n \in P
  <2>1. Follows(children[n], new[n], c)
    BY <1>2, <1>3 DEF Traces
  <2>2. QED
    BY <1>1, <1>3, <2>1, FollowsArranged
<1>4. CASE n \notin P
  <2>1. Follows(children[n], new[n], NoSibling)
    BY <1>2, <1>4 DEF Traces
  <2>2. NoSibling \notin Staying(n)
    BY TypedFacts, TreeAssumption DEF Staying
  <2>3. QED
    BY <1>1, <2>1, <2>2, FollowsArranged
<1>5. QED
  BY <1>3, <1>4

LEMMA CreateArranged ==
  ASSUME TreeTyped, NEW c \in Concepts, NEW p \in Nodes, NEW s, Create(c, p, s), NEW n \in Nodes
  PROVE  Arranged(n)
<1> DEFINE kids == Kids(p)
           indexes == IF s = NoSibling THEN {Len(children[p])}
                      ELSE ConceptIndexes(children[p], kids, s)
           lists == IF s = NoSibling THEN children ELSE Repair(children, p, kids)
<1>1. children[p] \in Seq(used) /\ IsFiniteSet(kids) /\ kids \subseteq used
  BY TypedFacts
<1>2. indexes \subseteq Nat
  <2>1. ConceptIndexes(children[p], kids, s) \subseteq Nat
    BY <1>1, IndexesNat
  <2>2. Len(children[p]) \in Nat
    BY <1>1
  <2> HIDE DEF kids
  <2>3. QED
    BY <2>1, <2>2
<1>3. PICK more : more = kids \cup {c}
  OBVIOUS
<1>4. PICK i \in indexes :
        children' = [children EXCEPT ![p] =
          IF Rooted(p)
          THEN Repaired(Repaired(PyInsert(IF s = NoSibling THEN children[p]
                                          ELSE Repaired(children[p], kids), i, c), more), more)
          ELSE PyInsert(IF s = NoSibling THEN children[p]
                        ELSE Repaired(children[p], kids), i, c)]
  BY <1>3 DEF Create
<1>5. PICK before : before = lists
  OBVIOUS
<1>6. Traces(before, c, {p})
  BY <1>5, TracesNothing, TracesRepair
<1>7. before = [children EXCEPT ![p] = before[p]]
      /\ before[p] = IF s = NoSibling THEN children[p] ELSE Repaired(children[p], kids)
  BY <1>5 DEF Repair, TreeTyped
<1>8. PICK put : put = [before EXCEPT ![p] = PyInsert(before[p], i, c)]
  OBVIOUS
<1>9. Traces(put, c, {p})
  <2>1. i \in Nat
    BY <1>2
  <2>2. QED
    BY <1>6, <1>8, <2>1, TracesInsertion
<1>10. PICK once, twice : once = Repair(put, p, more) /\ twice = Repair(once, p, more)
  OBVIOUS
<1>11. Traces(once, c, {p}) /\ Traces(twice, c, {p})
  BY <1>9, <1>10, TracesRepair
<1> HIDE DEF kids, indexes, lists
<1>12. DOMAIN children = Nodes /\ DOMAIN before = Nodes
  BY <1>6 DEF TreeTyped, Traces
<1>13. children' = IF Rooted(p) THEN twice ELSE put
  <2>1. PICK new : new = PyInsert(before[p], i, c)
    OBVIOUS
  <2>2. PICK r : r = Repaired(new, more)
    OBVIOUS
  <2>3. put = [children EXCEPT ![p] = new]
    BY <1>7, <1>8, <1>12, <2>1
  <2>4. once = [children EXCEPT ![p] = r]
    BY <1>10, <1>12, <2>2, <2>3 DEF Repair
  <2>5. twice = [children EXCEPT ![p] = Repaired(r, more)]
    BY <1>10, <1>12, <2>4 DEF Repair
  <2>6. children' = [children EXCEPT ![p] = IF Rooted(p) THEN Repaired(Repaired(new, more), more)
                                            ELSE new]
    BY <1>4, <1>7, <2>1
  <2>7. QED
    BY <2>2, <2>3, <2>5, <2>6
<1>14. Traces(children', c, {p})
  BY <1>9, <1>11, <1>13
<1>15. c \notin Staying(n)
  BY TypedFacts DEF Create, Staying
<1>16. QED
  BY <1>14, <1>15, TracesArranged

LEMMA MoveArranged ==
  ASSUME TreeTyped, NEW c \in Concepts, NEW p \in Nodes,
         NEW s \in Concepts \cup {NoSibling}, Move(c, p, s), NEW n \in Nodes
  PROVE  Arranged(n)
<1>1. c \in Nodes /\ parent[c] \in Nodes /\ SiblingGiven(p, s)
  BY TypedFacts DEF Move, MayMove
<1>2. PICK i \in InsertIndexes(c, p, s) :
        children' = IF Rooted(p) /\ p \notin Subtree(c)
          THEN Repair(Repair(RepairUpdated(Inserted(c, parent[c], p, s, i), c), c, Kids(c)),
                      p, Kids(p) \cup {c})
          ELSE RepairUpdated(Inserted(c, parent[c], p, s, i), c)
  BY DEF Move
<1>3. i \in Nat
  BY <1>1, InsertIndexesNat
<1>4. PICK moved : moved = RepairUpdated(Inserted(c, parent[c], p, s, i), c)
  OBVIOUS
<1>5. Traces(moved, c, {p})
  BY <1>1, <1>3, <1>4, TracesPlacing, TracesRepairUpdated
<1>6. PICK served, new : served = Repair(moved, c, Kids(c))
                         /\ new = Repair(served, p, Kids(p) \cup {c})
  OBVIOUS
<1>7. Traces(served, c, {p}) /\ Traces(new, c, {p})
  BY <1>1, <1>5, <1>6, TracesRepair
<1>8. children' = new \/ children' = moved
  BY <1>2, <1>4, <1>6
<1>9. Traces(children', c, {p})
  BY <1>5, <1>7, <1>8
<1>10. Placed(c)
  BY DEF Placed
<1>11. QED
  BY <1>9, <1>10, TracesArranged

LEMMA MoveFailsArranged ==
  ASSUME TreeTyped, NEW c \in Concepts, NEW p \in Nodes,
         NEW s \in Concepts \cup {NoSibling}, MoveFails(c, p, s), NEW n \in Nodes
  PROVE  Arranged(n)
<1>1. parent[c] \in Nodes /\ SiblingGiven(p, s)
  BY TypedFacts DEF MoveFails, MayMove
<1>2. PICK i \in InsertIndexes(c, p, s) :
        LET moved == RepairUpdated(Inserted(c, parent[c], p, s, i), c)
            saved == RepairUpdated(Removed(c, parent[c], p, s), c)
        IN  children' = [saved EXCEPT ![p] =
                           IF p \in UNION {Subtree(e) : e \in ToSet(Updated(c))}
                           THEN moved[p] ELSE @]
  BY DEF MoveFails
<1>3. i \in Nat
  BY <1>1, InsertIndexesNat
<1>4. PICK moved, saved : /\ moved = RepairUpdated(Inserted(c, parent[c], p, s, i), c)
                          /\ saved = RepairUpdated(Removed(c, parent[c], p, s), c)
  OBVIOUS
<1>5. Traces(moved, c, {p}) /\ Traces(saved, c, {p})
  BY <1>1, <1>3, <1>4, TracesPlacing, TracesRepairUpdated
<1>6. PICK B : B = (p \in UNION {Subtree(e) : e \in ToSet(Updated(c))})
  OBVIOUS
<1>7. children' = [saved EXCEPT ![p] = IF B THEN moved[p] ELSE saved[p]]
  BY <1>2, <1>4, <1>6
<1>8. PICK new : new = children'
  OBVIOUS
<1>9. \A k \in Nodes : (new[k] = moved[k] /\ k = p) \/ new[k] = saved[k]
  BY <1>5, <1>7, <1>8 DEF Traces
<1>10. new \in [Nodes -> Seq(Concepts)]
  BY <1>5, <1>7, <1>8 DEF Traces
<1>11. Traces(new, c, {p})
  <2> SUFFICES ASSUME NEW k \in Nodes, NEW d, k \in {p} => d = c
               PROVE  Follows(children[k], new[k], d)
    BY <1>10 DEF Traces
  <2>1. Follows(children[k], moved[k], d) /\ Follows(children[k], saved[k], d)
    BY <1>5 DEF Traces
  <2>2. QED
    BY <1>9, <2>1
<1>12. Placed(c)
  BY DEF Placed
<1>13. QED
  BY <1>8, <1>11, <1>12, TracesArranged

LEMMA LinkArranged ==
  ASSUME TreeTyped, NEW c \in Concepts, NEW l \in LinkIds, NEW p \in Nodes, NEW s,
         Link(c, l, p, s), NEW n \in Nodes
  PROVE  Arranged(n)
<1>1. c \in Nodes /\ parent[c] \in Nodes /\ SiblingGiven(p, s) /\ ~Contains(children[p], c)
  BY TypedFacts DEF Link
<1>2. children[p] \in Seq(used) /\ DOMAIN children = Nodes
  BY TypedFacts DEF TreeTyped
<1>3. (IF s = NoSibling THEN Len(children[p]) ELSE PyIndex(children[p], s)) \in Nat
  BY <1>1, <1>2, IndexFacts DEF SiblingGiven
<1>4. PICK i \in Nat : i = IF s = NoSibling THEN Len(children[p]) ELSE PyIndex(children[p], s)
  BY <1>3
<1>5. PICK linked : linked = [children EXCEPT ![p] = PyInsert(children[p], i, c)]
  OBVIOUS
<1>6. Traces(linked, c, {p})
  BY <1>5, TracesNothing, TracesInsertion
<1>7. PICK a, b, d, e :
        /\ a = Repair(linked, c, Kids(c)) /\ b = Repair(a, parent[c], Kids(parent[c]))
        /\ d = Repair(b, c, Kids(c)) /\ e = Repair(d, parent[c], Kids(parent[c]))
  OBVIOUS
<1>8. Traces(a, c, {p}) /\ Traces(b, c, {p})
  BY <1>1, <1>6, <1>7, TracesRepair
<1>9. Traces(d, c, {p}) /\ Traces(e, c, {p})
  BY <1>1, <1>7, <1>8, TracesRepair
<1>10. children' = e \/ children' = linked
  BY <1>4, <1>5, <1>7 DEF Link
<1>11. Traces(children', c, {p})
  BY <1>6, <1>9, <1>10
<1>12. n \in {p} => c \notin Staying(n)
  <2>1. c \notin ToSet(children[p])
    BY <1>1, <1>2 DEF Contains, ToSet
  <2>2. QED
    BY <2>1 DEF Staying, NamedOnce
<1>13. QED
  BY <1>11, <1>12, TracesArranged

LEMMA MoveLinkArranged ==
  ASSUME TreeTyped, NEW c \in Concepts, NEW l \in LinkIds, NEW p \in Nodes,
         NEW s \in Concepts \cup {NoSibling}, MoveLink(c, l, p, s), NEW n \in Nodes
  PROVE  Arranged(n)
<1>1. c \in Nodes /\ parent[c] \in Nodes /\ SiblingGiven(p, s) /\ linkedTo[c][l] \in Nodes
  BY TypedFacts DEF MoveLink
<1>2. PICK i \in InsertIndexes(c, p, s) :
        children' = IF Rooted(c)
          THEN Repair(Repair(Inserted(c, linkedTo[c][l], p, s, i), c, Kids(c)),
                      parent[c], Kids(parent[c]))
          ELSE Inserted(c, linkedTo[c][l], p, s, i)
  BY DEF MoveLink
<1>3. i \in Nat
  BY <1>1, InsertIndexesNat
<1>4. PICK moved, from : from = linkedTo[c][l] /\ moved = Inserted(c, from, p, s, i)
  OBVIOUS
<1>5. Traces(moved, c, {p})
  BY <1>1, <1>3, <1>4, TracesPlacing
<1>6. PICK a, b : a = Repair(moved, c, Kids(c)) /\ b = Repair(a, parent[c], Kids(parent[c]))
  OBVIOUS
<1>7. Traces(a, c, {p}) /\ Traces(b, c, {p})
  BY <1>1, <1>5, <1>6, TracesRepair
<1>8. children' = b \/ children' = moved
  BY <1>2, <1>4, <1>6
<1>9. Traces(children', c, {p})
  BY <1>5, <1>7, <1>8
<1>10. Placed(c)
  BY DEF Placed
<1>11. QED
  BY <1>9, <1>10, TracesArranged

LEMMA UnlinkArranged ==
  ASSUME TreeTyped, NEW c \in Concepts, NEW l \in LinkIds, Unlink(c, l), NEW n \in Nodes
  PROVE  Arranged(n)
<1>1. PICK m : m = linkedTo[c][l]
  OBVIOUS
<1>2. children' = IF m \in Stored THEN [children EXCEPT ![m] = RemoveFirst(children[m], c)]
                  ELSE children
  BY <1>1 DEF Unlink
<1>3. Traces(children', c, {})
  <2>1. m \in Stored => m \in Nodes
    BY TypedFacts
  <2>2. QED
    BY <1>2, <2>1, TracesNothing, TracesRemoval
<1>4. QED
  BY <1>3, TracesArranged

LEMMA DeleteArranged ==
  ASSUME TreeTyped, NEW c \in Concepts, NEW locked, Delete(c, locked), NEW n \in Nodes
  PROVE  Arranged(n)
<1>1. children'[n] = IF n \in Reach(c, locked) THEN <<>>
                     ELSE IF n = parent[c] THEN RemoveFirst(children[n], c) ELSE children[n]
  BY DEF Delete
<1>2. CASE children'[n] = <<>>
  <2>1. Staying(n) = {}
    BY <1>2 DEF Staying, ToSet
  <2>2. QED
    BY <2>1 DEF Arranged, SameOrder
<1>3. CASE children'[n] = RemoveFirst(children[n], c)
  <2>1. children[n] \in Seq(used)
    BY TypedFacts
  <2>2. Follows(children[n], RemoveFirst(children[n], c), NoSibling)
    BY <2>1, RemoveFollows
  <2>3. NoSibling \notin Staying(n)
    BY TypedFacts, TreeAssumption DEF Staying
  <2>4. QED
    BY <1>3, <2>2, <2>3, FollowsArranged
<1>4. CASE children'[n] = children[n]
  BY <1>4 DEF Arranged
<1>5. QED
  BY <1>1, <1>2, <1>3, <1>4

LEMMA ReadArranged ==
  ASSUME TreeTyped, NEW m \in Nodes, ReadChildren(m), NEW n \in Nodes
  PROVE  Arranged(n)
<1>1. Traces(Repair(children, m, Kids(m)), m, {})
  BY TracesNothing, TracesRepair
<1>2. children' = Repair(children, m, Kids(m))
  BY DEF ReadChildren
<1>3. Traces(children', m, {})
  BY <1>1, <1>2
<1>4. QED
  BY <1>3, TracesArranged

LEMMA ServeArranged ==
  ASSUME TreeTyped, NEW hidden, ServeProject(hidden), NEW n \in Nodes
  PROVE  Arranged(n)
<1>1. PICK list \in Seq(Concepts) : list = children[Project]
  <2>1. Traces(children, Project, {}) /\ Project \in Nodes
    BY TracesNothing, TypedFacts
  <2>2. QED
    BY <2>1 DEF Traces
<1>2. PICK new : new = ServedList(list, hidden)
  OBVIOUS
<1>3. new \in Seq(Concepts) /\ \A d : Follows(list, new, d)
  BY <1>2, ServedFollows
<1>4. Traces([children EXCEPT ![Project] = new], Project, {})
  BY <1>1, <1>3, TracesNothing, TracesOne, TypedFacts
<1>5. children' = [children EXCEPT ![Project] = new]
  BY <1>1, <1>2 DEF ServeProject
<1>6. Traces(children', Project, {})
  BY <1>4, <1>5
<1>7. QED
  BY <1>6, TracesArranged

LEMMA NextArranged == TreeTyped /\ [Next]_treeVars => \A n \in Nodes : Arranged(n)
<1> SUFFICES ASSUME TreeTyped, [Next]_treeVars, NEW n \in Nodes PROVE Arranged(n)
  OBVIOUS
<1>1. ASSUME NEW c \in Concepts, NEW p \in Nodes, NEW s \in Concepts \cup {NoSibling},
             \/ Create(c, p, s) \/ Move(c, p, s) \/ MoveFails(c, p, s)
             \/ \E l \in LinkIds : Link(c, l, p, s) \/ MoveLink(c, l, p, s)
      PROVE  Arranged(n)
  BY <1>1, CreateArranged, MoveArranged, MoveFailsArranged, LinkArranged, MoveLinkArranged
<1>2. ASSUME NEW c \in Concepts, NEW l \in LinkIds, Unlink(c, l)
      PROVE  Arranged(n)
  BY <1>2, UnlinkArranged
<1>3. ASSUME NEW c \in Concepts, NEW locked \in {{}, Protected}, Delete(c, locked)
      PROVE  Arranged(n)
  BY <1>3, DeleteArranged
<1>4. ASSUME NEW m \in Nodes, ReadChildren(m)
      PROVE  Arranged(n)
  BY <1>4, ReadArranged
<1>5. ASSUME NEW hidden \in {{}, Protected}, ServeProject(hidden)
      PROVE  Arranged(n)
  BY <1>5, ServeArranged
<1>6. ASSUME UNCHANGED listVars
      PROVE  Arranged(n)
  BY <1>6 DEF listVars, Arranged
<1>7. ASSUME NEW c, NEW p, Ask(c, p) \/ Withdraw(c, p)
      PROVE  Arranged(n)
  BY <1>6, <1>7 DEF Ask, Withdraw
<1>8. CASE Next
  BY <1>1, <1>2, <1>3, <1>4, <1>5, <1>7, <1>8, Zenon DEF Next
<1>9. CASE UNCHANGED treeVars
  BY <1>6, <1>9 DEF treeVars
<1>10. QED
  BY <1>8, <1>9

(* No request disturbs the order of the siblings it does not place, with    *)
(* any links, dead keys and failed moves: a repair and a removal only take  *)
(* entries out, and what set_parent and the two creates put in is the       *)
(* concept, or link, they are about.                                        *)
THEOREM OrderKept == Spec => SiblingsKeepOrder
<1>1. (\A n \in Nodes : Arranged(n)) =>
        \A n \in Nodes :
          LET stay == live \cap NamedOnce(children[n]) \cap ToSet(children'[n])
              Same(S) == \A x, y \in S :
                PyIndex(children[n], x) < PyIndex(children[n], y)
                  <=> PyIndex(children'[n], x) < PyIndex(children'[n], y)
          IN  \/ children'[n] = children[n]
              \/ Same(stay)
              \/ \E c \in stay : Same(stay \ {c}) /\ Placed(c)
  BY DEF Arranged, SameOrder, Staying
<1>2. QED
  BY TypedAlways, NextArranged, <1>1, PTL DEF Spec, SiblingsKeepOrder
=============================================================================
