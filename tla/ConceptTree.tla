---------------------------- MODULE ConceptTree ----------------------------
(***************************************************************************)
(* The concepts of one project as handlers/artifacts/concept.py and        *)
(* models/artifacts/concept.py keep them: the parent pointers, the ordered *)
(* children lists that are only a hint beside them, the inherited          *)
(* permission chain of every concept, and the links that show a concept    *)
(* under a second parent. One action is one request, except that a move is *)
(* checked by the browser, on its copy of the tree, when the user asks for *)
(* it, and saved by the server, which does not check it, some time later.  *)
(***************************************************************************)
EXTENDS ChildList

CONSTANTS
  Concepts,   \* keys a request may create; a uuid is never used twice
  Project,    \* key of the project, the root of the tree
  Protected,  \* concepts a collaborator without write permission cannot delete
  LinkIds,    \* link ids a request may create
  NoSibling,  \* "place it last"
  MaxAsked,   \* bound: checked moves that are followed on their way
  MaxLate     \* bound: moves saved on another tree than they were checked on

ASSUME TreeAssumption ==
  /\ MaxAsked \in Nat /\ MaxLate \in Nat
  /\ Project \notin Concepts /\ NoSibling \notin Concepts \cup {Project}
  /\ Protected \subseteq Concepts

VARIABLES
  used,         \* concept keys handed out so far
  live,         \* concepts in the datastore
  parent,       \* Concept.parent; Project stands for None
  orphans,      \* Project.orphan_concept
  children,     \* the children list of every node
  parentPerms,  \* Concept.parent_perms: whose permissions it inherits, root first
  linkedTo,     \* Concept.linked_to: link id -> parent of the link
  usedLinks,    \* link ids handed out so far
  asked,        \* moves on their way that a browser checked on the stored tree
  late          \* moves saved that no browser checked on the tree they met

forestVars == <<used, live, parent, orphans>>
listVars == <<children, parentPerms, linkedTo, usedLinks>>
moveVars == <<asked, late>>
treeVars == <<forestVars, listVars, moveVars>>

Nodes == Concepts \cup {Project}

NoLinks == [l \in {} |-> Project]

TypeOK ==
  /\ used \in SUBSET Concepts
  /\ live \in SUBSET used
  /\ parent \in [Concepts -> Nodes]
  /\ orphans \in SUBSET used
  /\ DOMAIN children = Nodes /\ \A n \in Nodes : ToSet(children[n]) \subseteq used
  /\ DOMAIN parentPerms = Concepts
  /\ \A c \in Concepts : ToSet(parentPerms[c]) \subseteq Nodes
  /\ usedLinks \in SUBSET LinkIds
  /\ DOMAIN linkedTo = Concepts
  /\ \A c \in Concepts : linkedTo[c] \in [DOMAIN linkedTo[c] -> Nodes]
                         /\ DOMAIN linkedTo[c] \subseteq usedLinks
  /\ asked \subseteq Concepts \X Nodes /\ Cardinality(asked) <= MaxAsked
  /\ late \in 0 .. MaxLate

Init ==
  /\ used = {}
  /\ live = {}
  /\ parent = [c \in Concepts |-> Project]
  /\ orphans = {}
  /\ children = [n \in Nodes |-> <<>>]
  /\ parentPerms = [c \in Concepts |-> <<>>]
  /\ linkedTo = [c \in Concepts |-> NoLinks]
  /\ usedLinks = {}
  /\ asked = {}
  /\ late = 0

Stored == live \cup {Project}

\* Concept.query(parent == n): the pointers, not the lists.
Kids(n) == {c \in live : parent[c] = n}

\* Variant: a delete follows the lists, and takes concepts linked below c along.
ReachListed(c, locked) ==
  {x \in live : \A S \in SUBSET live :
     (c \in S /\ \A y \in S : (ToSet(children[y]) \cap live) \ locked \subseteq S) => x \in S}

\* The concepts reached from c through get_children without passing a locked one.
Reach(c, locked) ==
  {x \in live : \A S \in SUBSET live :
     (c \in S /\ \A y \in live \ locked : parent[y] \in S => y \in S) => x \in S}

Subtree(c) == Reach(c, {})

\* parent_perms with one more key at its end. A later permission overrides an
\* earlier one, so a key counts where it stands last.
Under(chain, n) == Append(Picked(chain, {i \in DOMAIN chain : chain[i] # n}), n)

\* The permissions of a child of n.
Below(n, perms) == IF n = Project THEN <<Project>> ELSE Under(perms[n], n)

\* Following the parent pointers from n ends at the project. Concept.depth raises
\* when it meets a deleted concept and never ends when it meets n again.
Rooted(n) ==
  \A S \in SUBSET Nodes :
    (Project \in S /\ \A c \in live : parent[c] \in S => c \in S) => n \in S

\* get_children saves the repaired list of n.
Repair(lists, n, kids) == [lists EXCEPT ![n] = Repaired(@, kids)]

-----------------------------------------------------------------------------
(* ConceptHandler.put: a new concept c below p, before sibling s. The       *)
(* handler serializes the new concept twice, and each to_dict reads, and    *)
(* repairs, the children of p. Below an orphan, depth raises first.         *)
Create(c, p, s) ==
  LET kids      == Kids(p)
      before    == IF s = NoSibling THEN children[p] ELSE Repaired(children[p], kids)
      indexes   == IF s = NoSibling THEN {Len(children[p])}
                   ELSE ConceptIndexes(children[p], kids, s)
      Respond(list) == IF Rooted(p)
                       THEN Repaired(Repaired(list, kids \cup {c}), kids \cup {c})
                       ELSE list
  IN
  /\ c \notin used /\ p \in Stored /\ s \in live \cup {NoSibling}
  /\ used' = used \cup {c}
  /\ live' = live \cup {c}
  /\ parent' = [parent EXCEPT ![c] = p]
  /\ parentPerms' = [parentPerms EXCEPT ![c] = Below(p, parentPerms)]
  /\ \E i \in indexes :
       children' = [children EXCEPT ![p] = Respond(PyInsert(before, i, c))]
  /\ UNCHANGED <<orphans, linkedTo, usedLinks, moveVars>>

-----------------------------------------------------------------------------
(* Concept.set_parent, shared by concepts and links. The position is taken  *)
(* in the list as it was; when c stays with its parent, get_concept_index   *)
(* repairs that list in between and the position moves up by one if c was   *)
(* more than one place before s.                                            *)
SiblingGiven(p, s) == s = NoSibling \/ (s \in live /\ Contains(children[p], s))

ListsBefore(c, p, s) ==
  IF s # NoSibling /\ parent[c] = p THEN Repair(children, p, Kids(p)) ELSE children

\* Variant: the place is not corrected for the removal of c.
InsertIndexesAsFound(c, p, s) ==
  {IF s = NoSibling THEN Len(children[p]) ELSE PyIndex(children[p], s)}

InsertIndexes(c, p, s) ==
  LET at == PyIndex(children[p], s) IN
  IF s = NoSibling THEN {Len(children[p])}
  ELSE IF parent[c] # p THEN {at}
  ELSE {IF i + 1 < at THEN at - 1 ELSE at : i \in ConceptIndexes(children[p], Kids(p), c)}

\* Variant: only the child itself inherits anew.
InheritShallow(perms, c, e) ==
  IF e \in live THEN [perms EXCEPT ![e] = Under(perms[c], c)] ELSE perms

\* child.update_parent_permissions(c) for the stored child e: its whole subtree
\* inherits anew, along the stored pointers.
Inherit(perms, c, e) ==
  LET sub == Subtree(e)
      chain[x \in sub] == IF x = e THEN Under(perms[c], c)
                          ELSE Under(chain[parent[x]], parent[x])
  IN  [x \in Concepts |-> IF x \in sub THEN chain[x] ELSE perms[x]]

\* The children whose permissions are updated: those the list of c names, links
\* included, up to the first deleted one, on which the request fails.
Updated(c) ==
  LET dead == {i \in DOMAIN children[c] : children[c][i] \notin live} IN
  IF dead = {} THEN children[c] ELSE SubSeq(children[c], 1, Min(dead) - 1)

InheritAll(c, p) ==
  FoldLeft(LAMBDA perms, e : Inherit(perms, c, e),
           [parentPerms EXCEPT ![c] = Below(p, parentPerms)], Updated(c))

\* get_children runs on every concept of the updated subtrees.
RepairUpdated(lists, c) ==
  LET touched == UNION {Subtree(e) : e \in ToSet(Updated(c))} IN
  [n \in Nodes |-> IF n \in touched THEN Repaired(lists[n], Kids(n)) ELSE lists[n]]

\* Variant: the old list keeps c.
RemovedNot(c, from, p, s) == ListsBefore(c, p, s)

\* The lists when set_parent has taken c out of one list and put it in another.
Removed(c, from, p, s) ==
  [ListsBefore(c, p, s) EXCEPT ![from] = RemoveFirst(@, c)]

Inserted(c, from, p, s, i) ==
  [Removed(c, from, p, s) EXCEPT ![p] = PyInsert(@, i, c)]

(* ConceptEventListener.move: step by step the user takes c to any place    *)
(* that the browser does not show below it. The request follows 2.5 s after *)
(* the last step, when the requests before it have ended.                   *)
Ask(c, p) ==
  /\ c \in live /\ p \in Stored \ Subtree(c)
  /\ Cardinality(asked) < MaxAsked
  /\ asked' = asked \cup {<<c, p>>}
  /\ UNCHANGED <<forestVars, listVars, late>>

\* The request is lost, refused, or replaced by the next one for c.
Withdraw(c, p) ==
  /\ <<c, p>> \in asked
  /\ asked' = asked \ {<<c, p>>}
  /\ UNCHANGED <<forestVars, listVars, late>>

\* What the server checks of a move: not whether p is below c. A browser whose copy
\* shows another tree may name any place: another user's move came between, or a
\* request of its own failed and the copy was not taken back. The last line leaves
\* out the moves of a concept already on a cycle or listing, by a link, one of its
\* ancestors: their permission updates meet c itself, or never end.
MayMove(c, p, s) ==
  /\ c \in live /\ p \in Stored \ {c} /\ SiblingGiven(p, s)
  /\ parent[c] \in Stored
  /\ \A e \in ToSet(Updated(c)) : c \notin Subtree(e) /\ parent[e] \notin Subtree(e)

(* ConceptHandler.post with a parent: all three saves, then depth and       *)
(* to_dict, which repairs the lists of c and of p. The other browsers'      *)
(* checks were made on the tree before.                                     *)
Move(c, p, s) ==
  /\ MayMove(c, p, s)
  /\ Updated(c) = children[c]
  /\ \E i \in InsertIndexes(c, p, s) :
       LET moved == RepairUpdated(Inserted(c, parent[c], p, s, i), c) IN
       children' = IF Rooted(p) /\ p \notin Subtree(c)
                   THEN Repair(Repair(moved, c, Kids(c)), p, Kids(p) \cup {c})
                   ELSE moved
  /\ parent' = [parent EXCEPT ![c] = p]
  /\ parentPerms' = InheritAll(c, p)
  /\ <<c, p>> \in asked \/ late < MaxLate
  /\ late' = IF <<c, p>> \in asked THEN late ELSE late + 1
  /\ asked' = {}
  /\ UNCHANGED <<used, live, orphans, linkedTo, usedLinks>>

(* The same request when the list of c names a deleted concept: get_multi   *)
(* returns None for it and the request fails between its saves, with c out  *)
(* of the old list and a part of the descendants inheriting from p.         *)
MoveFails(c, p, s) ==
  /\ MayMove(c, p, s)
  /\ Updated(c) # children[c]
  /\ \E i \in InsertIndexes(c, p, s) :
       LET moved == RepairUpdated(Inserted(c, parent[c], p, s, i), c)
           saved == RepairUpdated(Removed(c, parent[c], p, s), c)
       IN  children' = [saved EXCEPT ![p] =
                          IF p \in UNION {Subtree(e) : e \in ToSet(Updated(c))}
                          THEN moved[p] ELSE @]
  /\ parentPerms' = [InheritAll(c, p) EXCEPT ![c] = parentPerms[c]]
  /\ asked' = asked \ {<<c, p>>}
  /\ UNCHANGED <<forestVars, linkedTo, usedLinks, late>>

\* Variant: the link's new parent becomes the parent of the concept as well.
MoveLinkAndConcept(c, l, p, s) ==
  /\ c \in live /\ p \in Stored /\ SiblingGiven(p, s)
  /\ l \in DOMAIN linkedTo[c] /\ linkedTo[c][l] \in Stored
  /\ children' = Inserted(c, linkedTo[c][l], p, s, Len(children[p]))
  /\ linkedTo' = [linkedTo EXCEPT ![c][l] = p]
  /\ parent' = [parent EXCEPT ![c] = p]
  /\ UNCHANGED <<used, live, orphans, moveVars, parentPerms, usedLinks>>

(* The same request for link l of c: only the link and two lists change.    *)
(* Neither side checks that c is not shown below itself.                    *)
MoveLink(c, l, p, s) ==
  /\ c \in live /\ p \in Stored /\ SiblingGiven(p, s)
  /\ l \in DOMAIN linkedTo[c] /\ linkedTo[c][l] \in Stored
  /\ \E i \in InsertIndexes(c, p, s) :
       LET moved == Inserted(c, linkedTo[c][l], p, s, i) IN
       children' = IF Rooted(c)
                   THEN Repair(Repair(moved, c, Kids(c)), parent[c], Kids(parent[c]))
                   ELSE moved
  /\ linkedTo' = [linkedTo EXCEPT ![c][l] = p]
  /\ UNCHANGED <<forestVars, moveVars, parentPerms, usedLinks>>

-----------------------------------------------------------------------------
LinkedBelow(links, l, p) == [k \in DOMAIN links \cup {l} |-> IF k = l THEN p ELSE links[k]]

(* _link_concept: c is shown below p too, unless the list of p names it.    *)
(* The response serializes c twice, which repairs its list and its parent's.*)
Link(c, l, p, s) ==
  LET Read(lists) == Repair(Repair(lists, c, Kids(c)), parent[c], Kids(parent[c]))
      linked == [children EXCEPT ![p] =
                   PyInsert(@, IF s = NoSibling THEN Len(@) ELSE PyIndex(@, s), c)]
  IN
  /\ c \in live /\ p \in Stored /\ SiblingGiven(p, s)
  /\ l \notin usedLinks
  /\ ~Contains(children[p], c)
  /\ usedLinks' = usedLinks \cup {l}
  /\ linkedTo' = [linkedTo EXCEPT ![c] = LinkedBelow(@, l, p)]
  /\ children' = IF parent[c] \in Stored THEN Read(Read(linked)) ELSE linked
  /\ UNCHANGED <<forestVars, moveVars, parentPerms>>

(* ConceptHandler.delete of a link: the link is gone before the list of its *)
(* parent is looked at, and list.remove raises when a read repaired c away. *)
Unlink(c, l) ==
  /\ c \in live /\ l \in DOMAIN linkedTo[c]
  /\ linkedTo' = [linkedTo EXCEPT ![c] = [k \in DOMAIN @ \ {l} |-> @[k]]]
  /\ children' = IF linkedTo[c][l] \in Stored
                 THEN [children EXCEPT ![linkedTo[c][l]] = RemoveFirst(@, c)]
                 ELSE children
  /\ UNCHANGED <<forestVars, moveVars, parentPerms, usedLinks>>

(* ConceptHandler.delete and Concept.rdelete, for a caller who may not      *)
(* write the locked concepts. An unknown link id ends here too. depth       *)
(* raises before anything is deleted below an orphan.                       *)
Delete(c, locked) ==
  LET removed == Reach(c, locked) IN
  /\ c \in live \ locked
  /\ Rooted(c)
  /\ live' = live \ removed
  /\ orphans' = orphans \cup {y \in live \cap locked : parent[y] \in removed}
  /\ parent' = [x \in Concepts |-> IF x \in removed THEN Project ELSE parent[x]]
  /\ children' = [n \in Nodes |-> IF n \in removed THEN <<>>
                                  ELSE IF n = parent[c] THEN RemoveFirst(children[n], c)
                                  ELSE children[n]]
  /\ parentPerms' = [x \in Concepts |-> IF x \in removed THEN <<>> ELSE parentPerms[x]]
  /\ linkedTo' = [x \in Concepts |-> IF x \in removed THEN NoLinks ELSE linkedTo[x]]
  /\ UNCHANGED <<used, usedLinks, moveVars>>

-----------------------------------------------------------------------------
(* Every read of the children of n goes through get_children, which saves   *)
(* its repairs; the loader of the client does it node by node.              *)
ReadChildren(n) ==
  /\ n \in Stored
  /\ children' = Repair(children, n, Kids(n))
  /\ UNCHANGED <<forestVars, moveVars, parentPerms, linkedTo, usedLinks>>

(* _serve_project_children_json: for every key of the list that has no      *)
(* concept, the key now at that position is removed from the project's      *)
(* list; the position is not corrected for earlier removals. The loop ends  *)
(* at the first concept the caller may read, whose to_dict call raises.     *)
ServedList(list, hidden) ==
  LET Step(acc, k) ==
        IF acc.ended THEN acc
        ELSE IF list[k] \in live THEN [acc EXCEPT !.ended = list[k] \notin hidden]
        ELSE IF k > Len(acc.list) THEN [acc EXCEPT !.ended = TRUE]
        ELSE [acc EXCEPT !.list = RemoveFirst(@, @[k])]
  IN  FoldLeft(Step, [list |-> list, ended |-> FALSE], [k \in DOMAIN list |-> k]).list

ServeProject(hidden) ==
  /\ children' = [children EXCEPT ![Project] = ServedList(@, hidden)]
  /\ UNCHANGED <<forestVars, moveVars, parentPerms, linkedTo, usedLinks>>

Next ==
  \/ \E c \in Concepts, p \in Nodes : Ask(c, p) \/ Withdraw(c, p)
  \/ \E c \in Concepts, p \in Nodes, s \in Concepts \cup {NoSibling} :
       \/ Create(c, p, s) \/ Move(c, p, s) \/ MoveFails(c, p, s)
       \/ \E l \in LinkIds : Link(c, l, p, s) \/ MoveLink(c, l, p, s)
  \/ \E c \in Concepts, l \in LinkIds : Unlink(c, l)
  \/ \E c \in Concepts, locked \in {{}, Protected} : Delete(c, locked)
  \/ \E n \in Nodes : ReadChildren(n)
  \/ \E hidden \in {{}, Protected} : ServeProject(hidden)

Spec == Init /\ [][Next]_treeVars

-----------------------------------------------------------------------------
Forest == INSTANCE ConceptForest

\* A move that no browser checked on the tree it met.
LateMove(c, p) ==
  /\ <<c, p>> \notin asked
  /\ c \in live /\ p \in Stored
  /\ parent' = [parent EXCEPT ![c] = p]
  /\ UNCHANGED <<used, live, orphans>>

(* The lists and links never disturb the tree of parent pointers: each      *)
(* request is a step of ConceptForest, or a late move of one concept. In    *)
(* particular a concept linked below a deleted one survives, a failed move  *)
(* moves nothing, and moving or removing a link leaves its concept alone.   *)
ForestSteps ==
  Forest!Init /\ [][Forest!Next \/ \E c \in Concepts, p \in Nodes : LateMove(c, p)]_forestVars

(* No concept hangs from itself as long as every move was saved on the tree *)
(* it was checked on, whatever other requests came between: creates,        *)
(* deletes that leave orphans, links, failed moves and repairs do not       *)
(* outdate the check. Another move does, and nobody checks again.           *)
NoCycle == late = 0 => Forest!Acyclic

(* Without links and late moves, every stored concept stands exactly once   *)
(* in the list of its parent, and the lists name nothing else: the loader,  *)
(* which pages through the lists, shows what the pointers say.              *)
ListsExact ==
  late = 0 =>
    \A n \in Stored : /\ ToSet(children[n]) = Kids(n)
                      /\ Len(children[n]) = Cardinality(Kids(n))

(* Without links and late moves, a concept inherits exactly the permissions *)
(* of its present ancestors, root first, however it and its ancestors were  *)
(* moved.                                                                   *)
InheritsFromAncestors ==
  late = 0 =>
    \A c \in live : parent[c] \in Stored => parentPerms[c] = Below(parent[c], parentPerms)

\* The requests that may take c from one position in a list to another.
Placed(c) ==
  \E p \in Nodes, s \in Concepts \cup {NoSibling} :
    \/ Move(c, p, s) \/ MoveFails(c, p, s)
    \/ \E l \in LinkIds : MoveLink(c, l, p, s) \/ Unlink(c, l)

\* A concept linked twice below one node has two places in its list, or more.
NamedOnce(list) ==
  {x \in ToSet(list) : \A i, j \in DOMAIN list : list[i] = x /\ list[j] = x => i = j}

(* No request moves a concept that stays in a list past another one, except *)
(* the concept, or link, the request is to place: creates, links, deletes   *)
(* and the repairs of every read leave the order users arranged alone. Said *)
(* of concepts the list names once: of several entries of one concept,      *)
(* serving the project may remove the first.                                *)
SiblingsKeepOrder ==
  [][\A n \in Nodes :
       LET stay == live \cap NamedOnce(children[n]) \cap ToSet(children'[n])
           SameOrder(S) == \A x, y \in S :
             PyIndex(children[n], x) < PyIndex(children[n], y)
               <=> PyIndex(children'[n], x) < PyIndex(children'[n], y)
       IN  \/ children'[n] = children[n]
           \/ SameOrder(stay)
           \/ \E c \in stay : SameOrder(stay \ {c}) /\ Placed(c)
    ]_treeVars

(* Without links and late moves, a concept moved before a sibling stands    *)
(* directly before it, except when it already stood there.                  *)
DirectlyBefore(c, s, list) == PyIndex(list, c) + 1 = PyIndex(list, s)

MovedBeforeSibling ==
  [][\A c, s \in Concepts, p \in Nodes :
       (late' = 0 /\ c # s /\ Move(c, p, s) /\ ~DirectlyBefore(c, s, children[p]))
         => DirectlyBefore(c, s, children'[p])]_treeVars
=============================================================================
