----------------------------- MODULE Phrasings -----------------------------
(***************************************************************************)
(* The phrasings of one concept and which of them each document shows. The  *)
(* distilled document shows concept.distilled_phrasing; any other document, *)
(* summary or presentation of the project is a place for which the concept  *)
(* lists a selection, an entity that names a phrasing (handlers/artifacts/  *)
(* phrasing.py, selectedphrasing.py; models/artifacts/concept.py). Requests *)
(* add, select and delete phrasings. Each works on a copy of the concept and*)
(* saves several entities one after the other. An action is one write, or a *)
(* read that a write of another request may precede; the phrasing and the   *)
(* concept are read as a request begins, and what is read a second time is  *)
(* answered from the request's own cache.                                   *)
(***************************************************************************)
EXTENDS Naturals, FiniteSets

CONSTANTS
  Places, Distilled,
  Kind,         \* place -> which of the concept's three lists its selection is in
  Slots,        \* requests that can run at the same time
  None,
  MaxRequests,  \* bound on the requests
  MaxRunning    \* bound on the requests that overlap

\* The lists selected_phrasings, summary_ and presentation_selected_phrasings.
Kinds == {"document", "summary", "presentation"}

ASSUME PhrasingsAssumption ==
  /\ Distilled \notin Places /\ None \notin Places \cup {Distilled} \cup Nat
  /\ None \notin [place : Places, phrasing : Nat]
  /\ Kind \in [Places -> Kinds]
  /\ MaxRequests \in Nat /\ MaxRunning \in Nat

VARIABLES
  concept,     \* the stored concept: phrasings, distilled phrasing, lists
  selections,  \* the selection stored under each key, or None
  stored,      \* the phrasings stored
  request,     \* the request in each slot
  asked,       \* requests so far
  chosen,      \* what finished requests last asked each place to show
  overlapped,  \* whether requests ever ran at the same time
  mixed,       \* whether a delete ever did, or was stopped
  stopped,     \* whether a request was ever stopped
  raised       \* whether a request ever ended in an exception

phrVars == <<concept, selections, stored, request, asked, chosen,
             overlapped, mixed, stopped, raised>>

\* New entities take the number of the request that makes them for a key.
Keys == 1 .. MaxRequests
Phrases == 0 .. MaxRequests

Concepts ==
  [phrasings : SUBSET Phrases, distilled : Phrases, lists : [Kinds -> SUBSET Keys]]

Requests ==
  [id : Keys, what : {"add", "select", "delete"}, place : Places \cup {Distilled, None},
   phrasing : Phrases, step : {"find", "choose", "drop", "put", "erase"},
   concept : Concepts,          \* its copy of the concept
   picked : Keys \cup {None},   \* the selection it will save
   todo : SUBSET Keys,          \* selections it has yet to delete
   broken : BOOLEAN]            \* whether it read a listed key that is dead

Idle == [step |-> "idle"]
Busy == {s \in Slots : request[s] # Idle}
Deleting == {s \in Busy : request[s].what = "delete"}

\* A request that looks for the selection of its place, or has found it.
Looking(r) == r.step = "choose" \/ (r.step = "find" /\ r.what # "delete")

TypeOK ==
  /\ concept \in Concepts
  /\ selections \in [Keys -> [place : Places, phrasing : Phrases] \cup {None}]
  /\ stored \in SUBSET Phrases
  /\ request \in [Slots -> Requests \cup {Idle}]
  /\ asked \in 0 .. MaxRequests
  /\ chosen \in [Places \cup {Distilled} -> Phrases \cup {None}]
  /\ overlapped \in BOOLEAN /\ mixed \in BOOLEAN /\ stopped \in BOOLEAN /\ raised \in BOOLEAN
  /\ \A s, t \in Busy : request[s].id <= asked /\ (request[s].id = request[t].id => s = t)
  /\ \A s \in Busy : Looking(request[s]) => request[s].place \in Places

Init ==
  /\ concept = [phrasings |-> {}, distilled |-> 0, lists |-> [k \in Kinds |-> {}]]
  /\ selections = [k \in Keys |-> None]
  /\ stored = {0}
  /\ request = [s \in Slots |-> Idle]
  /\ asked = 0
  /\ chosen = [p \in Places \cup {Distilled} |-> IF p = Distilled THEN 0 ELSE None]
  /\ overlapped = FALSE /\ mixed = FALSE /\ stopped = FALSE /\ raised = FALSE

-----------------------------------------------------------------------------
\* A request begins with its copy of the concept, as it has changed it.
Begin(s, what, place, p, copy, step) ==
  /\ s \notin Busy /\ asked < MaxRequests /\ Cardinality(Busy) < MaxRunning
  /\ asked' = asked + 1
  /\ request' = [request EXCEPT ![s] =
       [id |-> asked + 1, what |-> what, place |-> place, phrasing |-> p, step |-> step,
        concept |-> copy, picked |-> None, todo |-> {}, broken |-> FALSE]]
  /\ overlapped' = (overlapped \/ Busy # {})
  /\ mixed' = (mixed \/ (Busy # {} /\ (what = "delete" \/ Deleting # {})))
  /\ UNCHANGED <<concept, selections, stored, chosen, stopped, raised>>

\* The distilled phrasing is a field of the concept, any other a selection.
Showing(copy, place, p) == IF place = Distilled THEN [copy EXCEPT !.distilled = p] ELSE copy
FirstStep(place) == IF place = Distilled THEN "put" ELSE "find"

(* PhrasingHandler.put                                                      *)
Add(s, place) ==
  LET p == asked + 1
      copy == [concept EXCEPT !.phrasings = @ \cup {p}]
  IN  Begin(s, "add", place, p, Showing(copy, place, p), FirstStep(place))

(* SelectedPhrasingHandler.post and those of summaries and presentations    *)
Select(s, place, p) ==
  /\ p \in stored
  /\ Begin(s, "select", place, p, Showing(concept, place, p), FirstStep(place))

\* Variant: the distilled phrasing may be deleted too.
DeleteAny(s, p) ==
  /\ p \in stored
  /\ Begin(s, "delete", None, p, [concept EXCEPT !.phrasings = @ \ {p}], "find")

(* PhrasingHandler.delete: never the distilled phrasing                     *)
Delete(s, p) ==
  /\ p \in stored /\ p # concept.distilled
  /\ Begin(s, "delete", None, p, [concept EXCEPT !.phrasings = @ \ {p}], "find")

Dead(list) == {k \in list : selections[k] = None}

\* Variant: the selection is looked up by the phrasing.
ForPlaceByPhrasing(r) ==
  {k \in r.concept.lists[Kind[r.place]] :
     selections[k] # None /\ selections[k].phrasing = r.phrasing}

\* has_selected_phrasing, get_selected_phrasing: those of the list for the place
ForPlace(r) ==
  {k \in r.concept.lists[Kind[r.place]] :
     selections[k] # None /\ selections[k].place = r.place}

Continue(s, r) == request' = [request EXCEPT ![s] = r]

(* The selection for the place is looked up in the list of the copy, or a   *)
(* new one is listed there.                                                 *)
Find(s) ==
  LET r == request[s] IN
  /\ s \in Busy /\ r.step = "find" /\ r.what # "delete"
  /\ \/ \E k \in ForPlace(r) : Continue(s, [r EXCEPT !.picked = k, !.step = "choose"])
     \/ /\ ForPlace(r) = {} /\ Dead(r.concept.lists[Kind[r.place]]) = {}
        /\ Continue(s, [r EXCEPT !.picked = r.id, !.step = "choose",
                                 !.concept.lists[Kind[r.place]] = @ \cup {r.id}])
  /\ UNCHANGED <<concept, selections, stored, asked, chosen, overlapped, mixed, stopped, raised>>

(* Phrasing.delete reads the list of selected_phrasings, and only that one. *)
FindToDelete(s) ==
  LET r == request[s]
      list == r.concept.lists["document"]
  IN
  /\ s \in Busy /\ r.step = "find" /\ r.what = "delete"
  /\ Continue(s, [r EXCEPT
       !.todo = {k \in list : selections[k] # None /\ selections[k].phrasing = r.phrasing},
       !.broken = Dead(list) # {}, !.step = "drop"])
  /\ UNCHANGED <<concept, selections, stored, asked, chosen, overlapped, mixed, stopped, raised>>

(* A field of a key that holds nothing is asked for.                        *)
Raise(s) ==
  LET r == request[s] IN
  /\ s \in Busy
  /\ \/ r.step = "drop" /\ r.broken
     \/ r.step = "find" /\ r.what # "delete" /\ Dead(r.concept.lists[Kind[r.place]]) # {}
  /\ raised' = TRUE
  /\ request' = [request EXCEPT ![s] = Idle]
  /\ UNCHANGED <<concept, selections, stored, asked, chosen, overlapped, mixed, stopped>>

Finish(s) ==
  LET r == request[s] IN
  /\ request' = [request EXCEPT ![s] = Idle]
  /\ chosen' = IF r.what # "delete" THEN [chosen EXCEPT ![r.place] = r.phrasing]
               ELSE [p \in DOMAIN chosen |->
                       IF p \in Places /\ Kind[p] = "document" /\ chosen[p] = r.phrasing
                       THEN None ELSE chosen[p]]

\* Variant: a selection that exists is taken to be as wanted.
PutNewSelection(s) ==
  LET r == request[s] IN
  /\ s \in Busy /\ r.step = "choose"
  /\ selections' = IF r.picked = r.id
                   THEN [selections EXCEPT ![r.id] = [place |-> r.place, phrasing |-> r.phrasing]]
                   ELSE selections
  /\ IF r.what = "select" /\ r.picked # r.id THEN Finish(s)
     ELSE Continue(s, [r EXCEPT !.step = "put"]) /\ UNCHANGED chosen
  /\ UNCHANGED <<concept, stored, asked, overlapped, mixed, stopped, raised>>

(* The selection is saved. A request that selects is done unless it listed a*)
(* new one.                                                                 *)
PutSelection(s) ==
  LET r == request[s] IN
  /\ s \in Busy /\ r.step = "choose"
  /\ selections' = [selections EXCEPT ![r.picked] =
                      [place |-> r.place, phrasing |-> r.phrasing]]
  /\ IF r.what = "select" /\ r.picked # r.id THEN Finish(s)
     ELSE Continue(s, [r EXCEPT !.step = "put"]) /\ UNCHANGED chosen
  /\ UNCHANGED <<concept, stored, asked, overlapped, mixed, stopped, raised>>

\* Variant: the deleted selection stays in the list.
DropListed(s) ==
  LET r == request[s] IN
  /\ s \in Busy /\ r.step = "drop"
  /\ \E k \in r.todo :
       /\ selections' = [selections EXCEPT ![k] = None]
       /\ Continue(s, [r EXCEPT !.todo = @ \ {k}])
  /\ UNCHANGED <<concept, stored, asked, chosen, overlapped, mixed, stopped, raised>>

(* Phrasing.delete deletes one of the selections that name the phrasing.    *)
Drop(s) ==
  LET r == request[s] IN
  /\ s \in Busy /\ r.step = "drop"
  /\ \E k \in r.todo :
       /\ selections' = [selections EXCEPT ![k] = None]
       /\ Continue(s, [r EXCEPT !.todo = @ \ {k}, !.concept.lists["document"] = @ \ {k}])
  /\ UNCHANGED <<concept, stored, asked, chosen, overlapped, mixed, stopped, raised>>

(* The concept is saved, an added phrasing with it.                         *)
PutConcept(s) ==
  LET r == request[s] IN
  /\ s \in Busy /\ (r.step = "put" \/ (r.step = "drop" /\ r.todo = {} /\ ~r.broken))
  /\ concept' = r.concept
  /\ stored' = IF r.what = "add" THEN stored \cup {r.phrasing} ELSE stored
  /\ IF r.what = "delete" THEN Continue(s, [r EXCEPT !.step = "erase"]) /\ UNCHANGED chosen
     ELSE Finish(s)
  /\ UNCHANGED <<selections, asked, overlapped, mixed, stopped, raised>>

(* Phrasing.delete deletes the phrasing.                                    *)
Erase(s) ==
  /\ s \in Busy /\ request[s].step = "erase"
  /\ stored' = stored \ {request[s].phrasing}
  /\ Finish(s)
  /\ UNCHANGED <<concept, selections, asked, overlapped, mixed, stopped, raised>>

(* The instance stops, or the request runs out of time.                     *)
Stop(s) ==
  /\ s \in Busy
  /\ request' = [request EXCEPT ![s] = Idle]
  /\ stopped' = TRUE
  /\ mixed' = (mixed \/ s \in Deleting)
  /\ UNCHANGED <<concept, selections, stored, asked, chosen, overlapped, raised>>

Next ==
  \E s \in Slots :
    \/ \E place \in Places \cup {Distilled} :
         Add(s, place) \/ \E p \in stored : Select(s, place, p)
    \/ \E p \in stored : Delete(s, p)
    \/ Find(s) \/ FindToDelete(s) \/ Raise(s) \/ PutSelection(s) \/ Drop(s)
    \/ PutConcept(s) \/ Erase(s) \/ Stop(s)

Spec == Init /\ [][Next]_phrVars
-----------------------------------------------------------------------------
\* The stored selections that the concept lists for a place.
Shown(place) == {k \in concept.lists[Kind[place]] :
                   selections[k] # None /\ selections[k].place = place}

(* Whatever overlaps or stops: no document ever has two selections, between *)
(* which get_selected_phrasing would choose by their order.                 *)
OneSelectionEach == \A place \in Places : \A j, k \in Shown(place) : j = k

(* However adds and selections overlap and stop, as long as deletes ran     *)
(* alone and to their end: no request meets a listed key that is dead, on   *)
(* which it and every later one of the concept would raise.                 *)
NeverRaises == ~mixed => ~raised

(* As long as deletes ran alone and nothing was stopped: what a document    *)
(* shows is stored, except while an add has saved its selection and not yet *)
(* its phrasing. Summaries and presentations are left out: deletes do not   *)
(* look at their selections.                                                *)
ShownIsStored ==
  ~mixed /\ ~stopped /\ Deleting = {} =>
    /\ concept.distilled \in stored
    /\ \A place \in Places : Kind[place] = "document" =>
         \A k \in Shown(place) :
           \/ selections[k].phrasing \in stored
           \/ \E s \in Busy : request[s].what = "add" /\ request[s].step = "put"
                              /\ request[s].phrasing = selections[k].phrasing

(* As long as nothing overlapped or stopped: every place shows what it was  *)
(* last asked to show, or what the distilled document shows if that was     *)
(* deleted; and no request for one place changes another.                   *)
ChosenIsShown ==
  ~overlapped /\ ~stopped /\ Busy = {} =>
    /\ concept.distilled = chosen[Distilled]
    /\ \A place \in Places :
         {selections[k].phrasing : k \in Shown(place)} = {chosen[place]} \ {None}
=============================================================================
