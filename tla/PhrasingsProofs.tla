-------------------------- MODULE PhrasingsProofs --------------------------
(***************************************************************************)
(* For every set of places and slots, and any bounds on the requests: the   *)
(* types of Phrasings; that no document ever has two selections however     *)
(* requests overlap or stop; that no request meets a dead key, and that what*)
(* a document shows is stored, as long as deletes run alone; and that every *)
(* place shows what it was last asked to show, when requests run one by one.*)
(***************************************************************************)
EXTENDS Phrasings, TLAPS

-----------------------------------------------------------------------------
(* Types.                                                                   *)

(* What is in a busy slot is a request, with a number given out.            *)
LEMMA BusyIsRequest ==
  ASSUME TypeOK, NEW s \in Busy
  PROVE  request[s] \in Requests /\ request[s].id <= asked
  BY DEF Busy, TypeOK

(* A request that goes on under its number, or ends, keeps the slots typed. *)
LEMMA SlotType ==
  ASSUME TypeOK, NEW s \in Slots, s \in Busy, NEW r,
         r = Idle \/ (r \in Requests /\ r.id = request[s].id
                      /\ (Looking(r) => r.place \in Places)),
         request' = [request EXCEPT ![s] = r], asked' = asked
  PROVE  /\ request' \in [Slots -> Requests \cup {Idle}]
         /\ asked' \in 0 .. MaxRequests
         /\ (\A t, u \in Busy : request[t].id <= asked
                                /\ (request[t].id = request[u].id => t = u))'
         /\ (\A t \in Busy : Looking(request[t]) => request[t].place \in Places)'
<1>1. request' \in [Slots -> Requests \cup {Idle}] /\ asked' \in 0 .. MaxRequests
  BY DEF TypeOK
<1>2. \A t \in Slots : t # s => request'[t] = request[t]
  BY DEF TypeOK
<1>3. request'[s] = r
  BY DEF TypeOK
<1>4. \A t \in Busy' : t \in Busy /\ request'[t].id = request[t].id
  BY <1>2, <1>3 DEF Busy
<1>5. \A t \in Busy' : Looking(request'[t]) => request'[t].place \in Places
  BY <1>2, <1>3, <1>4 DEF Busy, TypeOK, Looking, Idle
<1>6. QED
  BY <1>1, <1>4, <1>5 DEF TypeOK, Looking

(* The end of a request writes a typed record of what was asked for.        *)
LEMMA FinishType ==
  ASSUME TypeOK, NEW s \in Slots, request[s] \in Requests, Finish(s)
  PROVE  chosen' \in [Places \cup {Distilled} -> Phrases \cup {None}]
  BY DEF Finish, TypeOK, Requests

LEMMA InitType == Init => TypeOK
<1> SUFFICES ASSUME Init PROVE TypeOK
  OBVIOUS
<1>1. concept \in Concepts
  BY PhrasingsAssumption DEF Init, Concepts, Phrases
<1>2. Busy = {}
  BY DEF Init, Busy
<1>3. 0 \in Phrases /\ asked \in 0 .. MaxRequests
  BY PhrasingsAssumption DEF Init, Phrases
<1>4. chosen \in [Places \cup {Distilled} -> Phrases \cup {None}]
  BY <1>3 DEF Init
<1>5. overlapped \in BOOLEAN /\ mixed \in BOOLEAN /\ stopped \in BOOLEAN /\ raised \in BOOLEAN
  BY DEF Init
<1>6. QED
  BY <1>1, <1>2, <1>3, <1>4, <1>5 DEF Init, TypeOK

LEMMA BeginType ==
  ASSUME TypeOK, NEW s \in Slots, NEW what \in {"add", "select", "delete"},
         NEW place \in Places \cup {Distilled, None}, NEW p \in Phrases,
         NEW copy \in Concepts, NEW step \in {"find", "put"},
         step = "find" => what = "delete" \/ place \in Places,
         Begin(s, what, place, p, copy, step)
  PROVE  TypeOK'
<1> DEFINE r == [id |-> asked + 1, what |-> what, place |-> place, phrasing |-> p, step |-> step,
                 concept |-> copy, picked |-> None, todo |-> {}, broken |-> FALSE]
<1>1. asked + 1 \in Keys /\ asked' \in 0 .. MaxRequests /\ asked' = asked + 1
  BY PhrasingsAssumption DEF Begin, TypeOK, Keys
<1>2. r \in Requests
  BY <1>1 DEF Requests
<1>3. request' = [request EXCEPT ![s] = r] /\ request' \in [Slots -> Requests \cup {Idle}]
  BY <1>2 DEF Begin, TypeOK
<1>4. \A t \in Busy' : t = s \/ (t \in Busy /\ request'[t] = request[t])
  BY <1>3 DEF Busy, TypeOK
<1>5. request'[s] = r
  BY <1>3 DEF TypeOK
<1>6. \A t \in Busy : request[t].id \in Nat /\ request[t].id <= asked
  BY BusyIsRequest DEF Busy, Requests, Keys
<1>7. (\A t, u \in Busy : request[t].id <= asked
                          /\ (request[t].id = request[u].id => t = u))'
  BY <1>1, <1>4, <1>5, <1>6 DEF TypeOK
<1>8. (\A t \in Busy : Looking(request[t]) => request[t].place \in Places)'
  BY <1>4, <1>5 DEF TypeOK, Looking
<1>9. overlapped' \in BOOLEAN /\ mixed' \in BOOLEAN
  BY DEF Begin
<1>10. QED
  BY <1>1, <1>3, <1>7, <1>8, <1>9 DEF Begin, TypeOK

LEMMA ShowingType ==
  ASSUME NEW copy \in Concepts, NEW place, NEW p \in Phrases
  PROVE  Showing(copy, place, p) \in Concepts
  BY DEF Showing, Concepts

LEMMA NextType == TypeOK /\ [Next]_phrVars => TypeOK'
<1> SUFFICES ASSUME TypeOK, [Next]_phrVars PROVE TypeOK'
  OBVIOUS
<1>1. ASSUME NEW s \in Slots, NEW place \in Places \cup {Distilled}, Add(s, place)
      PROVE  TypeOK'
  <2>1. asked + 1 \in Phrases
    BY <1>1, PhrasingsAssumption DEF Add, Begin, TypeOK, Phrases
  <2>2. [concept EXCEPT !.phrasings = @ \cup {asked + 1}] \in Concepts
    BY <2>1 DEF TypeOK, Concepts
  <2>3. FirstStep(place) \in {"find", "put"} /\ (FirstStep(place) = "find" => place \in Places)
    BY DEF FirstStep
  <2>4. QED
    BY <1>1, <2>1, <2>2, <2>3, ShowingType, BeginType DEF Add
<1>2. ASSUME NEW s \in Slots, NEW place \in Places \cup {Distilled}, NEW p \in stored,
             Select(s, place, p)
      PROVE  TypeOK'
  <2>1. p \in Phrases /\ concept \in Concepts
    BY DEF TypeOK
  <2>2. FirstStep(place) \in {"find", "put"} /\ (FirstStep(place) = "find" => place \in Places)
    BY DEF FirstStep
  <2>3. QED
    BY <1>2, <2>1, <2>2, ShowingType, BeginType DEF Select
<1>3. ASSUME NEW s \in Slots, NEW p \in stored, Delete(s, p)
      PROVE  TypeOK'
  <2>1. p \in Phrases /\ [concept EXCEPT !.phrasings = @ \ {p}] \in Concepts
    BY DEF TypeOK, Concepts
  <2>2. QED
    BY <1>3, <2>1, BeginType DEF Delete
<1>4. ASSUME NEW s \in Slots, Find(s)
      PROVE  TypeOK'
  <2>1. s \in Busy /\ request[s] \in Requests /\ request[s].place \in Places
    BY <1>4, BusyIsRequest DEF Find, TypeOK, Looking
  <2>2. ASSUME NEW k \in ForPlace(request[s]),
               Continue(s, [request[s] EXCEPT !.picked = k, !.step = "choose"])
        PROVE  TypeOK'
    <3>1. k \in Keys
      BY <2>1, PhrasingsAssumption DEF ForPlace, Requests, Concepts
    <3> DEFINE r == [request[s] EXCEPT !.picked = k, !.step = "choose"]
    <3>2. r \in Requests /\ r.id = request[s].id /\ r.place \in Places
      BY <2>1, <3>1 DEF Requests
    <3>3. request' = [request EXCEPT ![s] = r]
      BY <2>2 DEF Continue
    <3>4. QED
      BY <1>4, <2>1, <3>2, <3>3, SlotType DEF Find, TypeOK
  <2>3. ASSUME Continue(s, [request[s] EXCEPT !.picked = request[s].id, !.step = "choose",
               !.concept.lists[Kind[request[s].place]] = @ \cup {request[s].id}])
        PROVE  TypeOK'
    <3> DEFINE K == Kind[request[s].place]
               copy == [request[s].concept EXCEPT !.lists[K] = @ \cup {request[s].id}]
               r == [request[s] EXCEPT !.picked = request[s].id, !.step = "choose",
                                       !.concept = copy]
    <3>1. request[s].concept \in Concepts /\ request[s].id \in Keys /\ K \in Kinds
      BY <2>1, PhrasingsAssumption DEF Requests
    <3>2. copy \in Concepts
      BY <3>1 DEF Concepts
    <3>3. r \in Requests /\ r.id = request[s].id /\ r.place \in Places
      BY <2>1, <3>1, <3>2 DEF Requests
    <3>4. request' = [request EXCEPT ![s] = r]
      BY <2>1, <2>3, <3>1 DEF Continue, Requests, Concepts
    <3>5. QED
      BY <1>4, <2>1, <3>3, <3>4, SlotType DEF Find, TypeOK
  <2>4. QED
    BY <1>4, <2>2, <2>3 DEF Find
<1>5. ASSUME NEW s \in Slots, FindToDelete(s)
      PROVE  TypeOK'
  <2> DEFINE list == request[s].concept.lists["document"]
             todo == {k \in list : selections[k] # None
                                   /\ selections[k].phrasing = request[s].phrasing}
             r == [request[s] EXCEPT !.todo = todo, !.broken = Dead(list) # {}, !.step = "drop"]
  <2>1. s \in Busy /\ request[s] \in Requests
    BY <1>5, BusyIsRequest DEF FindToDelete
  <2>2. todo \subseteq Keys
    BY <2>1 DEF Requests, Concepts, Kinds
  <2>3. (Dead(list) # {}) \in BOOLEAN
    OBVIOUS
  <2>4. r \in Requests /\ r.id = request[s].id /\ ~Looking(r)
    BY <2>1, <2>2, <2>3 DEF Requests, Looking
  <2>5. request' = [request EXCEPT ![s] = r]
    BY <1>5 DEF FindToDelete, Continue
  <2>6. QED
    BY <1>5, <2>1, <2>4, <2>5, SlotType DEF FindToDelete, TypeOK
<1>6. ASSUME NEW s \in Slots, Raise(s)
      PROVE  TypeOK'
  BY <1>6, SlotType DEF Raise, TypeOK
<1>7. ASSUME NEW s \in Slots, PutSelection(s)
      PROVE  TypeOK'
  <2>1. s \in Busy /\ request[s] \in Requests /\ request[s].place \in Places
    BY <1>7, BusyIsRequest DEF PutSelection, TypeOK, Looking
  <2>2. selections' \in [Keys -> [place : Places, phrasing : Phrases] \cup {None}]
    <3>1. [place |-> request[s].place, phrasing |-> request[s].phrasing]
            \in [place : Places, phrasing : Phrases]
      BY <2>1 DEF Requests
    <3>2. QED
      BY <1>7, <3>1 DEF PutSelection, TypeOK
  <2>3. ASSUME Finish(s)
        PROVE  TypeOK'
    <3>1. request' = [request EXCEPT ![s] = Idle]
      BY <2>3 DEF Finish
    <3>2. QED
      BY <1>7, <2>1, <2>2, <2>3, <3>1, SlotType, FinishType DEF PutSelection, TypeOK
  <2>4. ASSUME Continue(s, [request[s] EXCEPT !.step = "put"]), UNCHANGED chosen
        PROVE  TypeOK'
    <3> DEFINE r == [request[s] EXCEPT !.step = "put"]
    <3>1. r \in Requests /\ r.id = request[s].id /\ ~Looking(r)
      BY <2>1 DEF Requests, Looking
    <3>2. QED
      BY <1>7, <2>1, <2>2, <2>4, <3>1, SlotType DEF PutSelection, Continue, TypeOK
  <2>5. QED
    BY <1>7, <2>3, <2>4 DEF PutSelection
<1>8. ASSUME NEW s \in Slots, Drop(s)
      PROVE  TypeOK'
  <2>1. s \in Busy /\ request[s] \in Requests
    BY <1>8, BusyIsRequest DEF Drop
  <2>2. PICK k \in request[s].todo :
          /\ selections' = [selections EXCEPT ![k] = None]
          /\ Continue(s, [request[s] EXCEPT !.todo = @ \ {k},
                                            !.concept.lists["document"] = @ \ {k}])
    BY <1>8 DEF Drop
  <2> DEFINE copy == [request[s].concept EXCEPT !.lists["document"] = @ \ {k}]
             r == [request[s] EXCEPT !.todo = @ \ {k}, !.concept = copy]
  <2>3. copy \in Concepts
    BY <2>1 DEF Requests, Concepts, Kinds
  <2>4. r \in Requests /\ r.id = request[s].id /\ r.step = "drop"
    BY <1>8, <2>1, <2>3 DEF Drop, Requests
  <2>5. request' = [request EXCEPT ![s] = r]
    BY <2>1, <2>2 DEF Continue, Requests, Concepts
  <2>6. selections' \in [Keys -> [place : Places, phrasing : Phrases] \cup {None}]
    BY <2>2 DEF TypeOK
  <2>7. QED
    BY <1>8, <2>1, <2>4, <2>5, <2>6, SlotType DEF Drop, TypeOK, Looking
<1>9. ASSUME NEW s \in Slots, PutConcept(s)
      PROVE  TypeOK'
  <2>1. s \in Busy /\ request[s] \in Requests
    BY <1>9, BusyIsRequest DEF PutConcept
  <2>2. concept' \in Concepts /\ stored' \in SUBSET Phrases
    BY <1>9, <2>1 DEF PutConcept, Requests, TypeOK
  <2>3. ASSUME Finish(s)
        PROVE  TypeOK'
    <3>1. request' = [request EXCEPT ![s] = Idle]
      BY <2>3 DEF Finish
    <3>2. QED
      BY <1>9, <2>1, <2>2, <2>3, <3>1, SlotType, FinishType DEF PutConcept, TypeOK
  <2>4. ASSUME Continue(s, [request[s] EXCEPT !.step = "erase"]), UNCHANGED chosen
        PROVE  TypeOK'
    <3> DEFINE r == [request[s] EXCEPT !.step = "erase"]
    <3>1. r \in Requests /\ r.id = request[s].id /\ ~Looking(r)
      BY <2>1 DEF Requests, Looking
    <3>2. QED
      BY <1>9, <2>1, <2>2, <2>4, <3>1, SlotType DEF PutConcept, Continue, TypeOK
  <2>5. QED
    BY <1>9, <2>3, <2>4 DEF PutConcept
<1>10. ASSUME NEW s \in Slots, Erase(s)
       PROVE  TypeOK'
  <2>1. s \in Busy /\ request[s] \in Requests
    BY <1>10, BusyIsRequest DEF Erase
  <2>2. request' = [request EXCEPT ![s] = Idle] /\ stored' \in SUBSET Phrases
    BY <1>10 DEF Erase, Finish, TypeOK
  <2>3. QED
    BY <1>10, <2>1, <2>2, SlotType, FinishType DEF Erase, TypeOK
<1>11. ASSUME NEW s \in Slots, Stop(s)
       PROVE  TypeOK'
  <2>1. mixed' \in BOOLEAN
    BY <1>11 DEF Stop
  <2>2. QED
    BY <1>11, <2>1, SlotType DEF Stop, TypeOK
<1>12. CASE UNCHANGED phrVars
  BY <1>12 DEF phrVars, TypeOK, Busy
<1>13. QED
  BY <1>1, <1>2, <1>3, <1>4, <1>5, <1>6, <1>7, <1>8, <1>9, <1>10, <1>11, <1>12 DEF Next

(* Every variable keeps its type, and no two requests share a number.       *)
THEOREM TypeCorrect == Spec => []TypeOK
<1>1. QED
  BY InitType, NextType, PTL DEF Spec

-----------------------------------------------------------------------------
(* One selection for each place. What is stored does not suffice: a request *)
(* may put a listed key back that another has deleted, so a key is for a    *)
(* place as well when a request is about to save it for that place.         *)
IsFor(k, p) ==
  \/ selections[k] # None /\ selections[k].place = p
  \/ \E s \in Busy : request[s].picked = k /\ request[s].place = p

\* No two keys of one list are for the same place.
Apart(lists) ==
  \A K \in Kinds, p \in Places : \A j, k \in lists[K] : IsFor(j, p) /\ IsFor(k, p) => j = k

\* The keys of a list are for places whose selections are in that list.
Fits(lists) == \A K \in Kinds, p \in Places : \A k \in lists[K] : IsFor(k, p) => Kind[p] = K

\* A number not listed anywhere, and no key of anything.
Unused(n) ==
  /\ \A p \in Places : ~IsFor(n, p)
  /\ \A K \in Kinds : n \notin concept.lists[K]
  /\ \A s \in Busy, K \in Kinds : n \notin request[s].concept.lists[K]

KeysApart ==
  /\ \A k \in Keys, p, q \in Places : IsFor(k, p) /\ IsFor(k, q) => p = q
  /\ Apart(concept.lists) /\ Fits(concept.lists)
  /\ \A s \in Busy : Apart(request[s].concept.lists) /\ Fits(request[s].concept.lists)
  /\ \A s \in Busy : request[s].step = "find" => Unused(request[s].id)
  /\ \A n \in Keys : n > asked => Unused(n)

LEMMA InitApart == Init => KeysApart
<1> SUFFICES ASSUME Init PROVE KeysApart
  OBVIOUS
<1>1. Busy = {} /\ \A k \in Keys, p \in Places : ~IsFor(k, p)
  BY DEF Init, Busy, IsFor
<1>2. \A K \in Kinds : concept.lists[K] = {}
  BY DEF Init
<1>3. QED
  BY <1>1, <1>2 DEF KeysApart, Apart, Fits, Unused

(* Most steps make no key to be for more, and list no more: the lists after *)
(* them are parts of lists before them.                                     *)
LEMMA ShrinkingKeepsApart ==
  ASSUME TypeOK, TypeOK', KeysApart, asked' = asked,
         \A k \in Keys, p \in Places : IsFor(k, p)' => IsFor(k, p),
         concept' = concept \/ \E s \in Busy : concept' = request[s].concept,
         \A s \in Busy' : /\ s \in Busy /\ request'[s].id = request[s].id
                          /\ (request'[s].step = "find" => request[s].step = "find")
                          /\ \A K \in Kinds : request'[s].concept.lists[K]
                                                \subseteq request[s].concept.lists[K]
  PROVE  KeysApart'
<1>1. \A K \in Kinds : concept'.lists[K] \subseteq Keys
  BY DEF TypeOK, Concepts
<1>2. \A s \in Busy, K \in Kinds : request[s].concept.lists[K] \subseteq Keys
  BY BusyIsRequest DEF Requests, Concepts
<1>3. Apart(concept.lists)'
  <2> SUFFICES ASSUME NEW K \in Kinds, NEW p \in Places, NEW j \in concept'.lists[K],
                      NEW k \in concept'.lists[K], IsFor(j, p)', IsFor(k, p)'
               PROVE  j = k
    BY DEF Apart
  <2>1. IsFor(j, p) /\ IsFor(k, p)
    BY <1>1
  <2>2. Apart(concept'.lists)
    BY DEF KeysApart
  <2>3. QED
    BY <2>1, <2>2 DEF Apart
<1>4. \A s \in Busy' : Apart(request[s].concept.lists)'
  <2> SUFFICES ASSUME NEW s \in Busy', NEW K \in Kinds, NEW p \in Places,
                      NEW j \in request'[s].concept.lists[K],
                      NEW k \in request'[s].concept.lists[K], IsFor(j, p)', IsFor(k, p)'
               PROVE  j = k
    BY DEF Apart
  <2>1. IsFor(j, p) /\ IsFor(k, p)
    BY <1>2
  <2>2. Apart(request[s].concept.lists)
    BY DEF KeysApart
  <2>3. QED
    BY <2>1, <2>2 DEF Apart
<1>a. Fits(concept.lists)' /\ \A s \in Busy' : Fits(request[s].concept.lists)'
  <2>1. Fits(concept.lists)'
    <3> SUFFICES ASSUME NEW K \in Kinds, NEW p \in Places, NEW k \in concept'.lists[K],
                        IsFor(k, p)'
                 PROVE  Kind[p] = K
      BY DEF Fits
    <3>1. IsFor(k, p)
      BY <1>1
    <3>2. Fits(concept'.lists)
      BY DEF KeysApart
    <3>3. QED
      BY <3>1, <3>2 DEF Fits
  <2>2. ASSUME NEW s \in Busy', NEW K \in Kinds, NEW p \in Places,
               NEW k \in request'[s].concept.lists[K], IsFor(k, p)'
        PROVE  Kind[p] = K
    <3>1. IsFor(k, p) /\ k \in request[s].concept.lists[K]
      BY <1>2, <2>2
    <3>2. Fits(request[s].concept.lists)
      BY DEF KeysApart
    <3>3. QED
      BY <3>1, <3>2 DEF Fits
  <2>3. QED
    BY <2>1, <2>2 DEF Fits
<1>5. ASSUME NEW n \in Keys, Unused(n)
      PROVE  Unused(n)'
  BY <1>5 DEF Unused
<1>6. \A s \in Busy' : request'[s].id \in Keys
  BY BusyIsRequest, TypeOK DEF Requests
<1>7. (\A s \in Busy : request[s].step = "find" => Unused(request[s].id))'
  <2> SUFFICES ASSUME NEW s \in Busy', request'[s].step = "find"
               PROVE  Unused(request[s].id)'
    OBVIOUS
  <2>1. Unused(request[s].id)
    BY DEF KeysApart
  <2>2. PICK n \in Keys : n = request[s].id /\ n = request'[s].id
    BY <1>6
  <2>3. Unused(n)'
    BY <1>5, <2>1, <2>2
  <2>4. QED
    BY <2>2, <2>3 DEF Unused
<1>8. (\A n \in Keys : n > asked => Unused(n))'
  BY <1>5 DEF KeysApart
<1>9. QED
  BY <1>3, <1>4, <1>a, <1>7, <1>8 DEF KeysApart

(* A request begins with the lists of the concept and a number not used.    *)
LEMMA BeginKeepsApart ==
  ASSUME TypeOK, KeysApart, NEW s \in Slots, NEW what, NEW place, NEW p, NEW copy, NEW step,
         copy.lists = concept.lists, Begin(s, what, place, p, copy, step)
  PROVE  KeysApart'
<1>1. asked + 1 \in Keys /\ asked' = asked + 1 /\ asked \in Nat
  BY PhrasingsAssumption DEF Begin, TypeOK, Keys
<1>2. \A t \in Busy' : t = s \/ (t \in Busy /\ request'[t] = request[t])
  BY DEF Begin, TypeOK, Busy
<1>3. /\ request'[s].id = asked + 1 /\ request'[s].picked = None
      /\ request'[s].concept.lists = concept.lists
  BY DEF Begin, TypeOK
<1>4. concept' = concept /\ selections' = selections
  BY DEF Begin
<1>5. ASSUME NEW k \in Keys, NEW q, IsFor(k, q)'
      PROVE  IsFor(k, q)
  <2>1. k # None
    BY PhrasingsAssumption DEF Keys
  <2>2. QED
    BY <1>2, <1>3, <1>4, <1>5, <2>1 DEF IsFor
<1>6. \A K \in Kinds : concept.lists[K] \subseteq Keys
  BY DEF TypeOK, Concepts
<1>7. \A t \in Busy, K \in Kinds : request[t].concept.lists[K] \subseteq Keys
  BY BusyIsRequest DEF Requests, Concepts
<1>8. Apart(concept.lists)'
  BY <1>4, <1>5, <1>6 DEF Apart, KeysApart
<1>9. \A t \in Busy' : Apart(request[t].concept.lists)'
  <2> SUFFICES ASSUME NEW t \in Busy', NEW K \in Kinds, NEW q \in Places,
                      NEW j \in request'[t].concept.lists[K],
                      NEW k \in request'[t].concept.lists[K], IsFor(j, q)', IsFor(k, q)'
               PROVE  j = k
    BY DEF Apart
  <2>1. request'[t].concept.lists = concept.lists
        \/ (t \in Busy /\ request'[t].concept.lists = request[t].concept.lists)
    BY <1>2, <1>3
  <2>2. IsFor(j, q) /\ IsFor(k, q)
    BY <1>5, <1>6, <1>7, <2>1
  <2>3. QED
    BY <2>1, <2>2 DEF Apart, KeysApart
<1>a. Fits(concept.lists)' /\ \A t \in Busy' : Fits(request[t].concept.lists)'
  <2>1. Fits(concept.lists)'
    BY <1>4, <1>5, <1>6 DEF Fits, KeysApart
  <2>2. ASSUME NEW t \in Busy', NEW K \in Kinds, NEW q \in Places,
               NEW k \in request'[t].concept.lists[K], IsFor(k, q)'
        PROVE  Kind[q] = K
    <3>1. request'[t].concept.lists = concept.lists
          \/ (t \in Busy /\ request'[t].concept.lists = request[t].concept.lists)
      BY <1>2, <1>3
    <3>2. IsFor(k, q)
      BY <1>5, <1>6, <1>7, <2>2, <3>1
    <3>3. QED
      BY <3>1, <3>2 DEF Fits, KeysApart
  <2>3. QED
    BY <2>1, <2>2 DEF Fits
<1>10. ASSUME NEW n \in Keys, Unused(n)
       PROVE  Unused(n)'
  BY <1>2, <1>3, <1>4, <1>5, <1>10 DEF Unused
<1>11. (\A t \in Busy : request[t].step = "find" => Unused(request[t].id))'
  <2> SUFFICES ASSUME NEW t \in Busy', request'[t].step = "find"
               PROVE  Unused(request[t].id)'
    OBVIOUS
  <2>1. asked + 1 > asked
    BY <1>1
  <2>2. CASE t = s
    <3>1. PICK n \in Keys : n = asked + 1 /\ Unused(n)
      BY <1>1, <2>1 DEF KeysApart
    <3>2. Unused(n)'
      BY <1>10, <3>1
    <3>3. QED
      BY <1>3, <2>2, <3>1, <3>2 DEF Unused
  <2>3. CASE t # s
    <3>1. t \in Busy /\ request'[t] = request[t] /\ request[t].id \in Keys
      BY <1>2, <2>3, BusyIsRequest DEF Requests
    <3>2. Unused(request[t].id)
      BY <3>1 DEF KeysApart
    <3>3. PICK n \in Keys : n = request[t].id /\ n = request'[t].id
      BY <3>1
    <3>4. Unused(n)'
      BY <1>10, <3>2, <3>3
    <3>5. QED
      BY <3>3, <3>4 DEF Unused
  <2>4. QED
    BY <2>2, <2>3
<1>12. (\A n \in Keys : n > asked => Unused(n))'
  <2> SUFFICES ASSUME NEW n \in Keys, n > asked'
               PROVE  Unused(n)'
    OBVIOUS
  <2>1. n > asked
    BY <1>1 DEF Keys
  <2>2. QED
    BY <1>10, <2>1 DEF KeysApart
<1>13. \A k \in Keys, q, v \in Places : IsFor(k, q)' /\ IsFor(k, v)' => q = v
  BY <1>5 DEF KeysApart
<1>14. QED
  BY <1>8, <1>9, <1>a, <1>11, <1>12, <1>13 DEF KeysApart

(* A selection that is found is for the place already; a new one gets a key *)
(* that is for nothing, in a list whose keys are alive and for other places.*)
LEMMA FindKeepsApart ==
  ASSUME TypeOK, TypeOK', KeysApart, NEW s \in Slots, Find(s)
  PROVE  KeysApart'
<1> DEFINE place == request[s].place
           lists == request[s].concept.lists
<1>1. /\ s \in Busy /\ request[s] \in Requests /\ place \in Places
      /\ request[s].step = "find" /\ asked' = asked
      /\ concept' = concept /\ selections' = selections
  BY BusyIsRequest DEF Find, TypeOK, Looking
<1>2. \A t \in Slots : t # s => request'[t] = request[t]
  BY DEF Find, Continue, TypeOK
<1>3. ASSUME NEW k \in ForPlace(request[s]),
             Continue(s, [request[s] EXCEPT !.picked = k, !.step = "choose"])
      PROVE  KeysApart'
  <2>1. /\ request'[s].picked = k /\ request'[s].place = place
        /\ request'[s].step = "choose" /\ request'[s].id = request[s].id
        /\ request'[s].concept = request[s].concept
    BY <1>1, <1>3 DEF Continue, TypeOK, Requests
  <2>2. \A t \in Busy' : t \in Busy
    BY <1>1, <1>2 DEF Busy
  <2>3. selections[k] # None /\ selections[k].place = place
    BY DEF ForPlace
  <2>4. \A j \in Keys, p \in Places : IsFor(j, p)' => IsFor(j, p)
    BY <1>1, <1>2, <2>1, <2>2, <2>3 DEF IsFor, Busy
  <2>5. \A t \in Busy' : /\ t \in Busy /\ request'[t].id = request[t].id
                         /\ (request'[t].step = "find" => request[t].step = "find")
                         /\ request'[t].concept = request[t].concept
    BY <1>2, <2>1, <2>2 DEF Busy
  <2>6. QED
    BY <1>1, <2>4, <2>5, ShrinkingKeepsApart
<1>4. ASSUME ForPlace(request[s]) = {}, Dead(lists[Kind[place]]) = {},
             Continue(s, [request[s] EXCEPT !.picked = request[s].id, !.step = "choose",
                            !.concept.lists[Kind[place]] = @ \cup {request[s].id}])
      PROVE  KeysApart'
  <2>1. PICK n \in Keys : n = request[s].id
    BY <1>1 DEF Requests
  <2>2. Unused(n)
    BY <1>1, <2>1 DEF KeysApart
  <2>3. Kind[place] \in Kinds /\ lists \in [Kinds -> SUBSET Keys]
    BY <1>1, PhrasingsAssumption DEF Requests, Concepts
  <2>4. /\ request'[s].picked = n /\ request'[s].place = place
        /\ request'[s].step = "choose" /\ request'[s].id = n
        /\ request'[s].concept.lists = [lists EXCEPT ![Kind[place]] = @ \cup {n}]
    BY <1>1, <1>4, <2>1 DEF Continue, TypeOK, Requests, Concepts
  <2>5. \A t \in Busy' : t \in Busy /\ (t # s => request'[t] = request[t])
    BY <1>1, <1>2 DEF Busy
  <2>6. ASSUME NEW k \in Keys, NEW p \in Places, IsFor(k, p)'
        PROVE  IsFor(k, p) \/ (k = n /\ p = place)
    BY <1>1, <2>4, <2>5, <2>6 DEF IsFor
  <2>7. \A k \in lists[Kind[place]] : ~IsFor(k, place)
    <3> SUFFICES ASSUME NEW k \in lists[Kind[place]], IsFor(k, place)
                 PROVE  FALSE
      OBVIOUS
    <3>1. k \in Keys /\ selections[k] # None /\ selections[k].place # place
      BY <1>4, <2>3 DEF Dead, ForPlace
    <3>2. selections[k].place \in Places /\ IsFor(k, selections[k].place)
      BY <3>1 DEF TypeOK, IsFor
    <3>3. QED
      BY <1>1, <3>1, <3>2 DEF KeysApart
  <2>8. \A k \in Keys, p, q \in Places : IsFor(k, p)' /\ IsFor(k, q)' => p = q
    BY <2>2, <2>6 DEF KeysApart, Unused
  <2>9. Apart(concept.lists)'
    <3>1. \A K \in Kinds : concept.lists[K] \subseteq Keys /\ n \notin concept.lists[K]
      BY <2>2 DEF TypeOK, Concepts, Unused
    <3>2. QED
      BY <1>1, <2>6, <3>1 DEF Apart, KeysApart
  <2>10. \A t \in Busy' : Apart(request[t].concept.lists)'
    <3> SUFFICES ASSUME NEW t \in Busy', NEW K \in Kinds, NEW p \in Places,
                        NEW j \in request'[t].concept.lists[K],
                        NEW k \in request'[t].concept.lists[K], IsFor(j, p)', IsFor(k, p)'
                 PROVE  j = k
      BY DEF Apart
    <3>1. CASE t # s
      <4>1. t \in Busy /\ request'[t] = request[t]
        BY <2>5, <3>1
      <4>2. j \in Keys /\ k \in Keys /\ j # n /\ k # n
        BY <2>2, <4>1, BusyIsRequest DEF Requests, Concepts, Unused
      <4>3. IsFor(j, p) /\ IsFor(k, p)
        BY <2>6, <4>2
      <4>4. QED
        BY <4>1, <4>3 DEF KeysApart, Apart
    <3>2. CASE t = s
      <4>1. /\ j \in lists[K] \/ (j = n /\ K = Kind[place])
            /\ k \in lists[K] \/ (k = n /\ K = Kind[place])
        BY <2>3, <2>4, <3>2
      <4>2. j \in Keys /\ k \in Keys
        BY <2>3, <4>1
      <4>3. IsFor(n, p)' => p = place
        BY <2>2, <2>6 DEF Unused
      <4>4. CASE j # n /\ k # n
        <5>1. IsFor(j, p) /\ IsFor(k, p)
          BY <2>6, <4>2, <4>4
        <5>2. QED
          BY <1>1, <4>1, <4>4, <5>1 DEF KeysApart, Apart
      <4>5. n \notin lists[K]
        BY <1>1, <2>2 DEF Unused
      <4>6. CASE j = n /\ k # n
        <5>1. K = Kind[place] /\ p = place /\ k \in lists[Kind[place]]
          BY <4>1, <4>3, <4>5, <4>6
        <5>2. IsFor(k, place)
          BY <2>6, <4>2, <4>6, <5>1
        <5>3. QED
          BY <2>7, <5>1, <5>2
      <4>7. CASE k = n /\ j # n
        <5>1. K = Kind[place] /\ p = place /\ j \in lists[Kind[place]]
          BY <4>1, <4>3, <4>5, <4>7
        <5>2. IsFor(j, place)
          BY <2>6, <4>2, <4>7, <5>1
        <5>3. QED
          BY <2>7, <5>1, <5>2
      <4>8. QED
        BY <4>4, <4>6, <4>7
    <3>3. QED
      BY <3>1, <3>2
  <2>a. Fits(concept.lists)'
    <3>1. \A K \in Kinds : concept.lists[K] \subseteq Keys /\ n \notin concept.lists[K]
      BY <2>2 DEF TypeOK, Concepts, Unused
    <3>2. QED
      BY <1>1, <2>6, <3>1 DEF Fits, KeysApart
  <2>b. \A t \in Busy' : Fits(request[t].concept.lists)'
    <3> SUFFICES ASSUME NEW t \in Busy', NEW K \in Kinds, NEW p \in Places,
                        NEW k \in request'[t].concept.lists[K], IsFor(k, p)'
                 PROVE  Kind[p] = K
      BY DEF Fits
    <3>1. CASE t \in Busy /\ k \in request[t].concept.lists[K]
      <4>1. k \in Keys /\ k # n
        BY <2>2, <3>1, BusyIsRequest DEF Requests, Concepts, Unused
      <4>2. IsFor(k, p)
        BY <2>6, <4>1
      <4>3. QED
        BY <3>1, <4>2 DEF KeysApart, Fits
    <3>2. CASE k = n /\ K = Kind[place]
      BY <2>2, <2>6, <3>2 DEF Unused
    <3>3. QED
      BY <1>1, <2>3, <2>4, <2>5, <3>1, <3>2
  <2>11. ASSUME NEW m \in Keys, m # n, Unused(m)
         PROVE  Unused(m)'
    <3>1. \A p \in Places : ~IsFor(m, p)'
      BY <2>6, <2>11 DEF Unused
    <3>2. \A t \in Busy', K \in Kinds : m \notin request'[t].concept.lists[K]
      BY <1>1, <2>3, <2>4, <2>5, <2>11 DEF Unused
    <3>3. QED
      BY <1>1, <2>11, <3>1, <3>2 DEF Unused
  <2>12. (\A t \in Busy : request[t].step = "find" => Unused(request[t].id))'
    <3> SUFFICES ASSUME NEW t \in Busy', request'[t].step = "find"
                 PROVE  Unused(request[t].id)'
      OBVIOUS
    <3>1. t # s /\ t \in Busy /\ request'[t] = request[t]
      BY <2>4, <2>5
    <3>2. PICK m \in Keys : m = request[t].id /\ m = request'[t].id
      BY <3>1, BusyIsRequest DEF Requests
    <3>3. m # n /\ Unused(m)
      BY <1>1, <2>1, <3>1, <3>2 DEF TypeOK, KeysApart
    <3>4. Unused(m)'
      BY <2>11, <3>3
    <3>5. QED
      BY <3>2, <3>4 DEF Unused
  <2>13. (\A m \in Keys : m > asked => Unused(m))'
    <3>1. n <= asked /\ asked \in Nat
      BY <1>1, <2>1, BusyIsRequest DEF TypeOK
    <3>2. \A m \in Keys : m > asked => m # n
      BY <3>1 DEF Keys
    <3>3. QED
      BY <1>1, <2>11, <3>2 DEF KeysApart
  <2>14. QED
    BY <2>8, <2>9, <2>10, <2>a, <2>b, <2>12, <2>13 DEF KeysApart
<1>5. QED
  BY <1>3, <1>4 DEF Find

(* A step that only ends a request or takes it on, with the lists it has, or*)
(* with some of them left out.                                              *)
LEMMA GoingOn ==
  ASSUME TypeOK, TypeOK', KeysApart, NEW s \in Busy, NEW r,
         r = Idle \/ (/\ r.id = request[s].id /\ r.step # "find"
                      /\ r.place = request[s].place /\ r.picked = request[s].picked
                      /\ \A K \in Kinds : r.concept.lists[K]
                                            \subseteq request[s].concept.lists[K]),
         request' = [request EXCEPT ![s] = r], asked' = asked,
         concept' = concept \/ concept' = request[s].concept,
         \A k \in Keys : selections'[k] = selections[k] \/ selections'[k] = None
           \/ (k = request[s].picked /\ selections'[k].place = request[s].place)
  PROVE  KeysApart'
<1>1. s \in Slots /\ request'[s] = r /\ \A t \in Slots : t # s => request'[t] = request[t]
  BY DEF TypeOK, Busy
<1>2. \A t \in Busy' : t \in Busy /\ (t = s => r # Idle)
  BY <1>1 DEF Busy
<1>3. \A k \in Keys, p \in Places : IsFor(k, p)' => IsFor(k, p)
  BY <1>1, <1>2 DEF IsFor
<1>4. \A t \in Busy' : /\ t \in Busy /\ request'[t].id = request[t].id
                       /\ (request'[t].step = "find" => request[t].step = "find")
                       /\ \A K \in Kinds : request'[t].concept.lists[K]
                                             \subseteq request[t].concept.lists[K]
  BY <1>1, <1>2 DEF Busy
<1>5. QED
  BY <1>3, <1>4, ShrinkingKeepsApart

LEMMA NextApart == TypeOK /\ TypeOK' /\ KeysApart /\ [Next]_phrVars => KeysApart'
<1> SUFFICES ASSUME TypeOK, TypeOK', KeysApart, [Next]_phrVars PROVE KeysApart'
  OBVIOUS
<1>1. ASSUME NEW s \in Slots, NEW place \in Places \cup {Distilled}, Add(s, place)
      PROVE  KeysApart'
  <2> DEFINE copy == [concept EXCEPT !.phrasings = @ \cup {asked + 1}]
  <2>1. Showing(copy, place, asked + 1).lists = concept.lists
    BY DEF TypeOK, Concepts, Showing
  <2>2. QED
    BY <1>1, <2>1, BeginKeepsApart DEF Add
<1>2. ASSUME NEW s \in Slots, NEW place \in Places \cup {Distilled}, NEW p \in stored,
             Select(s, place, p)
      PROVE  KeysApart'
  <2>1. Showing(concept, place, p).lists = concept.lists
    BY DEF TypeOK, Concepts, Showing
  <2>2. QED
    BY <1>2, <2>1, BeginKeepsApart DEF Select
<1>3. ASSUME NEW s \in Slots, NEW p \in stored, Delete(s, p)
      PROVE  KeysApart'
  <2>1. [concept EXCEPT !.phrasings = @ \ {p}].lists = concept.lists
    BY DEF TypeOK, Concepts
  <2>2. QED
    BY <1>3, <2>1, BeginKeepsApart DEF Delete
<1>4. ASSUME NEW s \in Slots, Find(s)
      PROVE  KeysApart'
  BY <1>4, FindKeepsApart
<1>5. ASSUME NEW s \in Slots, FindToDelete(s)
      PROVE  KeysApart'
  <2> DEFINE list == request[s].concept.lists["document"]
             todo == {k \in list : selections[k] # None
                                   /\ selections[k].phrasing = request[s].phrasing}
             r == [request[s] EXCEPT !.todo = todo, !.broken = Dead(list) # {}, !.step = "drop"]
  <2>1. s \in Busy /\ request[s] \in Requests
    BY <1>5, BusyIsRequest DEF FindToDelete
  <2>2. /\ r.id = request[s].id /\ r.step = "drop" /\ r.place = request[s].place
        /\ r.picked = request[s].picked /\ r.concept = request[s].concept
    BY <2>1 DEF Requests
  <2>3. request' = [request EXCEPT ![s] = r]
    BY <1>5 DEF FindToDelete, Continue
  <2>4. QED
    BY <1>5, <2>1, <2>2, <2>3, GoingOn DEF FindToDelete
<1>6. ASSUME NEW s \in Slots, Raise(s)
      PROVE  KeysApart'
  BY <1>6, GoingOn DEF Raise
<1>7. ASSUME NEW s \in Slots, PutSelection(s)
      PROVE  KeysApart'
  <2>1. s \in Busy /\ request[s] \in Requests
    BY <1>7, BusyIsRequest DEF PutSelection
  <2>2. \A k \in Keys : selections'[k] = selections[k]
          \/ (k = request[s].picked /\ selections'[k].place = request[s].place)
    BY <1>7 DEF PutSelection, TypeOK
  <2> DEFINE r == [request[s] EXCEPT !.step = "put"]
  <2>3. /\ r.id = request[s].id /\ r.step = "put" /\ r.place = request[s].place
        /\ r.picked = request[s].picked /\ r.concept = request[s].concept
    BY <2>1 DEF Requests
  <2>4. request' = [request EXCEPT ![s] = r] \/ request' = [request EXCEPT ![s] = Idle]
    BY <1>7 DEF PutSelection, Continue, Finish
  <2>5. asked' = asked /\ concept' = concept
    BY <1>7 DEF PutSelection
  <2>6. CASE request' = [request EXCEPT ![s] = r]
    BY <2>1, <2>2, <2>3, <2>5, <2>6, GoingOn
  <2>7. CASE request' = [request EXCEPT ![s] = Idle]
    BY <2>1, <2>2, <2>5, <2>7, GoingOn
  <2>8. QED
    BY <2>4, <2>6, <2>7
<1>8. ASSUME NEW s \in Slots, Drop(s)
      PROVE  KeysApart'
  <2>1. s \in Busy /\ request[s] \in Requests
    BY <1>8, BusyIsRequest DEF Drop
  <2>2. PICK k \in request[s].todo :
          /\ selections' = [selections EXCEPT ![k] = None]
          /\ Continue(s, [request[s] EXCEPT !.todo = @ \ {k},
                                            !.concept.lists["document"] = @ \ {k}])
    BY <1>8 DEF Drop
  <2> DEFINE copy == [request[s].concept EXCEPT !.lists["document"] = @ \ {k}]
             r == [request[s] EXCEPT !.todo = @ \ {k}, !.concept = copy]
  <2>3. /\ r.id = request[s].id /\ r.step = "drop" /\ r.place = request[s].place
        /\ r.picked = request[s].picked
        /\ \A K \in Kinds : r.concept.lists[K] \subseteq request[s].concept.lists[K]
    BY <1>8, <2>1 DEF Drop, Requests, Concepts
  <2>4. request' = [request EXCEPT ![s] = r]
    BY <2>1, <2>2 DEF Continue, Requests, Concepts
  <2>5. \A j \in Keys : selections'[j] = selections[j] \/ selections'[j] = None
    BY <2>2 DEF TypeOK
  <2>6. QED
    BY <1>8, <2>1, <2>3, <2>4, <2>5, GoingOn DEF Drop
<1>9. ASSUME NEW s \in Slots, PutConcept(s)
      PROVE  KeysApart'
  <2>1. s \in Busy /\ request[s] \in Requests
    BY <1>9, BusyIsRequest DEF PutConcept
  <2> DEFINE r == [request[s] EXCEPT !.step = "erase"]
  <2>2. /\ r.id = request[s].id /\ r.step = "erase" /\ r.place = request[s].place
        /\ r.picked = request[s].picked /\ r.concept = request[s].concept
    BY <2>1 DEF Requests
  <2>3. request' = [request EXCEPT ![s] = r] \/ request' = [request EXCEPT ![s] = Idle]
    BY <1>9 DEF PutConcept, Continue, Finish
  <2>4. QED
    BY <1>9, <2>1, <2>2, <2>3, GoingOn DEF PutConcept
<1>10. ASSUME NEW s \in Slots, Erase(s)
       PROVE  KeysApart'
  BY <1>10, GoingOn DEF Erase, Finish
<1>11. ASSUME NEW s \in Slots, Stop(s)
       PROVE  KeysApart'
  BY <1>11, GoingOn DEF Stop
<1>12. CASE UNCHANGED phrVars
  BY <1>12 DEF phrVars, KeysApart, Apart, Fits, Unused, IsFor, Busy
<1>13. QED
  BY <1>1, <1>2, <1>3, <1>4, <1>5, <1>6, <1>7, <1>8, <1>9, <1>10, <1>11, <1>12 DEF Next

(* Whatever overlaps or stops, in any number of slots: the stored concept   *)
(* never lists two selections for one document, summary or presentation.    *)
THEOREM SelectedOnce == Spec => []OneSelectionEach
<1>1. KeysApart => OneSelectionEach
  BY PhrasingsAssumption DEF KeysApart, Apart, IsFor, OneSelectionEach, Shown
<1>2. QED
  BY <1>1, TypeCorrect, InitApart, NextApart, PTL DEF Spec

-----------------------------------------------------------------------------
(* What the steps do to the slots, for the invariants below.                *)

LEMMA BeginFacts ==
  ASSUME TypeOK, NEW s \in Slots, NEW what, NEW place, NEW p, NEW copy, NEW step,
         step \in {"find", "put"}, Begin(s, what, place, p, copy, step)
  PROVE  /\ s \notin Busy /\ Busy' = Busy \cup {s}
         /\ \A t \in Busy : request'[t] = request[t]
         /\ request'[s].what = what /\ request'[s].place = place
         /\ request'[s].phrasing = p /\ request'[s].step = step
         /\ request'[s].concept = copy /\ request'[s].picked = None
         /\ overlapped' = (overlapped \/ Busy # {})
         /\ mixed' = (mixed \/ (Busy # {} /\ (what = "delete" \/ Deleting # {})))
         /\ UNCHANGED <<concept, selections, stored, chosen, stopped, raised>>
<1> DEFINE r == [id |-> asked + 1, what |-> what, place |-> place, phrasing |-> p, step |-> step,
                 concept |-> copy, picked |-> None, todo |-> {}, broken |-> FALSE]
<1>1. request' = [request EXCEPT ![s] = r] /\ s \notin Busy
  BY DEF Begin
<1>2. r.step # "idle" /\ Idle.step = "idle"
  BY DEF Idle
<1>3. /\ r.what = what /\ r.place = place /\ r.phrasing = p /\ r.step = step
      /\ r.concept = copy /\ r.picked = None
  OBVIOUS
<1> HIDE DEF r
<1>4. request'[s] = r /\ \A t \in Slots : t # s => request'[t] = request[t]
  BY <1>1 DEF TypeOK
<1>5. Busy' = Busy \cup {s} /\ \A t \in Busy : request'[t] = request[t]
  BY <1>1, <1>2, <1>4 DEF Busy
<1>6. QED
  BY <1>1, <1>3, <1>4, <1>5 DEF Begin

LEMMA GoFacts ==
  ASSUME TypeOK, NEW s \in Busy, NEW r \in Requests, request' = [request EXCEPT ![s] = r]
  PROVE  /\ Busy' = Busy /\ request'[s] = r
         /\ \A t \in Busy : t # s => request'[t] = request[t]
<1>1. r # Idle
  BY DEF Requests, Idle
<1>2. s \in Slots /\ request'[s] = r /\ \A t \in Slots : t # s => request'[t] = request[t]
  BY DEF Busy, TypeOK
<1>3. QED
  BY <1>1, <1>2 DEF Busy

LEMMA EndFacts ==
  ASSUME TypeOK, NEW s \in Busy, request' = [request EXCEPT ![s] = Idle]
  PROVE  Busy' = Busy \ {s} /\ \A t \in Busy' : request'[t] = request[t]
<1>1. s \in Slots /\ request'[s] = Idle /\ \A t \in Slots : t # s => request'[t] = request[t]
  BY DEF Busy, TypeOK
<1>2. QED
  BY <1>1 DEF Busy

(* How a request begins, whichever of the three it is.                      *)
Begins(s) ==
  \/ \E place \in Places \cup {Distilled} : Add(s, place) \/ \E p \in stored : Select(s, place, p)
  \/ \E p \in stored : Delete(s, p)

LEMMA BeginsFacts ==
  ASSUME TypeOK, NEW s \in Slots, Begins(s)
  PROVE  /\ s \notin Busy /\ Busy' = Busy \cup {s}
         /\ \A t \in Busy : request'[t] = request[t]
         /\ request'[s].what \in {"add", "select", "delete"}
         /\ request'[s].what = "delete" => /\ request'[s].step = "find" /\ request'[s].place = None
                                           /\ request'[s].phrasing # concept.distilled
                                           /\ request'[s].phrasing \in stored
         /\ request'[s].what # "delete" => /\ request'[s].place \in Places \cup {Distilled}
                                           /\ request'[s].step = FirstStep(request'[s].place)
         /\ request'[s].what = "select" => request'[s].phrasing \in stored
         /\ request'[s].concept.lists = concept.lists
         /\ request'[s].concept.distilled =
              IF request'[s].place = Distilled THEN request'[s].phrasing ELSE concept.distilled
         /\ request'[s].picked = None
         /\ overlapped' = (overlapped \/ Busy # {})
         /\ mixed' = (mixed \/ (Busy # {} /\ (request'[s].what = "delete" \/ Deleting # {})))
         /\ UNCHANGED <<concept, selections, stored, chosen, stopped, raised>>
<1>0. concept \in Concepts
  BY DEF TypeOK
<1>1. \A place \in Places \cup {Distilled} : FirstStep(place) \in {"find", "put"}
  BY DEF FirstStep
<1>2. ASSUME NEW place \in Places \cup {Distilled}, NEW p, NEW copy \in Concepts,
             copy.lists = concept.lists, copy.distilled = concept.distilled
      PROVE  /\ Showing(copy, place, p).lists = concept.lists
             /\ Showing(copy, place, p).distilled =
                  IF place = Distilled THEN p ELSE concept.distilled
  BY <1>2 DEF Showing, Concepts
<1>3. CASE \E place \in Places \cup {Distilled} : Add(s, place)
  <2>1. PICK place \in Places \cup {Distilled} : Add(s, place)
    BY <1>3
  <2> DEFINE copy == [concept EXCEPT !.phrasings = @ \cup {asked + 1}]
             shown == Showing(copy, place, asked + 1)
  <2>2. /\ shown.lists = concept.lists
        /\ shown.distilled = IF place = Distilled THEN asked + 1 ELSE concept.distilled
    <3>1. copy.lists = concept.lists /\ copy.distilled = concept.distilled
      BY <1>0 DEF Concepts
    <3>2. copy \in [phrasings : SUBSET (Phrases \cup {asked + 1}), distilled : Phrases,
                    lists : [Kinds -> SUBSET Keys]]
      BY <1>0 DEF Concepts
    <3> HIDE DEF copy
    <3>3. QED
      BY <3>1, <3>2 DEF Showing
  <2>3. Begin(s, "add", place, asked + 1, shown, FirstStep(place))
    BY <2>1 DEF Add
  <2> HIDE DEF shown
  <2>4. QED
    BY <1>1, <2>2, <2>3, BeginFacts
<1>4. CASE \E place \in Places \cup {Distilled}, p \in stored : Select(s, place, p)
  <2>1. PICK place \in Places \cup {Distilled}, p \in stored : Select(s, place, p)
    BY <1>4
  <2>2. QED
    BY <1>0, <1>1, <1>2, <2>1, BeginFacts DEF Select
<1>5. CASE \E p \in stored : Delete(s, p)
  <2>1. PICK p \in stored : Delete(s, p)
    BY <1>5
  <2> DEFINE copy == [concept EXCEPT !.phrasings = @ \ {p}]
  <2>2. copy.lists = concept.lists /\ copy.distilled = concept.distilled
    BY <1>0 DEF Concepts
  <2>3. Begin(s, "delete", None, p, copy, "find") /\ p # concept.distilled
    BY <2>1 DEF Delete
  <2> HIDE DEF copy
  <2>5. QED
    BY <2>2, <2>3, BeginFacts, PhrasingsAssumption
<1>6. QED
  BY <1>3, <1>4, <1>5 DEF Begins

\* What a request keeps while it goes on.
SameTask(r, q) ==
  /\ r.id = q.id /\ r.what = q.what /\ r.place = q.place /\ r.phrasing = q.phrasing
  /\ r.concept.distilled = q.concept.distilled

LEMMA FindFacts ==
  ASSUME TypeOK, NEW s \in Slots, Find(s)
  PROVE  /\ s \in Busy /\ request[s].step = "find" /\ request[s].what # "delete"
         /\ request[s].place \in Places
         /\ \E r \in Requests :
              /\ request' = [request EXCEPT ![s] = r] /\ SameTask(r, request[s])
              /\ r.step = "choose"
              /\ \/ r.picked \in ForPlace(request[s]) /\ r.concept.lists = request[s].concept.lists
                 \/ /\ ForPlace(request[s]) = {} /\ r.picked = r.id
                    /\ r.concept.lists = [request[s].concept.lists EXCEPT
                                            ![Kind[r.place]] = @ \cup {r.id}]
<1>1. /\ s \in Busy /\ request[s] \in Requests /\ request[s].place \in Places
      /\ request[s].step = "find" /\ request[s].what # "delete"
  BY BusyIsRequest DEF Find, TypeOK, Looking
<1>2. ASSUME NEW k \in ForPlace(request[s]),
             Continue(s, [request[s] EXCEPT !.picked = k, !.step = "choose"])
      PROVE  \E r \in Requests :
              /\ request' = [request EXCEPT ![s] = r] /\ SameTask(r, request[s])
              /\ r.step = "choose"
              /\ r.picked \in ForPlace(request[s]) /\ r.concept.lists = request[s].concept.lists
  <2>1. k \in Keys
    BY <1>1, PhrasingsAssumption DEF ForPlace, Requests, Concepts
  <2> DEFINE r == [request[s] EXCEPT !.picked = k, !.step = "choose"]
  <2>2. /\ r \in Requests /\ SameTask(r, request[s]) /\ r.step = "choose"
        /\ r.picked = k /\ r.concept = request[s].concept
    BY <1>1, <2>1 DEF Requests, SameTask
  <2>3. request' = [request EXCEPT ![s] = r]
    BY <1>2 DEF Continue
  <2> HIDE DEF r
  <2>4. QED
    BY <2>2, <2>3
<1>3. ASSUME ForPlace(request[s]) = {},
             Continue(s, [request[s] EXCEPT !.picked = request[s].id, !.step = "choose",
               !.concept.lists[Kind[request[s].place]] = @ \cup {request[s].id}])
      PROVE  \E r \in Requests :
              /\ request' = [request EXCEPT ![s] = r] /\ SameTask(r, request[s])
              /\ r.step = "choose"
              /\ ForPlace(request[s]) = {} /\ r.picked = r.id
              /\ r.concept.lists = [request[s].concept.lists EXCEPT
                                      ![Kind[r.place]] = @ \cup {r.id}]
  <2> DEFINE K == Kind[request[s].place]
             copy == [request[s].concept EXCEPT !.lists[K] = @ \cup {request[s].id}]
             r == [request[s] EXCEPT !.picked = request[s].id, !.step = "choose",
                                     !.concept = copy]
  <2>1. request[s].concept \in Concepts /\ request[s].id \in Keys /\ K \in Kinds
    BY <1>1, PhrasingsAssumption DEF Requests
  <2>2. /\ copy \in Concepts /\ copy.distilled = request[s].concept.distilled
        /\ copy.lists = [request[s].concept.lists EXCEPT ![K] = @ \cup {request[s].id}]
    BY <2>1 DEF Concepts
  <2>3. request' = [request EXCEPT ![s] = r]
    BY <1>1, <1>3, <2>1 DEF Continue, Requests, Concepts
  <2> HIDE DEF copy
  <2>4. /\ r \in Requests /\ r.id = request[s].id /\ r.what = request[s].what
        /\ r.place = request[s].place /\ r.phrasing = request[s].phrasing
        /\ r.step = "choose" /\ r.picked = request[s].id /\ r.concept = copy
    BY <1>1, <2>1, <2>2 DEF Requests
  <2> HIDE DEF r
  <2>5. QED
    BY <1>3, <2>2, <2>3, <2>4 DEF SameTask
<1>4. QED
  BY <1>1, <1>2, <1>3 DEF Find

LEMMA FindToDeleteFacts ==
  ASSUME TypeOK, NEW s \in Slots, FindToDelete(s)
  PROVE  /\ s \in Busy /\ request[s].step = "find" /\ request[s].what = "delete"
         /\ \E r \in Requests :
              /\ request' = [request EXCEPT ![s] = r] /\ SameTask(r, request[s])
              /\ r.step = "drop" /\ r.concept.lists = request[s].concept.lists
              /\ r.todo = {k \in request[s].concept.lists["document"] :
                             selections[k] # None /\ selections[k].phrasing = r.phrasing}
              /\ r.broken = (Dead(request[s].concept.lists["document"]) # {})
<1> DEFINE list == request[s].concept.lists["document"]
           todo == {k \in list : selections[k] # None
                                 /\ selections[k].phrasing = request[s].phrasing}
           broken == Dead(list) # {}
           r == [request[s] EXCEPT !.todo = todo, !.broken = broken, !.step = "drop"]
<1>1. /\ s \in Busy /\ request[s] \in Requests
      /\ request[s].step = "find" /\ request[s].what = "delete"
  BY BusyIsRequest DEF FindToDelete
<1>2. todo \subseteq Keys /\ broken \in BOOLEAN
  BY <1>1 DEF Requests, Concepts, Kinds
<1>3. request' = [request EXCEPT ![s] = r]
  BY DEF FindToDelete, Continue
<1> HIDE DEF todo, broken
<1>4. /\ r \in Requests /\ r.id = request[s].id /\ r.what = request[s].what
      /\ r.place = request[s].place /\ r.phrasing = request[s].phrasing
      /\ r.step = "drop" /\ r.concept = request[s].concept /\ r.todo = todo /\ r.broken = broken
  BY <1>1, <1>2 DEF Requests
<1> HIDE DEF r
<1>5. QED
  BY <1>1, <1>3, <1>4 DEF SameTask, todo, broken

LEMMA PutSelectionFacts ==
  ASSUME TypeOK, NEW s \in Slots, PutSelection(s)
  PROVE  /\ s \in Busy /\ request[s].step = "choose" /\ request[s].place \in Places
         /\ \A k \in Keys : IF k = request[s].picked
                            THEN /\ selections'[k] # None
                                 /\ selections'[k].place = request[s].place
                                 /\ selections'[k].phrasing = request[s].phrasing
                            ELSE selections'[k] = selections[k]
         /\ \/ request[s].what = "select" /\ request[s].picked # request[s].id /\ Finish(s)
            \/ /\ UNCHANGED chosen /\ request[s].what = "select" => request[s].picked = request[s].id
               /\ \E r \in Requests :
                    /\ request' = [request EXCEPT ![s] = r] /\ SameTask(r, request[s])
                    /\ r.step = "put" /\ r.concept = request[s].concept
                    /\ r.picked = request[s].picked
<1>1. /\ s \in Busy /\ request[s] \in Requests
      /\ request[s].step = "choose" /\ request[s].place \in Places
  BY BusyIsRequest DEF PutSelection, TypeOK, Looking
<1> DEFINE sel == [place |-> request[s].place, phrasing |-> request[s].phrasing]
<1>2. sel # None
  <2>1. sel \in [place : Places, phrasing : Nat]
    BY <1>1, PhrasingsAssumption DEF Requests, Phrases
  <2>2. QED
    BY <2>1, PhrasingsAssumption
<1>3. selections' = [selections EXCEPT ![request[s].picked] = sel]
  BY DEF PutSelection
<1>4. \A k \in Keys : selections'[k] = IF k = request[s].picked THEN sel ELSE selections[k]
  BY <1>3 DEF TypeOK
<1> DEFINE r == [request[s] EXCEPT !.step = "put"]
<1>5. /\ r \in Requests /\ SameTask(r, request[s])
      /\ r.step = "put" /\ r.concept = request[s].concept /\ r.picked = request[s].picked
  BY <1>1 DEF Requests, SameTask
<1>6. \/ request[s].what = "select" /\ request[s].picked # request[s].id /\ Finish(s)
      \/ /\ UNCHANGED chosen /\ request[s].what = "select" => request[s].picked = request[s].id
         /\ request' = [request EXCEPT ![s] = r]
  BY DEF PutSelection, Continue
<1> HIDE DEF r
<1>7. QED
  BY <1>1, <1>2, <1>4, <1>5, <1>6

LEMMA DropFacts ==
  ASSUME TypeOK, NEW s \in Slots, Drop(s)
  PROVE  /\ s \in Busy /\ request[s].step = "drop"
         /\ \E k \in request[s].todo, r \in Requests :
              /\ selections' = [selections EXCEPT ![k] = None]
              /\ request' = [request EXCEPT ![s] = r] /\ SameTask(r, request[s])
              /\ r.step = "drop" /\ r.broken = request[s].broken
              /\ r.todo = request[s].todo \ {k}
              /\ r.concept.lists = [request[s].concept.lists EXCEPT !["document"] = @ \ {k}]
<1>1. s \in Busy /\ request[s] \in Requests /\ request[s].step = "drop"
  BY BusyIsRequest DEF Drop
<1>2. PICK k \in request[s].todo :
        /\ selections' = [selections EXCEPT ![k] = None]
        /\ Continue(s, [request[s] EXCEPT !.todo = @ \ {k},
                                          !.concept.lists["document"] = @ \ {k}])
  BY DEF Drop
<1> DEFINE copy == [request[s].concept EXCEPT !.lists["document"] = @ \ {k}]
           r == [request[s] EXCEPT !.todo = @ \ {k}, !.concept = copy]
<1>3. /\ copy \in Concepts /\ copy.distilled = request[s].concept.distilled
      /\ copy.lists = [request[s].concept.lists EXCEPT !["document"] = @ \ {k}]
  BY <1>1 DEF Requests, Concepts, Kinds
<1>4. request' = [request EXCEPT ![s] = r]
  BY <1>1, <1>2 DEF Continue, Requests, Concepts
<1> HIDE DEF copy
<1>5. /\ r \in Requests /\ r.id = request[s].id /\ r.what = request[s].what
      /\ r.place = request[s].place /\ r.phrasing = request[s].phrasing
      /\ r.step = "drop" /\ r.todo = request[s].todo \ {k} /\ r.concept = copy
      /\ r.broken = request[s].broken
  BY <1>1, <1>3 DEF Requests
<1> HIDE DEF r
<1>6. QED
  BY <1>1, <1>2, <1>3, <1>4, <1>5 DEF SameTask

LEMMA PutConceptFacts ==
  ASSUME TypeOK, NEW s \in Slots, PutConcept(s)
  PROVE  /\ s \in Busy
         /\ request[s].step = "put"
            \/ (request[s].step = "drop" /\ request[s].todo = {} /\ ~request[s].broken)
         /\ concept' = request[s].concept
         /\ stored' = IF request[s].what = "add" THEN stored \cup {request[s].phrasing} ELSE stored
         /\ IF request[s].what = "delete"
            THEN /\ UNCHANGED chosen
                 /\ \E r \in Requests :
                      /\ request' = [request EXCEPT ![s] = r] /\ SameTask(r, request[s])
                      /\ r.step = "erase" /\ r.concept = request[s].concept
            ELSE Finish(s)
<1>1. s \in Busy /\ request[s] \in Requests
  BY BusyIsRequest DEF PutConcept
<1> DEFINE r == [request[s] EXCEPT !.step = "erase"]
<1>2. /\ r \in Requests /\ SameTask(r, request[s])
      /\ r.step = "erase" /\ r.concept = request[s].concept
  BY <1>1 DEF Requests, SameTask
<1>3. IF request[s].what = "delete"
      THEN UNCHANGED chosen /\ request' = [request EXCEPT ![s] = r]
      ELSE Finish(s)
  BY DEF PutConcept, Continue
<1> HIDE DEF r
<1>4. QED
  BY <1>1, <1>2, <1>3 DEF PutConcept

(* The steps a request goes through, by what it is to do.                   *)
InStep(r) ==
  IF r.what = "delete" THEN r.place = None /\ r.step \in {"find", "drop", "erase"}
  ELSE /\ r.step \in {"find", "choose", "put"}
       /\ \/ r.place = Distilled /\ r.step = "put"
          \/ r.place \in Places /\ (r.step # "find" => r.picked \in Keys)
AllInStep == \A s \in Busy : InStep(request[s])

LEMMA InitInStep == Init => AllInStep
  BY DEF Init, AllInStep, Busy

LEMMA NextInStep == TypeOK /\ AllInStep /\ [Next]_phrVars => AllInStep'
<1> SUFFICES ASSUME TypeOK, AllInStep, [Next]_phrVars PROVE AllInStep'
  OBVIOUS
<1>0. \A s \in Busy : request[s] \in Requests
  BY BusyIsRequest
<1>a. ASSUME NEW s \in Busy, NEW r \in Requests, request' = [request EXCEPT ![s] = r], InStep(r)
      PROVE  AllInStep'
  <2> SUFFICES ASSUME NEW t \in Busy' PROVE InStep(request'[t])
    BY DEF AllInStep, InStep
  <2>1. request'[t] = r \/ (t \in Busy /\ request'[t] = request[t])
    BY <1>a, GoFacts
  <2>2. QED
    BY <1>a, <2>1 DEF AllInStep
<1>b. ASSUME NEW s \in Busy, request' = [request EXCEPT ![s] = Idle]
      PROVE  AllInStep'
  BY <1>b, EndFacts DEF AllInStep, InStep
<1>1. ASSUME NEW s \in Slots, Begins(s)
      PROVE  AllInStep'
  BY <1>1, BeginsFacts DEF AllInStep, InStep, FirstStep
<1>2. ASSUME NEW s \in Slots, Find(s)
      PROVE  AllInStep'
  <2>1. s \in Busy /\ request[s].what # "delete" /\ request[s].place \in Places
    BY <1>2, FindFacts
  <2>2. PICK r \in Requests :
          /\ request' = [request EXCEPT ![s] = r] /\ SameTask(r, request[s])
          /\ r.step = "choose" /\ (r.picked \in ForPlace(request[s]) \/ r.picked = r.id)
    BY <1>2, FindFacts
  <2>3. r.picked \in Keys
    BY <1>0, <2>1, <2>2, PhrasingsAssumption DEF ForPlace, Requests, Concepts
  <2>4. QED
    BY <1>a, <2>1, <2>2, <2>3 DEF SameTask, InStep
<1>3. ASSUME NEW s \in Slots, FindToDelete(s)
      PROVE  AllInStep'
  <2>1. s \in Busy /\ request[s].what = "delete"
    BY <1>3, FindToDeleteFacts
  <2>2. PICK r \in Requests :
          /\ request' = [request EXCEPT ![s] = r] /\ SameTask(r, request[s]) /\ r.step = "drop"
    BY <1>3, FindToDeleteFacts
  <2>3. QED
    BY <1>a, <2>1, <2>2 DEF SameTask, InStep, AllInStep
<1>4. ASSUME NEW s \in Slots, Raise(s) \/ Erase(s) \/ Stop(s)
      PROVE  AllInStep'
  BY <1>b, <1>4 DEF Raise, Erase, Stop, Finish
<1>5. ASSUME NEW s \in Slots, PutSelection(s)
      PROVE  AllInStep'
  <2>1. s \in Busy /\ request[s].step = "choose"
    BY <1>5, PutSelectionFacts
  <2>2. CASE Finish(s)
    BY <1>b, <2>1, <2>2 DEF Finish
  <2>3. ASSUME NEW r \in Requests, request' = [request EXCEPT ![s] = r], SameTask(r, request[s]),
               r.step = "put", r.picked = request[s].picked
        PROVE  AllInStep'
    BY <1>a, <2>1, <2>3 DEF SameTask, InStep, AllInStep
  <2>4. QED
    BY <1>5, <2>2, <2>3, PutSelectionFacts
<1>6. ASSUME NEW s \in Slots, Drop(s)
      PROVE  AllInStep'
  <2>1. s \in Busy /\ request[s].step = "drop"
    BY <1>6, DropFacts
  <2>2. PICK r \in Requests :
          /\ request' = [request EXCEPT ![s] = r] /\ SameTask(r, request[s]) /\ r.step = "drop"
    BY <1>6, DropFacts
  <2>3. QED
    BY <1>a, <2>1, <2>2 DEF SameTask, InStep, AllInStep
<1>7. ASSUME NEW s \in Slots, PutConcept(s)
      PROVE  AllInStep'
  <2>1. s \in Busy
    BY <1>7, PutConceptFacts
  <2>2. CASE request[s].what # "delete"
    BY <1>7, <1>b, <2>1, <2>2, PutConceptFacts DEF Finish
  <2>3. CASE request[s].what = "delete"
    <3>1. PICK r \in Requests :
            /\ request' = [request EXCEPT ![s] = r] /\ SameTask(r, request[s]) /\ r.step = "erase"
      BY <1>7, <2>3, PutConceptFacts
    <3>2. QED
      BY <1>a, <2>1, <2>3, <3>1 DEF SameTask, InStep, AllInStep
  <2>4. QED
    BY <2>2, <2>3
<1>8. CASE UNCHANGED phrVars
  BY <1>8 DEF phrVars, AllInStep, Busy
<1>9. QED
  BY <1>1, <1>2, <1>3, <1>4, <1>5, <1>6, <1>7, <1>8 DEF Next, Begins

-----------------------------------------------------------------------------
(* No request meets a dead key. As long as deletes run alone, all keys that *)
(* are listed, stored or in a copy, are alive, but for the one that a       *)
(* request is about to save, and those that a delete has dropped from its   *)
(* copy and not yet from the stored concept.                                *)

Alive(lists) == \A K \in Kinds : \A k \in lists[K] : selections[k] # None

AloneAndAlive ==
  /\ ~raised
  /\ \A s \in Deleting, t \in Busy : s = t
  /\ (\A s \in Deleting : request[s].step # "drop") => Alive(concept.lists)
  /\ \A s \in Busy, K \in Kinds : \A k \in request[s].concept.lists[K] :
       selections[k] # None \/ (request[s].step = "choose" /\ k = request[s].picked)
  /\ \A s \in Deleting : request[s].step = "drop" =>
       /\ ~request[s].broken /\ request[s].todo \subseteq request[s].concept.lists["document"]

Living == ~mixed => AloneAndAlive

LEMMA InitLiving == Init => Living
<1> SUFFICES ASSUME Init PROVE Living
  OBVIOUS
<1>1. Busy = {} /\ Deleting = {}
  BY DEF Init, Busy, Deleting
<1>2. \A K \in Kinds : concept.lists[K] = {}
  BY DEF Init
<1>3. ~raised
  BY DEF Init
<1>4. QED
  BY <1>1, <1>2, <1>3 DEF Living, AloneAndAlive, Alive

LEMMA BeginLiving ==
  ASSUME TypeOK, Living, NEW s \in Slots, Begins(s)
  PROVE  Living'
<1> SUFFICES ASSUME ~mixed' PROVE AloneAndAlive'
  BY DEF Living
<1>1. /\ s \notin Busy /\ Busy' = Busy \cup {s}
      /\ \A t \in Busy : request'[t] = request[t]
      /\ request'[s].concept.lists = concept.lists
      /\ request'[s].step \in {"find", "put"}
      /\ mixed' = (mixed \/ (Busy # {} /\ (request'[s].what = "delete" \/ Deleting # {})))
      /\ UNCHANGED <<concept, selections, raised>>
  BY BeginsFacts DEF FirstStep
<1>2. AloneAndAlive /\ (Busy = {} \/ (request'[s].what # "delete" /\ Deleting = {}))
  BY <1>1 DEF Living
<1>3. Deleting = {} /\ Alive(concept.lists)
  BY <1>2 DEF AloneAndAlive, Deleting
<1>4. \A t \in Deleting', u \in Busy' : t = u
  BY <1>1, <1>2, <1>3 DEF Deleting
<1>5. Alive(concept.lists)' /\ ~raised'
  BY <1>1, <1>2, <1>3 DEF Alive, AloneAndAlive
<1>6. ASSUME NEW t \in Busy', NEW K \in Kinds, NEW k \in request'[t].concept.lists[K]
      PROVE  selections'[k] # None \/ (request'[t].step = "choose" /\ k = request'[t].picked)
  BY <1>1, <1>2, <1>3 DEF Alive, AloneAndAlive
<1>7. \A t \in Deleting' : request'[t].step # "drop"
  BY <1>1, <1>3 DEF Deleting
<1>8. QED
  BY <1>4, <1>5, <1>6, <1>7 DEF AloneAndAlive

(* A request that ends and leaves what is stored as it was, or writes its   *)
(* selection.                                                               *)
LEMMA EndLiving ==
  ASSUME TypeOK, Living, NEW s \in Busy, request' = [request EXCEPT ![s] = Idle],
         mixed => mixed', ~mixed' => raised' = raised,
         ~mixed' /\ s \in Deleting => request[s].step # "drop",
         concept' = concept \/ (concept' = request[s].concept /\ request[s].step # "choose"),
         \A k \in Keys : selections'[k] = None => selections[k] = None
  PROVE  Living'
<1> SUFFICES ASSUME ~mixed' PROVE AloneAndAlive'
  BY DEF Living
<1>1. AloneAndAlive /\ Busy' = Busy \ {s} /\ \A t \in Busy' : request'[t] = request[t]
  BY EndFacts DEF Living
<1>2. ~raised' /\ \A t \in Deleting', u \in Busy' : t = u
  BY <1>1 DEF AloneAndAlive, Deleting
<1>3. \A K \in Kinds : concept.lists[K] \subseteq Keys
  BY DEF TypeOK, Concepts
<1>4. \A t \in Busy, K \in Kinds : request[t].concept.lists[K] \subseteq Keys
  BY BusyIsRequest DEF Requests, Concepts
<1>5. (\A t \in Deleting : request[t].step # "drop")' => Alive(concept.lists)'
  <2> SUFFICES ASSUME \A t \in Deleting' : request'[t].step # "drop",
                      NEW K \in Kinds, NEW k \in concept'.lists[K]
               PROVE  selections'[k] # None
    BY DEF Alive
  <2>1. \A t \in Deleting : request[t].step # "drop"
    BY <1>1 DEF Deleting
  <2>2. Alive(concept.lists)
    BY <1>1, <2>1 DEF AloneAndAlive
  <2>3. QED
    BY <1>1, <1>3, <1>4, <2>2 DEF Alive, AloneAndAlive
<1>6. ASSUME NEW t \in Busy', NEW K \in Kinds, NEW k \in request'[t].concept.lists[K]
      PROVE  selections'[k] # None \/ (request'[t].step = "choose" /\ k = request'[t].picked)
  BY <1>1, <1>4 DEF AloneAndAlive
<1>7. \A t \in Deleting' : request'[t].step = "drop" =>
        /\ ~request'[t].broken /\ request'[t].todo \subseteq request'[t].concept.lists["document"]
  BY <1>1 DEF AloneAndAlive, Deleting
<1>8. QED
  BY <1>2, <1>5, <1>6, <1>7 DEF AloneAndAlive

(* A request that goes on, under the same name and with a copy whose keys   *)
(* are alive; no key dies but in the hands of a delete.                     *)
LEMMA GoLiving ==
  ASSUME TypeOK, Living, NEW s \in Busy, NEW r \in Requests,
         request' = [request EXCEPT ![s] = r], r.what = request[s].what,
         mixed' = mixed, raised' = raised,
         \/ /\ concept' = concept
            /\ r.what = "delete" /\ r.step # "drop" => request[s].step # "drop"
         \/ concept' = request[s].concept /\ request[s].step # "choose",
         ~mixed => \A K \in Kinds : \A k \in r.concept.lists[K] :
           selections'[k] # None \/ (r.step = "choose" /\ k = r.picked),
         ~mixed /\ r.what = "delete" /\ r.step = "drop" =>
           ~r.broken /\ r.todo \subseteq r.concept.lists["document"],
         (r.what = "delete" /\ r.step = "drop")
           \/ \A k \in Keys : selections'[k] = None => selections[k] = None
  PROVE  Living'
<1> SUFFICES ASSUME ~mixed PROVE AloneAndAlive'
  BY DEF Living
<1>1. /\ AloneAndAlive /\ Busy' = Busy /\ request'[s] = r
      /\ \A t \in Busy : t # s => request'[t] = request[t]
  BY GoFacts DEF Living
<1>2. Deleting' = Deleting /\ ~raised' /\ (r.what = "delete" <=> s \in Deleting)
  BY <1>1 DEF AloneAndAlive, Deleting
<1>3. \A K \in Kinds : concept.lists[K] \subseteq Keys
  BY DEF TypeOK, Concepts
<1>4. \A t \in Busy, K \in Kinds : request[t].concept.lists[K] \subseteq Keys
  BY BusyIsRequest DEF Requests, Concepts
<1>5. (\A t \in Deleting : request[t].step # "drop")' => Alive(concept.lists)'
  <2> SUFFICES ASSUME \A t \in Deleting' : request'[t].step # "drop",
                      NEW K \in Kinds, NEW k \in concept'.lists[K]
               PROVE  selections'[k] # None
    BY DEF Alive
  <2>1. \A j \in Keys : selections'[j] = None => selections[j] = None
    BY <1>1, <1>2
  <2>2. CASE /\ concept' = concept
             /\ r.what = "delete" /\ r.step # "drop" => request[s].step # "drop"
    <3>1. \A t \in Deleting : request[t].step # "drop"
      BY <1>1, <1>2, <2>2
    <3>2. QED
      BY <1>1, <1>3, <2>1, <2>2, <3>1 DEF Alive, AloneAndAlive
  <2>3. CASE concept' = request[s].concept /\ request[s].step # "choose"
    BY <1>1, <1>4, <2>1, <2>3 DEF AloneAndAlive
  <2>4. QED
    BY <2>2, <2>3
<1>6. ASSUME NEW t \in Busy', NEW K \in Kinds, NEW k \in request'[t].concept.lists[K]
      PROVE  selections'[k] # None \/ (request'[t].step = "choose" /\ k = request'[t].picked)
  <2>1. CASE t = s
    BY <1>1, <1>6, <2>1
  <2>2. CASE t # s
    <3>1. s \notin Deleting /\ k \in Keys /\ t \in Busy
      BY <1>1, <1>4, <1>6, <2>2 DEF AloneAndAlive
    <3>2. QED
      BY <1>1, <1>2, <1>6, <2>2, <3>1 DEF AloneAndAlive
  <2>3. QED
    BY <2>1, <2>2
<1>7. \A t \in Deleting' : request'[t].step = "drop" =>
        /\ ~request'[t].broken /\ request'[t].todo \subseteq request'[t].concept.lists["document"]
  BY <1>1, <1>2 DEF AloneAndAlive, Deleting
<1>8. \A t \in Deleting', u \in Busy' : t = u
  BY <1>1, <1>2 DEF AloneAndAlive
<1>9. QED
  BY <1>2, <1>5, <1>6, <1>7, <1>8 DEF AloneAndAlive

LEMMA NextLiving == TypeOK /\ AllInStep /\ KeysApart /\ Living /\ [Next]_phrVars => Living'
<1> SUFFICES ASSUME TypeOK, AllInStep, KeysApart, Living, [Next]_phrVars PROVE Living'
  OBVIOUS
<1>0. \A s \in Busy : request[s] \in Requests
  BY BusyIsRequest
<1>1. ASSUME NEW s \in Slots, Begins(s)
      PROVE  Living'
  BY <1>1, BeginLiving
<1>2. ASSUME NEW s \in Slots, Find(s)
      PROVE  Living'
  <2>1. UNCHANGED <<concept, selections, mixed, raised>>
    BY <1>2 DEF Find
  <2>2. s \in Busy /\ request[s].step = "find" /\ request[s].what # "delete"
        /\ request[s].place \in Places
    BY <1>2, FindFacts
  <2>3. PICK r \in Requests :
          /\ request' = [request EXCEPT ![s] = r] /\ SameTask(r, request[s])
          /\ r.step = "choose"
          /\ \/ r.concept.lists = request[s].concept.lists
             \/ /\ r.picked = r.id
                /\ r.concept.lists = [request[s].concept.lists EXCEPT
                                        ![Kind[r.place]] = @ \cup {r.id}]
    BY <1>2, FindFacts
  <2>4. ~mixed => \A K \in Kinds : \A k \in r.concept.lists[K] :
           selections[k] # None \/ k = r.picked
    <3> SUFFICES ASSUME ~mixed, NEW K \in Kinds, NEW k \in r.concept.lists[K], k # r.picked
                 PROVE  selections[k] # None
      OBVIOUS
    <3>1. request[s].concept.lists \in [Kinds -> SUBSET Keys]
      BY <1>0, <2>2 DEF Requests, Concepts
    <3>2. k \in request[s].concept.lists[K]
      BY <2>3, <3>1
    <3>3. QED
      BY <2>2, <3>2 DEF Living, AloneAndAlive
  <2>5. QED
    BY <2>1, <2>2, <2>3, <2>4, GoLiving DEF SameTask
<1>3. ASSUME NEW s \in Slots, FindToDelete(s)
      PROVE  Living'
  <2>1. UNCHANGED <<concept, selections, mixed, raised>>
    BY <1>3 DEF FindToDelete
  <2>2. s \in Busy /\ request[s].step = "find" /\ request[s].what = "delete"
    BY <1>3, FindToDeleteFacts
  <2>3. PICK r \in Requests :
          /\ request' = [request EXCEPT ![s] = r] /\ SameTask(r, request[s])
          /\ r.step = "drop" /\ r.concept.lists = request[s].concept.lists
          /\ r.todo = {k \in request[s].concept.lists["document"] :
                         selections[k] # None /\ selections[k].phrasing = r.phrasing}
          /\ r.broken = (Dead(request[s].concept.lists["document"]) # {})
    BY <1>3, FindToDeleteFacts
  <2>4. ~mixed => \A K \in Kinds : \A k \in r.concept.lists[K] : selections[k] # None
    BY <2>2, <2>3 DEF Living, AloneAndAlive
  <2>5. ~mixed => ~r.broken /\ r.todo \subseteq r.concept.lists["document"]
    BY <2>3, <2>4 DEF Dead, Kinds
  <2>6. QED
    BY <2>1, <2>2, <2>3, <2>4, <2>5, GoLiving DEF SameTask
<1>4. ASSUME NEW s \in Slots, Raise(s)
      PROVE  Living'
  <2>1. /\ s \in Busy /\ request' = [request EXCEPT ![s] = Idle] /\ mixed' = mixed
        /\ UNCHANGED <<concept, selections>>
        /\ \/ request[s].step = "drop" /\ request[s].broken
           \/ /\ request[s].step = "find" /\ request[s].what # "delete"
              /\ Dead(request[s].concept.lists[Kind[request[s].place]]) # {}
    BY <1>4 DEF Raise
  <2>2. ASSUME ~mixed PROVE FALSE
    <3>1. AloneAndAlive
      BY <2>2 DEF Living
    <3>2. CASE request[s].step = "drop" /\ request[s].broken
      <4>1. s \notin Deleting
        BY <3>1, <3>2 DEF AloneAndAlive
      <4>2. QED
        BY <2>1, <3>2, <4>1 DEF Deleting, AllInStep, InStep
    <3>3. CASE /\ request[s].step = "find" /\ request[s].what # "delete"
               /\ Dead(request[s].concept.lists[Kind[request[s].place]]) # {}
      <4>1. Kind[request[s].place] \in Kinds
        BY <2>1, <3>3, PhrasingsAssumption DEF TypeOK, Looking
      <4>2. QED
        BY <2>1, <3>1, <3>3, <4>1 DEF AloneAndAlive, Dead
    <3>4. QED
      BY <2>1, <3>2, <3>3
  <2>3. QED
    BY <2>1, <2>2 DEF Living
<1>5. ASSUME NEW s \in Slots, PutSelection(s)
      PROVE  Living'
  <2>1. UNCHANGED <<concept, mixed, raised>>
    BY <1>5 DEF PutSelection
  <2>2. s \in Busy /\ request[s].step = "choose"
    BY <1>5, PutSelectionFacts
  <2>3. \A k \in Keys : IF k = request[s].picked THEN selections'[k] # None
                         ELSE selections'[k] = selections[k]
    BY <1>5, PutSelectionFacts
  <2>4. CASE Finish(s)
    BY <2>1, <2>2, <2>3, <2>4, EndLiving DEF Finish
  <2>5. ASSUME NEW r \in Requests,
               request' = [request EXCEPT ![s] = r], SameTask(r, request[s]),
               r.step = "put", r.concept = request[s].concept
        PROVE  Living'
    <3>1. \A K \in Kinds : r.concept.lists[K] \subseteq Keys
      BY DEF Requests, Concepts
    <3>2. ~mixed => \A K \in Kinds : \A k \in r.concept.lists[K] : selections'[k] # None
      BY <2>2, <2>3, <2>5, <3>1 DEF Living, AloneAndAlive
    <3>3. QED
      BY <2>1, <2>2, <2>3, <2>5, <3>2, GoLiving DEF SameTask
  <2>6. QED
    BY <1>5, <2>4, <2>5, PutSelectionFacts
<1>6. ASSUME NEW s \in Slots, Drop(s)
      PROVE  Living'
  <2>1. UNCHANGED <<concept, mixed, raised>>
    BY <1>6 DEF Drop
  <2>2. s \in Busy /\ request[s].step = "drop" /\ request[s].what = "delete"
    BY <1>6, DropFacts DEF AllInStep, InStep
  <2>3. PICK k \in request[s].todo, r \in Requests :
          /\ selections' = [selections EXCEPT ![k] = None]
          /\ request' = [request EXCEPT ![s] = r] /\ SameTask(r, request[s])
          /\ r.step = "drop" /\ r.broken = request[s].broken
          /\ r.todo = request[s].todo \ {k}
          /\ r.concept.lists = [request[s].concept.lists EXCEPT !["document"] = @ \ {k}]
    BY <1>6, DropFacts
  <2>4. request[s].concept.lists \in [Kinds -> SUBSET Keys] /\ request[s].todo \subseteq Keys
        /\ "document" \in Kinds
    BY <1>0, <2>2 DEF Requests, Concepts, Kinds
  <2>5. ASSUME ~mixed
        PROVE  /\ \A K \in Kinds : \A j \in r.concept.lists[K] : selections'[j] # None
               /\ ~r.broken /\ r.todo \subseteq r.concept.lists["document"]
    <3>1. /\ \A K \in Kinds : \A j \in request[s].concept.lists[K] : selections[j] # None
          /\ ~request[s].broken /\ request[s].todo \subseteq request[s].concept.lists["document"]
      BY <2>2, <2>5 DEF Living, AloneAndAlive, Deleting
    <3>2. ~r.broken /\ r.todo \subseteq r.concept.lists["document"]
      BY <2>3, <2>4, <3>1
    <3>3. ASSUME NEW K \in Kinds, k \in request[s].concept.lists[K]
          PROVE  K = "document"
      <4>1. k \in Keys /\ selections[k] # None
        BY <2>4, <3>1
      <4>2. selections[k].place \in Places /\ IsFor(k, selections[k].place)
        BY <4>1 DEF TypeOK, IsFor
      <4>3. Fits(request[s].concept.lists)
        BY <2>2 DEF KeysApart
      <4>4. QED
        BY <2>4, <3>1, <3>3, <4>2, <4>3 DEF Fits
    <3>4. ASSUME NEW K \in Kinds, NEW j \in r.concept.lists[K]
          PROVE  selections'[j] # None
      <4>1. j \in request[s].concept.lists[K] /\ (K = "document" => j # k) /\ j \in Keys
        BY <2>3, <2>4, <3>4
      <4>2. j # k
        BY <3>3, <4>1
      <4>3. QED
        BY <2>3, <3>1, <4>1, <4>2 DEF TypeOK
    <3>5. QED
      BY <3>2, <3>4
  <2>6. QED
    BY <2>1, <2>2, <2>3, <2>5, GoLiving DEF SameTask
<1>7. ASSUME NEW s \in Slots, PutConcept(s)
      PROVE  Living'
  <2>1. UNCHANGED <<selections, mixed, raised>>
    BY <1>7 DEF PutConcept
  <2>2. s \in Busy /\ request[s].step \in {"put", "drop"} /\ concept' = request[s].concept
    BY <1>7, PutConceptFacts
  <2>3. CASE request[s].what # "delete"
    BY <1>7, <2>1, <2>2, <2>3, PutConceptFacts, EndLiving DEF Finish, Deleting
  <2>4. CASE request[s].what = "delete"
    <3>1. PICK r \in Requests :
            /\ request' = [request EXCEPT ![s] = r] /\ SameTask(r, request[s])
            /\ r.step = "erase" /\ r.concept = request[s].concept
      BY <1>7, <2>4, PutConceptFacts
    <3>2. ~mixed => \A K \in Kinds : \A k \in r.concept.lists[K] : selections[k] # None
      BY <2>2, <3>1 DEF Living, AloneAndAlive
    <3>3. QED
      BY <2>1, <2>2, <3>1, <3>2, GoLiving DEF SameTask
  <2>5. QED
    BY <2>3, <2>4
<1>8. ASSUME NEW s \in Slots, Erase(s)
      PROVE  Living'
  BY <1>8, EndLiving DEF Erase, Finish
<1>9. ASSUME NEW s \in Slots, Stop(s)
      PROVE  Living'
  BY <1>9, EndLiving DEF Stop
<1>10. CASE UNCHANGED phrVars
  BY <1>10 DEF phrVars, Living, AloneAndAlive, Alive, Deleting, Busy
<1>11. QED
  BY <1>1, <1>2, <1>3, <1>4, <1>5, <1>6, <1>7, <1>8, <1>9, <1>10 DEF Next, Begins

(* As long as deletes run alone and to their end, no request meets a listed *)
(* key that is dead, whatever else overlaps or stops (selectedphrasing.py). *)
THEOREM NoneRaises == Spec => []NeverRaises
<1>1. Living => NeverRaises
  BY DEF Living, AloneAndAlive, NeverRaises
<1>2. QED
  BY <1>1, TypeCorrect, InitApart, NextApart, InitInStep, NextInStep, InitLiving, NextLiving,
     PTL DEF Spec

-----------------------------------------------------------------------------
(* What is shown is stored: a key that is listed names a stored phrasing or *)
(* one that an add is about to store; what a delete has yet to drop, it has *)
(* on its list.                                                             *)

Good(p) ==
  \/ p \in stored
  \/ \E s \in Busy : request[s].what = "add" /\ request[s].step = "put" /\ request[s].phrasing = p
Fine(k) == selections[k] # None => Good(selections[k].phrasing)
Names(k, p) == selections[k] # None /\ selections[k].phrasing = p

CopyStored(r) ==
  /\ \A k \in r.concept.lists["document"] : Fine(k)
  /\ r.what = "select" => r.phrasing \in stored
  /\ r.concept.distilled \in stored \/ (r.what = "add" /\ r.concept.distilled = r.phrasing)
DeleteSees(r) ==
  /\ concept.distilled # r.phrasing /\ r.concept.distilled # r.phrasing
  /\ r.step = "drop" => \A k \in r.concept.lists["document"] : Names(k, r.phrasing) => k \in r.todo
  /\ r.step = "erase" => \A k \in concept.lists["document"] : ~Names(k, r.phrasing)

AllStored ==
  ~mixed /\ ~stopped =>
    /\ concept.distilled \in stored
    /\ \A k \in concept.lists["document"] : Fine(k)
    /\ \A s \in Busy : CopyStored(request[s])
    /\ \A s \in Deleting : DeleteSees(request[s])

LEMMA InitStored == Init => AllStored
<1> SUFFICES ASSUME Init PROVE AllStored
  OBVIOUS
<1>1. Busy = {} /\ Deleting = {}
  BY DEF Init, Busy, Deleting
<1>2. concept.lists["document"] = {} /\ concept.distilled \in stored
  BY DEF Init, Kinds
<1>3. QED
  BY <1>1, <1>2 DEF AllStored

LEMMA GoodStays ==
  ASSUME stored \subseteq stored',
         \A s \in Busy : request[s].what = "add" /\ request[s].step = "put" =>
           (s \in Busy' /\ request'[s] = request[s]) \/ request[s].phrasing \in stored',
         NEW p, Good(p)
  PROVE  Good(p)'
  BY DEF Good

LEMMA FineStays ==
  ASSUME stored \subseteq stored',
         \A s \in Busy : request[s].what = "add" /\ request[s].step = "put" =>
           (s \in Busy' /\ request'[s] = request[s]) \/ request[s].phrasing \in stored',
         NEW k, selections'[k] = selections[k] \/ selections'[k] = None, Fine(k)
  PROVE  Fine(k)'
<1>1. CASE selections'[k] = None
  BY <1>1 DEF Fine
<1>2. CASE selections'[k] = selections[k] /\ selections[k] # None
  <2>1. PICK p : p = selections[k].phrasing /\ p = selections'[k].phrasing
    BY <1>2
  <2>2. Good(p)'
    BY <1>2, <2>1, GoodStays DEF Fine
  <2>3. QED
    BY <2>1, <2>2 DEF Fine, Good
<1>3. QED
  BY <1>1, <1>2

(* A step of a request that goes on.                                        *)
LEMMA GoStored ==
  ASSUME TypeOK, Living, AllStored, ~mixed, ~stopped, NEW s \in Busy, NEW r \in Requests,
         request' = [request EXCEPT ![s] = r], SameTask(r, request[s]), request[s].step # "put",
         stored' = stored, concept' = concept \/ concept' = request[s].concept,
         request[s].what # "delete" => concept' = concept,
         \A k \in Keys : Fine(k) => Fine(k)',
         \A k \in r.concept.lists["document"] : k \in request[s].concept.lists["document"] \/ Fine(k)',
         r.what = "delete" => DeleteSees(r)'
  PROVE  AllStored'
<1>1. /\ Busy' = Busy /\ request'[s] = r
      /\ \A t \in Busy : t # s => request'[t] = request[t]
  BY GoFacts
<1>2. /\ concept.distilled \in stored
      /\ \A k \in concept.lists["document"] : Fine(k)
      /\ \A t \in Busy : CopyStored(request[t])
      /\ \A t \in Deleting : DeleteSees(request[t])
      /\ \A t \in Deleting, u \in Busy : t = u
  BY DEF AllStored, Living, AloneAndAlive
<1>3. /\ concept.lists["document"] \subseteq Keys
      /\ \A t \in Busy : request[t].concept.lists["document"] \subseteq Keys
  BY BusyIsRequest DEF TypeOK, Requests, Concepts, Kinds
<1>4. concept'.distilled \in stored'
  BY <1>2 DEF CopyStored
<1>5. \A k \in concept'.lists["document"] : Fine(k)'
  BY <1>2, <1>3 DEF CopyStored
<1>6. ASSUME NEW t \in Busy, NEW q, q = request'[t]
      PROVE  CopyStored(q)'
  <2>1. CASE t = s
    <3>1. \A k \in r.concept.lists["document"] : Fine(k)'
      BY <1>2, <1>3 DEF CopyStored
    <3>2. QED
      BY <1>1, <1>2, <1>6, <2>1, <3>1 DEF CopyStored, SameTask
  <2>2. CASE t # s
    BY <1>1, <1>2, <1>3, <1>6, <2>2 DEF CopyStored
  <2>3. QED
    BY <2>1, <2>2
<1>7. ASSUME NEW t \in Deleting'
      PROVE  t = s /\ r.what = "delete"
  BY <1>1, <1>2 DEF Deleting, SameTask
<1>8. \A t \in Busy' : CopyStored(request[t])'
  BY <1>1, <1>6 DEF CopyStored, Fine, Good
<1>9. \A t \in Deleting' : DeleteSees(request[t])'
  BY <1>1, <1>7 DEF DeleteSees, Names
<1>10. QED
  BY <1>4, <1>5, <1>8, <1>9 DEF AllStored

(* The end of a request that deletes nothing.                               *)
LEMMA EndStored ==
  ASSUME TypeOK, Living, AllStored, ~mixed, ~stopped, NEW s \in Busy,
         request' = [request EXCEPT ![s] = Idle],
         stored \subseteq stored', concept' = concept \/ concept' = request[s].concept,
         concept'.distilled \in stored', \A k \in Keys : Fine(k) => Fine(k)'
  PROVE  AllStored'
<1>1. Busy' = Busy \ {s} /\ \A t \in Busy' : request'[t] = request[t]
  BY EndFacts
<1>2. /\ \A k \in concept.lists["document"] : Fine(k)
      /\ \A t \in Busy : CopyStored(request[t])
      /\ \A t \in Deleting, u \in Busy : t = u
  BY DEF AllStored, Living, AloneAndAlive
<1>3. /\ concept.lists["document"] \subseteq Keys
      /\ \A t \in Busy : request[t].concept.lists["document"] \subseteq Keys
  BY BusyIsRequest DEF TypeOK, Requests, Concepts, Kinds
<1>4. \A k \in concept'.lists["document"] : Fine(k)'
  BY <1>2, <1>3 DEF CopyStored
<1>5. ASSUME NEW t \in Busy', NEW q, q = request'[t]
      PROVE  CopyStored(q)'
  <2>1. t \in Busy /\ q = request[t]
    BY <1>1, <1>5
  <2>2. QED
    BY <1>2, <1>3, <2>1 DEF CopyStored
<1>6. Deleting' = {}
  BY <1>1, <1>2 DEF Deleting
<1>7. \A t \in Busy' : CopyStored(request[t])'
  BY <1>5 DEF CopyStored, Fine, Good
<1>8. QED
  BY <1>4, <1>6, <1>7 DEF AllStored

LEMMA BeginStored ==
  ASSUME TypeOK, Living, AllStored, NEW s \in Slots, Begins(s)
  PROVE  AllStored'
<1> SUFFICES ASSUME ~mixed', ~stopped' PROVE AllStored'
  BY DEF AllStored
<1>1. /\ s \notin Busy /\ Busy' = Busy \cup {s}
      /\ \A t \in Busy : request'[t] = request[t]
      /\ request'[s].what = "delete" => /\ request'[s].step = "find" /\ request'[s].place = None
                                        /\ request'[s].phrasing # concept.distilled
      /\ request'[s].what = "select" => request'[s].phrasing \in stored
      /\ request'[s].what # "delete" => request'[s].place \in Places \cup {Distilled}
      /\ request'[s].what \in {"add", "select", "delete"}
      /\ request'[s].concept.lists = concept.lists
      /\ request'[s].concept.distilled =
           IF request'[s].place = Distilled THEN request'[s].phrasing ELSE concept.distilled
      /\ mixed' = (mixed \/ (Busy # {} /\ (request'[s].what = "delete" \/ Deleting # {})))
      /\ UNCHANGED <<concept, selections, stored, stopped>>
  BY BeginsFacts
<1>2. ~mixed /\ ~stopped /\ (Busy = {} \/ (request'[s].what # "delete" /\ Deleting = {}))
  BY <1>1
<1>3. /\ concept.distilled \in stored
      /\ \A k \in concept.lists["document"] : Fine(k)
      /\ \A t \in Busy : CopyStored(request[t])
  BY <1>2 DEF AllStored
<1>4. \A k : Fine(k) => Fine(k)'
  BY <1>1, FineStays
<1>5. ASSUME NEW t \in Busy', NEW q, q = request'[t]
      PROVE  CopyStored(q)'
  <2>1. CASE t = s
    BY <1>1, <1>3, <1>4, <1>5, <2>1, PhrasingsAssumption DEF CopyStored
  <2>2. CASE t # s
    BY <1>1, <1>3, <1>4, <1>5, <2>2 DEF CopyStored
  <2>3. QED
    BY <2>1, <2>2
<1>6. ASSUME NEW t \in Deleting'
      PROVE  DeleteSees(request[t])'
  <2>1. t = s
    BY <1>1, <1>2 DEF Deleting
  <2>2. request'[s].what = "delete"
    BY <2>1 DEF Deleting
  <2>3. /\ concept'.distilled # request'[s].phrasing
        /\ request'[s].concept.distilled # request'[s].phrasing
        /\ request'[s].step = "find"
    BY <1>1, <2>2, PhrasingsAssumption
  <2>4. QED
    BY <2>1, <2>3 DEF DeleteSees
<1>7. \A t \in Busy' : CopyStored(request[t])'
  BY <1>5 DEF CopyStored, Fine, Good
<1>8. QED
  BY <1>1, <1>3, <1>4, <1>6, <1>7 DEF AllStored

(* The delete is alone, and nothing that is listed names what it erases.    *)
LEMMA EraseStored ==
  ASSUME TypeOK, AllInStep, Living, AllStored, ~mixed, ~stopped, NEW s \in Slots, Erase(s)
  PROVE  AllStored'
<1>1. /\ s \in Busy /\ request[s].step = "erase" /\ request' = [request EXCEPT ![s] = Idle]
      /\ stored' = stored \ {request[s].phrasing} /\ UNCHANGED <<concept, selections>>
  BY DEF Erase, Finish
<1>2. s \in Deleting
  BY <1>1 DEF AllInStep, InStep, Deleting
<1>3. Busy' = {}
  BY <1>1, <1>2, EndFacts DEF Living, AloneAndAlive
<1>4. /\ concept.distilled \in stored /\ concept.distilled # request[s].phrasing
      /\ \A k \in concept.lists["document"] : Fine(k) /\ ~Names(k, request[s].phrasing)
  BY <1>1, <1>2 DEF AllStored, DeleteSees
<1>5. \A t \in Busy : t = s
  BY <1>2 DEF Living, AloneAndAlive
<1>6. ASSUME NEW k \in concept.lists["document"]
      PROVE  Fine(k)'
  <2>1. selections[k] # None => selections[k].phrasing \in stored
    BY <1>1, <1>4, <1>5 DEF Fine, Good
  <2>2. QED
    BY <1>1, <1>4, <2>1 DEF Fine, Good, Names
<1>7. QED
  BY <1>1, <1>3, <1>4, <1>6 DEF AllStored, Deleting

LEMMA NextStored ==
  TypeOK /\ AllInStep /\ KeysApart /\ Living /\ AllStored /\ [Next]_phrVars => AllStored'
<1> SUFFICES ASSUME TypeOK, AllInStep, KeysApart, Living, AllStored, [Next]_phrVars PROVE AllStored'
  OBVIOUS
<1>0. \A s \in Busy : request[s] \in Requests /\ InStep(request[s])
  BY BusyIsRequest DEF AllInStep
<1>1. ASSUME NEW s \in Slots, Begins(s)
      PROVE  AllStored'
  BY <1>1, BeginStored
<1>2. ASSUME NEW s \in Slots, Find(s)
      PROVE  AllStored'
  <2>1. UNCHANGED <<concept, selections, stored, mixed, stopped>>
    BY <1>2 DEF Find
  <2>2. s \in Busy /\ request[s].step = "find" /\ request[s].what # "delete"
        /\ request[s].place \in Places
    BY <1>2, FindFacts
  <2>3. PICK r \in Requests :
          /\ request' = [request EXCEPT ![s] = r] /\ SameTask(r, request[s])
          /\ r.step = "choose"
          /\ \/ r.concept.lists = request[s].concept.lists
             \/ r.concept.lists = [request[s].concept.lists EXCEPT
                                        ![Kind[r.place]] = @ \cup {r.id}]
    BY <1>2, FindFacts
  <2>4. \A k : Fine(k) => Fine(k)'
    BY <2>1, <2>2, <2>3, GoFacts, FineStays
  <2>5. selections[r.id] = None
    <3>1. r.id \in Keys /\ Unused(r.id)
      BY <1>0, <2>2, <2>3 DEF KeysApart, SameTask, Requests
    <3>2. selections[r.id] # None => selections[r.id].place \in Places
      BY <3>1 DEF TypeOK
    <3>3. QED
      BY <3>1, <3>2 DEF Unused, IsFor
  <2>6. \A k \in r.concept.lists["document"] : k \in request[s].concept.lists["document"] \/ Fine(k)'
    <3>1. request[s].concept.lists \in [Kinds -> SUBSET Keys] /\ "document" \in Kinds
      BY <1>0, <2>2 DEF Requests, Concepts, Kinds
    <3>2. Fine(r.id)'
      BY <2>1, <2>5 DEF Fine
    <3>3. QED
      BY <2>3, <3>1, <3>2
  <2>7. CASE mixed \/ stopped
    BY <2>1, <2>7 DEF AllStored
  <2>8. CASE ~mixed /\ ~stopped
    BY <2>1, <2>2, <2>3, <2>4, <2>6, <2>8, GoStored DEF SameTask
  <2>9. QED
    BY <2>7, <2>8
<1>3. ASSUME NEW s \in Slots, FindToDelete(s)
      PROVE  AllStored'
  <2>1. UNCHANGED <<concept, selections, stored, mixed, stopped>>
    BY <1>3 DEF FindToDelete
  <2>2. s \in Busy /\ request[s].step = "find" /\ request[s].what = "delete"
    BY <1>3, FindToDeleteFacts
  <2>3. PICK r \in Requests :
          /\ request' = [request EXCEPT ![s] = r] /\ SameTask(r, request[s])
          /\ r.step = "drop" /\ r.concept.lists = request[s].concept.lists
          /\ r.todo = {k \in request[s].concept.lists["document"] :
                         selections[k] # None /\ selections[k].phrasing = r.phrasing}
    BY <1>3, FindToDeleteFacts
  <2>4. \A k : Fine(k) => Fine(k)'
    BY <2>1, <2>2, <2>3, GoFacts, FineStays
  <2>5. ~mixed /\ ~stopped => DeleteSees(r)'
    BY <2>1, <2>2, <2>3 DEF AllStored, DeleteSees, Deleting, Names, SameTask
  <2>6. CASE mixed \/ stopped
    BY <2>1, <2>6 DEF AllStored
  <2>7. CASE ~mixed /\ ~stopped
    BY <2>1, <2>2, <2>3, <2>4, <2>5, <2>7, GoStored
  <2>8. QED
    BY <2>6, <2>7
<1>4. ASSUME NEW s \in Slots, Raise(s)
      PROVE  AllStored'
  <2>1. /\ s \in Busy /\ request' = [request EXCEPT ![s] = Idle]
        /\ UNCHANGED <<concept, selections, stored, mixed, stopped>>
        /\ request[s].step \in {"drop", "find"}
    BY <1>4 DEF Raise
  <2>2. \A k : Fine(k) => Fine(k)'
    BY <2>1, EndFacts, FineStays
  <2>3. CASE mixed \/ stopped
    BY <2>1, <2>3 DEF AllStored
  <2>4. CASE ~mixed /\ ~stopped
    BY <2>1, <2>2, <2>4, EndStored DEF AllStored
  <2>5. QED
    BY <2>3, <2>4
<1>5. ASSUME NEW s \in Slots, PutSelection(s)
      PROVE  AllStored'
  <2>1. UNCHANGED <<concept, stored, mixed, stopped>>
    BY <1>5 DEF PutSelection
  <2>2. /\ s \in Busy /\ request[s].step = "choose" /\ request[s].what # "delete"
        /\ request[s].what \in {"add", "select", "delete"}
        /\ \A k \in Keys : IF k = request[s].picked
                           THEN selections'[k].phrasing = request[s].phrasing
                           ELSE selections'[k] = selections[k]
    BY <1>0, <1>5, PutSelectionFacts DEF InStep, Requests
  <2>3. CASE mixed \/ stopped
    BY <2>1, <2>3 DEF AllStored
  <2>4. ASSUME ~mixed, ~stopped, request[s].what = "select", Finish(s)
        PROVE  AllStored'
    <3>1. request' = [request EXCEPT ![s] = Idle] /\ request[s].phrasing \in stored
      BY <2>2, <2>4 DEF Finish, AllStored, CopyStored
    <3>2. \A k : selections'[k] = selections[k] /\ Fine(k) => Fine(k)'
      BY <2>1, <2>2, <3>1, EndFacts, FineStays
    <3>3. ASSUME NEW k \in Keys, Fine(k) PROVE Fine(k)'
      BY <2>1, <2>2, <3>1, <3>2, <3>3 DEF Fine, Good
    <3>4. QED
      BY <2>1, <2>2, <2>4, <3>1, <3>3, EndStored DEF AllStored
  <2>5. ASSUME ~mixed, ~stopped, NEW r \in Requests,
               request' = [request EXCEPT ![s] = r], SameTask(r, request[s]),
               r.step = "put", r.concept = request[s].concept
        PROVE  AllStored'
    <3>1. \A k : selections'[k] = selections[k] /\ Fine(k) => Fine(k)'
      BY <2>1, <2>2, <2>5, GoFacts, FineStays
    <3>a. PICK p : p = request[s].phrasing /\ p = r.phrasing
      BY <2>5 DEF SameTask
    <3>2. Good(p)'
      <4>1. s \in Busy' /\ request'[s] = r
        BY <2>2, <2>5, GoFacts
      <4>2. CASE r.what = "add"
        BY <2>5, <3>a, <4>1, <4>2 DEF Good
      <4>3. CASE r.what = "select"
        BY <2>1, <2>2, <2>5, <3>a, <4>3 DEF Good, AllStored, CopyStored, SameTask
      <4>4. QED
        BY <2>2, <2>5, <4>2, <4>3 DEF SameTask
    <3>3. ASSUME NEW k \in Keys, Fine(k) PROVE Fine(k)'
      <4>1. CASE k = request[s].picked
        BY <2>2, <3>a, <3>2, <4>1 DEF Fine, Good
      <4>2. CASE k # request[s].picked
        BY <2>2, <3>1, <3>3, <4>2
      <4>3. QED
        BY <4>1, <4>2
    <3>4. QED
      BY <2>1, <2>2, <2>5, <3>3, GoStored DEF SameTask
  <2>6. QED
    BY <1>5, <2>3, <2>4, <2>5, PutSelectionFacts
<1>6. ASSUME NEW s \in Slots, Drop(s)
      PROVE  AllStored'
  <2>1. UNCHANGED <<concept, stored, mixed, stopped>>
    BY <1>6 DEF Drop
  <2>2. s \in Busy /\ request[s].step = "drop" /\ request[s].what = "delete"
    BY <1>0, <1>6, DropFacts DEF InStep
  <2>3. PICK k \in request[s].todo, r \in Requests :
          /\ selections' = [selections EXCEPT ![k] = None]
          /\ request' = [request EXCEPT ![s] = r] /\ SameTask(r, request[s])
          /\ r.step = "drop" /\ r.todo = request[s].todo \ {k}
          /\ r.concept.lists = [request[s].concept.lists EXCEPT !["document"] = @ \ {k}]
    BY <1>6, DropFacts
  <2>4. request[s].concept.lists \in [Kinds -> SUBSET Keys] /\ "document" \in Kinds
    BY <1>0, <2>2 DEF Requests, Concepts, Kinds
  <2>5. \A j \in Keys : selections'[j] = selections[j] \/ selections'[j] = None
    BY <2>3 DEF TypeOK
  <2>6. \A j \in Keys : Fine(j) => Fine(j)'
    BY <2>1, <2>2, <2>3, <2>5, GoFacts, FineStays
  <2>7. r.concept.lists["document"] = request[s].concept.lists["document"] \ {k}
        /\ request[s].concept.lists["document"] \subseteq Keys
    BY <2>3, <2>4
  <2>8. ~mixed /\ ~stopped => DeleteSees(r)'
    <3> SUFFICES ASSUME ~mixed, ~stopped PROVE DeleteSees(r)'
      OBVIOUS
    <3>1. DeleteSees(request[s])
      BY <2>2 DEF AllStored, Deleting
    <3>2. \A j \in r.concept.lists["document"] :
            Names(j, r.phrasing)' => Names(j, request[s].phrasing)
      BY <2>3, <2>5, <2>7 DEF Names, SameTask
    <3>3. \A j \in r.concept.lists["document"] : Names(j, r.phrasing)' => j \in r.todo
      BY <2>2, <2>3, <2>7, <3>1, <3>2 DEF DeleteSees
    <3>4. QED
      BY <2>1, <2>3, <3>1, <3>3 DEF DeleteSees, SameTask
  <2>9. CASE mixed \/ stopped
    BY <2>1, <2>9 DEF AllStored
  <2>10. CASE ~mixed /\ ~stopped
    BY <2>1, <2>2, <2>3, <2>6, <2>7, <2>8, <2>10, GoStored
  <2>11. QED
    BY <2>9, <2>10
<1>7. ASSUME NEW s \in Slots, PutConcept(s)
      PROVE  AllStored'
  <2>1. UNCHANGED <<selections, mixed, stopped>>
    BY <1>7 DEF PutConcept
  <2>2. /\ s \in Busy /\ concept' = request[s].concept
        /\ stored' = IF request[s].what = "add" THEN stored \cup {request[s].phrasing} ELSE stored
        /\ request[s].what = "delete" => request[s].step = "drop" /\ request[s].todo = {}
    BY <1>0, <1>7, PutConceptFacts DEF InStep
  <2>3. CASE mixed \/ stopped
    BY <2>1, <2>3 DEF AllStored
  <2>4. CASE ~mixed /\ ~stopped /\ request[s].what # "delete"
    <3>1. request' = [request EXCEPT ![s] = Idle]
      BY <1>7, <2>4, PutConceptFacts DEF Finish
    <3>2. \A k : Fine(k) => Fine(k)'
      BY <2>1, <2>2, <3>1, EndFacts, FineStays
    <3>3. concept'.distilled \in stored'
      BY <2>2, <2>4 DEF AllStored, CopyStored
    <3>4. QED
      BY <2>2, <2>4, <3>1, <3>2, <3>3, EndStored
  <2>5. CASE ~mixed /\ ~stopped /\ request[s].what = "delete"
    <3>1. PICK r \in Requests :
            /\ request' = [request EXCEPT ![s] = r] /\ SameTask(r, request[s])
            /\ r.step = "erase" /\ r.concept = request[s].concept
      BY <1>7, <2>5, PutConceptFacts
    <3>2. \A k : Fine(k) => Fine(k)'
      BY <2>1, <2>2, <2>5, <3>1, GoFacts, FineStays
    <3>3. DeleteSees(request[s])
      BY <2>2, <2>5 DEF AllStored, Deleting
    <3>4. DeleteSees(r)'
      BY <2>1, <2>2, <2>5, <3>1, <3>3 DEF DeleteSees, Names, SameTask
    <3>5. QED
      BY <2>2, <2>5, <3>1, <3>2, <3>4, GoStored
  <2>6. QED
    BY <2>3, <2>4, <2>5
<1>8. ASSUME NEW s \in Slots, Erase(s)
      PROVE  AllStored'
  <2>1. UNCHANGED <<mixed, stopped>>
    BY <1>8 DEF Erase
  <2>2. CASE mixed \/ stopped
    BY <2>1, <2>2 DEF AllStored
  <2>3. QED
    BY <1>8, <2>2, EraseStored
<1>9. ASSUME NEW s \in Slots, Stop(s)
      PROVE  AllStored'
  BY <1>9 DEF Stop, AllStored
<1>10. CASE UNCHANGED phrVars
  BY <1>10 DEF phrVars, AllStored, CopyStored, DeleteSees, Names, Fine, Good, Deleting, Busy
<1>11. QED
  BY <1>1, <1>2, <1>3, <1>4, <1>5, <1>6, <1>7, <1>8, <1>9, <1>10 DEF Next, Begins

(* As long as deletes run alone and nothing is stopped, the distilled       *)
(* phrasing and what every document shows are stored (Phrasing.delete).     *)
THEOREM ShownStays == Spec => []ShownIsStored
<1>1. AllStored => ShownIsStored
  <2> SUFFICES ASSUME AllStored, ~mixed, ~stopped, NEW place \in Places, Kind[place] = "document",
                      NEW k \in Shown(place)
               PROVE  Good(selections[k].phrasing)
    BY DEF AllStored, ShownIsStored, Good
  <2>1. Fine(k) /\ selections[k] # None
    BY DEF AllStored, Shown
  <2>2. QED
    BY <2>1 DEF Fine
<1>2. QED
  BY <1>1, TypeCorrect, InitApart, NextApart, InitInStep, NextInStep, InitLiving, NextLiving,
     InitStored, NextStored, PTL DEF Spec
-----------------------------------------------------------------------------
(* What was asked for is shown. One request at a time: what its copy lists, *)
(* or what is stored when it is between two writes, differs from what was   *)
(* chosen by exactly what it has done so far.                               *)

Holds(k, q) == selections[k] # None /\ selections[k].place = q
Shows(lists, q, v) == \E k \in lists[Kind[q]] : Holds(k, q) /\ selections[k].phrasing = v
Wanted(q, v) == v = chosen[q] /\ v # None
AllWanted(lists) == \A q \in Places, v \in Phrases : Shows(lists, q, v) <=> Wanted(q, v)

\* What a place loses as the request deletes its phrasing.
Gone(r, q, v) == Kind[q] = "document" /\ v = r.phrasing

Choosing(r) ==
  /\ r.picked \in r.concept.lists[Kind[r.place]]
  /\ \A k \in r.concept.lists[Kind[r.place]] : Holds(k, r.place) => k = r.picked
  /\ \A q \in Places : Holds(r.picked, q) => q = r.place
  /\ \A q \in Places, v \in Phrases : q # r.place =>
       (Shows(r.concept.lists, q, v) <=> Wanted(q, v))
  /\ r.picked # r.id => r.concept.lists = concept.lists

Putting(r) ==
  \A q \in Places, v \in Phrases :
    Shows(r.concept.lists, q, v) <=> IF q = r.place THEN v = r.phrasing ELSE Wanted(q, v)

Dropping(r) ==
  /\ \A q \in Places, v \in Phrases : ~Gone(r, q, v) =>
       (Shows(r.concept.lists, q, v) <=> Wanted(q, v))
  /\ \A k \in r.concept.lists["document"] :
       selections[k] # None /\ selections[k].phrasing = r.phrasing => k \in r.todo
  /\ \A k \in r.todo : /\ k \in r.concept.lists["document"]
                       /\ selections[k] # None /\ selections[k].phrasing = r.phrasing

AsWanted(r) ==
  /\ r.concept.distilled = IF r.place = Distilled THEN r.phrasing ELSE concept.distilled
  /\ r.step = "find" \/ r.place = Distilled =>
       AllWanted(concept.lists) /\ r.concept.lists = concept.lists
  /\ r.step = "choose" => Choosing(r)
  /\ r.step = "put" /\ r.place # Distilled => Putting(r)
  /\ r.step = "drop" => Dropping(r)
  /\ r.step = "erase" => \A q \in Places, v \in Phrases :
       Shows(concept.lists, q, v) <=> Wanted(q, v) /\ ~Gone(r, q, v)

OneByOne ==
  /\ ~mixed
  /\ \A s, t \in Busy : s = t
  /\ concept.distilled = chosen[Distilled]
  /\ Busy = {} => AllWanted(concept.lists)
  /\ \A s \in Busy : AsWanted(request[s])

Chosen == ~overlapped /\ ~stopped => OneByOne

LEMMA InitChosen == Init => Chosen
<1> SUFFICES ASSUME Init PROVE OneByOne
  BY DEF Chosen
<1>1. Busy = {} /\ ~mixed
  BY DEF Init, Busy
<1>2. concept.distilled = 0 /\ chosen[Distilled] = 0 /\ \A K \in Kinds : concept.lists[K] = {}
  BY DEF Init
<1>3. \A q \in Places : chosen[q] = None /\ Kind[q] \in Kinds
  BY PhrasingsAssumption DEF Init
<1>4. AllWanted(concept.lists)
  BY <1>2, <1>3 DEF AllWanted, Shows, Wanted
<1>5. QED
  BY <1>1, <1>2, <1>4 DEF OneByOne

(* The only request goes on.                                                *)
LEMMA GoChosen ==
  ASSUME TypeOK, OneByOne, NEW s \in Busy, NEW r \in Requests,
         request' = [request EXCEPT ![s] = r], mixed' = mixed,
         concept'.distilled = concept.distilled, chosen' = chosen, AsWanted(r)'
  PROVE  OneByOne'
<1>1. Busy' = Busy /\ request'[s] = r
  BY GoFacts
<1>2. \A t \in Busy : t = s
  BY DEF OneByOne
<1>3. ASSUME NEW t \in Busy' PROVE AsWanted(request[t])'
  <2>1. request'[t] = r
    BY <1>1, <1>2
  <2>2. QED
    BY <2>1 DEF AsWanted, Choosing, Putting, Dropping, Gone
<1>4. QED
  BY <1>1, <1>2, <1>3 DEF OneByOne

(* The only request ends.                                                   *)
LEMMA EndChosen ==
  ASSUME TypeOK, OneByOne, NEW s \in Busy, request' = [request EXCEPT ![s] = Idle],
         mixed' = mixed, concept'.distilled = chosen'[Distilled], AllWanted(concept.lists)'
  PROVE  OneByOne'
<1>1. Busy' = {}
  BY EndFacts DEF OneByOne
<1>2. QED
  BY <1>1 DEF OneByOne

(* A finished request has its place show its phrasing.                      *)
LEMMA FinishWanted ==
  ASSUME TypeOK, NEW s \in Busy, request[s].what # "delete", Finish(s),
         request[s].place \in Places \cup {Distilled}
  PROVE  /\ \A q \in Places, v \in Phrases : 
              Wanted(q, v)' <=> IF q = request[s].place THEN v = request[s].phrasing
                                ELSE Wanted(q, v)
         /\ chosen'[Distilled] = IF request[s].place = Distilled THEN request[s].phrasing
                                 ELSE chosen[Distilled]
<1>1. request[s] \in Requests
  BY BusyIsRequest
<1>2. \A v \in Phrases : v # None
  BY PhrasingsAssumption DEF Phrases
<1>3. chosen' = [chosen EXCEPT ![request[s].place] = request[s].phrasing]
  BY DEF Finish
<1>4. chosen \in [Places \cup {Distilled} -> Phrases \cup {None}]
  BY DEF TypeOK
<1>5. \A q \in Places \cup {Distilled} :
        chosen'[q] = IF q = request[s].place THEN request[s].phrasing ELSE chosen[q]
  BY <1>3, <1>4
<1>6. QED
  BY <1>2, <1>5 DEF Wanted

LEMMA BeginChosen ==
  ASSUME TypeOK, Chosen, NEW s \in Slots, Begins(s), ~overlapped', ~stopped'
  PROVE  OneByOne'
<1>1. /\ s \notin Busy /\ Busy' = Busy \cup {s}
      /\ request'[s].what \in {"add", "select", "delete"}
      /\ request'[s].what = "delete" => request'[s].step = "find" /\ request'[s].place = None
      /\ request'[s].what # "delete" => /\ request'[s].place \in Places \cup {Distilled}
                                        /\ request'[s].step = FirstStep(request'[s].place)
      /\ request'[s].concept.lists = concept.lists
      /\ request'[s].concept.distilled =
           IF request'[s].place = Distilled THEN request'[s].phrasing ELSE concept.distilled
      /\ mixed' = (mixed \/ (Busy # {} /\ (request'[s].what = "delete" \/ Deleting # {})))
      /\ UNCHANGED <<concept, selections, chosen, stopped>>
      /\ overlapped' = (overlapped \/ Busy # {})
  BY BeginsFacts
<1>2. OneByOne /\ Busy = {} /\ Busy' = {s} /\ ~mixed'
  BY <1>1 DEF Chosen, OneByOne
<1>3. AllWanted(concept.lists) /\ AllWanted(concept.lists)'
  BY <1>1, <1>2 DEF OneByOne, AllWanted, Shows, Holds, Wanted
<1>4. PICK r : r = request'[s]
  OBVIOUS
<1>5. r.step = "find" \/ (r.step = "put" /\ r.place = Distilled)
  BY <1>1, <1>4 DEF FirstStep
<1>6. AsWanted(r)'
  BY <1>1, <1>3, <1>4, <1>5 DEF AsWanted
<1>7. ASSUME NEW t \in Busy' PROVE AsWanted(request[t])'
  <2>1. request'[t] = r
    BY <1>2, <1>4
  <2>2. QED
    BY <1>6, <2>1 DEF AsWanted, Choosing, Putting, Dropping, Gone
<1>8. QED
  BY <1>1, <1>2, <1>7 DEF OneByOne

LEMMA FindChosen ==
  ASSUME TypeOK, KeysApart, OneByOne, NEW s \in Slots, Find(s)
  PROVE  OneByOne'
<1>1. UNCHANGED <<concept, selections, chosen, mixed>>
  BY DEF Find
<1>2. s \in Busy /\ request[s].step = "find" /\ request[s].place \in Places
      /\ request[s].what # "delete"
  BY FindFacts
<1>3. PICK r \in Requests :
        /\ request' = [request EXCEPT ![s] = r] /\ SameTask(r, request[s])
        /\ r.step = "choose"
        /\ \/ r.picked \in ForPlace(request[s]) /\ r.concept.lists = request[s].concept.lists
           \/ /\ ForPlace(request[s]) = {} /\ r.picked = r.id
              /\ r.concept.lists = [request[s].concept.lists EXCEPT
                                      ![Kind[r.place]] = @ \cup {r.id}]
  BY FindFacts
<1>4. request[s] \in Requests /\ r.place = request[s].place /\ r.place \in Places
      /\ r.place # Distilled
  BY <1>2, <1>3, BusyIsRequest, PhrasingsAssumption DEF SameTask
<1>5. AllWanted(concept.lists) /\ request[s].concept.lists = concept.lists
      /\ r.concept.distilled = concept.distilled
  BY <1>2, <1>3, <1>4 DEF OneByOne, AsWanted, SameTask
<1>6. Apart(concept.lists) /\ Fits(concept.lists)
  BY DEF KeysApart
<1>7. concept.lists \in [Kinds -> SUBSET Keys] /\ Kind[r.place] \in Kinds
      /\ \A q \in Places : Kind[q] \in Kinds
  BY <1>4, PhrasingsAssumption DEF TypeOK, Concepts
<1>8. Choosing(r)
  <2>1. CASE r.picked \in ForPlace(request[s]) /\ r.concept.lists = concept.lists
    <3>1. r.picked \in concept.lists[Kind[r.place]] /\ Holds(r.picked, r.place)
      BY <1>4, <1>5, <2>1 DEF ForPlace, Holds
    <3>2. \A k \in concept.lists[Kind[r.place]] : Holds(k, r.place) => k = r.picked
      BY <1>4, <1>6, <1>7, <3>1 DEF Apart, Holds, IsFor
    <3>3. \A q \in Places : Holds(r.picked, q) => q = r.place
      BY <3>1 DEF Holds
    <3>4. QED
      BY <1>5, <2>1, <3>1, <3>2, <3>3 DEF Choosing, AllWanted
  <2>2. CASE /\ ForPlace(request[s]) = {} /\ r.picked = r.id
             /\ r.concept.lists = [concept.lists EXCEPT ![Kind[r.place]] = @ \cup {r.id}]
    <3>1. r.id \in Keys /\ Unused(r.id)
      BY <1>2, <1>3 DEF KeysApart, SameTask, Requests
    <3>2. \A q \in Places : ~Holds(r.id, q)
      BY <3>1 DEF Unused, IsFor, Holds
    <3>3. \A K \in Kinds : r.concept.lists[K] = IF K = Kind[r.place] THEN concept.lists[K] \cup {r.id}
                                                ELSE concept.lists[K]
      BY <1>7, <2>2
    <3>4. \A k \in concept.lists[Kind[r.place]] : ~Holds(k, r.place)
      BY <1>4, <1>5, <2>2 DEF ForPlace, Holds
    <3>5. ASSUME NEW q \in Places, NEW v \in Phrases
          PROVE  Shows(r.concept.lists, q, v) <=> Shows(concept.lists, q, v)
      BY <1>7, <3>2, <3>3 DEF Shows
    <3>6. QED
      BY <1>5, <1>7, <2>2, <3>2, <3>3, <3>4, <3>5 DEF Choosing, AllWanted
  <2>3. QED
    BY <1>3, <1>5, <2>1, <2>2
<1>9. Choosing(r)'
  BY <1>1, <1>8 DEF Choosing, Holds, Shows, Wanted
<1>10. AsWanted(r)'
  BY <1>1, <1>3, <1>4, <1>5, <1>9 DEF AsWanted
<1>11. QED
  BY <1>1, <1>2, <1>3, <1>10, GoChosen

LEMMA FindToDeleteChosen ==
  ASSUME TypeOK, AllInStep, OneByOne, NEW s \in Slots, FindToDelete(s)
  PROVE  OneByOne'
<1>1. UNCHANGED <<concept, selections, chosen, mixed>>
  BY DEF FindToDelete
<1>2. s \in Busy /\ request[s].step = "find" /\ request[s].what = "delete"
  BY FindToDeleteFacts
<1>3. PICK r \in Requests :
        /\ request' = [request EXCEPT ![s] = r] /\ SameTask(r, request[s])
        /\ r.step = "drop" /\ r.concept.lists = request[s].concept.lists
        /\ r.todo = {k \in request[s].concept.lists["document"] :
                       selections[k] # None /\ selections[k].phrasing = r.phrasing}
  BY FindToDeleteFacts
<1>4. r.place = None /\ r.place # Distilled
  BY <1>2, <1>3, PhrasingsAssumption DEF AllInStep, InStep, SameTask
<1>5. AllWanted(concept.lists) /\ r.concept.lists = concept.lists
      /\ r.concept.distilled = concept.distilled
  BY <1>2, <1>3, <1>4 DEF OneByOne, AsWanted, SameTask
<1>6. Dropping(r)
  BY <1>3, <1>5 DEF Dropping, AllWanted
<1>7. Dropping(r)'
  BY <1>1, <1>6 DEF Dropping, Shows, Holds, Wanted, Gone
<1>8. AsWanted(r)'
  BY <1>1, <1>3, <1>4, <1>5, <1>7 DEF AsWanted
<1>9. QED
  BY <1>1, <1>2, <1>3, <1>8, GoChosen

LEMMA PutSelectionChosen ==
  ASSUME TypeOK, AllInStep, OneByOne, NEW s \in Slots, PutSelection(s)
  PROVE  OneByOne'
<1>1. UNCHANGED <<concept, mixed>>
  BY DEF PutSelection
<1>2. s \in Busy /\ request[s].step = "choose" /\ request[s].place \in Places
      /\ request[s].place # Distilled /\ request[s].what # "delete"
  BY PutSelectionFacts, PhrasingsAssumption DEF AllInStep, InStep
<1>3. \A k \in Keys : IF k = request[s].picked
                      THEN /\ selections'[k] # None
                           /\ selections'[k].place = request[s].place
                           /\ selections'[k].phrasing = request[s].phrasing
                      ELSE selections'[k] = selections[k]
  BY PutSelectionFacts
<1>4. Choosing(request[s]) /\ request[s].concept.distilled = concept.distilled
  BY <1>2 DEF OneByOne, AsWanted
<1>5. PICK lists : lists = request[s].concept.lists
  OBVIOUS
<1>6. /\ request[s] \in Requests /\ lists \in [Kinds -> SUBSET Keys]
      /\ \A q \in Places : Kind[q] \in Kinds
  BY <1>2, <1>5, BusyIsRequest, PhrasingsAssumption DEF Requests, Concepts
<1>7. ASSUME NEW q \in Places, NEW v \in Phrases
      PROVE  Shows(lists, q, v)' <=> IF q = request[s].place THEN v = request[s].phrasing
                                     ELSE Wanted(q, v)
  <2>1. lists[Kind[q]] \subseteq Keys
    BY <1>6
  <2>2. CASE q = request[s].place
    BY <1>3, <1>4, <1>5, <2>1, <2>2 DEF Choosing, Shows, Holds
  <2>3. CASE q # request[s].place
    <3>1. \A k \in lists[Kind[q]] : k = request[s].picked => ~Holds(k, q) /\ ~Holds(k, q)'
      BY <1>3, <1>4, <2>1, <2>3 DEF Choosing, Holds
    <3>2. \A k \in lists[Kind[q]] : k # request[s].picked => selections'[k] = selections[k]
      BY <1>3, <2>1
    <3>3. Shows(lists, q, v)' <=> Shows(lists, q, v)
      BY <3>1, <3>2 DEF Shows, Holds
    <3>4. QED
      BY <1>4, <1>5, <2>3, <3>3 DEF Choosing
  <2>4. QED
    BY <2>2, <2>3
<1>8. CASE request[s].what = "select" /\ request[s].picked # request[s].id /\ Finish(s)
  <2>1. concept.lists = lists
    BY <1>4, <1>5, <1>8 DEF Choosing
  <2>2. AllWanted(lists)'
    BY <1>2, <1>7, <1>8, FinishWanted DEF AllWanted
  <2>3. AllWanted(concept.lists)'
    BY <1>1, <2>1, <2>2 DEF AllWanted, Shows
  <2>4. concept'.distilled = chosen'[Distilled]
    BY <1>1, <1>2, <1>8, FinishWanted DEF OneByOne
  <2>5. request' = [request EXCEPT ![s] = Idle]
    BY <1>8 DEF Finish
  <2>6. QED
    BY <1>1, <1>2, <2>3, <2>4, <2>5, EndChosen
<1>9. ASSUME UNCHANGED chosen, NEW r \in Requests, request' = [request EXCEPT ![s] = r],
             SameTask(r, request[s]), r.step = "put", r.concept = request[s].concept
      PROVE  OneByOne'
  <2>1. r.place = request[s].place /\ r.phrasing = request[s].phrasing /\ r.concept.lists = lists
    BY <1>5, <1>9 DEF SameTask
  <2>2. Putting(r)'
    BY <1>7, <1>9, <2>1 DEF Putting, Wanted
  <2>3. AsWanted(r)'
    BY <1>1, <1>2, <1>4, <1>9, <2>1, <2>2 DEF AsWanted
  <2>4. QED
    BY <1>1, <1>2, <1>9, <2>3, GoChosen
<1>10. CASE UNCHANGED chosen /\ ~(request[s].what = "select" /\ request[s].picked # request[s].id)
  <2>1. \E r \in Requests :
           /\ request' = [request EXCEPT ![s] = r] /\ SameTask(r, request[s])
           /\ r.step = "put" /\ r.concept = request[s].concept
    BY <1>10, PutSelectionFacts
  <2>2. QED
    BY <1>9, <1>10, <2>1
<1>11. \/ request[s].what = "select" /\ request[s].picked # request[s].id /\ Finish(s)
       \/ UNCHANGED chosen /\ ~(request[s].what = "select" /\ request[s].picked # request[s].id)
  BY DEF PutSelection
<1>12. QED
  BY <1>8, <1>10, <1>11

(* A selection that is deleted and dropped from the copy is one of the      *)
(* phrasing, for a document.                                                *)
LEMMA DropChosen ==
  ASSUME TypeOK, AllInStep, KeysApart, OneByOne, NEW s \in Slots, Drop(s)
  PROVE  OneByOne'
<1>1. UNCHANGED <<concept, chosen, mixed>>
  BY DEF Drop
<1>2. s \in Busy /\ request[s].step = "drop" /\ request[s] \in Requests
      /\ request[s].what = "delete" /\ request[s].place = None /\ None # Distilled
  BY DropFacts, BusyIsRequest, PhrasingsAssumption DEF AllInStep, InStep
<1>3. PICK k \in request[s].todo, r \in Requests :
        /\ selections' = [selections EXCEPT ![k] = None]
        /\ request' = [request EXCEPT ![s] = r] /\ SameTask(r, request[s])
        /\ r.step = "drop" /\ r.todo = request[s].todo \ {k}
        /\ r.concept.lists = [request[s].concept.lists EXCEPT !["document"] = @ \ {k}]
  BY DropFacts
<1>4. PICK lists : lists = request[s].concept.lists
  OBVIOUS
<1>5. /\ lists \in [Kinds -> SUBSET Keys] /\ request[s].todo \subseteq Keys
      /\ \A q \in Places : Kind[q] \in Kinds
      /\ "document" \in Kinds /\ k \in Keys
  BY <1>2, <1>4, PhrasingsAssumption DEF Requests, Concepts, Kinds
<1>6. Dropping(request[s]) /\ request[s].concept.distilled = concept.distilled
  BY <1>2 DEF OneByOne, AsWanted
<1>7. k \in lists["document"] /\ selections[k] # None /\ selections[k].phrasing = request[s].phrasing
  BY <1>4, <1>6 DEF Dropping
<1>8. \A q \in Places : Holds(k, q) => Kind[q] = "document"
  <2>1. Fits(lists)
    BY <1>2, <1>4 DEF KeysApart
  <2>2. QED
    BY <1>5, <1>7, <2>1 DEF Fits, IsFor, Holds
<1>9. \A j \in Keys : selections'[j] = IF j = k THEN None ELSE selections[j]
  BY <1>3 DEF TypeOK
<1>10. \A K \in Kinds : r.concept.lists[K] = IF K = "document" THEN lists[K] \ {k} ELSE lists[K]
  BY <1>3, <1>4, <1>5
<1>11. ASSUME NEW q \in Places, NEW v \in Phrases, ~(Kind[q] = "document" /\ v = r.phrasing)
       PROVE  Shows(r.concept.lists, q, v)' <=> Wanted(q, v)
  <2>1. ~Gone(request[s], q, v)
    BY <1>3, <1>11 DEF Gone, SameTask
  <2>2. Shows(lists, q, v) <=> Wanted(q, v)
    BY <1>4, <1>6, <2>1 DEF Dropping
  <2>3. ASSUME NEW j \in lists[Kind[q]]
        PROVE  (Holds(j, q) /\ selections[j].phrasing = v) =>
                 j # k
    BY <1>3, <1>7, <1>8, <1>11 DEF SameTask
  <2>4. \A j \in lists[Kind[q]] : j # k =>
          j \in r.concept.lists[Kind[q]] /\ selections'[j] = selections[j]
    BY <1>5, <1>9, <1>10
  <2>5. \A j \in r.concept.lists[Kind[q]] : j \in lists[Kind[q]] /\ (j = k => ~Holds(j, q)')
    BY <1>5, <1>9, <1>10 DEF Holds
  <2>6. Shows(lists, q, v) => Shows(r.concept.lists, q, v)'
    <3> SUFFICES ASSUME NEW j \in lists[Kind[q]], Holds(j, q), selections[j].phrasing = v
                 PROVE  Shows(r.concept.lists, q, v)'
      BY DEF Shows
    <3>1. j \in r.concept.lists[Kind[q]] /\ selections'[j] = selections[j]
      BY <2>3, <2>4
    <3>2. Holds(j, q)' /\ selections'[j].phrasing = v
      BY <3>1 DEF Holds
    <3>3. QED
      BY <3>1, <3>2 DEF Shows
  <2>7. Shows(r.concept.lists, q, v)' => Shows(lists, q, v)
    BY <2>4, <2>5 DEF Shows, Holds
  <2>8. QED
    BY <2>2, <2>6, <2>7
<1>12. Dropping(r)'
  <2>1. \A j \in r.concept.lists["document"] :
          selections'[j] # None /\ selections'[j].phrasing = r.phrasing => j \in r.todo
    BY <1>3, <1>4, <1>5, <1>6, <1>9, <1>10 DEF Dropping, SameTask
  <2>2. \A j \in r.todo : /\ j \in r.concept.lists["document"]
                          /\ selections'[j] # None /\ selections'[j].phrasing = r.phrasing
    BY <1>3, <1>4, <1>5, <1>6, <1>9, <1>10 DEF Dropping, SameTask
  <2>3. \A q \in Places, v \in Phrases : ~Gone(r, q, v)' =>
          (Shows(r.concept.lists, q, v)' <=> Wanted(q, v)')
    BY <1>1, <1>11 DEF Gone, Wanted
  <2>4. QED
    BY <2>1, <2>2, <2>3 DEF Dropping
<1>13. AsWanted(r)'
  BY <1>1, <1>2, <1>3, <1>6, <1>12 DEF AsWanted, SameTask
<1>14. QED
  BY <1>1, <1>2, <1>3, <1>13, GoChosen

LEMMA PutConceptChosen ==
  ASSUME TypeOK, AllInStep, OneByOne, NEW s \in Slots, PutConcept(s)
  PROVE  OneByOne'
<1>1. UNCHANGED <<selections, mixed>>
  BY DEF PutConcept
<1>2. /\ s \in Busy /\ concept' = request[s].concept /\ request[s] \in Requests
      /\ request[s].step = "put" \/ (request[s].step = "drop" /\ request[s].todo = {})
  BY PutConceptFacts, BusyIsRequest
<1>3. AsWanted(request[s]) /\ concept.distilled = chosen[Distilled]
  BY <1>2 DEF OneByOne
<1>4. CASE request[s].what # "delete"
  <2>1. Finish(s) /\ request' = [request EXCEPT ![s] = Idle]
    BY <1>4, PutConceptFacts DEF Finish
  <2>2. request[s].step = "put" /\ request[s].place \in Places \cup {Distilled}
    BY <1>2, <1>4 DEF AllInStep, InStep
  <2>3. concept'.distilled = chosen'[Distilled]
    BY <1>2, <1>3, <1>4, <2>1, <2>2, FinishWanted DEF AsWanted
  <2>4. ASSUME NEW q \in Places, NEW v \in Phrases
        PROVE  Shows(concept'.lists, q, v) <=> IF q = request[s].place THEN v = request[s].phrasing
                                               ELSE Wanted(q, v)
    <3>1. CASE request[s].place = Distilled
      BY <1>2, <1>3, <3>1, PhrasingsAssumption DEF AsWanted, AllWanted
    <3>2. CASE request[s].place # Distilled
      BY <1>2, <1>3, <2>2, <3>2 DEF AsWanted, Putting
    <3>3. QED
      BY <3>1, <3>2
  <2>5. \A q \in Places, v \in Phrases : Shows(concept.lists, q, v)' <=> Shows(concept'.lists, q, v)
    BY <1>1 DEF Shows, Holds
  <2>6. AllWanted(concept.lists)'
    BY <1>2, <1>4, <2>1, <2>2, <2>4, <2>5, FinishWanted DEF AllWanted
  <2>7. QED
    BY <1>1, <1>2, <2>1, <2>3, <2>6, EndChosen
<1>5. CASE request[s].what = "delete"
  <2>1. UNCHANGED chosen /\ request[s].step = "drop" /\ request[s].todo = {}
        /\ request[s].place = None /\ None # Distilled
    BY <1>2, <1>5, PutConceptFacts, PhrasingsAssumption DEF AllInStep, InStep
  <2>2. PICK r \in Requests :
          /\ request' = [request EXCEPT ![s] = r] /\ SameTask(r, request[s])
          /\ r.step = "erase" /\ r.concept = request[s].concept
    BY <1>5, PutConceptFacts
  <2>3. Dropping(request[s]) /\ request[s].concept.distilled = concept.distilled
    BY <1>3, <2>1 DEF AsWanted
  <2>4. ASSUME NEW q \in Places, NEW v \in Phrases
        PROVE  Shows(concept'.lists, q, v) <=> Wanted(q, v) /\ ~Gone(request[s], q, v)
    <3>1. CASE Gone(request[s], q, v)
      BY <1>2, <2>1, <2>3, <3>1 DEF Gone, Dropping, Shows, Holds
    <3>2. CASE ~Gone(request[s], q, v)
      BY <1>2, <2>3, <3>2 DEF Dropping
    <3>3. QED
      BY <3>1, <3>2
  <2>5. \A q \in Places, v \in Phrases : Shows(concept.lists, q, v)' <=> Shows(concept'.lists, q, v)
    BY <1>1 DEF Shows, Holds
  <2>6. \A q \in Places, v \in Phrases :
          Shows(concept.lists, q, v)' <=> Wanted(q, v)' /\ ~Gone(r, q, v)'
    BY <2>1, <2>2, <2>4, <2>5 DEF Gone, Wanted, SameTask
  <2>7. AsWanted(r)'
    BY <1>2, <2>1, <2>2, <2>6 DEF AsWanted, SameTask
  <2>8. QED
    BY <1>1, <1>2, <2>1, <2>2, <2>3, <2>7, GoChosen
<1>6. QED
  BY <1>4, <1>5

(* A deleted phrasing is none that was chosen.                              *)
LEMMA EraseChosen ==
  ASSUME TypeOK, AllInStep, OneByOne, NEW s \in Slots, Erase(s)
  PROVE  OneByOne'
<1>1. UNCHANGED <<concept, selections, mixed>> /\ s \in Busy /\ request[s].step = "erase"
      /\ Finish(s) /\ request' = [request EXCEPT ![s] = Idle]
  BY DEF Erase, Finish
<1>2. request[s].what = "delete"
  BY <1>1 DEF AllInStep, InStep
<1>3. DOMAIN chosen = Places \cup {Distilled} /\ Distilled \notin Places
  BY PhrasingsAssumption DEF TypeOK
<1>4. \A q \in Places \cup {Distilled} :
        chosen'[q] = IF q \in Places /\ Kind[q] = "document" /\ chosen[q] = request[s].phrasing
                     THEN None ELSE chosen[q]
  BY <1>1, <1>2, <1>3 DEF Finish
<1>5. \A q \in Places, v \in Phrases : Wanted(q, v)' <=> Wanted(q, v) /\ ~Gone(request[s], q, v)
  BY <1>4 DEF Wanted, Gone
<1>6. \A q \in Places, v \in Phrases :
        Shows(concept.lists, q, v) <=> Wanted(q, v) /\ ~Gone(request[s], q, v)
  BY <1>1 DEF OneByOne, AsWanted
<1>7. \A q \in Places, v \in Phrases : Shows(concept.lists, q, v)' <=> Shows(concept.lists, q, v)
  BY <1>1 DEF Shows, Holds
<1>8. AllWanted(concept.lists)'
  BY <1>5, <1>6, <1>7 DEF AllWanted
<1>9. concept'.distilled = chosen'[Distilled]
  BY <1>1, <1>3, <1>4 DEF OneByOne
<1>10. QED
  BY <1>1, <1>8, <1>9, EndChosen

LEMMA NextChosen ==
  TypeOK /\ AllInStep /\ KeysApart /\ Living /\ Living' /\ Chosen /\ [Next]_phrVars => Chosen'
<1> SUFFICES ASSUME TypeOK, AllInStep, KeysApart, Living, Living', Chosen, [Next]_phrVars,
                    ~overlapped', ~stopped'
             PROVE  OneByOne'
  BY DEF Chosen
<1>1. ASSUME NEW s \in Slots, Begins(s) PROVE OneByOne'
  BY <1>1, BeginChosen
<1>2. ASSUME NEW s \in Slots, Find(s) PROVE OneByOne'
  BY <1>2, FindChosen DEF Find, Chosen
<1>3. ASSUME NEW s \in Slots, FindToDelete(s) PROVE OneByOne'
  BY <1>3, FindToDeleteChosen DEF FindToDelete, Chosen
<1>4. ASSUME NEW s \in Slots, Raise(s) PROVE OneByOne'
  BY <1>4 DEF Raise, Chosen, OneByOne, Living, AloneAndAlive
<1>5. ASSUME NEW s \in Slots, PutSelection(s) PROVE OneByOne'
  BY <1>5, PutSelectionChosen DEF PutSelection, Chosen
<1>6. ASSUME NEW s \in Slots, Drop(s) PROVE OneByOne'
  BY <1>6, DropChosen DEF Drop, Chosen
<1>7. ASSUME NEW s \in Slots, PutConcept(s) PROVE OneByOne'
  BY <1>7, PutConceptChosen DEF PutConcept, Chosen
<1>8. ASSUME NEW s \in Slots, Erase(s) PROVE OneByOne'
  BY <1>8, EraseChosen DEF Erase, Chosen
<1>9. ASSUME NEW s \in Slots, Stop(s) PROVE OneByOne'
  BY <1>9 DEF Stop
<1>10. CASE UNCHANGED phrVars
  <2>1. OneByOne /\ Busy' = Busy
    BY <1>10 DEF phrVars, Chosen, Busy
  <2>2. QED
    BY <1>10, <2>1 DEF phrVars, OneByOne, AsWanted, AllWanted, Choosing, Putting, Dropping,
                       Shows, Holds, Wanted, Gone
<1>11. QED
  BY <1>1, <1>2, <1>3, <1>4, <1>5, <1>6, <1>7, <1>8, <1>9, <1>10 DEF Next, Begins

(* With no request at work, after any number of them one by one: the        *)
(* distilled phrasing and the selections of every place are what was last   *)
(* asked for (phrasing.py, selectedphrasing.py).                            *)
THEOREM AskedIsShown == Spec => []ChosenIsShown
<1>1. TypeOK /\ Chosen => ChosenIsShown
  <2> SUFFICES ASSUME TypeOK, OneByOne, Busy = {}
               PROVE  /\ concept.distilled = chosen[Distilled]
                      /\ \A place \in Places :
                           {selections[k].phrasing : k \in Shown(place)} = {chosen[place]} \ {None}
    BY DEF Chosen, ChosenIsShown
  <2>1. AllWanted(concept.lists)
    BY DEF OneByOne
  <2>2. ASSUME NEW place \in Places
        PROVE  {selections[k].phrasing : k \in Shown(place)} = {chosen[place]} \ {None}
    <3>1. \A v : v \in {selections[k].phrasing : k \in Shown(place)} <=> Shows(concept.lists, place, v)
      BY DEF Shown, Shows, Holds
    <3>2. \A v : Shows(concept.lists, place, v) => v \in Phrases
      <4>1. Kind[place] \in Kinds /\ concept.lists[Kind[place]] \subseteq Keys
        BY PhrasingsAssumption DEF TypeOK, Concepts
      <4>2. QED
        BY <4>1 DEF Shows, Holds, TypeOK
    <3>3. \A v : v \in {chosen[place]} \ {None} <=> Wanted(place, v)
      BY DEF Wanted
    <3>4. \A v : Wanted(place, v) => v \in Phrases
      BY DEF Wanted, TypeOK
    <3>5. \A v : Shows(concept.lists, place, v) <=> Wanted(place, v)
      BY <2>1, <3>2, <3>4 DEF AllWanted
    <3> HIDE DEF Shows, Wanted, Shown
    <3>6. QED
      BY <3>1, <3>3, <3>5
  <2>3. QED
    BY <2>2 DEF OneByOne
<1>2. QED
  BY <1>1, TypeCorrect, InitApart, NextApart, InitInStep, NextInStep, InitLiving, NextLiving,
     InitChosen, NextChosen, PTL DEF Spec
=============================================================================
