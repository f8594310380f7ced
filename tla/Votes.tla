------------------------------- MODULE Votes -------------------------------
(***************************************************************************)
(* Up and down votes on a project and its concepts (_up_vote, _down_vote of *)
(* handlers/artifacts/project.py and concept.py), what they cost, and the   *)
(* daily gift of handlers/background/spectra.py. Requests overlap, each on  *)
(* its own whole copies of the user, the project and the concept; an action *)
(* is one datastore operation of one request and the code up to the next.   *)
(***************************************************************************)
EXTENDS Integers, FiniteSets, FiniteSetsExt

CONSTANTS
  Users,
  Hasty,         \* users who vote again before the last vote is answered and indexed
  Project,
  Concepts,
  Slots,         \* requests that can run at the same time
  None,
  Cost,          \* spectra.action_costs, the same for both directions
  StartSpectra,  \* default_spectra_count
  Gift,          \* points of one daily distribution
  MaxGifts,      \* bound on the distributions
  MaxVotes,      \* bound on the vote requests
  MaxRunning     \* bound on the requests and distributions that overlap

Artifacts == Concepts \cup {Project}

ASSUME VotesAssumption ==
  /\ Hasty \subseteq Users /\ None \notin Int
  /\ Cost \in Nat /\ StartSpectra \in Nat /\ Gift \in Nat
  /\ IsFiniteSet(Users) /\ IsFiniteSet(Slots)

VARIABLES
  votes,    \* ProjectUserVotes and ConceptUserVotes entities
  score,    \* project_score, concept_score
  spectra,  \* User.spectra_count
  request,  \* the request in each slot
  asked,    \* vote requests so far; also the id of the vote entity one may create
  given,    \* distributions written to each user so far
  giving,   \* the points of a user as the running distribution read them
  tally,    \* ups minus downs of each user that were saved in a score
  paid,     \* votes of each user that were saved in spectra_count
  overlapped,  \* whether requests or distributions ever ran at the same time
  uncounted    \* users with a vote that changed its entity and no score: refused
               \* for lack of points, or stopped before the score was saved

votesVars == <<votes, score, spectra, request, asked, given, giving, tally, paid,
               overlapped, uncounted>>

Directions == {"up", "down"}
Sign(d) == IF d = "up" THEN 1 ELSE -1

VoteEntities == [id : Nat, user : Users, artifact : Artifacts, direction : Directions]

\* A request with its copies: the points of the user, and the scores of the
\* project and, when it is about a concept, of the concept.
Requests ==
  [step : {"loaded", "found", "voted", "projectSaved"}, id : Nat, user : Users,
   artifact : Artifacts, direction : Directions, points : Int,
   scores : [Artifacts -> Int], vote : VoteEntities \cup {None}, changed : BOOLEAN]

Idle == [step |-> "idle"]

TypeOK ==
  /\ votes \subseteq VoteEntities
  /\ score \in [Artifacts -> Int]
  /\ spectra \in [Users -> Int]
  /\ request \in [Slots -> Requests \cup {Idle}]
  /\ asked \in Nat /\ given \in [Users -> Nat]
  /\ giving \in [Users -> Int \cup {None}]
  /\ tally \in [Users \X Artifacts -> Int] /\ paid \in [Users -> Nat]
  /\ overlapped \in BOOLEAN /\ uncounted \in SUBSET Users

Init ==
  /\ votes = {}
  /\ score = [x \in Artifacts |-> 0]
  /\ spectra = [u \in Users |-> StartSpectra]
  /\ request = [s \in Slots |-> Idle]
  /\ asked = 0 /\ given = [u \in Users |-> 0]
  /\ giving = [u \in Users |-> None]
  /\ tally = [ux \in Users \X Artifacts |-> 0] /\ paid = [u \in Users |-> 0]
  /\ overlapped = FALSE /\ uncounted = {}

Busy == {s \in Slots : request[s] # Idle}
Running == Cardinality(Busy) + Cardinality({u \in Users : giving[u] # None})

At(s, step) == s \in Busy /\ request[s].step = step

VotesOf(u, x) == {w \in votes : w.user = u /\ w.artifact = x}
-----------------------------------------------------------------------------
\* The artifacts a request about x reads; the others are never looked at.
Copied(x) == [y \in Artifacts |-> IF y \in {Project, x} THEN score[y] ELSE 0]

(* Authentication reads the user, then the handler its entities.            *)
Load(s, u, x, d) ==
  /\ s \notin Busy /\ Running < MaxRunning /\ asked < MaxVotes
  /\ u \in Hasty \/ \A t \in Busy : request[t].user # u
  /\ asked' = asked + 1
  /\ overlapped' = (overlapped \/ Running > 0)
  /\ request' = [request EXCEPT ![s] =
       [step |-> "loaded", id |-> asked, user |-> u, artifact |-> x, direction |-> d,
        points |-> spectra[u], scores |-> Copied(x),
        vote |-> None, changed |-> FALSE]]
  /\ UNCHANGED <<votes, score, spectra, given, giving, tally, paid, uncounted>>

(* get_user_vote takes the first entity of an index that may lag behind.    *)
Find(s) ==
  /\ At(s, "loaded")
  /\ LET found == VotesOf(request[s].user, request[s].artifact) IN
     \E w \in found \cup {None} :
       /\ w = None => found = {} \/ request[s].user \in Hasty
       /\ request' = [request EXCEPT ![s].vote = w, ![s].step = "found"]
  /\ UNCHANGED <<votes, score, spectra, asked, given, giving, tally, paid, overlapped, uncounted>>

\* Variant: points may run out while paying.
SufficientBefore(r) == r.points >= 0

\* has_sufficient_points looks at the user as it was loaded.
Sufficient(r) == r.points - Cost >= 0

\* Variant: the vote is free.
ChargeNothing(s) ==
  LET r == request[s] IN
  /\ request' = [request EXCEPT ![s] =
       [r EXCEPT !.step = "voted", !.changed = TRUE,
                 !.scores[r.artifact] = @ + Sign(r.direction)]]
  /\ UNCHANGED uncounted

\* The vote entity is written before the points are looked at. A refused request
\* ends there and saves nothing else.
Charge(s) ==
  LET r == request[s] IN
  /\ request' = [request EXCEPT ![s] =
       IF Sufficient(r)
       THEN [r EXCEPT !.step = "voted", !.changed = TRUE, !.points = @ - Cost,
                      !.scores[r.artifact] = @ + Sign(r.direction)]
       ELSE Idle]
  /\ uncounted' = IF Sufficient(r) THEN uncounted ELSE uncounted \cup {r.user}

\* Variant: a vote is created beside an earlier one in the same direction.
NewVoteAgain(s) ==
  LET r == request[s] IN
  /\ At(s, "found")
  /\ r.vote \in {None} \cup {w \in votes : w.direction = r.direction}
  /\ votes' = votes \cup {[id |-> r.id, user |-> r.user, artifact |-> r.artifact,
                           direction |-> r.direction]}
  /\ Charge(s)
  /\ UNCHANGED <<score, spectra, asked, given, giving, tally, paid, overlapped>>

(* No previous vote: one is created.                                        *)
NewVote(s) ==
  LET r == request[s] IN
  /\ At(s, "found") /\ r.vote = None
  /\ votes' = votes \cup {[id |-> r.id, user |-> r.user, artifact |-> r.artifact,
                           direction |-> r.direction]}
  /\ Charge(s)
  /\ UNCHANGED <<score, spectra, asked, given, giving, tally, paid, overlapped>>

\* Variant: the entity stays.
TakeBackKept(s) ==
  LET r == request[s] IN
  /\ At(s, "found") /\ r.vote # None /\ r.vote.direction # r.direction
  /\ Charge(s)
  /\ UNCHANGED <<votes, score, spectra, asked, given, giving, tally, paid, overlapped>>

(* A previous vote in the other direction is taken back.                    *)
TakeBack(s) ==
  LET r == request[s] IN
  /\ At(s, "found") /\ r.vote # None /\ r.vote.direction # r.direction
  /\ votes' = votes \ {r.vote}
  /\ Charge(s)
  /\ UNCHANGED <<score, spectra, asked, given, giving, tally, paid, overlapped>>

(* A previous vote in the same direction: vote_changed is False.            *)
Repeat(s) ==
  /\ At(s, "found")
  /\ request[s].vote # None /\ request[s].vote.direction = request[s].direction
  /\ request' = [request EXCEPT ![s].step = "voted"]
  /\ UNCHANGED <<votes, score, spectra, asked, given, giving, tally, paid, overlapped, uncounted>>

\* The vote counts once its artifact is saved.
Counted(s) ==
  LET r == request[s] IN
  IF r.changed THEN [tally EXCEPT ![<<r.user, r.artifact>>] = @ + Sign(r.direction)]
  ELSE tally

(* Both handlers save the project, the concept handler for pw_modified_ts.  *)
SaveProject(s) ==
  /\ At(s, "voted")
  /\ score' = [score EXCEPT ![Project] = request[s].scores[Project]]
  /\ tally' = IF request[s].artifact = Project THEN Counted(s) ELSE tally
  /\ request' = [request EXCEPT ![s].step = "projectSaved"]
  /\ UNCHANGED <<votes, spectra, asked, given, giving, paid, overlapped, uncounted>>

\* Variant: the concept is not saved.
SaveConceptForgotten(s) ==
  /\ At(s, "projectSaved") /\ request[s].artifact # Project
  /\ tally' = Counted(s)
  /\ request' = [request EXCEPT ![s] = Idle]
  /\ UNCHANGED <<votes, score, spectra, asked, given, giving, paid, overlapped, uncounted>>

(* The concept handler saves the concept and leaves the user as it was.     *)
SaveConcept(s) ==
  LET r == request[s] IN
  /\ At(s, "projectSaved") /\ r.artifact # Project
  /\ score' = [score EXCEPT ![r.artifact] = r.scores[r.artifact]]
  /\ tally' = Counted(s)
  /\ request' = [request EXCEPT ![s] = Idle]
  /\ UNCHANGED <<votes, spectra, asked, given, giving, paid, overlapped, uncounted>>

(* The project handler saves the user.                                      *)
SaveUser(s) ==
  LET r == request[s] IN
  /\ At(s, "projectSaved") /\ r.artifact = Project
  /\ spectra' = [spectra EXCEPT ![r.user] = r.points]
  /\ paid' = IF r.changed THEN [paid EXCEPT ![r.user] = @ + 1] ELSE paid
  /\ request' = [request EXCEPT ![s] = Idle]
  /\ UNCHANGED <<votes, score, asked, given, giving, tally, overlapped, uncounted>>

(* The request raises or the instance stops: on its Transaction, on the     *)
(* broadcast, on the next save. What is in the datastore stays.             *)
Fail(s) ==
  LET r == request[s]
      saved == r.step = "projectSaved" /\ r.artifact = Project
  IN
  /\ s \in Busy
  /\ uncounted' = IF r.changed /\ ~saved THEN uncounted \cup {r.user} ELSE uncounted
  /\ request' = [request EXCEPT ![s] = Idle]
  /\ UNCHANGED <<votes, score, spectra, asked, given, giving, tally, paid, overlapped>>

(* The distribution reads the users and writes them back in batches. A      *)
(* batch that fails, or a stop, leaves its users without the gift.          *)
GiftRead(u) ==
  /\ giving[u] = None /\ given[u] < MaxGifts /\ Running < MaxRunning
  /\ overlapped' = (overlapped \/ Running > 0)
  /\ giving' = [giving EXCEPT ![u] = spectra[u]]
  /\ UNCHANGED <<votes, score, spectra, request, asked, given, tally, paid, uncounted>>

GiftWrite(u) ==
  /\ giving[u] # None
  /\ spectra' = [spectra EXCEPT ![u] = giving[u] + Gift]
  /\ given' = [given EXCEPT ![u] = @ + 1]
  /\ giving' = [giving EXCEPT ![u] = None]
  /\ UNCHANGED <<votes, score, request, asked, tally, paid, overlapped, uncounted>>

GiftFails(u) ==
  /\ giving[u] # None
  /\ giving' = [giving EXCEPT ![u] = None]
  /\ UNCHANGED <<votes, score, spectra, request, asked, given, tally, paid, overlapped,
                 uncounted>>

Next ==
  \/ \E s \in Slots :
       \/ \E u \in Users, x \in Artifacts, d \in Directions : Load(s, u, x, d)
       \/ Find(s) \/ NewVote(s) \/ TakeBack(s) \/ Repeat(s)
       \/ SaveProject(s) \/ SaveConcept(s) \/ SaveUser(s) \/ Fail(s)
  \/ \E u \in Users : GiftRead(u) \/ GiftWrite(u) \/ GiftFails(u)

Spec == Init /\ [][Next]_votesVars
-----------------------------------------------------------------------------
(* Every copy of a user was checked before it was charged, so no order of   *)
(* overlapping votes and distributions writes a negative spectra_count.     *)
NeverOverdrawn == \A u \in Users : spectra[u] >= 0

(* Users who wait for the answer to one vote before the next, always had    *)
(* the points, and of whom no request changed the vote entity and then      *)
(* failed before the score was saved. After such a failure a second vote in *)
(* the same direction counts again, as it does after a refusal.             *)
Orderly == Users \ (Hasty \cup uncounted)

(* The votes of an orderly user on one artifact that got into its score     *)
(* never add up to two in one direction: voting up again is disallowed, and *)
(* a vote the other way only takes the first one back. The requests of      *)
(* other users, and the distribution, may overlap with them and fail        *)
(* anywhere, and theirs may fail before the entity or after the score.      *)
OneVoteEach == \A u \in Orderly, x \in Artifacts : tally[<<u, x>>] \in -1..1

(* While an orderly user has no request running, the vote entity shows      *)
(* exactly what the user put into the score.                                *)
VoteShowsTally ==
  \A u \in Orderly, x \in Artifacts :
    (\A s \in Busy : request[s].user # u) =>
      IF tally[<<u, x>>] = 0 THEN VotesOf(u, x) = {}
      ELSE \E w \in votes : VotesOf(u, x) = {w} /\ Sign(w.direction) = tally[<<u, x>>]

(* As long as requests never overlapped, a score is between requests the    *)
(* sum of what the users' requests changed in it: refused and repeated      *)
(* votes, and those that failed before the score was saved, left no trace   *)
(* there.                                                                   *)
ScoreIsTally ==
  ~overlapped /\ Busy = {} => \A x \in Artifacts :
    score[x] = MapThenSumSet(LAMBDA u : tally[<<u, x>>], Users)

(* And a user has what was given less what the votes on projects cost; a    *)
(* vote that was refused or failed costs nothing, nor does one on a concept.*)
SpectraAddUp ==
  ~overlapped /\ Running = 0 => \A u \in Users :
    spectra[u] = StartSpectra + Gift * given[u] - Cost * paid[u]

(* "otherwise they are trying to vote up again and we disallow that": of    *)
(* every user's votes on one artifact, at most one counts.                  *)
VoteAgainDisallowed == \A ux \in Users \X Artifacts : tally[ux] \in -1..1
=============================================================================
