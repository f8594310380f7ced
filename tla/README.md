# Verification of the ThinkTopic server

The repository is a Python 2 App Engine application for writing outlines
together. A *project* is a tree of *concepts*; each concept has *phrasings* (its
texts), a *document* selects one phrasing per concept, and a document can be
*published* as a numbered version. Users vote, share by permissions and groups,
and see each other's changes through channels.

The modules here model the parts of that program whose correctness depends on
order: what several requests, threads and caches do to the same entities, and
what a long sequence of legal requests does to redundant state (a list beside
pointers, a cache beside a list, a score beside votes). Pure forms, layout, mail
and the platform itself are left out.

All definitions are translated from the source; `PROJECT.json` names the lines
of each one, every run, every hazard of the code and the properties aimed at it.

## 1. The system

The server keeps all state in the datastore (`ndb`) and in memcache. There are
no transactions outside `server/memcache_shards.py`: a request reads whole
entities, changes its copies and writes them back whole. Queries that are not by
ancestor are eventually consistent. Requests run concurrently, in any number of
instances; background work runs as threads (`handlers/background/publish.py`),
queue tasks (deletion of a project, pings, imports) and cron jobs (analytics,
the daily gift of points).

| Component | State it keeps | Operations | Talks to | Hard because |
|---|---|---|---|---|
| Concept tree (`handlers/artifacts/concept.py`, `models/artifacts/concept.py`) | `Concept.parent`, `children`, `parent_perms`, `linked_to`; `Project.children`, `orphan_concept` | create, move, link, unlink, delete, read, serve | permissions, documents, channels | three copies of the tree shape (pointers, lists, inherited permissions) with no transaction; the lists are repaired by the loops that read them |
| Votes and spectra (`_up_vote`, `_down_vote`, `server/spectra`, `handlers/background/spectra.py`) | vote entities, scores, `User.spectra_count` | vote up or down on a project or a concept, daily gift | project, concept and user entities saved by other requests | check, vote, score and payment are separate writes on copies |
| Publisher (`handlers/background/publish.py`, `models/artifacts/publish.py`, `handlers/artifacts/publish.py`) | `PublishDocument`, `document.published`, memcache entries, lock and status | publish, poll, read, delete | renderer, document | a thread works on the copies of the request that started it; the lock is only advisory |
| Permissions (`models/artifacts/artifact.py`) | `Permission.permissions`, `parent_perms`, `Group.artifacts` | allow, deny, inherit, remove, check | every component | the effective rule is a merge along a chain, memoized per request |
| Channels and collaboration (`models/artifacts/channel.py`, `handlers/artifacts/project.py`) | channel tokens, the status of every tab in a realtime database, answers and a flag in memcache | open, close, list, ping, answer, act | browser, memcache, queue | tokens are put back whole by requests that read them earlier; answers are collected against a timeout; a flag that is read, then set |
| Phrasings and selections (`handlers/artifacts/phrasing.py`, `selectedphrasing.py`) | `Concept.phrasings`, `distilled_phrasing`, three lists of selections, the selections | add, select, delete | documents, permissions | an entity and the list that names it are saved apart, from copies of the whole concept |
| Documents, crawl contexts | a document with its summary and presentation; per concept and document whether it is shown | create, summarize, delete | tree, phrasings | deletes fan out over several entities |
| Project lifecycle (`models/artifacts/project.py`) | a project and everything in it | create, import, restore, delete by task | all | the task works on a pickled copy, fails half way, is tried twice, and is not alone |
| Analytics (`handlers/background/analytics.py`, `models/analytic`) | events; hourly, daily and weekly totals of the site, concepts, users and organizations | record, aggregate | cron | runs fail, overlap and come late; totals live in dictionaries of the class between runs |
| Configuration cache, sharded counter | one datastore entity each, a memcache copy | read, set, increment | everything | stale copies |
| Accounts, organizations, payment, search, mail, rendering, migration | | | | mostly forms, external protocols and layout |

The browser client (`static/js`) is the environment: it decides which moves a
user is offered, from its own copy of the tree, and sends them 2.5 seconds later; the
server does not decide again.

## 2. The modules

| Module | Models | Kind |
|---|---|---|
| `ConceptForest` | what the concept tree promises: create, move, delete on parent pointers | abstract specification |
| `ChildList` | the Python list of children and the repair loop of `get_children` | operators |
| `ChildReads` | repeated reads of one damaged list | state machine over `ChildList` |
| `ConceptTree` | the tree with lists, links, inherited permissions, moves on their way and failed moves | detailed specification; its steps are those of `ConceptForest`, or late moves |
| `ConceptTreeProofs` | theorems about these four: steps of the forest, cycles, types, lists, permissions, order, and reads that lose nothing | TLAPS |
| `Votes` | overlapping votes and gifts | state machine |
| `VotesProofs` | one vote per user, scores and points that add up, points that never go negative | TLAPS |
| `Permissions` | rules, their merge along a chain, group lists, audiences | state machine |
| `PermissionsProofs` | the nearest rule, the groups' lists, whom a change affects and who is told | TLAPS |
| `Phrasings` | a concept's phrasings and what each document shows | state machine |
| `PhrasingsProofs` | one selection for each document, no dead keys, what is shown is stored and was asked for | TLAPS |
| `Publisher` | one document's publish jobs, readers, deletes and caches | state machine |
| `PublisherProofs` | versions in order, answered versions listed, memcache that serves the list | TLAPS |
| `HourLedger` | in what order hours are closed | abstract specification |
| `HourlyTotals` | the hourly aggregation with its dictionaries | detailed specification, refines `HourLedger` |
| `HourlyTotalsProofs` | no hour skipped, that refinement, exact totals of clean hours | TLAPS |
| `PeriodTotals` | the daily and weekly aggregation, above hours that close as `HourLedger` says | state machine composed with `HourLedger` |
| `PeriodTotalsProofs` | no day skipped, exact clean days | TLAPS |
| `ProjectRemoval` | the deletion of a project beside another one and a publisher's thread | state machine |
| `Channels` | tokens, connections, rounds of pings and the flag between them | state machine |
| `ProjectProofs` | theorems about these two: the project is shown whole or not at all, nothing of it is forgotten, the flag has its task, who answers keeps the token | TLAPS |
| `MC*` | values for the constants of each, for TLC | model checking |

A definition headed *Variant* is the code with one plausible mistake in it. No
specification uses one; it stands before the definition it varies, to show that
the properties tell the two apart. Where one proof module is about two state
machines, the second one's `Init`, `Next`, `Spec` and `TypeOK` carry its name
(`ChannelsSpec`, `ReadsSpec`), so that a module can extend both.

### ConceptForest and ConceptTree

State: `live` are the stored concepts, `used` the keys handed out (uuids are
never reused), `parent` is `Concept.parent` with `Project` for `None`, `orphans`
is `Project.orphan_concept`. `ConceptTree` adds `children` (the list of every
node, project included), `parentPerms` (the keys in `parent_perms`, by the node
they belong to, root first), and `linkedTo` (`Concept.linked_to`). `asked` holds the moves
a browser has checked on the stored tree and not sent yet; `late` counts the moves
that were saved on another tree than they were checked on.

One action is one request, with everything it saves, but for a move, which is two
steps: `Ask`, the check in the browser, and `Move`, the save. The actions are `Create`
(`ConceptHandler.put`), `Move` and `MoveLink` (`post` and `set_parent`),
`MoveFails` (the same request when it raises between its saves), `Withdraw` (a request
that is lost or refused, or replaced by the next move of the concept), `Link`,
`Unlink`, `Delete` (`delete` and `rdelete`, for a caller who may write
everything and for one who may not write `Protected`), `ReadChildren` and
`ServeProject`. The lists that a response repairs while it serializes its
concepts are part of the action.

Three points where the code is less obvious than it looks:

* `get_children` removes dead keys from the list it iterates over, so the key
  after a removed one is not looked at. `Visited` models which keys it sees.
* A link's key is dead by that test, since the concept's pointer names another
  node. So links vanish from lists as they are read; `linked_to` stays.
* `set_parent` computes the position of the next sibling before it takes the
  concept out of the same list, and corrects it only if the concept stood more
  than one place before. So a move to where the concept already stands, directly
  before the sibling, puts it directly behind. `MovedBeforeSibling` is stated
  for every other move.

Who checks that a new parent lies outside the subtree of the moved concept? The
browser does, on its copy of the tree (`static/js/event_listeners/concept.js:1281`):
each step takes the concept to its parent's parent, or to a sibling, as the copy shows
them. The request follows 2.5 seconds after the last step (`:1349`). The server checks
rights and siblings only (`handlers/artifacts/concept.py:443`), so `MayMove` allows
any place. In between, every other request may run: `Ask` does not stop them, and
`Move` of a pair in `asked` may meet creates, deletes that leave orphans, links,
repairs and failed moves. Another move outdates what the browsers have checked: it
empties `asked`. A copy also differs from the tree when a request of its own failed,
since the handler of errors (`static/js/controllers/comms.js:262`) writes a log line
and the queue goes on. So a move that is not in `asked` may name any parent; `MaxLate`
bounds how many of these there are, and they do close cycles.

`MayMove` leaves out two kinds of moves: of a concept that is on a cycle already, and
of one whose list names, by a link, one of its ancestors. The permission updates of the
first never end; those of the second meet the moved concept itself. Links below the
concept itself are otherwise allowed, since neither side checks for them: the dialog
looks for duplicates only (`static/js/event_listeners/concept.js:1033`).

A link makes it possible that a list names a concept twice (two links below one
parent, one of them moved). With two dead keys before the two entries, serving the
project takes out the first of them, and the concept passes what stood between: of
`<<d, e, y, x, y>>`, with `d` and `e` dead, remains `<<e, x, y>>`. `SiblingsKeepOrder`
therefore speaks of the concepts a list names once (`NamedOnce`).

`ConceptForest` is what remains when lists, links, permissions and browsers are
hidden; its `Move` is one that meets the tree it was checked on. The mapping is the
identity on the four shared variables. `ForestSteps` says that every step of the tree is
a step of the forest or a late move of one concept.

### ChildReads

One node, any list up to a length over a set of keys, any set of stored
children: the states concurrent saves of whole entities leave behind. The only
action is one call of `get_children`, with the arbitrary order of
`dict.values()` for the children the list does not name.

### Votes

A request is a record in a slot: its step and its copies of the user's points,
the two scores and the old vote. The actions are the datastore operations:
`Load`, `Find` (the query), `NewVote`/`TakeBack`/`Repeat` (put or delete of the
vote entity with the test of the points right after it), `SaveProject`,
`SaveConcept`, `SaveUser`; `GiftRead` and `GiftWrite` are the cron job. A vote on
a concept is charged to a copy of the user that nobody saves; `SaveUser`
therefore occurs for votes on projects only. `Fail` ends a request before any of these:
it raises on its transaction record, on the messages to other users or on a save, or
the instance stops. `GiftFails` is a distribution that ends between reading a user and
the `put_multi`. A write that raises is taken to have stored nothing.

History variables, which the program does not have: `tally` (what each user's saved
requests put into each score), `paid` (votes saved in `spectra_count`), `given`
(distributions that were written), `overlapped` and `uncounted`: the users of whom a
request changed the vote entity and ended before the score was saved, by refusal or
failure. The code has no way back from there: the next vote in the same direction
counts a second time. `Hasty` users send a request before the last one is answered,
and may meet an index that does not show their last vote yet; the others wait.

### Permissions

`rules` is `Permission.permissions` of every artifact (`"none"` for a group that is
not a key), `listed` the groups whose `artifacts` name the project. `Chain`,
`Operations` and `Alternative` are `parent_perms`, `operations_list` and
`get_alternative_perm`; the chain is fixed here, and `ConceptTree` models what moves
do to it. `Merged` is `refresh_permission_inheritance`, `HasPermission` the test that
every handler makes, for users who are neither owner nor administrator: such a
user is the set of groups they are in.

A request holds copies of the entities it read. `AddPerm`, `AddInherit`, `RmPerm` and
`RemoveGroup` start one with the edits it will make, `EditAndPutGroup` and
`PutPermission` carry one edit out and save the two entities in the order of the code,
`Tell` finds whom the change is sent to. Before that the handlers fetch the artifact's
organization, which raises if there is none (`handlers/artifacts/project.py:543`,
`:598`, `:652`): `Tell` is for `Organized` artifacts, and a request on another one
ends by `Fail`, with its change saved. `Fail` is also a stop or an exception anywhere
before. A project has an organization only if its creator is in one (`:467`), a
document takes that of its creator too (`models/artifacts/document.py:75`), so the run
has a project without and a document with one. The requests are those of an owner or
administrator, who pass every check. History variables: `told`, `overlapped`,
`inherited`, `stopped` (the last request raised or was stopped) and `torn` (the groups
for which one was stopped between the group and the rules).

### Phrasings

One concept. `concept` holds its `phrasings`, `distilled_phrasing` and the three lists
of selections; `selections` is what is stored under each key, `stored` the phrasings
stored. A *place* is a document other than the distilled one, a summary or a
presentation; `Kind` says which list its selection is in. Requests take the keys of new
entities from their number, since uuids are never reused.

`Add`, `Select` and `Delete` begin a request with its copy of the concept. `Find` is
`has_selected_phrasing` with `get_selected_phrasing`, `PutSelection` and `PutConcept` save
the two entities (first the selection, in every handler), `FindToDelete`, `Drop` and
`Erase` are `Phrasing.delete`. `Raise` is the exception on a listed key that holds
nothing, `Stop` the end of an instance. `put_multi` of an added phrasing with its
concept is taken to be one write. History variables: `chosen`, `overlapped`, `mixed`,
`stopped` and `raised`.

### Publisher

One document and one user group. A job is a publish request with the thread it starts;
its actions are the handler's check of the name (`Check`), its check of the lock
(`Start`), and the thread's writes in order: `SetLock`, `Store`, `Cache`, `List`,
`Answer`, `Release`, with `Fail` for an exception at any step in `FailSteps`. `name =
None` asks for the default, the next number. `Miss` and `Fill` are a reader that finds
no memcache entry; `Delete`, `Unlist`, `Uncache`, `Erase` the delete of a version: it
reads the document, puts that copy (`held`) without the version, and may so undo what
a job has put in between. The hook of the deleted version finds the document as the
request has it, so puts nothing more. `Evict` and `Expire` are memcache. Rendering is
a step that may fail. Summaries and presentations run the same code under other names.
`Existing` are the versions of a list that are still stored, in its order, and
`RemoveFirst` is `list.remove`; both pick positions of the list.

### HourLedger and HourlyTotals

`events` are the stored events by hour, `site`, `con` and `org` the stored totals;
`art_ana_stats` and `org_ana_stats` are the dictionaries of the class, by instance.
A thread (`run`) begins with `StartFirst` (no hour was ever closed) or `StartNext`,
and takes one hour after the other: `Read` is the query for its events, each `Count`
one event, `Put` the `put_multi` at its end, `EndOfRun` the test of the clock.
`Count` includes what a full dictionary does: the entries touched least are put and
removed, and read again when another event names them. `PutFails` stores any part
and ends the thread, `RunFails` is an exception elsewhere, `Stop` the end of an
instance. `unclean` is history: hours that a run read early, shared with another run
or did not finish. The refinement mapping gives the ledger `Closed`, the hours with
a stat of the site.

Left out: totals of users, which are kept like those of concepts under another
limit; more than one organization; the kinds of events, of which the totals are
sums. Queries are taken to see what was put before them.

### PeriodTotals

`_process_analytics` for one class of stats: of the site (`kind`), or of its
`Entities`. `Tick` and `CloseHour` are the environment, and exactly the actions of
`HourLedger`, which `HourlyTotals` implements; `closed` and `seen` say for which hours,
and for which entities in them, a stat exists. A thread goes from `Start` to `FirstTime`
(no day has a stat: every day is summed up in memory and all are put at once, by
the clock as it was at the start) or to `GoOn` (from the end of the last stat: each
day is put by itself, by the clock as it is). `Frame` sums up a day, `Over` meets one
that has not ended. `number` and `total` count, for each entity, the stats of a day
and how often they include an hour: stats have random keys, so two of one day are
possible. History: `processed`, `unclean`, and `torn`, the days of a first put that
stored a part of them.

The same code makes weeks from days. The monthly run is disabled in the code. The
totals of the site omit one kind of event that those of entities count (`con_nav`;
`handlers/background/analytics.py:464` and after); the model counts hours, not kinds.

### ProjectRemoval

The entities are `project` (stored, with owners, its `children`), `docs` with
`docRules`, `items` (all that hangs on a document), `roots` (the top concepts, each
with its subtree), `rules` and `groups`. A job is a request and later its task:
`Load`, `Hide`, `ForgetInGroups` and `Defer` are `ProjectHandler.delete` and
`Project.delete`; the task goes through `GetDocuments`, `Sweep`/`Swept` for each
document, `DeleteRules`, `DeleteDocuments`, `GetChildren`, `Rdelete` for each top
concept, `GroupsOfRules` (the groups that have a rule in the project's permission,
`RuleGroups`; others may list the project too), `DeletePermission` and
`DeleteProject`. `self` is the pickled project, `loaded` the documents as the task
read them, `context` the project entity that stays in the task's cache once it was
put. `Raise` is what the code does when something is gone: the task starts again once,
then it is dropped. `TaskFails`, `RequestFails` and `ThreadFails` stop any of them
between two writes. `Publish`, `Store`, `List` and `SaveProject` are a publisher's
thread with the copies of its request. The task's queries have no ancestor, so they
may not show what was put shortly before (`Fresh`): `Swept` ends a document while such
items are left, and `GetChildren` takes a concept that its query does not show for
dead, removes at least one dead key and leaves open which others (`ChildList` and
`reads` have that loop exactly). History: `revived`, what old copies put back, and
`missed`, what no query showed.

The task never touches votes (`ProjectUserVotes`, `ConceptUserVotes`) and transactions;
these stay, and no property is about them. Left out: what happens inside a subtree
(`ConceptTree` has it; a query that lags there leaves concepts too), queries that still
show what was deleted, the search index, requests that add concepts or documents or
change rules meanwhile, and a group of the rules that was deleted, on which the request
raises (`models/artifacts/project.py:124`).

### Channels

`tokens` are the stored `ChannelToken`s, `status` the node of each tab in the realtime
database (`"old"`: off, and the token older than three minutes). `Enter`, `Leave`,
`Blip` and `Answer` are what a tab does, `Age` is time. `Prune` is what
`ChannelToken.get_by_project_key` does on every call: it drops tokens past their time.
`GetToken` and `PutToken` are a request on a concept that puts its token back whole
(`ActWithout`: when it has none). `GetFlag` and `SetFlag` are the request for the
users of a project with `ping_test`, which defers the task `check_ping_replies`:
`PingAll`, ten seconds, `Collect` for each token listed, `Finally`. `Raises` is an
exception in the task, `Dies` an instance that stops under it, after which the queue
tries once more. History: `heard`, the tabs that answered in the present round, and
`raced`. A tab that answered stays in `heard` even when a request drops its token.

Left out: the expiry of a token after two hours and a quarter, and the messages
themselves. Listing tokens and sending their pings is one step, and an answer is
taken to stay in memcache for the ten seconds of a round.

## 3. What the runs check

| Run | Bounds | Shows |
|---|---|---|
| `reads` | lists up to 4 keys over 4 keys, beside every set of children | no read loses or reorders a child; the list is right in the end |
| `plain` | 4 concepts, 1 protected, no links | lists are exactly the children; permissions are inherited from the present ancestors; a moved concept stands directly before its sibling |
| `links` | 3 concepts, a link, a checked move on its way, a late move | no cycle while moves meet the tree they were checked on; each request is a step of the forest or a late move; no request but a move, or a change of a link, disturbs the order of the concepts a list names once. All with failed moves, dead keys and links in lists |
| `votes` | 2 users, one hasty; a project and a concept; 3 votes, 1 gift each; 2 at a time, failures anywhere; points for two votes | see below |
| `permissions` | a project without organization and a document with one and with an operation of its own; 2 groups; 3 requests, 2 at a time, failures anywhere | see below |
| `phrasings` | the distilled document, another and its summary; 4 requests, 2 at a time, stopped anywhere | see below |
| `publisher` | 2 jobs, 3 names, 2 operations at a time, failures anywhere, lock may expire at any time | see below |
| `hourly` | 3 hours, 3 events on 2 concepts, a dictionary that keeps one entry; 2 threads in an instance, one trouble | see below |
| `daily` | 7 hours in days of two; 2 threads, one trouble; the site, or a concept | see below |
| `removal` | 2 documents with a publication, a marker and a late publication, a concept that goes and one that is kept; the late publication and the first concept may be missed by queries; 3 groups, one without a rule; 2 requests, 2 failures | see below |
| `channels` | 2 tabs of one user, 2 rounds, 1 stopped instance, 1 shaky connection | see below |
| `votes_refused` | no points to begin with, a gift that pays for two votes, one request at a time | a disagreement of the code with its own text, section 5 |

Why the bounds are enough. A tree hazard needs a concept, its old and new parents and
a sibling: four. A cycle takes two moves, or a link or a failed move that touches
pointers it should not: three concepts, a link, a checked move and a late one. The
locked concept is left to `plain`, since with it `links` takes more than five minutes;
so `links` has no orphans, which the theorems do cover. The repair loop needs two
adjacent dead keys and a live one on either side: four. A vote needs a first vote, a
contrary one and a repetition: three, and two overlap at a time because each request
writes back the copies it took at its start, so a third one repeats what the second
does. Two publish jobs give every order of two threads, and of a thread with a read or
a delete; 0 in `MCNames` is a name that is no number, 1 and 2 are both names and the
next numbers. A rule needs one on the project, one on the document and one that
overrides or removes one of them: three requests, for the group or for another. Two
selections for one document need two requests that both find none; a dead key in a
list needs an add, a selection and two requests that overlap: four. An hour left open,
and one closed after it, need three; a dictionary that keeps one entry drops one
whenever the concept changes, so three events take an entry out and in again. A day
passed over needs one on either side: three. Two deletions and one thread give every
order of a pickled copy, the entity and a copy that comes back; two failures use up
both attempts of a task, or one of each request. A round that another overtakes needs
two; a token put back needs the tab that left and one that acts. Every bound is a
constant: `MaxLen`, `MaxVotes`, `MaxGifts`, `MaxRequests`, `MaxRunning`, `MaxHour`,
`MaxEvents`, `High`, `Low`, `MaxTroubles`, `MaxFaults`, `MaxDeaths`, `MaxAsked`,
`MaxLate`, `Shaky`, and the size of `Concepts`, `LinkIds` and `Jobs`, since keys are
never reused. Symmetry is used in runs without liveness properties.

`links`. `ForestSteps` is what the lists and links must not do: a delete follows the
pointers and not the links, a failed move leaves the pointer alone, a link that is moved
or removed leaves its concept where it is. `NoCycle` says what the browser's check is good
for: while each move met the tree it was checked on, nothing that came between the check
and the save (new concepts, deletes, links, failed moves) makes a cycle. It does not hold
after a late move, and the code does nothing to prevent one: the first hazard of the list.

`votes`. For every interleaving and failure: points never go negative (`NeverOverdrawn`);
the votes of a user who waits for answers, always has the points and had no request fail
between vote entity and score (`Orderly`) count once per
artifact (`OneVoteEach`), and the vote entity shows what they counted
(`VoteShowsTally`), whatever the requests of other users and the gift do, and wherever
they fail; the user's own may fail before the entity, or after the score. As
long as nothing overlapped: scores are the sum of what requests counted
(`ScoreIsTally`), points are what was given less what was charged on projects
(`SpectraAddUp`). With overlap the code loses votes and points, each request
writing back its copies; nothing in the repository promises otherwise, so this
is a hazard on the list and not a finding.

`permissions`. For every interleaving the rule in force for a group is the nearest one
stated (`NearestRuleCounts`: the code merges root first, the property looks from the
artifact up). As long as nothing overlapped: a group lists the project if and only if
it has a rule there, the rule inherit and stops between group and rules aside
(`ListedIffRules`); a request that ends without raising has sent its change to whoever
gained or lost the right to read, and is about an artifact with an organization
(`ToldIfAffected`; the others save their change and tell nobody); and a change for a
group as shared alters rights of its members only, as required those of the others
only (`ChangeTouchesItsGroup`). With overlap each request saves the whole entity it
read and the earlier change is lost, as with votes.

`phrasings`. For every interleaving and stop: a document never has two selections
(`OneSelectionEach`). This is not for want of overlap, since two requests may both
find none and both store one: the list that is saved is one request's copy, extended by
its own key for a document for which that copy had none, so one of the two is lost with
the list that named it. While deletes ran alone and to their end, no request meets a
listed key that is dead (`NeverRaises`): the selection is saved before the list, so a stop
leaves at most a selection nobody names. While moreover nothing was stopped, documents
show phrasings that exist, an add between its two writes aside (`ShownIsStored`). And
without overlap every place shows what it was last asked to show (`ChosenIsShown`). A
delete beside a selection does break these: the copy of the other request puts a dead key
back into the list, and every later request for the concept raises on it.

`publisher`. For every interleaving and failure: versions are listed in the order of
their numbers, under different names (`VersionsInOrder`), and every started job answers
its client (`StartedIsAnswered`). The first holds under overlap for a reason worth
knowing: the name is looked up, the number taken and the key appended in *one* copy of
the document, so the later of two threads drops the version of the earlier one rather
than listing two alike. That loss is why `AnsweredIsListed` and `CacheTellsList` are
stated for histories without overlap (the second also without a failure after the
version was stored, which leaves an unlisted version in memcache).

`hourly`. Whatever overlaps, fails or stops: hours have stats without a gap from the
first event on (`NoHourSkipped`), in the order of the ledger (`LedgerSpec`), and every
hour that ended gets one in the end (`EndedHoursAreClosed`). An hour that one run read
after its end and put without failing has the right totals of site, organization and
concepts (`CleanHoursExact`), though entries were dropped from the dictionary in the
middle of it and runs that failed before left theirs behind. An hour the run read
too early stays short for good, and overlapping runs count twice: `unclean`.

`daily`. A day that one run read when its hours were closed, and put, counts each hour
once, in one stat (`CleanDaysExact`); no day before the last one is missing, except in a
first put of which a part was stored (`NoDaySkipped`). Both exceptions are behaviour of
the code: a day is summed up once the clock has passed it, closed or not, and runs
go on from the last stat, whatever is missing before it.

`removal`. When the project is gone, even while another task is still at work, nothing
is left of documents, what hung on them, concepts and rules but what the user may not
write, what other copies put back and what no query showed, and no group of the
organization or with a rule lists it; a group that lists it without a rule goes on
listing it (`NothingLeft`). Owners and the groups of the organization never see a
project that is half gone (`ShownIsWhole`, unless a thread put it back; other handlers
that save the whole project, which are not modelled, could do so as well); and a
failure before the documents went is made good by the second attempt (`RetryHeals`).
After the documents went, no attempt gets past them, since `delete_artifact` is called
on what `get` did not find: the rest of the project then stays, hidden, for good.

`channels`. Who answers in a round keeps the token until the task is over
(`AnswererKept`), unless two requests both found no flag, or the tab's connection was
lost: a tab whose status is off is dropped by any request after three minutes, and at
once by one from another tab of its user, though it has just answered. A flag that is
set has a task that will give it back, instances that stop too often aside
(`FlagHasTask`), and who closed the project leaves the list, though requests put the
token back (`ClosedTabsLeave`).

Fairness. `Publisher`: weak fairness of each job's thread. A started thread runs to
its end unless the instance is stopped; no fairness for requests, reads, deletes,
expiry or eviction. `ChildReads`: weak fairness of `GetChildren`. Every client that
opens the project and every create or move below the node reads its children, so reads
recur while the project is used. `HourlyTotals`: weak fairness of the clock, of every
thread that was started, and of starts, which cron repeats. `ProjectRemoval`: weak
fairness of each request and its task (`Step`); none of publishers, failures or
further requests. `Channels`: time passes for a token, a task goes on, and a tab that
is open makes requests now and then; none of answers, rounds or closing. The other
modules have safety properties only and state no fairness. Deadlock is not checked
where the bounds on keys, votes or jobs let a history end.

## 4. What is proved

The proofs hold for every value of the constants, under the assumptions the modules
name. Every invariant and every action property of a passing run is stated by a
theorem, and so are the refinement of the ledger and the steps of the forest;
`PROJECT.json` lists them. Few of these properties are inductive as they stand. What
follows says, for each module, which invariant is, and why it is needed.

**The concept tree** (`ConceptTreeProofs`).

* *Steps of the forest* (`Refinement`). A request changes the four variables of the
  forest by its own step there, by a late move, or not at all: lists, links,
  permissions and the moves on their way do not enter. Two facts about the forest come
  with it, and need no condition on late moves: `OrphansKept` and `DeletesOneSubtree`.
* *No cycle* (`TreeAcyclic`). `Forest!Acyclic` says every nonempty set of stored
  concepts has a member whose parent is outside it. Alone it is not inductive, in two
  ways. A new concept could turn out to be the parent of an older one, so pointers
  have to name keys already used. And a move on its way was checked on a tree that has
  changed since: `AskedOutside` says of every one in `asked` that its place still lies
  outside the subtree of its concept, while that is stored. It holds across a create,
  since a place that was asked for is not a new concept (`CreateOutside`), a delete,
  which makes subtrees smaller (`DeleteOutside`), and all that moves no pointer; a
  move empties `asked`. Then a set that a checked move would close contains the moved
  concept and, by closure, everything below it, so the new parent is not in it.
* *Types* (`TreeTypeCorrect`). Lists are changed by a fold over serialized concepts
  and permissions by a fold down the tree, so `TreeTyped` needs induction over finite
  sets and over pointers that do not cycle.
* *Lists, inheritance, places* (`ListsAreExact`, `AncestorsInherited`,
  `PlacedBeforeSibling`). These are theorems for `LinkIds = {}` and, like `NoCycle`,
  about histories without late moves, as the run `plain` checks them; with links they
  are not true, since a list then names what is not a child, and reads remove it.
  `ExactLists` adds that an unused key has an empty list. `InheritedSoFar` says what a
  move has done to the permissions after the first `k` children of a node: their
  subtrees inherit from their parents, all else is as before. The induction is along
  the children and, below each, along the pointers.
* *Order* (`OrderKept`), with any links, dead keys and failed moves. `Follows` relates
  two lists, the second of which comes from the first by removals and by insertions of
  one concept; `PlacesFollow` gets it from an increasing map of positions. It is
  transitive, so the removals of a fold over a list compose (`Traces`). The attempt to
  prove this without `NamedOnce` led to the counterexample of section 2, which is out
  of reach of the bounds of `links`: it takes four concepts and four links.
* *Reads* (`ReadsLoseNothing`, about `ChildReads`). What `get_children` keeps are
  entries at increasing positions of the old list (`AtPlaces`); that it returns every
  stored child exactly once follows by counting (`ReturnedExact`).

**Votes** (`VotesProofs`).

* `VotesInStep`, for an orderly user, whose requests were neither refused nor failed
  between the entity and the score: each has one request at work (`OneRequestEach`); a
  request's copy of the old vote is the one stored (`FoundIsStored`); and what the
  entity says is what the user put into the score, but for the request between its
  write of the entity and its write of the score, which `Owes` exactly its own
  direction (`PairInStep`). Hence `OneVotePerUser` and `EntityTellsTally`.
* `Books`, while nothing overlapped: scores and points are sums over the users, taken
  by induction over the finite set of users (`SumOver`), and every copy in a request
  is current (`CopiesMatch`). Hence `ScoresAreTallies` and `PointsAreAccounted`.
* `CopiesCovered`: every copy of a user's points in a running request or distribution
  is nonnegative. Since a request is charged on the copy it tested, and the copy is
  what is written, no order of the writes matters (`PointsNeverNegative`).

**Permissions** (`PermissionsProofs`).

* `NearestCounts`: after the first `k` artifacts of the chain the merge says what the
  last of them that says anything said (`SaidLast`), by induction along the chain.
* `Listing`, of requests that do not overlap: a request on the project saves the group
  before the rules, so between the two the list goes by the rules in the request's
  copy. Hence `ListsKeepUp`.
* `CopiesCurrent`: a request that has run alone has the rules in force in its copies,
  but for an edit it has yet to save. `OnlyItsGroup` adds that one edit changes one
  entry of the rules. `EveryoneTold` never opens the merge: whatever decides who may
  read is asked about both versions of the rules.

**Phrasings** (`PhrasingsProofs`).

* `KeysApart`, for `SelectedOnce`. What is stored does not make an inductive
  invariant, since a request may save a selection another has deleted, under a key
  that lists still name. So what a request is about to save counts among what a key is
  for; no key is for two places, in no list, stored or copied, two keys are for the
  same place, and the numbers of requests still looking, and those not given out, are
  used nowhere.
* `Living`, for `NoneRaises`: while deletes ran alone and to their end, all listed
  keys are alive, in the stored concept, unless a delete is dropping them, and in the
  copies, but for a new key picked and not yet put.
* `AllStored`, for `ShownStays`: lists and copies name selections of phrasings that
  are stored or about to be, and a delete has seen all those of its phrasing.
* `Chosen`, for `AskedIsShown`: the copy of the one request at work, or what is stored
  between its two writes, differs from what was chosen by what it has done so far.

**Publisher** (`PublisherProofs`), in layers: `Typed`; `Orderly`, for `ListedInOrder`;
and `Quiet`, for `AnsweredStaysListed` and `CacheServesList`. `Orderly` says of every
job's copy of the list what the property says of the stored one, that until a job
stores its version the name is free in its copy, from then on the number exceeds those
of the copy, and that what is on any list is never stored again (`Settled`). `Quiet`
says that without overlap one job, delete or read is at work and has the list as it is
(`OneAtATime`), and that memcache holds what is listed, or what is on its way to or
from the list, or what a job that failed has left (`CacheRight`).

**Analytics.**

* `HourlyTotalsProofs`: `NoHourEverSkipped` and `KeepsTheLedger`, the refinement of
  `HourLedger` as a temporal theorem. A thread may be about to close an hour, so `Inv`
  adds that events lie in hours that have begun (`EventsPast`), and that the hour each
  running thread is at, like each closed one, has every hour since the first event
  closed before it (`RunsInOrder`, `ClosedInOrder`). No assumption on overlap is
  needed: two threads can only close the same next hour. For `CleanHoursCounted`,
  `Books` says of an hour that is not `unclean` that it is untouched, or one thread
  alone has counted a prefix of its events, in its dictionary or in what that put
  (`UnderWay`), or its totals are right and every dictionary has them right
  (`Settled`).
* `PeriodTotalsProofs`: `Orderly`, for `NoDayPassedOver`, says the same of days and of
  the threads at work; `Exactly`, for `CleanDaysCounted`, that a thread that nobody
  disturbed works on days without a stat (`Fresh`), and has read of complete days all
  there is to read (`ReadExactly`).

**The project** (`ProjectProofs`).

* *Removal.* `ShownOnlyWhole`: a project that is not whole was begun by some task
  (`WholeBefore`), whose request had taken it from owners and groups by then
  (`HidesOwners`, `LeavesGroups`); and no copy that a request or task will put names
  owners (`CopiesHidden`). `NothingForgotten`: once the project is gone nothing tells
  which steps led there, so `Clears` says for each step of a task what the steps
  before it have cleared, that nothing but what is recorded as revived comes back, and
  nothing but what is recorded as missed was passed over.
* *Presence.* `FlagAlwaysHasTask`, `AnswerersKept`: while nothing raced, a task holds
  the flag (`FlagIsHeld`) and so is the only one (`OneTask`); answers are counted
  while one waits (`HeardByTask`); and who answered has a token, unless the connection
  was lost, and, as long as the task has yet to look, an answer in memcache
  (`RepliesWait`).

The type invariants of `ConceptForest`, `ConceptTree`, `Votes`, `Phrasings`,
`HourlyTotals`, `ProjectRemoval` and `Channels` are proved and not checked again by a
run.

Assumptions on constants, beyond bounds and types. Sets of users, slots and keys are
finite. `None` is no value it stands in for: no place, key or entity
(`PhrasingsAssumption`, `PublisherAssumption`, `VotesAssumption`); in Python it is
none of these either. `PermissionsAssumption` says what the subclasses of `Artifact`
have: a chain without the artifact itself, the operation *read* among all lists of
operations, and for each operation an equivalent the ancestors have, or none
(`models/artifacts/document.py:39`, `models/artifacts/artifact.py:144`). `LinkIds =
{}` is a hypothesis of the three theorems named above, and of no other.

How data is reasoned about. The induction theorems of the library that take an
operator cannot be instantiated; `WFMin` and finite sets without a least
counterexample do the same for numbers, chains, users and acyclic pointers. `SelectSeq`
and the functions built by `@@` are opaque to the prover, so the modules pick positions
of a list instead (`Picked`, `Existing`, `RemoveFirst`).

Only model-checked: liveness (`EventuallyRepaired`, `StartedIsAnswered`,
`EndedHoursAreClosed`, `RetryHeals`, `ClosedTabsLeave`), as the prover has no rules
for `ENABLED`; and the violation `VoteAgainDisallowed`.

## 5. Findings

One run that TLC finds violated, with the text it disagrees with.

* `votes_refused`: a vote refused for lack of points has already written or deleted
  the vote entity. An up vote without points leaves its record; after a gift a down
  vote takes one point off and removes the record, and the next one takes one more:
  one user at -2 (`handlers/artifacts/concept.py:753`, `:760`). A request that fails
  between the entity and the score has the same effect. Two overlapping requests of
  one user count twice as well; `Hasty` users, and why `OneVoteEach` leaves them out.

Three more points were met while modelling. The models do what the code does, and
`PROJECT.json` lists them as hazards: a concept can be linked twice under one parent,
because a read takes the first link out of the list the check looks at
(`handlers/artifacts/concept.py:856`); with two dead keys in `project.children`, serving
the project removes a live one, since the index is not corrected (`:137`); two publish
requests pass the lock check before either thread sets the lock
(`handlers/background/publish.py:173`).

And three in parts the models leave out: an open tab whose status went off is not turned
on again (`static/js/controllers/channel.js:63`); a tab without a token broadcasts with an
empty user, which the others show as a nameless row; a summary's crawl context is stored
under another document than it is looked up by (`handlers/artifacts/crawlcontext.py:144`,
`:152`).

## 6. What is not modelled, and the plan

Hazards without a property are in `PROJECT.json` with the reason. In this order:

1. `ConceptRequests`: overlapping tree requests as read-modify-write of whole
   entities with the lagging query; what survives (no created concept is lost from
   the pointers while only creates and reads overlap; no cycle while moves run alone)
   and the conditions it needs.
2. The rest of `Permissions`: the copy of the merged rules that a request keeps across
   a move, a phrasing's own merge, the false names of hidden groups. Two points of the
   present module are known to need a look by the code's owners and are kept as its
   exceptions: the rule *inherit* removes the rule and then lists the project with the
   group all the same (`models/artifacts/artifact.py:206`, `:217`; the variable
   `inherited`), and the phrasing handler tells nobody that it removed a group, since the
   method it calls for that does not exist (`handlers/artifacts/phrasing.py:345`).
3. `ProjectRemoval` beside requests that add concepts, documents or publications;
   documents with what they own; crawl contexts.
4. The sharded counter, the only transactional code, and the configuration cache, whose
   copy in memcache is stored under another namespace than it is read from
   (`server/__init__.py:181`).
5. The importer and the restore of a project; the browser's table of users.
6. Proofs of the modules above as they come. Of the present ones, every safety and action
   property of a passing run is proved, some under conditions section 4 names.

Not planned: payment (an external merchant's protocol), search, mail, rendering,
migration scripts, admin forms: I/O or layout, with no state of their own to keep
consistent.
