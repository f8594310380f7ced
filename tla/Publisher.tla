----------------------------- MODULE Publisher -----------------------------
(***************************************************************************)
(* Publishing one document to one group: DocumentPublishHandler starts a   *)
(* DocumentPublisherThread (handlers/background/publish.py), which renders  *)
(* in the background under a memcache lock, stores a PublishDocument, puts  *)
(* it in memcache as the latest one and appends it to document.published;  *)
(* the client polls for the answer. Readers fill the cache and owners       *)
(* delete versions (handlers/artifacts/publish.py) meanwhile.               *)
(***************************************************************************)
EXTENDS SequencesExt, FiniteSetsExt

CONSTANTS
  Jobs,        \* publish requests, and the ids of what they publish
  Names,       \* version names; the number n names itself, as str(version_int)
  Latest,      \* the reserved name 'latest'
  None,
  FailSteps,   \* steps of the thread at which an exception may end it
  LockExpires, \* whether memcache may drop the lock: after an hour, or any time
  MaxRunning   \* bound on the jobs, reads and deletes that overlap

ASSUME PublisherAssumption ==
  /\ Latest \notin Names
  /\ None \notin Names \cup {Latest} \cup Jobs \cup [name : Names, version_int : Nat]
  /\ FailSteps \subseteq {"rendering", "stored", "cached", "listed"}
  /\ LockExpires \in BOOLEAN

VARIABLES
  job,        \* the state of each publish request and of its thread
  pub,        \* PublishDocument entities
  published,  \* document.published
  cache,      \* memcache: version name or 'latest' -> id
  lock,       \* memcache: publish-lock of the document
  status,     \* memcache: what DocumentPublishStatus answers the client
  reading,    \* a reader that missed the cache: the name and its copy of published
  deleting,   \* versions whose delete is under way, by step
  held,       \* the copy of published with which a delete will put the document
  overlapped  \* whether jobs, reads or deletes ever ran at the same time

pubVars == <<job, pub, published, cache, lock, status, reading, deleting, held, overlapped>>

TypeOK ==
  /\ \A j \in Jobs :
       /\ job[j].step \in {"none", "checked", "refused", "started", "rendering",
                           "stored", "cached", "listed", "answered", "done"}
       /\ ToSet(job[j].published) \subseteq Jobs
       /\ pub[j] = None \/ pub[j] \in [name : Names, version_int : Nat]
       /\ status[j] \in {"none", "published", "500"}
       /\ deleting[j] \in {"no", "read", "unlisted", "uncached"}
       /\ ToSet(held[j]) \subseteq Jobs
  /\ ToSet(published) \subseteq Jobs
  /\ cache \in [Names \cup {Latest} -> Jobs \cup {None}]
  /\ lock \in BOOLEAN /\ overlapped \in BOOLEAN
  /\ reading.name \in Names \cup {Latest, None}

NoJob == [step |-> "none", name |-> None, published |-> <<>>]
NoRead == [name |-> None, published |-> <<>>]

Init ==
  /\ job = [j \in Jobs |-> NoJob]
  /\ pub = [j \in Jobs |-> None]
  /\ published = <<>>
  /\ cache = [n \in Names \cup {Latest} |-> None]
  /\ lock = FALSE
  /\ status = [j \in Jobs |-> "none"]
  /\ reading = NoRead
  /\ deleting = [j \in Jobs |-> "no"]
  /\ held = [j \in Jobs |-> <<>>]
  /\ overlapped = FALSE

\* Document.get_published: where the list has versions that still exist.
Existing(list) == {i \in DOMAIN list : pub[list[i]] # None}

Numbers(list) == {pub[list[i]].version_int : i \in Existing(list)}

\* Variant: the largest number is taken again.
NextVersionSame(list) == Max(Numbers(list) \cup {0})

\* One more than get_largest_version.
NextVersion(list) == Max(Numbers(list) \cup {0}) + 1

Threads == {j \in Jobs : job[j].step \in
              {"started", "rendering", "stored", "cached", "listed", "answered"}}

Running ==
  Cardinality(Threads) + Cardinality({j \in Jobs : job[j].step = "checked"})
  + Cardinality({j \in Jobs : deleting[j] # "no"})
  + (IF reading = NoRead THEN 0 ELSE 1)

Step(j, from, to) == job[j].step = from /\ job' = [job EXCEPT ![j].step = to]
-----------------------------------------------------------------------------
\* Variant: taken names are accepted.
CheckAnyName(j, name) ==
  LET chosen == IF name = None THEN NextVersion(published) ELSE name IN
  /\ job[j] = NoJob /\ Running < MaxRunning /\ chosen \in Names
  /\ job' = [job EXCEPT ![j] = [name |-> chosen, published |-> published,
                                step |-> "checked"]]
  /\ overlapped' = (overlapped \/ Running > 0)
  /\ UNCHANGED <<pub, published, cache, lock, status, reading, deleting, held>>

(* The handler copies the document and refuses a version name it lists.     *)
(* Without a name the next number is taken. 'latest' is always refused.     *)
Check(j, name) ==
  LET chosen == IF name = None THEN NextVersion(published) ELSE name
      taken == {pub[published[i]].name : i \in Existing(published)}
  IN
  /\ job[j] = NoJob /\ Running < MaxRunning
  /\ chosen \in Names
  /\ job' = [job EXCEPT ![j] = [name |-> chosen, published |-> published,
                step |-> IF chosen \in taken THEN "refused" ELSE "checked"]]
  /\ overlapped' = (overlapped \/ Running > 0)
  /\ UNCHANGED <<pub, published, cache, lock, status, reading, deleting, held>>

(* Then it looks at the lock, which only the thread will set.               *)
Start(j) ==
  /\ Step(j, "checked", IF lock THEN "refused" ELSE "started")
  /\ UNCHANGED <<pub, published, cache, lock, status, reading, deleting, held, overlapped>>

SetLock(j) ==
  /\ Step(j, "started", "rendering")
  /\ lock' = TRUE
  /\ UNCHANGED <<pub, published, cache, status, reading, deleting, held, overlapped>>

(* Rendered: the version is numbered from the handler's copy and stored.    *)
Store(j) ==
  /\ Step(j, "rendering", "stored")
  /\ pub' = [pub EXCEPT ![j] =
       [name |-> job[j].name, version_int |-> NextVersion(job[j].published)]]
  /\ UNCHANGED <<published, cache, lock, status, reading, deleting, held, overlapped>>

(* pub_doc.cache(latest=True)                                               *)
Cache(j) ==
  /\ Step(j, "stored", "cached")
  /\ cache' = [cache EXCEPT ![job[j].name] = j, ![Latest] = j]
  /\ UNCHANGED <<pub, published, lock, status, reading, deleting, held, overlapped>>

\* Variant: the key is not appended.
ListForgotten(j) ==
  /\ Step(j, "cached", "listed")
  /\ UNCHANGED <<pub, published, cache, lock, status, reading, deleting, held, overlapped>>

(* document.put saves the handler's copy with the new key.                  *)
List(j) ==
  /\ Step(j, "cached", "listed")
  /\ published' = Append(job[j].published, j)
  /\ UNCHANGED <<pub, cache, lock, status, reading, deleting, held, overlapped>>

(* cache_publish, after the transaction and the project are saved.          *)
Answer(j) ==
  /\ Step(j, "listed", "answered")
  /\ status' = [status EXCEPT ![j] = "published"]
  /\ UNCHANGED <<pub, published, cache, lock, reading, deleting, held, overlapped>>

\* Variant: the client gets no answer.
FailSilently(j) ==
  /\ job[j].step \in FailSteps
  /\ job' = [job EXCEPT ![j].step = "answered"]
  /\ UNCHANGED <<pub, published, cache, lock, status, reading, deleting, held, overlapped>>

\* Variant: the exception itself is put in memcache.
FailRaw(j) ==
  /\ job[j].step \in FailSteps
  /\ job' = [job EXCEPT ![j].step = "answered"]
  /\ status' = [status EXCEPT ![j] = "raised"]
  /\ UNCHANGED <<pub, published, cache, lock, reading, deleting, held, overlapped>>

(* Any exception in between answers 500 instead.                            *)
Fail(j) ==
  /\ job[j].step \in FailSteps
  /\ job' = [job EXCEPT ![j].step = "answered"]
  /\ status' = [status EXCEPT ![j] = "500"]
  /\ UNCHANGED <<pub, published, cache, lock, reading, deleting, held, overlapped>>

(* finally: the lock goes, whoever set it.                                  *)
Release(j) ==
  /\ Step(j, "answered", "done")
  /\ lock' = FALSE
  /\ UNCHANGED <<pub, published, cache, status, reading, deleting, held, overlapped>>

Expire ==
  /\ LockExpires /\ lock
  /\ lock' = FALSE
  /\ UNCHANGED <<job, pub, published, cache, status, reading, deleting, held, overlapped>>

-----------------------------------------------------------------------------
(* memcache may drop any entry.                                             *)
Evict(name) ==
  /\ cache[name] # None
  /\ cache' = [cache EXCEPT ![name] = None]
  /\ UNCHANGED <<job, pub, published, lock, status, reading, deleting, held, overlapped>>

(* PublishEntity.get with the name not in memcache: the reader has its copy *)
(* of the document.                                                         *)
Miss(name) ==
  /\ reading = NoRead /\ Running < MaxRunning
  /\ cache[name] = None
  /\ reading' = [name |-> name, published |-> published]
  /\ overlapped' = (overlapped \/ Running > 0)
  /\ UNCHANGED <<job, pub, published, cache, lock, status, deleting, held>>

\* What get finds in its copy: the first version of that name, the largest for 'latest'.
Found(name, list) ==
  LET fits == {i \in Existing(list) :
                 IF name = Latest THEN pub[list[i]].version_int + 1 = NextVersion(list)
                 ELSE pub[list[i]].name = name}
  IN  IF fits = {} THEN None ELSE list[Min(fits)]

Fill ==
  LET j == Found(reading.name, reading.published) IN
  /\ reading # NoRead
  /\ cache' = IF j = None THEN cache
              ELSE [cache EXCEPT ![reading.name] = j, ![pub[j].name] = j]
  /\ reading' = NoRead
  /\ UNCHANGED <<job, pub, published, lock, status, deleting, held, overlapped>>

(* DocumentPublish.delete: the document is read and put without the version, *)
(* if it listed it; the hook of the model takes the version out of memcache  *)
(* and finds the document as the request has it, so puts nothing; then the   *)
(* version leaves the datastore.                                             *)
Delete(j) ==
  /\ pub[j] # None /\ deleting[j] = "no" /\ Running < MaxRunning
  /\ deleting' = [deleting EXCEPT ![j] = "read"]
  /\ held' = [held EXCEPT ![j] = published]
  /\ overlapped' = (overlapped \/ Running > 0)
  /\ UNCHANGED <<job, pub, published, cache, lock, status, reading>>

Unlist(j) ==
  /\ deleting[j] = "read"
  /\ deleting' = [deleting EXCEPT ![j] = "unlisted"]
  /\ published' = IF j \in ToSet(held[j]) THEN RemoveFirst(held[j], j) ELSE published
  /\ held' = [held EXCEPT ![j] = <<>>]
  /\ UNCHANGED <<job, pub, cache, lock, status, reading, overlapped>>

\* Variant: the entry for the latest version stays.
UncacheVersion(j) ==
  /\ deleting[j] = "unlisted"
  /\ cache' = [cache EXCEPT ![pub[j].name] = None]
  /\ deleting' = [deleting EXCEPT ![j] = "uncached"]
  /\ UNCHANGED <<job, pub, published, lock, status, reading, held, overlapped>>

Uncache(j) ==
  /\ deleting[j] = "unlisted"
  /\ cache' = [cache EXCEPT ![pub[j].name] = None, ![Latest] = None]
  /\ deleting' = [deleting EXCEPT ![j] = "uncached"]
  /\ UNCHANGED <<job, pub, published, lock, status, reading, held, overlapped>>

Erase(j) ==
  /\ deleting[j] = "uncached"
  /\ pub' = [pub EXCEPT ![j] = None]
  /\ deleting' = [deleting EXCEPT ![j] = "no"]
  /\ UNCHANGED <<job, published, cache, lock, status, reading, held, overlapped>>

Thread(j) ==
  \/ SetLock(j) \/ Store(j) \/ Cache(j) \/ List(j) \/ Answer(j) \/ Fail(j) \/ Release(j)

Next ==
  \/ \E j \in Jobs :
       \/ \E name \in Names \cup {None} : Check(j, name)
       \/ Start(j) \/ Thread(j)
       \/ Delete(j) \/ Unlist(j) \/ Uncache(j) \/ Erase(j)
  \/ \E name \in Names \cup {Latest} : Miss(name) \/ Evict(name)
  \/ Fill \/ Expire

(* A started thread runs to its end unless the instance is stopped; nothing *)
(* makes a user ask, read or delete.                                        *)
Spec == Init /\ [][Next]_pubVars /\ \A j \in Jobs : WF_pubVars(Thread(j))
-----------------------------------------------------------------------------
(* Listed versions have different names, by which their pages are found,    *)
(* and increasing numbers: also when jobs for the same name overlap, after  *)
(* failed attempts and after deletes, since each job appends to the copy of *)
(* the list in which it looked up the name and the number.                  *)
VersionsInOrder ==
  \A i, j \in Existing(published) : i < j =>
    /\ pub[published[i]].name # pub[published[j]].name
    /\ pub[published[i]].version_int < pub[published[j]].version_int

(* As long as jobs, reads and deletes never overlapped: what a client was   *)
(* told is published is listed, until it is deleted.                        *)
AnsweredIsListed ==
  ~overlapped => \A j \in Jobs :
    status[j] = "published" /\ pub[j] # None /\ deleting[j] = "no"
      => j \in ToSet(published)

(* No job failed between storing its version and answering.                 *)
NoneFailedLate == \A j \in Jobs : status[j] = "500" => pub[j] = None

(* Then, while nothing runs, memcache serves what the list says: under a    *)
(* name the listed version of that name, as the latest the last one.        *)
CacheTellsList ==
  ~overlapped /\ NoneFailedLate /\ Running = 0 =>
    \A name \in DOMAIN cache : cache[name] # None =>
      \E i \in Existing(published) :
        /\ cache[name] = published[i]
        /\ IF name = Latest THEN i = Max(Existing(published))
           ELSE pub[published[i]].name = name

(* Every started job answers its client, with the published version or with *)
(* 500, in whatever order jobs overlap and whatever fails.                  *)
StartedIsAnswered ==
  \A j \in Jobs : (job[j].step = "started") ~> (status[j] # "none")
=============================================================================
