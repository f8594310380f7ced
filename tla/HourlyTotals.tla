---------------------------- MODULE HourlyTotals ----------------------------
(***************************************************************************)
(* The hourly aggregation of analytics (handlers/background/analytics.py).  *)
(* Cron starts RunHourlyAnalyticsHandler, whose background thread goes on   *)
(* from the last AnalyticsHourlyStat, hour by hour. The totals of concepts  *)
(* are kept in a dictionary of the class, art_ana_stats, that all runs in   *)
(* an instance share: a write-back cache that drops the entries touched     *)
(* least when it is full and reads them again from the datastore. The       *)
(* totals of users are kept the same way under another limit; those of the  *)
(* organization in a dictionary that never drops anything.                  *)
(***************************************************************************)
EXTENDS Naturals, Sequences, FiniteSets

CONSTANTS
  Runs,        \* background threads
  Insts,       \* instances of the background module, each with its dictionaries
  Concepts,    \* the artifacts that events are about, all of one organization
  MaxHour,     \* bound: the clock stops in this hour
  MaxEvents,   \* bound on the events
  High,        \* entries at which the dictionary is emptied (1100 in the code)
  Low,         \* down to so many (1000 in the code)
  MaxTroubles  \* bound on failed runs, stopped instances and overlapping starts

ASSUME HourlyAssumption ==
  /\ MaxHour \in Nat /\ MaxEvents \in Nat /\ MaxTroubles \in Nat
  /\ High \in Nat /\ Low \in Nat /\ Low < High
  /\ Insts # {}

Hours == 0..MaxHour
Keys == Hours \X Concepts   \* aid: the artifact's id and the end of the hour

VARIABLES
  now,            \* the hour the clock is in
  events,         \* the Analytics of each hour in the order of their times
  site,           \* the totals of the AnalyticsHourlyStats of each hour
  con,            \* ConceptAnalyticsHourlyStat.total by key, 0 when there is none
  org,            \* OrgAnalyticsHourlyStat.total by hour, 0 when there is none
  art_ana_stats,  \* per instance: total and touch_count by key, untouched = absent
  org_ana_stats,  \* per instance: total by hour, 0 = absent
  run,            \* the threads
  troubles,       \* so many of them so far
  unclean         \* history: hours whose run failed, overlapped another, or came too soon

hourlyVars == <<now, events, site, con, org, art_ana_stats, org_ana_stats,
                run, troubles, unclean>>

Absent == [total |-> 0, touch |-> 0]
Idle == [pc |-> "idle", inst |-> CHOOSE i \in Insts : TRUE, hour |-> 0,
         first |-> FALSE, last |-> 0, asOf |-> 0, anas |-> <<>>, done |-> 0]

TypeOK ==
  /\ now \in Hours
  /\ events \in [Hours -> Seq(Concepts)]
  /\ site \in [Hours -> Seq(Nat)]
  /\ con \in [Keys -> Nat] /\ org \in [Hours -> Nat]
  /\ art_ana_stats \in [Insts -> [Keys -> [total : Nat, touch : Nat]]]
  /\ org_ana_stats \in [Insts -> [Hours -> Nat]]
  /\ run \in [Runs -> [pc : {"idle", "read", "count"}, inst : Insts,
                       hour : 0..MaxHour + 1, first : BOOLEAN, last : Hours,
                       asOf : Hours, anas : Seq(Concepts), done : Nat]]
  /\ troubles \in Nat
  /\ unclean \subseteq 0..MaxHour + 1

Init ==
  /\ now = 0
  /\ events = [h \in Hours |-> <<>>]
  /\ site = [h \in Hours |-> <<>>]
  /\ con = [k \in Keys |-> 0]
  /\ org = [h \in Hours |-> 0]
  /\ art_ana_stats = [i \in Insts |-> [k \in Keys |-> Absent]]
  /\ org_ana_stats = [i \in Insts |-> [h \in Hours |-> 0]]
  /\ run = [r \in Runs |-> Idle]
  /\ troubles = 0
  /\ unclean = {}

Closed == {h \in Hours : site[h] # <<>>}
Active == {r \in Runs : run[r].pc # "idle"}
Held(dict) == {k \in Keys : dict[k].touch > 0}
CountIn(c, anas) == Cardinality({i \in DOMAIN anas : anas[i] = c})
-----------------------------------------------------------------------------
(* ProjectNode.record_analytic stores an event with the time of its request. *)
Record(c) ==
  /\ Cardinality({p \in Hours \X (1..MaxEvents) : p[2] \in DOMAIN events[p[1]]}) < MaxEvents
  /\ events' = [events EXCEPT ![now] = Append(@, c)]
  /\ UNCHANGED <<now, site, con, org, art_ana_stats, org_ana_stats, run, troubles, unclean>>

Tick ==
  /\ now < MaxHour
  /\ now' = now + 1
  /\ UNCHANGED <<events, site, con, org, art_ana_stats, org_ana_stats, run, troubles, unclean>>
-----------------------------------------------------------------------------
IsFirst(f) == events[f] # <<>> /\ \A h \in Hours : events[h] # <<>> => f <= h
IsLast(l)  == events[l] # <<>> /\ \A h \in Hours : events[h] # <<>> => h <= l

Begin(r, thread) ==
  /\ Active # {} => troubles < MaxTroubles
  /\ troubles' = IF Active = {} THEN troubles ELSE troubles + 1
  /\ run' = [run EXCEPT ![r] = thread]
  /\ unclean' = unclean \cup {run[q].hour : q \in Active}
  /\ UNCHANGED <<now, events, site, con, org, art_ana_stats, org_ana_stats>>

(* No hour was closed yet: from the first event's hour to the last one's.  *)
StartFirst(r, i) ==
  /\ run[r].pc = "idle" /\ Closed = {}
  /\ \E f, l \in Hours :
       /\ IsFirst(f) /\ IsLast(l)
       /\ Begin(r, [Idle EXCEPT !.pc = "read", !.inst = i, !.hour = f,
                                !.first = TRUE, !.last = l, !.asOf = now])

(* Otherwise from the end of the last stat.                                *)
StartNext(r, i) ==
  /\ run[r].pc = "idle"
  /\ \E l \in Closed :
       /\ \A h \in Closed : h <= l
       /\ Begin(r, [Idle EXCEPT !.pc = "read", !.inst = i, !.hour = l + 1])

\* Variant: the hour that has just ended is left for the next run.
TooEarlyByOne(r) == ~run[r].first /\ run[r].hour + 1 >= now

\* A later run stops at the hour that has not ended; the first run does not look.
TooEarly(r) == ~run[r].first /\ run[r].hour >= now

EndOfRun(r) ==
  /\ run[r].pc = "read" /\ TooEarly(r)
  /\ run' = [run EXCEPT ![r] = Idle]
  /\ UNCHANGED <<now, events, site, con, org, art_ana_stats, org_ana_stats, troubles, unclean>>

(* Analytics.get_time_frame; an hour read before its end, or by overlapping *)
(* runs, is not clean.                                                      *)
Read(r) ==
  LET h == run[r].hour IN
  /\ run[r].pc = "read" /\ ~TooEarly(r)
  /\ run' = [run EXCEPT ![r].pc = "count", ![r].anas = events[h]]
  /\ unclean' = unclean \cup (IF Active # {r} \/ h >= now THEN {h} ELSE {})
  /\ UNCHANGED <<now, events, site, con, org, art_ana_stats, org_ana_stats, troubles>>
-----------------------------------------------------------------------------
\* Variant: an entry that is not held is not looked for in the datastore.
EntryOrNew(dict, k) == IF k \in Held(dict) THEN dict[k] ELSE Absent

\* The entry in the dictionary, or the stored one, or a new one.
Entry(dict, k) ==
  IF k \in Held(dict) THEN dict[k] ELSE [total |-> con[k], touch |-> 0]

\* The store once the entries in gone were put.
Saved(dict, gone) == [k \in Keys |-> IF k \in gone THEN dict[k].total ELSE con[k]]

\* _drop_lowest_art_stat: some entries of the lowest touch_count.
Lowest(dict, gone) ==
  /\ Cardinality(gone) = Cardinality(Held(dict)) - Low
  /\ \A a \in gone, b \in Held(dict) \ gone : dict[a].touch <= dict[b].touch

(* One event of _process_hour_block: the organization's total, then        *)
(* _record_concept_ana_action.                                             *)
Count(r) ==
  LET t == run[r]
      dict == art_ana_stats[t.inst]
      k == <<t.hour, t.anas[t.done + 1]>>
      e == Entry(dict, k)
      added == [dict EXCEPT ![k] = [total |-> e.total + 1, touch |-> e.touch + 1]]
  IN
  /\ t.pc = "count" /\ t.done < Len(t.anas)
  /\ run' = [run EXCEPT ![r].done = @ + 1]
  /\ org_ana_stats' = [org_ana_stats EXCEPT ![t.inst][t.hour] = @ + 1]
  /\ \/ /\ k \in Held(dict) \/ Cardinality(Held(added)) < High
        /\ art_ana_stats' = [art_ana_stats EXCEPT ![t.inst] = added]
        /\ con' = con
     \/ /\ k \notin Held(dict) /\ Cardinality(Held(added)) >= High
        /\ \E gone \in SUBSET Held(added) :
             /\ Lowest(added, gone)
             /\ con' = Saved(added, gone)
             /\ art_ana_stats' = [art_ana_stats EXCEPT ![t.inst] =
                  [x \in Keys |-> IF x \in gone THEN Absent ELSE added[x]]]
  /\ UNCHANGED <<now, events, site, org, troubles, unclean>>

\* What put_multi leaves when it stored the site's stat (or not), the entries
\* in puts and the organization's totals of the hours in orgs.
PutOf(r, ofSite, puts, orgs) ==
  LET t == run[r] IN
  /\ site' = IF ofSite THEN [site EXCEPT ![t.hour] = Append(@, Len(t.anas))] ELSE site
  /\ con' = Saved(art_ana_stats[t.inst], puts)
  /\ org' = [h \in Hours |-> IF h \in orgs THEN org_ana_stats[t.inst][h] ELSE org[h]]

OrgHeld(i) == {h \in Hours : org_ana_stats[i][h] > 0}
Counted(r) == run[r].pc = "count" /\ run[r].done = Len(run[r].anas)

\* The first run ends with the hour of the event that was last at its start,
\* or with the hour the clock was in.
LastOfFirst(r) == run[r].first /\ (run[r].hour = run[r].last \/ run[r].hour >= run[r].asOf)

(* The end of _process_hour_block stores the site's total and all that the *)
(* dictionaries hold, of this hour and of others; then the next hour.      *)
Put(r) ==
  LET t == run[r] IN
  /\ Counted(r)
  /\ PutOf(r, TRUE, Held(art_ana_stats[t.inst]), OrgHeld(t.inst))
  /\ run' = [run EXCEPT ![r] =
       IF LastOfFirst(r) THEN Idle
       ELSE [t EXCEPT !.pc = "read", !.hour = t.hour + 1, !.anas = <<>>, !.done = 0]]
  /\ UNCHANGED <<now, events, art_ana_stats, org_ana_stats, troubles, unclean>>
-----------------------------------------------------------------------------
\* Variant: the exception is caught and the thread goes on with the next hour.
PutFailureIgnored(r) ==
  LET t == run[r] IN
  /\ Counted(r) /\ troubles < MaxTroubles
  /\ \E ofSite \in BOOLEAN : PutOf(r, ofSite, {}, {})
  /\ run' = [run EXCEPT ![r] =
       IF LastOfFirst(r) THEN Idle
       ELSE [t EXCEPT !.pc = "read", !.hour = t.hour + 1, !.anas = <<>>, !.done = 0]]
  /\ troubles' = troubles + 1
  /\ unclean' = unclean \cup {t.hour}
  /\ UNCHANGED <<now, events, art_ana_stats, org_ana_stats>>

(* put_multi stores a part and raises: the thread ends, the dictionaries   *)
(* stay as they are.                                                       *)
PutFails(r) ==
  LET t == run[r] IN
  /\ Counted(r) /\ troubles < MaxTroubles
  /\ \E ofSite \in BOOLEAN, puts \in SUBSET Held(art_ana_stats[t.inst]),
        orgs \in SUBSET OrgHeld(t.inst) : PutOf(r, ofSite, puts, orgs)
  /\ run' = [run EXCEPT ![r] = Idle]
  /\ troubles' = troubles + 1
  /\ unclean' = unclean \cup {t.hour}
  /\ UNCHANGED <<now, events, art_ana_stats, org_ana_stats>>

(* A query or a get raises.                                                *)
RunFails(r) ==
  /\ r \in Active /\ troubles < MaxTroubles
  /\ run' = [run EXCEPT ![r] = Idle]
  /\ troubles' = troubles + 1
  /\ unclean' = unclean \cup {run[r].hour}
  /\ UNCHANGED <<now, events, site, con, org, art_ana_stats, org_ana_stats>>

(* An instance stops with its threads, and its successor starts empty.     *)
Stop(i) ==
  LET dead == {r \in Active : run[r].inst = i} IN
  /\ troubles < MaxTroubles
  /\ art_ana_stats' = [art_ana_stats EXCEPT ![i] = [k \in Keys |-> Absent]]
  /\ org_ana_stats' = [org_ana_stats EXCEPT ![i] = [h \in Hours |-> 0]]
  /\ run' = [r \in Runs |-> IF r \in dead THEN Idle ELSE run[r]]
  /\ troubles' = troubles + 1
  /\ unclean' = unclean \cup {run[r].hour : r \in dead}
  /\ UNCHANGED <<now, events, site, con, org>>
-----------------------------------------------------------------------------
Start(r, i) == StartFirst(r, i) \/ StartNext(r, i)
Go(r) == EndOfRun(r) \/ Read(r) \/ Count(r) \/ Put(r)

Next ==
  \/ \E c \in Concepts : Record(c)
  \/ Tick
  \/ \E r \in Runs, i \in Insts : Start(r, i)
  \/ \E r \in Runs : Go(r) \/ PutFails(r) \/ RunFails(r)
  \/ \E i \in Insts : Stop(i)

(* Time passes, a thread that was started runs, and cron starts one again  *)
(* and again.                                                              *)
Fairness ==
  /\ WF_hourlyVars(Tick)
  /\ \A r \in Runs : WF_hourlyVars(Go(r))
  /\ WF_hourlyVars(\E r \in Runs, i \in Insts : Start(r, i))

Spec == Init /\ [][Next]_hourlyVars /\ Fairness
-----------------------------------------------------------------------------
(* No hour is skipped: whatever runs overlap, fail or stop with their      *)
(* instance, the hours that have a stat (_process_hourly_analytics) follow  *)
(* on one another from the hour of the first event on.                      *)
NoHourSkipped ==
  \A h \in Closed, k \in Hours :
    (k < h /\ \E e \in 0..k : events[e] # <<>>) => k \in Closed

(* Runs that overlap, are repeated or stop half way close the hours as the *)
(* ledger says: one after the other, none before it began, none reopened.   *)
Ledger == INSTANCE HourLedger WITH now <- now, closed <- Closed, MaxHour <- MaxHour
LedgerSpec == Ledger!Spec

(* The dictionary loses nothing and counts nothing twice: when an hour was *)
(* processed after its end by one run alone that did not fail, its site,    *)
(* organization and concept totals are the numbers of its events, however   *)
(* often _drop_lowest_art_stat took entries out of the middle of a count,   *)
(* and whatever runs that failed before left in the dictionaries.           *)
CleanHoursExact ==
  \A h \in Closed \ unclean :
    /\ site[h] = <<Len(events[h])>>
    /\ org[h] = Len(events[h])
    /\ \A c \in Concepts : con[<<h, c>>] = CountIn(c, events[h])

(* Every hour that has ended since the first event gets its stat in the    *)
(* end: a run closes all the hours it finds open, not only the last one.    *)
EndedHoursAreClosed ==
  \A h \in 0..MaxHour - 1 :
    (h < now /\ \E e \in 0..h : events[e] # <<>>) ~> h \in Closed
=============================================================================
