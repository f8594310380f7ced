---------------------------- MODULE PeriodTotals ----------------------------
(***************************************************************************)
(* The daily totals of analytics: _process_analytics of one class of stats  *)
(* (handlers/background/analytics.py), of the site or of each entity. A run *)
(* sums up the hourly stats day by day, from the end of the last day that   *)
(* has a stat. The hours close as HourLedger promises. Weeks sum up days    *)
(* with the same code: read "day" for hour and "week" for day.              *)
(***************************************************************************)
EXTENDS Naturals, FiniteSets, FiniteSetsExt

CONSTANTS
  Runs,        \* background threads
  Entities,    \* what the stats are about: concepts, users, organizations, or the site
  Kinds,       \* "site": AnalyticsDailyStat; "entities": the classes with an entity
  HoursOfDay,
  MaxHour,     \* bound: the clock stops in this hour
  MaxTroubles  \* bound on failed runs and overlapping starts

ASSUME PeriodAssumption ==
  /\ Kinds \subseteq {"site", "entities"}
  /\ HoursOfDay \in Nat \ {0} /\ MaxHour \in Nat /\ MaxTroubles \in Nat

Hours == 0..MaxHour
Days == 0..MaxHour \div HoursOfDay
DayOf(h) == h \div HoursOfDay
EndOf(d) == (d + 1) * HoursOfDay

VARIABLES
  kind,       \* the class the runs are about
  now,        \* the hour the clock is in
  closed,     \* hours whose stats are stored
  seen,       \* by hour, the entities with a stat
  number,     \* by entity and day: how many stats there are
  total,      \* by entity and hour: how often the stats of its day count the hour
  run,        \* the threads
  troubles,   \* so many of them so far
  processed,  \* history: days whose stats a run has put
  unclean,    \* history: those read too early, by overlapping runs, or put in part
  torn        \* history: those read by a first run that put a part and failed

periodVars == <<kind, now, closed, seen, number, total, run, troubles,
                processed, unclean, torn>>
hourVars == <<kind, now, closed, seen>>
statVars == <<number, total, processed, unclean, torn>>

Idle == [pc |-> "idle", day |-> 0, first |-> FALSE, asOf |-> 0, parents |-> {},
         counts |-> [e \in Entities |-> {}], read |-> {}, clean |-> {}, alone |-> TRUE]

TypeOK ==
  /\ kind \in Kinds
  /\ now \in Hours /\ closed \subseteq Hours /\ seen \in [Hours -> SUBSET Entities]
  /\ number \in [Entities -> [Days -> Nat]] /\ total \in [Entities -> [Hours -> Nat]]
  /\ run \in [Runs -> [pc : {"idle", "begin", "frame", "put"}, day : Nat, first : BOOLEAN,
       asOf : Hours, parents : SUBSET (Entities \X Days), counts : [Entities -> SUBSET Hours],
       read : SUBSET Days, clean : SUBSET Days, alone : BOOLEAN]]
  /\ troubles \in 0..MaxTroubles
  /\ processed \cup unclean \cup torn \subseteq {d \in Days : EndOf(d) <= now}

Init ==
  /\ kind \in Kinds
  /\ now = 0 /\ closed = {} /\ seen = [h \in Hours |-> {}]
  /\ number = [e \in Entities |-> [d \in Days |-> 0]]
  /\ total = [e \in Entities |-> [h \in Hours |-> 0]]
  /\ run = [r \in Runs |-> Idle]
  /\ troubles = 0 /\ processed = {} /\ unclean = {} /\ torn = {}
-----------------------------------------------------------------------------
(* The hours: every one has a stat of the site, and of the entities that    *)
(* something happened to.                                                   *)
Hourly == INSTANCE HourLedger

Tick == Hourly!Tick /\ UNCHANGED <<kind, seen, run, troubles, statVars>>

CloseHour(h) ==
  /\ Hourly!Close(h)
  /\ \E es \in IF kind = "site" THEN {Entities} ELSE SUBSET Entities :
       seen' = [seen EXCEPT ![h] = es]
  /\ UNCHANGED <<kind, run, troubles, statVars>>
-----------------------------------------------------------------------------
HoursWith(e) == {h \in closed : e \in seen[h]}
DaysDone == {d \in Days : \E e \in Entities : number[e][d] > 0}
DaysBelow == {DayOf(h) : h \in UNION {HoursWith(e) : e \in Entities}}
DaysWith(e) == {DayOf(h) : h \in HoursWith(e)}

\* The last hour of the day is closed, or a later one, and so are those before.
Complete(d) == \E h \in closed : h >= EndOf(d) - 1

Active == {r \in Runs : run[r].pc # "idle"}

\* A thread of _run comes to this class, perhaps while another is at it.
Start(r) ==
  /\ run[r].pc = "idle"
  /\ Active # {} => troubles < MaxTroubles
  /\ troubles' = IF Active = {} THEN troubles ELSE troubles + 1
  /\ run' = [q \in Runs |->
       IF q = r THEN [Idle EXCEPT !.pc = "begin", !.alone = (Active = {})]
       ELSE IF q \in Active THEN [run[q] EXCEPT !.alone = FALSE] ELSE run[q]]
  /\ UNCHANGED <<hourVars, statVars>>

From(r, first, d) ==
  /\ run' = [run EXCEPT ![r].pc = "frame", ![r].first = first, ![r].day = d, ![r].asOf = now]
  /\ UNCHANGED <<hourVars, troubles, statVars>>

NothingBelow(r) ==
  /\ run[r].pc = "begin" /\ DaysDone = {} /\ DaysBelow = {}
  /\ run' = [run EXCEPT ![r] = Idle]
  /\ UNCHANGED <<hourVars, troubles, statVars>>

FirstTime(r) ==
  /\ run[r].pc = "begin" /\ DaysDone = {} /\ DaysBelow # {}
  /\ From(r, TRUE, Min(DaysBelow))

\* Variant: a later run starts with the day that has just ended.
GoOnFromYesterday(r) ==
  /\ run[r].pc = "begin" /\ DaysDone # {}
  /\ From(r, FALSE, IF DayOf(now) > Max(DaysDone) + 1 THEN DayOf(now) - 1
                    ELSE Max(DaysDone) + 1)

\* Variant: from the start of the last day instead of its end.
GoOnFromLast(r) ==
  /\ run[r].pc = "begin" /\ DaysDone # {}
  /\ From(r, FALSE, Max(DaysDone))

GoOn(r) ==
  /\ run[r].pc = "begin" /\ DaysDone # {}
  /\ From(r, FALSE, Max(DaysDone) + 1)

\* Variant: the day whose last hour has begun has ended.
EndedEarly(r) == EndOf(run[r].day) <= (IF run[r].first THEN run[r].asOf ELSE now) + 1

\* The first run goes by the clock as it was at its start.
Ended(r) == EndOf(run[r].day) <= (IF run[r].first THEN run[r].asOf ELSE now)

(* _process_time_frame and _process_time_frame_with_entity: a stat for the  *)
(* site in any case, for an entity if there is one below. A first run goes  *)
(* on with the next day, a later one puts the stats.                        *)
Frame(r) ==
  LET t == run[r]
      new == {e \in Entities : kind = "site" \/ t.day \in DaysWith(e)}
  IN
  /\ t.pc = "frame" /\ Ended(r)
  /\ run' = [run EXCEPT ![r] = [t EXCEPT
       !.pc = IF t.first THEN "frame" ELSE "put",
       !.day = IF t.first THEN t.day + 1 ELSE t.day,
       !.parents = @ \cup (new \X {t.day}),
       !.counts = [e \in Entities |-> @[e] \cup {h \in HoursWith(e) : DayOf(h) = t.day}],
       !.read = @ \cup {t.day},
       !.clean = IF Complete(t.day) THEN @ \cup {t.day} ELSE @]]
  /\ UNCHANGED <<hourVars, troubles, statVars>>

Over(r) ==
  /\ run[r].pc = "frame" /\ ~Ended(r)
  /\ run' = [run EXCEPT ![r] = IF run[r].first THEN [run[r] EXCEPT !.pc = "put"] ELSE Idle]
  /\ UNCHANGED <<hourVars, troubles, statVars>>

\* What is stored once the stats named in puts are.
PutOf(r, puts) ==
  /\ number' = [e \in Entities |-> [d \in Days |->
       IF <<e, d>> \in puts THEN number[e][d] + 1 ELSE number[e][d]]]
  /\ total' = [e \in Entities |-> [h \in Hours |->
       IF <<e, DayOf(h)>> \in puts /\ h \in run[r].counts[e] THEN total[e][h] + 1
       ELSE total[e][h]]]

Put(r) ==
  LET t == run[r] IN
  /\ t.pc = "put"
  /\ PutOf(r, t.parents)
  /\ processed' = processed \cup t.read
  /\ unclean' = unclean \cup IF t.alone THEN t.read \ t.clean ELSE t.read
  /\ run' = [run EXCEPT ![r] = IF t.first THEN Idle
       ELSE [Idle EXCEPT !.pc = "frame", !.day = t.day + 1, !.asOf = t.asOf, !.alone = t.alone]]
  /\ UNCHANGED <<hourVars, troubles, torn>>

(* put_multi stores a part and raises, which ends the thread.              *)
PutFails(r) ==
  LET t == run[r] IN
  /\ t.pc = "put" /\ troubles < MaxTroubles
  /\ troubles' = troubles + 1
  /\ \E puts \in SUBSET t.parents :
       /\ PutOf(r, puts)
       /\ processed' = processed \cup {s[2] : s \in puts}
       /\ torn' = IF t.first /\ puts # {} THEN torn \cup t.read ELSE torn
  /\ unclean' = unclean \cup t.read
  /\ run' = [run EXCEPT ![r] = Idle]
  /\ UNCHANGED hourVars

(* Or a query raises, or the instance stops.                               *)
RunFails(r) ==
  /\ run[r].pc # "idle" /\ troubles < MaxTroubles
  /\ troubles' = troubles + 1
  /\ run' = [run EXCEPT ![r] = Idle]
  /\ UNCHANGED <<hourVars, statVars>>
-----------------------------------------------------------------------------
Next ==
  \/ Tick
  \/ \E h \in Hours : CloseHour(h)
  \/ \E r \in Runs :
       \/ Start(r) \/ NothingBelow(r) \/ FirstTime(r) \/ GoOn(r)
       \/ Frame(r) \/ Over(r) \/ Put(r) \/ PutFails(r) \/ RunFails(r)

Spec == Init /\ [][Next]_periodVars
-----------------------------------------------------------------------------
(* A day that one run alone read after its last hour was closed, and put    *)
(* without failing, counts each of its hours once, in one stat: whatever    *)
(* runs failed, were too early or overlapped on other days, and whether     *)
(* the first run summed it up or a later one.                               *)
CleanDaysExact ==
  \A d \in processed \ unclean, e \in Entities :
    LET mine == {h \in HoursWith(e) : DayOf(h) = d} IN
    /\ number[e][d] = IF mine # {} \/ kind = "site" THEN 1 ELSE 0
    /\ \A h \in Hours : DayOf(h) = d => total[e][h] = IF h \in mine THEN 1 ELSE 0

(* No day is passed over: a day before one that has a stat was summed up    *)
(* too, if there was anything to sum up. Only a put_multi that stores a     *)
(* part of the first totals leaves a gap, which later runs, going on from   *)
(* the last stat, never look at.                                            *)
NoDaySkipped ==
  \A d \in DaysBelow : (\E q \in DaysDone : d < q) => d \in processed \cup torn
=============================================================================
