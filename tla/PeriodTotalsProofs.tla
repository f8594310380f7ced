------------------------- MODULE PeriodTotalsProofs -------------------------
(***************************************************************************)
(* For every number of threads, entities, hours and troubles, and days of   *)
(* any length: the types of PeriodTotals, that no day is skipped (Orderly), *)
(* and that clean days are exact (Exactly).                                 *)
(***************************************************************************)
EXTENDS PeriodTotals, TLAPS, WellFoundedInduction

-----------------------------------------------------------------------------
(* Days and hours.                                                         *)

LEMMA DayBounds ==
  ASSUME NEW h \in Nat
  PROVE  /\ DayOf(h) \in Nat
         /\ DayOf(h) * HoursOfDay <= h /\ h < EndOf(DayOf(h))
  BY PeriodAssumption, SMTT(30) DEF DayOf, EndOf

LEMMA Times ==
  ASSUME NEW a \in Nat, NEW b \in Nat, a <= b
  PROVE  a * HoursOfDay <= b * HoursOfDay /\ a * HoursOfDay \in Nat
  BY PeriodAssumption, SMTT(30)

LEMMA DayMonotone ==
  ASSUME NEW h \in Nat, NEW i \in Nat, h <= i
  PROVE  DayOf(h) <= DayOf(i)
<1> SUFFICES ASSUME DayOf(i) + 1 <= DayOf(h) PROVE FALSE
  BY DayBounds
<1>1. PICK a \in Nat, b \in Nat : a = DayOf(h) /\ b = DayOf(i) + 1
  BY DayBounds
<1>2. b * HoursOfDay <= a * HoursOfDay
  BY <1>1, Times
<1>3. QED
  BY <1>1, <1>2, DayBounds, PeriodAssumption DEF EndOf

(* A day that has ended lies within the bound of the clock.                 *)
LEMMA EndedDay ==
  ASSUME NEW d \in Nat, NEW n \in Hours, EndOf(d) <= n
  PROVE  d \in Days
<1>1. n \in Nat /\ n <= MaxHour /\ MaxHour \in Nat
  BY PeriodAssumption DEF Hours
<1>2. PICK b \in Nat : b = DayOf(MaxHour) + 1
  BY <1>1, DayBounds
<1>3. MaxHour < b * HoursOfDay /\ b * HoursOfDay \in Nat
  <2>1. MaxHour < EndOf(DayOf(MaxHour))
    BY <1>1, DayBounds
  <2>2. b * HoursOfDay \in Nat
    BY Times
  <2>3. QED
    BY <1>2, <2>1, <2>2 DEF EndOf
<1>4. ASSUME b <= d PROVE FALSE
  <2>1. PICK c \in Nat : c = d + 1
    OBVIOUS
  <2>2. b * HoursOfDay <= c * HoursOfDay /\ c * HoursOfDay \in Nat
    BY <1>4, <2>1, Times
  <2>3. c * HoursOfDay <= n
    BY <2>1 DEF EndOf
  <2>4. QED
    BY <1>1, <1>3, <2>2, <2>3
<1>5. Days = 0 .. DayOf(MaxHour) /\ DayOf(MaxHour) \in Nat
  BY <1>1, DayBounds DEF Days, DayOf
<1>6. QED
  BY <1>2, <1>4, <1>5

LEMMA DaysAreNat ==
  /\ Days \subseteq Nat /\ Hours \subseteq Nat
  /\ \A h \in Hours : DayOf(h) \in Days
<1>1. MaxHour \in Nat /\ Hours \subseteq Nat /\ Days = 0 .. DayOf(MaxHour)
  BY PeriodAssumption DEF Hours, Days, DayOf
<1>2. \A h \in Hours : DayOf(h) \in 0 .. DayOf(MaxHour)
  <2> SUFFICES ASSUME NEW h \in Hours PROVE DayOf(h) \in 0 .. DayOf(MaxHour)
    OBVIOUS
  <2>1. h \in Nat /\ h <= MaxHour
    BY <1>1 DEF Hours
  <2>2. DayOf(h) <= DayOf(MaxHour) /\ DayOf(h) \in Nat /\ DayOf(MaxHour) \in Nat
    BY <1>1, <2>1, DayMonotone, DayBounds
  <2>3. QED
    BY <2>2
<1>3. QED
  BY <1>1, <1>2

(* Of days, a set that is not empty has a first and a last one.             *)
LEMMA FirstDay ==
  ASSUME NEW S \in SUBSET Nat, S # {}
  PROVE  Min(S) \in S /\ \A d \in S : Min(S) <= d
<1> DEFINE R == OpToRel(<, Nat)
<1>1. IsWellFoundedOn(R, Nat)
  BY NatLessThanWellFounded
<1>2. \A m, n \in Nat : m < n => <<m, n>> \in R
  BY DEF OpToRel
<1> HIDE DEF R
<1>3. PICK n \in S : \A m \in S : ~(<<m, n>> \in R)
  BY <1>1, WFMin
<1>4. ASSUME NEW m \in S PROVE n <= m
  <2>1. m \in Nat /\ n \in Nat
    OBVIOUS
  <2>2. ~(m < n)
    BY <1>2, <1>3, <2>1, Zenon
  <2>3. QED
    BY <2>1, <2>2
<1>5. QED
  BY <1>3, <1>4 DEF Min

LEMMA LastDay ==
  ASSUME NEW S \in SUBSET Days, S # {}
  PROVE  Max(S) \in S /\ Max(S) \in Nat /\ \A d \in S : d <= Max(S)
<1>1. PICK m \in Nat : Days = 0 .. m
  BY PeriodAssumption, DayBounds DEF Days, DayOf
<1> DEFINE above == {n \in Nat : \A d \in S : d <= n}
<1>2. above \in SUBSET Nat /\ above # {}
  <2>1. m \in above
    BY <1>1
  <2>2. QED
    BY <2>1
<1>3. Min(above) \in above /\ \A n \in above : Min(above) <= n
  BY <1>2, FirstDay
<1>4. PICK n \in Nat : n = Min(above)
  BY <1>3
<1>5. n \in S
  <2> SUFFICES ASSUME n \notin S PROVE FALSE
    OBVIOUS
  <2>1. \A d \in S : d < n /\ d \in Nat
    BY <1>1, <1>3, <1>4
  <2>2. n - 1 \in Nat /\ \A d \in S : d <= n - 1
    BY <2>1
  <2>3. n - 1 \in above
    BY <2>2
  <2>4. n <= n - 1
    BY <1>3, <1>4, <2>3
  <2>5. QED
    BY <2>4
<1>6. \A d \in S : d <= n /\ d \in Nat
  BY <1>1, <1>3, <1>4
<1>7. QED
  <2>1. \E x \in S : \A y \in S : x >= y
    BY <1>5, <1>6
  <2>2. Max(S) \in S /\ \A y \in S : Max(S) >= y
    BY <2>1 DEF Max
  <2>3. QED
    BY <1>6, <2>2

-----------------------------------------------------------------------------
(* The inductive invariant, in three layers.                                *)

PastDays == {d \in Days : EndOf(d) <= now}

(* What a thread has read: days that have ended, of which it names the      *)
(* stats and counts the hours; a later run one day at a time, the first     *)
(* all those before the next.                                               *)
ReadSoFar(t) ==
  /\ t.read \subseteq PastDays /\ t.clean \subseteq t.read
  /\ t.parents \subseteq Entities \X t.read
  /\ \A e \in Entities : \A h \in t.counts[e] : DayOf(h) \in t.read
  /\ t.pc \in {"idle", "begin"} \/ (t.pc = "frame" /\ ~t.first) => t.read = {}
  /\ t.pc = "put" /\ ~t.first => t.read = {t.day}
  /\ t.first => \A d \in t.read : d < t.day
  /\ t.asOf <= now

Typed == TypeOK /\ \A r \in Runs : ReadSoFar(run[r])

(* The hours were closed one after the other.                               *)
OneByOne == \A i, j \in closed : \A k \in i..j : k \in closed

\* There was something to sum up on this day or before.
Since(d) == \E b \in DaysBelow : b <= d

AtWork == {r \in Runs : run[r].pc \in {"frame", "put"}}

(* Up to the last stat, and up to the day a thread is at, every day since   *)
(* the first with an hour is accounted for.                                 *)
Orderly ==
  /\ OneByOne
  /\ DaysDone # {} \/ AtWork # {} => DaysBelow # {}
  /\ \A q \in DaysDone : \A d \in 0..q : Since(d) => d \in processed \cup torn
  /\ \A r \in AtWork : \A d \in 0..run[r].day : Since(d) => d = run[r].day \/
       d \in IF run[r].first THEN run[r].read ELSE processed \cup torn

\* The entities with a stat of the day, if it is summed up now.
HasStat(e, d) == kind = "site" \/ d \in DaysWith(e)

\* A thread that thinks it is alone is.
Alone == \A r \in Active : run[r].alone => Active = {r}

\* A day is counted by hours only where it has a stat.
NoStatNoCount ==
  \A e \in Entities : \A h \in Hours : number[e][DayOf(h)] = 0 => total[e][h] = 0

\* A thread that nobody disturbed works on days without a stat.
Fresh ==
  \A r \in AtWork : run[r].alone => \A e \in Entities : \A d \in Days :
    run[r].first \/ run[r].day <= d => number[e][d] = 0

\* What it read of a complete day is what is there to be read.
ReadExactly(t) ==
  \A d \in t.clean : Complete(d) /\ \A e \in Entities :
    /\ <<e, d>> \in t.parents <=> HasStat(e, d)
    /\ \A h \in Hours : DayOf(h) = d => (h \in t.counts[e] <=> h \in HoursWith(e))

ExactOn(d) ==
  \A e \in Entities :
    /\ number[e][d] = IF HasStat(e, d) THEN 1 ELSE 0
    /\ \A h \in Hours : DayOf(h) = d => total[e][h] = IF h \in HoursWith(e) THEN 1 ELSE 0

(* So what is put is exact, and stays so, since the hours of a complete day *)
(* are all closed.                                                          *)
Exactly ==
  /\ Alone /\ NoStatNoCount /\ Fresh
  /\ \A r \in Runs : ReadExactly(run[r])
  /\ \A d \in processed \ unclean : Complete(d) /\ ExactOn(d)

-----------------------------------------------------------------------------
(* First layer: types, and what a thread has read.                          *)

Thread == [pc : {"idle", "begin", "frame", "put"}, day : Nat, first : BOOLEAN,
       asOf : Hours, parents : SUBSET (Entities \X Days), counts : [Entities -> SUBSET Hours],
       read : SUBSET Days, clean : SUBSET Days, alone : BOOLEAN]

LEMMA IdleThread ==
  Idle \in Thread /\ (now \in Nat => ReadSoFar(Idle))
<1>1. 0 \in Hours
  BY PeriodAssumption DEF Hours
<1>2. Idle \in Thread
  BY <1>1 DEF Idle, Thread
<1>3. ASSUME now \in Nat PROVE ReadSoFar(Idle)
  BY <1>3 DEF Idle, ReadSoFar
<1>4. QED
  BY <1>2, <1>3

LEMMA InitTyped == Init => Typed
<1> SUFFICES ASSUME Init PROVE Typed
  OBVIOUS
<1>1. \A r \in Runs : run[r] = Idle
  BY DEF Init
<1>2. now \in Nat /\ now \in Hours
  BY PeriodAssumption DEF Init, Hours
<1>3. \A r \in Runs : ReadSoFar(run[r])
  BY <1>1, <1>2, IdleThread
<1>4. run \in [Runs -> Thread]
  BY IdleThread DEF Init
<1>5. TypeOK
  <2>1. number \in [Entities -> [Days -> Nat]] /\ total \in [Entities -> [Hours -> Nat]]
    BY DEF Init
  <2>2. seen \in [Hours -> SUBSET Entities] /\ kind \in Kinds /\ closed \subseteq Hours
    BY DEF Init
  <2>3. troubles \in 0..MaxTroubles
    BY PeriodAssumption DEF Init
  <2>4. processed \cup unclean \cup torn \subseteq {d \in Days : EndOf(d) <= now}
    BY DEF Init
  <2>5. QED
    BY <1>2, <1>4, <2>1, <2>2, <2>3, <2>4 DEF TypeOK, Thread
<1>6. QED
  BY <1>3, <1>5 DEF Typed

(* What the hours and the stats are made of does not depend on the clock.   *)
LEMMA HourSets ==
  ASSUME closed \subseteq Hours
  PROVE  /\ \A e \in Entities : HoursWith(e) \subseteq Hours
         /\ DaysBelow \subseteq Days /\ DaysDone \subseteq Days
         /\ \A e \in Entities : DaysWith(e) \subseteq DaysBelow
<1>1. \A e \in Entities : HoursWith(e) \subseteq Hours
  BY DEF HoursWith
<1>2. \A h \in UNION {HoursWith(e) : e \in Entities} : h \in Hours
  BY <1>1
<1>3. DaysBelow \subseteq Days
  BY <1>2, DaysAreNat DEF DaysBelow
<1>4. \A e \in Entities : DaysWith(e) \subseteq DaysBelow
  BY DEF DaysBelow, DaysWith
<1>5. QED
  BY <1>1, <1>3, <1>4 DEF DaysDone

(* An action on one thread that leaves the clock alone, and the stats at    *)
(* most better.                                                             *)
LEMMA OneThread ==
  ASSUME Typed, NEW r \in Runs, NEW t \in Thread, ReadSoFar(t),
         run' = [run EXCEPT ![r] = t], UNCHANGED hourVars,
         number' \in [Entities -> [Days -> Nat]], total' \in [Entities -> [Hours -> Nat]],
         troubles' \in 0..MaxTroubles,
         (processed \cup unclean \cup torn)' \subseteq PastDays
  PROVE  Typed'
<1>1. kind' = kind /\ now' = now /\ closed' = closed /\ seen' = seen
  BY DEF hourVars
<1>2. run \in [Runs -> Thread]
  BY DEF Typed, TypeOK, Thread
<1>3. run' \in [Runs -> Thread]
  BY <1>2
<1>4. ASSUME NEW q \in Runs PROVE ReadSoFar(run[q])'
  <2>1. ReadSoFar(run'[q])
    BY <1>2 DEF Typed
  <2>2. QED
    BY <1>1, <2>1 DEF ReadSoFar, PastDays
<1>5. TypeOK'
  <2>1. kind' \in Kinds /\ now' \in Hours /\ closed' \subseteq Hours
        /\ seen' \in [Hours -> SUBSET Entities]
    BY <1>1 DEF Typed, TypeOK
  <2>2. (processed \cup unclean \cup torn \subseteq {d \in Days : EndOf(d) <= now})'
    BY <1>1 DEF PastDays
  <2>3. QED
    BY <1>3, <2>1, <2>2 DEF TypeOK, Thread
<1>6. QED
  BY <1>4, <1>5 DEF Typed

LEMMA TypedTick == Typed /\ Tick => Typed'
<1> SUFFICES ASSUME Typed, Tick PROVE Typed'
  OBVIOUS
<1>1. now < MaxHour /\ now' = now + 1 /\ closed' = closed
  BY DEF Tick, Hourly!Tick
<1>2. /\ kind' = kind /\ seen' = seen /\ run' = run /\ troubles' = troubles
      /\ number' = number /\ total' = total
      /\ processed' = processed /\ unclean' = unclean /\ torn' = torn
  BY DEF Tick, statVars
<1>3. now \in Nat /\ now' \in Hours /\ MaxHour \in Nat
  BY <1>1, PeriodAssumption DEF Typed, TypeOK, Hours
<1>4. PastDays \subseteq PastDays'
  <2>1. \A d \in Days : EndOf(d) \in Nat
    <3> SUFFICES ASSUME NEW d \in Days PROVE EndOf(d) \in Nat
      OBVIOUS
    <3>1. PICK c \in Nat : c = d + 1
      BY DaysAreNat
    <3>2. QED
      BY <3>1, Times DEF EndOf
  <2>2. QED
    BY <1>1, <1>3, <2>1 DEF PastDays
<1>5. ASSUME NEW r \in Runs PROVE ReadSoFar(run[r])'
  <2>1. ReadSoFar(run[r]) /\ run[r].asOf \in Nat
    BY DaysAreNat DEF Typed, TypeOK
  <2>2. run[r].asOf <= now' /\ run[r].read \subseteq PastDays'
    BY <1>1, <1>3, <1>4, <2>1 DEF ReadSoFar
  <2>3. QED
    BY <1>2, <2>1, <2>2 DEF ReadSoFar
<1>6. TypeOK'
  <2>1. (processed \cup unclean \cup torn \subseteq {d \in Days : EndOf(d) <= now})'
    BY <1>2, <1>4 DEF Typed, TypeOK, PastDays
  <2>2. QED
    BY <1>1, <1>2, <1>3, <2>1 DEF Typed, TypeOK
<1>7. QED
  BY <1>5, <1>6 DEF Typed

LEMMA TypedCloseHour == ASSUME NEW h \in Hours PROVE Typed /\ CloseHour(h) => Typed'
<1> SUFFICES ASSUME Typed, CloseHour(h) PROVE Typed'
  OBVIOUS
<1>1. now' = now /\ closed' = closed \cup {h}
  BY DEF CloseHour, Hourly!Close
<1>2. /\ kind' = kind /\ run' = run /\ troubles' = troubles
      /\ number' = number /\ total' = total
      /\ processed' = processed /\ unclean' = unclean /\ torn' = torn
  BY DEF CloseHour, statVars
<1>3. seen' \in [Hours -> SUBSET Entities]
  <2>1. PICK es \in IF kind = "site" THEN {Entities} ELSE SUBSET Entities :
          seen' = [seen EXCEPT ![h] = es]
    BY DEF CloseHour
  <2>2. es \in SUBSET Entities
    BY <2>1
  <2>3. QED
    BY <2>1, <2>2 DEF Typed, TypeOK
<1>4. QED
  BY <1>1, <1>2, <1>3 DEF Typed, TypeOK, ReadSoFar, PastDays

(* An action on one thread that leaves the stats alone.                     *)
LEMMA OneThreadOnly ==
  ASSUME Typed, NEW r \in Runs, NEW t \in Thread, ReadSoFar(t),
         run' = [run EXCEPT ![r] = t], UNCHANGED <<hourVars, statVars>>,
         troubles' \in 0..MaxTroubles
  PROVE  Typed'
<1>1. /\ number' = number /\ total' = total
      /\ processed' = processed /\ unclean' = unclean /\ torn' = torn /\ UNCHANGED hourVars
  BY DEF statVars
<1>2. number' \in [Entities -> [Days -> Nat]] /\ total' \in [Entities -> [Hours -> Nat]]
  BY <1>1 DEF Typed, TypeOK
<1>3. (processed \cup unclean \cup torn)' \subseteq PastDays
  BY <1>1 DEF Typed, TypeOK, PastDays
<1>4. QED
  BY <1>1, <1>2, <1>3, OneThread

LEMMA ThreadFacts ==
  ASSUME Typed, NEW r \in Runs
  PROVE  /\ run \in [Runs -> Thread] /\ run[r] \in Thread /\ ReadSoFar(run[r])
         /\ now \in Nat /\ now \in Hours /\ troubles \in 0..MaxTroubles
         /\ closed \subseteq Hours
  BY DaysAreNat DEF Typed, TypeOK, Thread

LEMMA TypedStart == ASSUME NEW r \in Runs PROVE Typed /\ Start(r) => Typed'
<1> SUFFICES ASSUME Typed, Start(r) PROVE Typed'
  OBVIOUS
<1> DEFINE lone == [Idle EXCEPT !.pc = "begin", !.alone = (Active = {})]
<1>1. /\ run' = [q \in Runs |-> IF q = r THEN lone
                  ELSE IF q \in Active THEN [run[q] EXCEPT !.alone = FALSE] ELSE run[q]]
      /\ Active # {} => troubles < MaxTroubles
      /\ troubles' = IF Active = {} THEN troubles ELSE troubles + 1
  BY DEF Start
<1>2. /\ kind' = kind /\ now' = now /\ closed' = closed /\ seen' = seen
      /\ number' = number /\ total' = total
      /\ processed' = processed /\ unclean' = unclean /\ torn' = torn
  BY DEF Start, statVars, hourVars
<1>3. run \in [Runs -> Thread] /\ now \in Nat /\ troubles \in 0..MaxTroubles
  BY ThreadFacts
<1>4. lone \in Thread /\ ReadSoFar(lone)
  <2>1. Idle \in Thread /\ ReadSoFar(Idle)
    BY <1>3, IdleThread
  <2>2. lone \in Thread
    BY <2>1 DEF Thread
  <2>3. ReadSoFar(lone)
    BY <1>3 DEF ReadSoFar, Idle
  <2>4. QED
    BY <2>2, <2>3
<1> HIDE DEF lone
<1>5. ASSUME NEW q \in Runs PROVE run'[q] \in Thread /\ ReadSoFar(run'[q])
  <2>1. CASE q = r
    BY <1>1, <1>4, <2>1
  <2>2. CASE q # r /\ q \in Active
    <3>1. run[q] \in Thread /\ ReadSoFar(run[q])
      BY ThreadFacts
    <3>2. run'[q] = [run[q] EXCEPT !.alone = FALSE]
      BY <1>1, <2>2
    <3>3. run'[q] \in Thread
      BY <3>1, <3>2 DEF Thread
    <3>4. ReadSoFar(run'[q])
      BY <3>1, <3>2 DEF Thread, ReadSoFar
    <3>5. QED
      BY <3>3, <3>4
  <2>3. CASE q # r /\ q \notin Active
    BY <1>1, <2>3, ThreadFacts
  <2>4. QED
    BY <2>1, <2>2, <2>3
<1>6. run' \in [Runs -> Thread]
  BY <1>1, <1>5
<1>7. troubles' \in 0..MaxTroubles
  BY <1>1, <1>3, PeriodAssumption
<1>8. TypeOK'
  BY <1>2, <1>6, <1>7 DEF Typed, TypeOK, Thread
<1>9. ASSUME NEW q \in Runs PROVE ReadSoFar(run[q])'
  BY <1>2, <1>5 DEF ReadSoFar, PastDays
<1>10. QED
  BY <1>8, <1>9 DEF Typed

LEMMA TypedIdle ==
  ASSUME NEW r \in Runs, Typed, run' = [run EXCEPT ![r] = Idle],
         UNCHANGED <<hourVars, statVars>>, troubles' \in 0..MaxTroubles
  PROVE  Typed'
<1>1. Idle \in Thread /\ ReadSoFar(Idle)
  BY ThreadFacts, IdleThread
<1>2. QED
  BY <1>1, OneThreadOnly

LEMMA TypedNothingBelow == ASSUME NEW r \in Runs PROVE Typed /\ NothingBelow(r) => Typed'
<1> SUFFICES ASSUME Typed, NothingBelow(r) PROVE Typed'
  OBVIOUS
<1>1. run' = [run EXCEPT ![r] = Idle] /\ UNCHANGED <<hourVars, statVars>> /\ troubles' = troubles
  BY DEF NothingBelow
<1>2. QED
  BY <1>1, TypedIdle, ThreadFacts

LEMMA TypedRunFails == ASSUME NEW r \in Runs PROVE Typed /\ RunFails(r) => Typed'
<1> SUFFICES ASSUME Typed, RunFails(r) PROVE Typed'
  OBVIOUS
<1>1. run' = [run EXCEPT ![r] = Idle] /\ UNCHANGED <<hourVars, statVars>>
  BY DEF RunFails
<1>2. troubles' \in 0..MaxTroubles
  BY ThreadFacts, PeriodAssumption DEF RunFails
<1>3. QED
  BY <1>1, <1>2, TypedIdle

LEMMA TypedFrom ==
  ASSUME NEW r \in Runs, NEW first \in BOOLEAN, NEW d \in Nat, run[r].pc = "begin"
  PROVE  Typed /\ From(r, first, d) => Typed'
<1> SUFFICES ASSUME Typed, From(r, first, d) PROVE Typed'
  OBVIOUS
<1> DEFINE t == [run[r] EXCEPT !.pc = "frame", !.first = first, !.day = d, !.asOf = now]
<1>1. run[r] \in Thread /\ ReadSoFar(run[r]) /\ now \in Hours /\ now \in Nat
      /\ run \in [Runs -> Thread] /\ troubles \in 0..MaxTroubles
  BY ThreadFacts
<1>2. t \in Thread
  BY <1>1 DEF Thread
<1>3. t.read = {}
  BY <1>1 DEF ReadSoFar, Thread
<1>4. ReadSoFar(t)
  BY <1>1, <1>3 DEF ReadSoFar, Thread
<1>5. run' = [run EXCEPT ![r] = t] /\ UNCHANGED <<hourVars, statVars>> /\ troubles' = troubles
  BY <1>1 DEF From
<1> HIDE DEF t
<1>6. QED
  BY <1>1, <1>2, <1>4, <1>5, OneThreadOnly

LEMMA TypedFirstTime == ASSUME NEW r \in Runs PROVE Typed /\ FirstTime(r) => Typed'
<1> SUFFICES ASSUME Typed, FirstTime(r) PROVE Typed'
  OBVIOUS
<1>1. DaysBelow \subseteq Nat
  BY ThreadFacts, HourSets, DaysAreNat
<1>2. PICK d \in Nat : d = Min(DaysBelow)
  BY <1>1, FirstDay DEF FirstTime
<1>3. From(r, TRUE, d) /\ run[r].pc = "begin"
  BY <1>2 DEF FirstTime
<1>4. QED
  BY <1>3, TypedFrom

LEMMA TypedGoOn == ASSUME NEW r \in Runs PROVE Typed /\ GoOn(r) => Typed'
<1> SUFFICES ASSUME Typed, GoOn(r) PROVE Typed'
  OBVIOUS
<1>1. DaysDone \subseteq Days
  BY DEF DaysDone
<1>2. PICK d \in Nat : d = Max(DaysDone) + 1
  BY <1>1, LastDay DEF GoOn
<1>3. From(r, FALSE, d) /\ run[r].pc = "begin"
  BY <1>2 DEF GoOn
<1>4. QED
  BY <1>3, TypedFrom

(* When a day has ended for a thread, it has.                               *)
LEMMA EndedIsPast ==
  ASSUME Typed, NEW r \in Runs, Ended(r)
  PROVE  run[r].day \in PastDays
<1>1. run[r].day \in Nat /\ run[r].asOf \in Hours /\ run[r].asOf <= now /\ now \in Hours
      /\ run[r].first \in BOOLEAN
  BY ThreadFacts DEF Thread, ReadSoFar
<1>2. EndOf(run[r].day) \in Nat
  <2>1. PICK c \in Nat : c = run[r].day + 1
    BY <1>1
  <2>2. QED
    BY <2>1, Times DEF EndOf
<1>3. EndOf(run[r].day) <= now
  BY <1>1, <1>2, DaysAreNat DEF Ended
<1>4. QED
  BY <1>1, <1>3, EndedDay DEF PastDays

(* What a thread knows after a frame.                                       *)
LEMMA FrameFields ==
  ASSUME Typed, NEW r \in Runs, Frame(r)
  PROVE  /\ \A q \in Runs : q # r => run'[q] = run[q]
         /\ run[r].pc = "frame" /\ run[r].day \in PastDays
         /\ run'[r].pc = IF run[r].first THEN "frame" ELSE "put"
         /\ run'[r].first = run[r].first /\ run'[r].alone = run[r].alone
         /\ run'[r].asOf = run[r].asOf
         /\ run'[r].day = IF run[r].first THEN run[r].day + 1 ELSE run[r].day
         /\ run'[r].parents = run[r].parents \cup
              ({e \in Entities : HasStat(e, run[r].day)} \X {run[r].day})
         /\ run'[r].counts = [e \in Entities |-> run[r].counts[e] \cup
              {h \in HoursWith(e) : DayOf(h) = run[r].day}]
         /\ run'[r].read = run[r].read \cup {run[r].day}
         /\ run'[r].clean = IF Complete(run[r].day) THEN run[r].clean \cup {run[r].day}
                            ELSE run[r].clean
         /\ run' = [run EXCEPT ![r] = run'[r]]
         /\ UNCHANGED <<hourVars, statVars>> /\ troubles' = troubles
<1>1. run \in [Runs -> Thread] /\ run[r] \in Thread
  BY ThreadFacts
<1>2. run[r].day \in PastDays
  BY EndedIsPast DEF Frame
<1>3. run[r].pc = "frame" /\ UNCHANGED <<hourVars, statVars>> /\ troubles' = troubles
  BY DEF Frame
<1> DEFINE new == {e \in Entities : kind = "site" \/ run[r].day \in DaysWith(e)}
           known == [e \in Entities |-> run[r].counts[e] \cup
              {h \in HoursWith(e) : DayOf(h) = run[r].day}]
           t == [run[r] EXCEPT
       !.pc = IF run[r].first THEN "frame" ELSE "put",
       !.day = IF run[r].first THEN run[r].day + 1 ELSE run[r].day,
       !.parents = run[r].parents \cup (new \X {run[r].day}),
       !.counts = known,
       !.read = run[r].read \cup {run[r].day},
       !.clean = IF Complete(run[r].day) THEN run[r].clean \cup {run[r].day}
                 ELSE run[r].clean]
<1>4. run' = [run EXCEPT ![r] = t]
  BY DEF Frame
<1>5. new = {e \in Entities : HasStat(e, run[r].day)}
  BY DEF HasStat
<1> HIDE DEF new, known
<1>6. /\ t.pc = IF run[r].first THEN "frame" ELSE "put"
      /\ t.day = IF run[r].first THEN run[r].day + 1 ELSE run[r].day
      /\ t.first = run[r].first /\ t.alone = run[r].alone /\ t.asOf = run[r].asOf
      /\ t.parents = run[r].parents \cup (new \X {run[r].day})
      /\ t.counts = known
      /\ t.read = run[r].read \cup {run[r].day}
      /\ t.clean = IF Complete(run[r].day) THEN run[r].clean \cup {run[r].day}
                   ELSE run[r].clean
  BY <1>1 DEF Thread
<1> HIDE DEF t
<1>7. run'[r] = t /\ \A q \in Runs : q # r => run'[q] = run[q]
  BY <1>1, <1>4
<1>8. known = [e \in Entities |-> run[r].counts[e] \cup
              {h \in HoursWith(e) : DayOf(h) = run[r].day}]
  BY DEF known
<1>9. QED
  BY <1>2, <1>3, <1>4, <1>5, <1>6, <1>7, <1>8

LEMMA TypedFrame == ASSUME NEW r \in Runs PROVE Typed /\ Frame(r) => Typed'
<1> SUFFICES ASSUME Typed, Frame(r) PROVE Typed'
  OBVIOUS
<1>1. run[r] \in Thread /\ ReadSoFar(run[r]) /\ now \in Nat /\ closed \subseteq Hours
  BY ThreadFacts
<1> DEFINE d == run[r].day
<1>2. d \in PastDays
  BY FrameFields
<1>3. d \in Days /\ d \in Nat
  BY <1>2, DaysAreNat DEF PastDays
<1>4. PICK t : t = run'[r]
  OBVIOUS
<1>5. /\ t.pc = IF run[r].first THEN "frame" ELSE "put"
      /\ t.day = IF run[r].first THEN d + 1 ELSE d
      /\ t.first = run[r].first /\ t.alone = run[r].alone /\ t.asOf = run[r].asOf
      /\ t.parents = run[r].parents \cup ({e \in Entities : HasStat(e, d)} \X {d})
      /\ t.counts = [e \in Entities |-> run[r].counts[e] \cup
              {h \in HoursWith(e) : DayOf(h) = d}]
      /\ t.read = run[r].read \cup {d}
      /\ t.clean = IF Complete(d) THEN run[r].clean \cup {d} ELSE run[r].clean
  BY <1>4, FrameFields
<1> HIDE DEF d
<1>6. t = [run[r] EXCEPT !.pc = t.pc, !.day = t.day, !.parents = t.parents,
             !.counts = t.counts, !.read = t.read, !.clean = t.clean]
  BY <1>1, <1>4, ThreadFacts DEF Frame
<1>7. t \in Thread
  <2>1. t.pc \in {"frame", "put"} /\ t.day \in Nat
    BY <1>3, <1>5
  <2>2. t.parents \in SUBSET (Entities \X Days)
    <3>1. run[r].parents \in SUBSET (Entities \X Days)
      BY <1>1 DEF Thread
    <3>2. QED
      BY <1>3, <1>5, <3>1
  <2>3. t.counts \in [Entities -> SUBSET Hours]
    <3>1. \A e \in Entities : run[r].counts[e] \subseteq Hours /\ HoursWith(e) \subseteq Hours
      BY <1>1, HourSets DEF Thread
    <3>2. QED
      BY <1>5, <3>1
  <2>4. t.read \subseteq Days /\ t.clean \subseteq Days
    BY <1>1, <1>3, <1>5 DEF Thread
  <2>5. QED
    BY <1>1, <1>6, <2>1, <2>2, <2>3, <2>4 DEF Thread
<1>8. ReadSoFar(t)
  <2>1. t.read \subseteq PastDays /\ t.clean \subseteq t.read
    <3>1. run[r].read \subseteq PastDays /\ run[r].clean \subseteq run[r].read
      BY <1>1 DEF ReadSoFar
    <3>2. QED
      BY <1>2, <1>5, <3>1
  <2>2. t.parents \subseteq Entities \X t.read
    BY <1>1, <1>5 DEF ReadSoFar
  <2>3. \A e \in Entities : \A h \in t.counts[e] : DayOf(h) \in t.read
    BY <1>1, <1>5 DEF ReadSoFar
  <2>4. t.pc \in {"idle", "begin"} \/ (t.pc = "frame" /\ ~t.first) => t.read = {}
    BY <1>5
  <2>5. t.pc = "put" /\ ~t.first => t.read = {t.day}
    <3>1. ~run[r].first => run[r].read = {}
      BY <1>1, FrameFields DEF ReadSoFar
    <3>2. QED
      BY <1>5, <3>1
  <2>6. t.first => \A c \in t.read : c < t.day
    <3> SUFFICES ASSUME t.first, NEW c \in t.read PROVE c < t.day
      OBVIOUS
    <3>1. t.day = d + 1 /\ (c = d \/ c \in run[r].read)
      BY <1>5
    <3>2. c \in run[r].read => c < d /\ c \in Nat
      <4>1. run[r].first
        BY <1>5
      <4>2. (\A x \in run[r].read : x < run[r].day) /\ run[r].read \subseteq Days
        BY <1>1, <4>1 DEF ReadSoFar, PastDays
      <4>3. QED
        BY <4>2, DaysAreNat DEF d
    <3>3. QED
      BY <1>3, <3>1, <3>2
  <2>7. t.asOf <= now
    BY <1>1, <1>5 DEF ReadSoFar
  <2>8. QED
    BY <2>1, <2>2, <2>3, <2>4, <2>5, <2>6, <2>7 DEF ReadSoFar
<1>9. run' = [run EXCEPT ![r] = t] /\ UNCHANGED <<hourVars, statVars>> /\ troubles' = troubles
  BY <1>4, FrameFields
<1>10. QED
  BY <1>7, <1>8, <1>9, ThreadFacts, OneThreadOnly

LEMMA TypedOver == ASSUME NEW r \in Runs PROVE Typed /\ Over(r) => Typed'
<1> SUFFICES ASSUME Typed, Over(r) PROVE Typed'
  OBVIOUS
<1>1. /\ run[r].pc = "frame" /\ UNCHANGED <<hourVars, statVars>> /\ troubles' = troubles
      /\ run' = [run EXCEPT ![r] = IF run[r].first THEN [run[r] EXCEPT !.pc = "put"] ELSE Idle]
  BY DEF Over
<1>2. CASE ~run[r].first
  BY <1>1, <1>2, ThreadFacts, TypedIdle
<1>3. CASE run[r].first
  <2> DEFINE t == [run[r] EXCEPT !.pc = "put"]
  <2>1. run[r] \in Thread /\ ReadSoFar(run[r])
    BY ThreadFacts
  <2>2. t \in Thread
    BY <2>1 DEF Thread
  <2>3. ReadSoFar(t)
    BY <1>3, <2>1 DEF ReadSoFar, Thread
  <2>4. run' = [run EXCEPT ![r] = t]
    BY <1>1, <1>3
  <2> HIDE DEF t
  <2>5. QED
    BY <1>1, <2>2, <2>3, <2>4, ThreadFacts, OneThreadOnly
<1>4. QED
  BY <1>2, <1>3

(* Putting stats keeps their types.                                         *)
LEMMA PutTypes ==
  ASSUME Typed, NEW r \in Runs, NEW puts, PutOf(r, puts)
  PROVE  number' \in [Entities -> [Days -> Nat]] /\ total' \in [Entities -> [Hours -> Nat]]
<1>1. \A e \in Entities, d \in Days : number[e][d] \in Nat
  BY DEF Typed, TypeOK
<1>2. \A e \in Entities, h \in Hours : total[e][h] \in Nat
  BY DEF Typed, TypeOK
<1>3. number' \in [Entities -> [Days -> Nat]]
  BY <1>1 DEF PutOf
<1>4. total' \in [Entities -> [Hours -> Nat]]
  BY <1>2 DEF PutOf
<1>5. QED
  BY <1>3, <1>4

LEMMA TypedPut == ASSUME NEW r \in Runs PROVE Typed /\ Put(r) => Typed'
<1> SUFFICES ASSUME Typed, Put(r) PROVE Typed'
  OBVIOUS
<1>1. /\ run[r].pc = "put" /\ PutOf(r, run[r].parents)
      /\ processed' = processed \cup run[r].read
      /\ unclean' = unclean \cup IF run[r].alone THEN run[r].read \ run[r].clean
                                 ELSE run[r].read
      /\ UNCHANGED hourVars /\ troubles' = troubles /\ torn' = torn
  BY DEF Put
<1>2. PICK t : t = IF run[r].first THEN Idle
       ELSE [Idle EXCEPT !.pc = "frame", !.day = run[r].day + 1, !.asOf = run[r].asOf,
                         !.alone = run[r].alone]
  OBVIOUS
<1>3. run' = [run EXCEPT ![r] = t]
  BY <1>2 DEF Put
<1>4. run[r] \in Thread /\ ReadSoFar(run[r]) /\ now \in Nat
  BY ThreadFacts
<1>5. Idle \in Thread /\ ReadSoFar(Idle)
  BY <1>4, IdleThread
<1>6. t \in Thread /\ ReadSoFar(t)
  <2>1. CASE run[r].first
    BY <1>2, <1>5, <2>1
  <2>2. CASE ~run[r].first
    <3>1. t = [Idle EXCEPT !.pc = "frame", !.day = run[r].day + 1, !.asOf = run[r].asOf,
                         !.alone = run[r].alone]
      BY <1>2, <2>2
    <3>0. run[r].day + 1 \in Nat /\ run[r].asOf \in Hours /\ run[r].alone \in BOOLEAN
      BY <1>4 DEF Thread
    <3>2. t \in Thread
      BY <1>5, <3>0, <3>1 DEF Thread
    <3>3. t.read = {} /\ t.clean = {} /\ t.parents = {} /\ t.first = FALSE
          /\ t.pc = "frame" /\ t.asOf = run[r].asOf /\ t.counts = [e \in Entities |-> {}]
      BY <3>1 DEF Idle
    <3>4. ReadSoFar(t)
      BY <1>4, <3>3 DEF ReadSoFar
    <3>5. QED
      BY <3>2, <3>4
  <2>3. QED
    BY <2>1, <2>2
<1>7. (processed \cup unclean \cup torn)' \subseteq PastDays
  <2>1. run[r].read \subseteq PastDays
    BY <1>4 DEF ReadSoFar
  <2>2. processed \cup unclean \cup torn \subseteq PastDays
    BY DEF Typed, TypeOK, PastDays
  <2>3. QED
    BY <1>1, <2>1, <2>2
<1>8. QED
  BY <1>1, <1>3, <1>6, <1>7, PutTypes, ThreadFacts, OneThread

LEMMA TypedPutFails == ASSUME NEW r \in Runs PROVE Typed /\ PutFails(r) => Typed'
<1> SUFFICES ASSUME Typed, PutFails(r) PROVE Typed'
  OBVIOUS
<1>1. PICK puts \in SUBSET run[r].parents :
        /\ PutOf(r, puts)
        /\ processed' = processed \cup {s[2] : s \in puts}
        /\ torn' = IF run[r].first /\ puts # {} THEN torn \cup run[r].read ELSE torn
  BY DEF PutFails
<1>2. /\ unclean' = unclean \cup run[r].read /\ run' = [run EXCEPT ![r] = Idle]
      /\ UNCHANGED hourVars /\ troubles < MaxTroubles /\ troubles' = troubles + 1
  BY DEF PutFails
<1>3. Idle \in Thread /\ ReadSoFar(Idle)
  BY ThreadFacts, IdleThread
<1>4. run[r].read \subseteq PastDays /\ {s[2] : s \in puts} \subseteq run[r].read
  <2>1. ReadSoFar(run[r])
    BY ThreadFacts
  <2>2. QED
    BY <2>1 DEF ReadSoFar
<1>5. (processed \cup unclean \cup torn)' \subseteq PastDays
  <2>1. processed \cup unclean \cup torn \subseteq PastDays
    BY DEF Typed, TypeOK, PastDays
  <2>2. QED
    BY <1>1, <1>2, <1>4, <2>1
<1>6. troubles' \in 0..MaxTroubles
  BY <1>2, ThreadFacts, PeriodAssumption
<1>7. QED
  BY <1>1, <1>2, <1>3, <1>5, <1>6, PutTypes, OneThread

LEMMA TypedStep == Typed /\ [Next]_periodVars => Typed'
<1> SUFFICES ASSUME Typed, [Next]_periodVars PROVE Typed'
  OBVIOUS
<1>1. ASSUME NEW r \in Runs,
             \/ Start(r) \/ NothingBelow(r) \/ FirstTime(r) \/ GoOn(r)
             \/ Frame(r) \/ Over(r) \/ Put(r) \/ PutFails(r) \/ RunFails(r)
      PROVE  Typed'
  BY <1>1, TypedStart, TypedNothingBelow, TypedFirstTime, TypedGoOn, TypedFrame,
     TypedOver, TypedPut, TypedPutFails, TypedRunFails, Zenon
<1>2. ASSUME NEW h \in Hours, CloseHour(h) PROVE Typed'
  BY <1>2, TypedCloseHour
<1>3. ASSUME UNCHANGED periodVars PROVE Typed'
  <2>1. /\ kind' = kind /\ now' = now /\ closed' = closed /\ seen' = seen
        /\ number' = number /\ total' = total /\ run' = run /\ troubles' = troubles
        /\ processed' = processed /\ unclean' = unclean /\ torn' = torn
    BY <1>3 DEF periodVars
  <2>2. QED
    BY <2>1 DEF Typed, TypeOK, ReadSoFar, PastDays
<1>4. QED
  BY <1>1, <1>2, <1>3, TypedTick, Zenon DEF Next

(* Every variable keeps its type: what the threads sum up are days that     *)
(* have ended, however they fail and overlap, and at most as many troubles  *)
(* are counted as allowed.                                                  *)
THEOREM DaysWellTyped == Spec => []TypeOK
<1>1. Typed => TypeOK
  BY DEF Typed
<1>2. QED
  BY <1>1, InitTyped, TypedStep, PTL DEF Spec

-----------------------------------------------------------------------------
(* Second layer: no day is skipped.                                         *)

LEMMA SameHours ==
  ASSUME UNCHANGED hourVars
  PROVE  /\ kind' = kind /\ now' = now /\ closed' = closed /\ seen' = seen
         /\ DaysBelow' = DaysBelow /\ \A d : Since(d)' <=> Since(d)
<1>1. kind' = kind /\ now' = now /\ closed' = closed /\ seen' = seen
  BY DEF hourVars
<1>2. DaysBelow' = DaysBelow
  BY <1>1 DEF DaysBelow, HoursWith
<1>3. QED
  BY <1>1, <1>2 DEF Since

(* The hour that is closed comes after all those that were.                 *)
LEMMA ClosedLast ==
  ASSUME Typed, OneByOne, NEW h \in Hours, CloseHour(h)
  PROVE  /\ closed' = closed \cup {h} /\ h \in Nat /\ h \notin closed
         /\ \A j \in closed : j \in Nat /\ j < h
         /\ OneByOne'
<1>1. closed' = closed \cup {h} /\ h \notin closed
      /\ (closed = {} \/ (h > 0 /\ h - 1 \in closed))
  BY DEF CloseHour, Hourly!Close
<1>2. closed \subseteq Nat /\ h \in Nat
  BY ThreadFacts, DaysAreNat DEF Typed, TypeOK
<1>3. ASSUME NEW j \in closed PROVE j \in Nat /\ j < h
  <2>1. j \in Nat /\ h - 1 \in closed /\ h - 1 \in Nat
    BY <1>1, <1>2
  <2>2. h <= j => h \in closed
    BY <1>2, <2>1 DEF OneByOne
  <2>3. QED
    BY <1>1, <1>2, <2>1, <2>2
<1>4. OneByOne'
  <2> SUFFICES ASSUME NEW i \in closed \cup {h}, NEW j \in closed \cup {h}, NEW k \in i..j
               PROVE  k \in closed \cup {h}
    BY <1>1 DEF OneByOne
  <2>1. i \in Nat /\ j \in Nat /\ k \in Nat /\ i <= k /\ k <= j
    BY <1>2
  <2>2. CASE i \in closed /\ j \in closed
    BY <2>2 DEF OneByOne
  <2>3. CASE i = h
    <3>1. j <= h
      BY <1>2, <1>3, <2>1
    <3>2. k = h
      BY <1>2, <2>1, <2>3, <3>1
    <3>3. QED
      BY <3>2
  <2>4. CASE i \in closed /\ j = h
    <3>1. CASE k = h
      BY <3>1
    <3>2. CASE k # h
      <4>1. h - 1 \in closed /\ k \in i..(h - 1)
        BY <1>1, <1>2, <2>1, <2>4, <3>2
      <4>2. QED
        BY <2>4, <4>1 DEF OneByOne
    <3>3. QED
      BY <3>1, <3>2
  <2>5. QED
    BY <2>2, <2>3, <2>4
<1>5. QED
  BY <1>1, <1>2, <1>3, <1>4

(* Its stats are those of the last day, so nothing changes for earlier ones *)
(* unless there was nothing at all.                                         *)
LEMMA SinceBefore ==
  ASSUME Typed, OneByOne, NEW h \in Hours, CloseHour(h)
  PROVE  /\ DaysBelow # {} => DaysBelow' # {}
         /\ DaysBelow # {} => \A d \in Nat : Since(d)' => Since(d)
<1>1. /\ closed' = closed \cup {h} /\ h \in Nat /\ h \notin closed
      /\ \A j \in closed : j \in Nat /\ j < h
  BY ClosedLast
<1>2. \A e \in Entities : \A j \in closed : j \in HoursWith(e)' <=> j \in HoursWith(e)
  <2>1. PICK es \in IF kind = "site" THEN {Entities} ELSE SUBSET Entities :
          seen' = [seen EXCEPT ![h] = es]
    BY DEF CloseHour
  <2>2. \A j \in closed : seen'[j] = seen[j]
    BY <1>1, <2>1 DEF Typed, TypeOK
  <2>3. QED
    BY <1>1, <2>2 DEF HoursWith
<1>3. \A e \in Entities : HoursWith(e) \subseteq closed /\ HoursWith(e)' \subseteq closed \cup {h}
  BY <1>1 DEF HoursWith
<1>4. DaysBelow \subseteq DaysBelow'
  BY <1>2, <1>3 DEF DaysBelow
<1>5. DaysBelow' \subseteq DaysBelow \cup {DayOf(h)}
  <2> SUFFICES ASSUME NEW e \in Entities, NEW j \in HoursWith(e)'
               PROVE  DayOf(j) \in DaysBelow \cup {DayOf(h)}
    BY DEF DaysBelow
  <2>1. CASE j = h
    BY <2>1
  <2>2. CASE j \in closed
    BY <1>2, <2>2 DEF DaysBelow
  <2>3. QED
    BY <1>3, <2>1, <2>2
<1>6. ASSUME DaysBelow # {}, NEW d \in Nat, Since(d)' PROVE Since(d)
  <2>1. PICK b \in DaysBelow' : b <= d
    BY <1>6 DEF Since
  <2>2. CASE b \in DaysBelow
    BY <2>1, <2>2 DEF Since
  <2>3. CASE b = DayOf(h)
    <3>0. PICK e \in Entities : HoursWith(e) # {}
      BY <1>6 DEF DaysBelow
    <3>1. PICK j \in HoursWith(e) : TRUE
      BY <3>0
    <3>2. j \in Nat /\ j < h
      BY <1>1, <1>3, <3>1
    <3>3. DayOf(j) <= DayOf(h) /\ DayOf(j) \in Nat /\ DayOf(h) \in Nat
      BY <1>1, <3>2, DayMonotone, DayBounds
    <3>4. DayOf(j) \in DaysBelow
      BY <3>1 DEF DaysBelow
    <3>5. DayOf(j) <= d
      BY <2>1, <2>3, <3>3
    <3>6. QED
      BY <3>4, <3>5 DEF Since
  <2>4. QED
    BY <1>5, <2>1, <2>2, <2>3
<1>7. QED
  BY <1>4, <1>6

LEMMA OrderlyCloseHour ==
  ASSUME NEW h \in Hours PROVE Typed /\ Orderly /\ CloseHour(h) => Orderly'
<1> SUFFICES ASSUME Typed, Orderly, CloseHour(h) PROVE Orderly'
  OBVIOUS
<1>1. run' = run /\ number' = number /\ processed' = processed /\ torn' = torn
  BY DEF CloseHour, statVars
<1>2. DaysDone' = DaysDone /\ AtWork' = AtWork
  BY <1>1 DEF DaysDone, AtWork
<1>3. /\ OneByOne
      /\ DaysDone # {} \/ AtWork # {} => DaysBelow # {}
      /\ \A q \in DaysDone : \A d \in 0..q : Since(d) => d \in processed \cup torn
      /\ \A r \in AtWork : \A d \in 0..run[r].day : Since(d) => d = run[r].day \/
           d \in IF run[r].first THEN run[r].read ELSE processed \cup torn
  BY DEF Orderly
<1>4. OneByOne'
  BY <1>3, ClosedLast
<1>5. DaysDone' # {} \/ AtWork' # {} => DaysBelow' # {}
  BY <1>2, <1>3, SinceBefore
<1>6. ASSUME NEW q \in DaysDone', NEW d \in 0..q, Since(d)' PROVE d \in processed' \cup torn'
  <2>1. q \in DaysDone /\ d \in Nat
    BY <1>2 DEF DaysDone
  <2>2. Since(d)
    BY <1>3, <1>6, <2>1, SinceBefore
  <2>3. QED
    BY <1>1, <1>3, <2>1, <2>2
<1>7. ASSUME NEW r \in AtWork', NEW d \in 0..run'[r].day, Since(d)'
      PROVE  d = run'[r].day \/ d \in IF run'[r].first THEN run'[r].read ELSE processed' \cup torn'
  <2>1. r \in AtWork /\ d \in Nat
    BY <1>2
  <2>2. Since(d)
    BY <1>3, <1>7, <2>1, SinceBefore
  <2>3. QED
    BY <1>1, <1>3, <2>1, <2>2
<1>8. QED
  BY <1>4, <1>5, <1>6, <1>7 DEF Orderly

(* A thread moves: what it has to show afterwards.                          *)
LEMMA OrderlyThread ==
  ASSUME Typed, Orderly, NEW r \in Runs, UNCHANGED hourVars,
         \A q \in Runs : q # r => /\ run'[q].pc = run[q].pc /\ run'[q].day = run[q].day
                                  /\ run'[q].first = run[q].first
                                  /\ run'[q].read = run[q].read,
         processed \cup torn \subseteq processed' \cup torn',
         DaysDone' # {} \/ r \in AtWork' => DaysBelow # {},
         \A q \in DaysDone' : \A d \in 0..q : Since(d) => d \in processed' \cup torn',
         r \in AtWork' => \A d \in 0..run'[r].day : Since(d) => d = run'[r].day \/
           d \in IF run'[r].first THEN run'[r].read ELSE processed' \cup torn'
  PROVE  Orderly'
<1>1. OneByOne'
  BY SameHours DEF Orderly, OneByOne
<1>2. \A q \in Runs : q # r /\ q \in AtWork' => q \in AtWork
  BY DEF AtWork
<1>3. DaysDone' # {} \/ AtWork' # {} => DaysBelow' # {}
  <2>1. \A q \in AtWork' : q \in Runs
    BY DEF AtWork
  <2>2. AtWork' # {} => r \in AtWork' \/ AtWork # {}
    BY <1>2, <2>1
  <2>3. QED
    BY <2>2, SameHours DEF Orderly
<1>4. \A q \in DaysDone' : \A d \in 0..q : Since(d)' => d \in processed' \cup torn'
  BY SameHours
<1>5. ASSUME NEW q \in AtWork', NEW d \in 0..run'[q].day, Since(d)'
      PROVE  d = run'[q].day \/ d \in IF run'[q].first THEN run'[q].read ELSE processed' \cup torn'
  <2>1. q \in Runs /\ Since(d)
    BY <1>5, SameHours DEF AtWork
  <2>2. CASE q = r
    BY <2>1, <2>2
  <2>3. CASE q # r
    <3>1. q \in AtWork /\ run'[q].day = run[q].day /\ run'[q].first = run[q].first
          /\ run'[q].read = run[q].read
      BY <1>2, <2>1, <2>3
    <3>2. d = run[q].day \/ d \in IF run[q].first THEN run[q].read ELSE processed \cup torn
      BY <2>1, <3>1 DEF Orderly
    <3>3. QED
      BY <3>1, <3>2
  <2>4. QED
    BY <2>2, <2>3
<1>6. QED
  BY <1>1, <1>3, <1>4, <1>5 DEF Orderly

LEMMA OrderlyQuiet ==
  ASSUME Typed, Orderly, NEW r \in Runs, UNCHANGED <<hourVars, statVars>>,
         \A q \in Runs : q # r => /\ run'[q].pc = run[q].pc /\ run'[q].day = run[q].day
                                  /\ run'[q].first = run[q].first
                                  /\ run'[q].read = run[q].read,
         r \in AtWork' => DaysBelow # {} /\ \A d \in 0..run'[r].day : Since(d) =>
           d = run'[r].day \/
           d \in IF run'[r].first THEN run'[r].read ELSE processed \cup torn
  PROVE  Orderly'
<1>1. number' = number /\ processed' = processed /\ torn' = torn /\ UNCHANGED hourVars
  BY DEF statVars
<1>2. DaysDone' = DaysDone
  BY <1>1 DEF DaysDone
<1>3. DaysDone' # {} \/ r \in AtWork' => DaysBelow # {}
  BY <1>2 DEF Orderly
<1>4. \A q \in DaysDone' : \A d \in 0..q : Since(d) => d \in processed' \cup torn'
  BY <1>1, <1>2 DEF Orderly
<1>5. r \in AtWork' => \A d \in 0..run'[r].day : Since(d) => d = run'[r].day \/
           d \in IF run'[r].first THEN run'[r].read ELSE processed' \cup torn'
  BY <1>1
<1>6. processed \cup torn \subseteq processed' \cup torn'
  BY <1>1
<1>7. QED
  BY <1>1, <1>3, <1>4, <1>5, <1>6, OrderlyThread

LEMMA OrderlyStart == ASSUME NEW r \in Runs PROVE Typed /\ Orderly /\ Start(r) => Orderly'
<1> SUFFICES ASSUME Typed, Orderly, Start(r) PROVE Orderly'
  OBVIOUS
<1> DEFINE lone == [Idle EXCEPT !.pc = "begin", !.alone = (Active = {})]
<1>1. run' = [q \in Runs |-> IF q = r THEN lone
                  ELSE IF q \in Active THEN [run[q] EXCEPT !.alone = FALSE] ELSE run[q]]
  BY DEF Start
<1>2. UNCHANGED <<hourVars, statVars>>
  BY DEF Start
<1>3. lone.pc = "begin"
  BY DEF Idle
<1> HIDE DEF lone
<1>4. ASSUME NEW q \in Runs, q # r
      PROVE  /\ run'[q].pc = run[q].pc /\ run'[q].day = run[q].day
             /\ run'[q].first = run[q].first /\ run'[q].read = run[q].read
  <2>1. run[q] \in Thread
    BY ThreadFacts
  <2>2. run'[q] = IF q \in Active THEN [run[q] EXCEPT !.alone = FALSE] ELSE run[q]
    BY <1>1, <1>4
  <2>3. QED
    BY <2>1, <2>2 DEF Thread
<1>5. r \notin AtWork'
  BY <1>1, <1>3 DEF AtWork
<1>6. QED
  BY <1>2, <1>4, <1>5, OrderlyQuiet

LEMMA OrderlyIdle ==
  ASSUME NEW r \in Runs, Typed, Orderly, run' = [run EXCEPT ![r] = Idle],
         UNCHANGED <<hourVars, statVars>>
  PROVE  Orderly'
<1>1. run'[r].pc = "idle" /\ \A q \in Runs : q # r => run'[q] = run[q]
  BY ThreadFacts DEF Idle
<1>2. r \notin AtWork'
  BY <1>1 DEF AtWork
<1>3. \A q \in Runs : q # r => /\ run'[q].pc = run[q].pc /\ run'[q].day = run[q].day
                               /\ run'[q].first = run[q].first
                               /\ run'[q].read = run[q].read
  BY <1>1
<1>4. QED
  BY <1>2, <1>3, OrderlyQuiet

(* A thread begins with a day before which nothing is missing.              *)
LEMMA OrderlyFrom ==
  ASSUME NEW r \in Runs, Typed, Orderly, NEW first \in BOOLEAN, NEW day \in Nat,
         From(r, first, day), run[r].pc = "begin", DaysBelow # {},
         \A d \in 0..day : Since(d) => d = day \/ (~first /\ d \in processed \cup torn)
  PROVE  Orderly'
<1>1. run[r] \in Thread /\ run \in [Runs -> Thread]
  BY ThreadFacts
<1>2. run' = [run EXCEPT ![r] =
        [run[r] EXCEPT !.pc = "frame", !.first = first, !.day = day, !.asOf = now]]
  BY <1>1 DEF From
<1>3. run'[r].day = day /\ run'[r].first = first
  BY <1>1, <1>2 DEF Thread
<1>4. \A q \in Runs : q # r => /\ run'[q].pc = run[q].pc /\ run'[q].day = run[q].day
                               /\ run'[q].first = run[q].first
                               /\ run'[q].read = run[q].read
  BY <1>1, <1>2
<1>5. UNCHANGED <<hourVars, statVars>>
  BY DEF From
<1>6. r \in AtWork' => DaysBelow # {} /\ \A d \in 0..run'[r].day : Since(d) =>
           d = run'[r].day \/
           d \in IF run'[r].first THEN run'[r].read ELSE processed \cup torn
  BY <1>3
<1>7. QED
  BY <1>4, <1>5, <1>6, OrderlyQuiet

LEMMA OrderlyFirstTime ==
  ASSUME NEW r \in Runs PROVE Typed /\ Orderly /\ FirstTime(r) => Orderly'
<1> SUFFICES ASSUME Typed, Orderly, FirstTime(r) PROVE Orderly'
  OBVIOUS
<1>1. DaysBelow \subseteq Nat /\ DaysBelow # {}
  BY ThreadFacts, HourSets, DaysAreNat DEF FirstTime
<1>2. PICK day \in Nat : day = Min(DaysBelow) /\ \A b \in DaysBelow : day <= b
  BY <1>1, FirstDay
<1>3. From(r, TRUE, day) /\ run[r].pc = "begin"
  BY <1>2 DEF FirstTime
<1>4. \A d \in 0..day : Since(d) => d = day
  BY <1>1, <1>2 DEF Since
<1>5. QED
  BY <1>1, <1>3, <1>4, OrderlyFrom

LEMMA OrderlyGoOn ==
  ASSUME NEW r \in Runs PROVE Typed /\ Orderly /\ GoOn(r) => Orderly'
<1> SUFFICES ASSUME Typed, Orderly, GoOn(r) PROVE Orderly'
  OBVIOUS
<1>1. DaysDone \subseteq Days /\ DaysDone # {}
  BY DEF DaysDone, GoOn
<1>2. PICK q \in Nat : q = Max(DaysDone) /\ q \in DaysDone
  BY <1>1, LastDay
<1>3. PICK day \in Nat : day = q + 1
  OBVIOUS
<1>4. From(r, FALSE, day) /\ run[r].pc = "begin"
  BY <1>2, <1>3 DEF GoOn
<1>5. \A d \in 0..day : Since(d) => d = day \/ (~FALSE /\ d \in processed \cup torn)
  <2> SUFFICES ASSUME NEW d \in 0..day, Since(d)
               PROVE  d = day \/ d \in processed \cup torn
    OBVIOUS
  <2>1. d = day \/ d \in 0..q
    BY <1>2, <1>3
  <2>2. QED
    BY <1>2, <2>1 DEF Orderly
<1>6. DaysBelow # {}
  BY <1>1 DEF Orderly
<1>7. QED
  BY <1>4, <1>5, <1>6, OrderlyFrom

LEMMA OrderlyFrame ==
  ASSUME NEW r \in Runs PROVE Typed /\ Orderly /\ Frame(r) => Orderly'
<1> SUFFICES ASSUME Typed, Orderly, Frame(r) PROVE Orderly'
  OBVIOUS
<1>1. PICK day \in Nat : day = run[r].day
  BY ThreadFacts DEF Thread
<1>2. r \in AtWork
  BY FrameFields DEF AtWork
<1>3. \A d \in 0..day : Since(d) => d = day \/
        d \in IF run[r].first THEN run[r].read ELSE processed \cup torn
  BY <1>1, <1>2 DEF Orderly
<1>4. DaysBelow # {}
  BY <1>2 DEF Orderly
<1>5. /\ run'[r].first = run[r].first
      /\ run'[r].day = IF run[r].first THEN day + 1 ELSE day
      /\ run'[r].read = run[r].read \cup {day}
      /\ UNCHANGED <<hourVars, statVars>>
      /\ \A q \in Runs : q # r => run'[q] = run[q]
  BY <1>1, FrameFields
<1>6. ASSUME NEW d \in 0..run'[r].day, Since(d)
      PROVE  d = run'[r].day \/
             d \in IF run'[r].first THEN run'[r].read ELSE processed \cup torn
  <2>1. CASE run[r].first
    <3>1. d = day + 1 \/ d \in 0..day
      BY <1>5, <2>1
    <3>2. QED
      BY <1>3, <1>5, <1>6, <2>1, <3>1
  <2>2. CASE ~run[r].first
    BY <1>3, <1>5, <1>6, <2>2
  <2>3. QED
    BY <2>1, <2>2
<1>7. \A q \in Runs : q # r => /\ run'[q].pc = run[q].pc /\ run'[q].day = run[q].day
                               /\ run'[q].first = run[q].first
                               /\ run'[q].read = run[q].read
  BY <1>5
<1>8. QED
  BY <1>4, <1>5, <1>6, <1>7, OrderlyQuiet

LEMMA OrderlyOver ==
  ASSUME NEW r \in Runs PROVE Typed /\ Orderly /\ Over(r) => Orderly'
<1> SUFFICES ASSUME Typed, Orderly, Over(r) PROVE Orderly'
  OBVIOUS
<1>1. /\ run[r].pc = "frame" /\ UNCHANGED <<hourVars, statVars>>
      /\ run' = [run EXCEPT ![r] = IF run[r].first THEN [run[r] EXCEPT !.pc = "put"] ELSE Idle]
  BY DEF Over
<1>2. CASE ~run[r].first
  BY <1>1, <1>2, OrderlyIdle
<1>3. CASE run[r].first
  <2>1. run[r] \in Thread /\ run \in [Runs -> Thread]
    BY ThreadFacts
  <2>2. run' = [run EXCEPT ![r] = [run[r] EXCEPT !.pc = "put"]]
    BY <1>1, <1>3
  <2>3. run'[r].day = run[r].day /\ run'[r].first = run[r].first /\ run'[r].read = run[r].read
    BY <2>1, <2>2 DEF Thread
  <2>4. \A q \in Runs : q # r => /\ run'[q].pc = run[q].pc /\ run'[q].day = run[q].day
                                 /\ run'[q].first = run[q].first
                                 /\ run'[q].read = run[q].read
    BY <2>1, <2>2
  <2>5. r \in AtWork
    BY <1>1 DEF AtWork
  <2>6. DaysBelow # {} /\ \A d \in 0..run[r].day : Since(d) => d = run[r].day \/
           d \in IF run[r].first THEN run[r].read ELSE processed \cup torn
    BY <2>5 DEF Orderly
  <2>7. QED
    BY <1>1, <2>3, <2>4, <2>6, OrderlyQuiet
<1>4. QED
  BY <1>2, <1>3

LEMMA OrderlyNothingBelow ==
  ASSUME NEW r \in Runs PROVE Typed /\ Orderly /\ NothingBelow(r) => Orderly'
BY OrderlyIdle DEF NothingBelow

LEMMA OrderlyRunFails ==
  ASSUME NEW r \in Runs PROVE Typed /\ Orderly /\ RunFails(r) => Orderly'
BY OrderlyIdle DEF RunFails

(* Only the days of the stats that are put become days that have one.       *)
LEMMA DoneByPut ==
  ASSUME Typed, NEW r \in Runs, NEW puts, puts \subseteq run[r].parents, PutOf(r, puts)
  PROVE  DaysDone' \subseteq DaysDone \cup {s[2] : s \in puts}
<1> SUFFICES ASSUME NEW d \in Days, NEW e \in Entities, number'[e][d] > 0,
                    d \notin DaysDone
             PROVE  d \in {s[2] : s \in puts}
  BY DEF DaysDone
<1>1. number[e][d] = 0
  <2>1. ~(number[e][d] > 0)
    BY DEF DaysDone
  <2>2. number[e][d] \in Nat
    BY DEF Typed, TypeOK
  <2>3. QED
    BY <2>1, <2>2
<1>2. number'[e][d] = IF <<e, d>> \in puts THEN number[e][d] + 1 ELSE number[e][d]
  BY DEF PutOf
<1>3. <<e, d>> \in puts
  BY <1>1, <1>2
<1>4. QED
  BY <1>3

(* What is put comes after days that are accounted for, and with days that  *)
(* are so from now on.                                                      *)
LEMMA PutNoGap ==
  ASSUME Typed, Orderly, NEW r \in Runs, run[r].pc = "put",
         NEW puts, puts \subseteq run[r].parents, PutOf(r, puts),
         processed \subseteq processed', torn \subseteq torn',
         {s[2] : s \in puts} \subseteq processed',
         run[r].first /\ puts # {} => run[r].read \subseteq processed' \cup torn'
  PROVE  /\ DaysDone' # {} => DaysBelow # {}
         /\ \A q \in DaysDone' : \A d \in 0..q : Since(d) => d \in processed' \cup torn'
<1>1. r \in AtWork
  BY DEF AtWork
<1>2. DaysBelow # {}
  BY <1>1 DEF Orderly
<1>3. run[r] \in Thread /\ ReadSoFar(run[r]) /\ run[r].day \in Nat
  BY ThreadFacts DEF Thread
<1>4. ASSUME NEW q \in DaysDone', NEW d \in 0..q, Since(d)
      PROVE  d \in processed' \cup torn'
  <2>1. CASE q \in DaysDone
    BY <1>4, <2>1 DEF Orderly
  <2>2. CASE q \in {s[2] : s \in puts}
    <3>1. puts # {} /\ q \in run[r].read
      BY <1>3, <2>2 DEF ReadSoFar
    <3>2. q \in Nat /\ q <= run[r].day
      <4>1. q \in Nat
        BY <1>3, <3>1, DaysAreNat DEF Thread
      <4>2. CASE run[r].first
        BY <1>3, <3>1, <4>1, <4>2 DEF ReadSoFar
      <4>3. CASE ~run[r].first
        BY <1>3, <3>1, <4>1, <4>3 DEF ReadSoFar
      <4>4. QED
        BY <4>1, <4>2, <4>3
    <3>3. CASE d = q
      BY <2>2, <3>3
    <3>4. CASE d # q
      <4>1. d \in 0..run[r].day /\ d # run[r].day
        BY <1>3, <1>4, <3>2, <3>4
      <4>2. d \in IF run[r].first THEN run[r].read ELSE processed \cup torn
        BY <1>1, <1>4, <4>1 DEF Orderly
      <4>3. QED
        BY <3>1, <4>2
    <3>5. QED
      BY <3>3, <3>4
  <2>3. QED
    BY <1>4, <2>1, <2>2, DoneByPut
<1>5. QED
  BY <1>2, <1>4

LEMMA OrderlyPut ==
  ASSUME NEW r \in Runs PROVE Typed /\ Orderly /\ Put(r) => Orderly'
<1> SUFFICES ASSUME Typed, Orderly, Put(r) PROVE Orderly'
  OBVIOUS
<1>1. /\ run[r].pc = "put" /\ PutOf(r, run[r].parents)
      /\ processed' = processed \cup run[r].read
      /\ UNCHANGED hourVars /\ torn' = torn
      /\ run' = [run EXCEPT ![r] = IF run[r].first THEN Idle
           ELSE [Idle EXCEPT !.pc = "frame", !.day = run[r].day + 1, !.asOf = run[r].asOf,
                             !.alone = run[r].alone]]
  BY DEF Put
<1>2. run \in [Runs -> Thread] /\ ReadSoFar(run[r]) /\ run[r].day \in Nat
  BY ThreadFacts DEF Thread
<1>3. r \in AtWork
  BY <1>1 DEF AtWork
<1>4. {s[2] : s \in run[r].parents} \subseteq run[r].read
  BY <1>2 DEF ReadSoFar
<1>5. /\ DaysDone' # {} => DaysBelow # {}
      /\ \A q \in DaysDone' : \A d \in 0..q : Since(d) => d \in processed' \cup torn'
  BY <1>1, <1>4, PutNoGap
<1>6. DaysBelow # {}
  BY <1>3 DEF Orderly
<1>7. ASSUME r \in AtWork', NEW d \in 0..run'[r].day, Since(d)
      PROVE  d = run'[r].day \/
             d \in IF run'[r].first THEN run'[r].read ELSE processed' \cup torn'
  <2>1. ~run[r].first
    BY <1>1, <1>2, <1>7 DEF AtWork, Idle
  <2>2. run'[r].day = run[r].day + 1 /\ run'[r].first = FALSE
    BY <1>1, <1>2, <2>1 DEF Idle
  <2>3. d = run'[r].day \/ d \in 0..run[r].day
    BY <1>2, <2>2
  <2>4. d \in 0..run[r].day => d = run[r].day \/ d \in processed \cup torn
    BY <1>3, <1>7, <2>1 DEF Orderly
  <2>5. run[r].day \in processed'
    BY <1>1, <1>2, <2>1 DEF ReadSoFar
  <2>6. QED
    BY <1>1, <2>2, <2>3, <2>4, <2>5
<1>8. \A q \in Runs : q # r => /\ run'[q].pc = run[q].pc /\ run'[q].day = run[q].day
                               /\ run'[q].first = run[q].first
                               /\ run'[q].read = run[q].read
  BY <1>1, <1>2
<1>9. QED
  BY <1>1, <1>5, <1>6, <1>7, <1>8, OrderlyThread

LEMMA OrderlyPutFails ==
  ASSUME NEW r \in Runs PROVE Typed /\ Orderly /\ PutFails(r) => Orderly'
<1> SUFFICES ASSUME Typed, Orderly, PutFails(r) PROVE Orderly'
  OBVIOUS
<1>1. PICK puts \in SUBSET run[r].parents :
        /\ PutOf(r, puts)
        /\ processed' = processed \cup {s[2] : s \in puts}
        /\ torn' = IF run[r].first /\ puts # {} THEN torn \cup run[r].read ELSE torn
  BY DEF PutFails
<1>2. run[r].pc = "put" /\ run' = [run EXCEPT ![r] = Idle] /\ UNCHANGED hourVars
  BY DEF PutFails
<1>3. /\ DaysDone' # {} => DaysBelow # {}
      /\ \A q \in DaysDone' : \A d \in 0..q : Since(d) => d \in processed' \cup torn'
  BY <1>1, <1>2, PutNoGap
<1>4. run'[r].pc = "idle" /\ \A q \in Runs : q # r => run'[q] = run[q]
  BY <1>2, ThreadFacts DEF Idle
<1>5. r \notin AtWork'
  BY <1>4 DEF AtWork
<1>6. \A q \in Runs : q # r => /\ run'[q].pc = run[q].pc /\ run'[q].day = run[q].day
                               /\ run'[q].first = run[q].first
                               /\ run'[q].read = run[q].read
  BY <1>4
<1>7. processed \cup torn \subseteq processed' \cup torn'
  BY <1>1
<1>8. QED
  BY <1>2, <1>3, <1>5, <1>6, <1>7, OrderlyThread

LEMMA OrderlyTick == Typed /\ Orderly /\ Tick => Orderly'
<1> SUFFICES ASSUME Typed, Orderly, Tick PROVE Orderly'
  OBVIOUS
<1>1. closed' = closed /\ seen' = seen /\ run' = run /\ number' = number
      /\ processed' = processed /\ torn' = torn
  BY DEF Tick, Hourly!Tick, statVars
<1>2. DaysBelow' = DaysBelow /\ DaysDone' = DaysDone /\ AtWork' = AtWork
  BY <1>1 DEF DaysBelow, HoursWith, DaysDone, AtWork
<1>3. QED
  BY <1>1, <1>2 DEF Orderly, OneByOne, Since

LEMMA OrderlyStep == Typed /\ Orderly /\ [Next]_periodVars => Orderly'
<1> SUFFICES ASSUME Typed, Orderly, [Next]_periodVars PROVE Orderly'
  OBVIOUS
<1>1. ASSUME NEW r \in Runs,
             \/ Start(r) \/ NothingBelow(r) \/ FirstTime(r) \/ GoOn(r)
             \/ Frame(r) \/ Over(r) \/ Put(r) \/ PutFails(r) \/ RunFails(r)
      PROVE  Orderly'
  BY <1>1, OrderlyStart, OrderlyNothingBelow, OrderlyFirstTime, OrderlyGoOn, OrderlyFrame,
     OrderlyOver, OrderlyPut, OrderlyPutFails, OrderlyRunFails, Zenon
<1>2. ASSUME NEW h \in Hours, CloseHour(h) PROVE Orderly'
  BY <1>2, OrderlyCloseHour
<1>3. ASSUME UNCHANGED periodVars PROVE Orderly'
  <2>1. closed' = closed /\ seen' = seen /\ number' = number /\ run' = run
        /\ processed' = processed /\ torn' = torn
    BY <1>3 DEF periodVars
  <2>2. DaysBelow' = DaysBelow /\ DaysDone' = DaysDone /\ AtWork' = AtWork
    BY <2>1 DEF DaysBelow, HoursWith, DaysDone, AtWork
  <2>3. QED
    BY <2>1, <2>2 DEF Orderly, OneByOne, Since
<1>4. QED
  BY <1>1, <1>2, <1>3, OrderlyTick, Zenon DEF Next

LEMMA InitOrderly == Init => Orderly
<1> SUFFICES ASSUME Init PROVE Orderly
  OBVIOUS
<1>1. DaysDone = {}
  BY DEF Init, DaysDone
<1>2. AtWork = {}
  BY DEF Init, AtWork, Idle
<1>3. OneByOne
  BY DEF Init, OneByOne
<1>4. QED
  BY <1>1, <1>2, <1>3 DEF Orderly

(* No day is passed over, however long days are, however threads overlap    *)
(* and fail: before the last stat every day since the first with an hour    *)
(* was summed up, or read by a first run that put only a part of it.        *)
THEOREM NoDayPassedOver == Spec => []NoDaySkipped
<1>1. Typed /\ Orderly => NoDaySkipped
  <2> SUFFICES ASSUME Typed, Orderly, NEW d \in DaysBelow, NEW q \in DaysDone, d < q
               PROVE  d \in processed \cup torn
    BY DEF NoDaySkipped
  <2>1. d \in Nat /\ q \in Nat
    BY ThreadFacts, HourSets, DaysAreNat DEF Typed, TypeOK
  <2>2. Since(d) /\ d \in 0..q
    BY <2>1 DEF Since
  <2>3. QED
    BY <2>2 DEF Orderly
<1>2. QED
  BY <1>1, InitTyped, TypedStep, InitOrderly, OrderlyStep, PTL DEF Spec

-----------------------------------------------------------------------------
(* Third layer: clean days are exact.                                       *)

LEMMA SameFacts ==
  ASSUME closed' = closed, seen' = seen, kind' = kind
  PROVE  /\ \A e : HoursWith(e)' = HoursWith(e)
         /\ \A e, d : HasStat(e, d)' <=> HasStat(e, d)
         /\ \A d : Complete(d)' <=> Complete(d)
<1>1. \A e : HoursWith(e)' = HoursWith(e)
  BY DEF HoursWith
<1>2. \A e, d : HasStat(e, d)' <=> HasStat(e, d)
  BY <1>1 DEF HasStat, DaysWith
<1>3. QED
  BY <1>1, <1>2 DEF Complete

(* What was read, and what is exact, does not change with the clock or with *)
(* what other threads do.                                                   *)
LEMMA StillRead ==
  ASSUME closed' = closed, seen' = seen, kind' = kind, NEW r \in Runs,
         run'[r].clean = run[r].clean, run'[r].parents = run[r].parents,
         run'[r].counts = run[r].counts, ReadExactly(run[r])
  PROVE  ReadExactly(run[r])'
BY SameFacts DEF ReadExactly

LEMMA StillExact ==
  ASSUME closed' = closed, seen' = seen, kind' = kind, NEW d, ExactOn(d),
         \A e \in Entities : number'[e][d] = number[e][d],
         \A e \in Entities : \A h \in Hours : DayOf(h) = d => total'[e][h] = total[e][h]
  PROVE  ExactOn(d)'
<1> SUFFICES ASSUME NEW e \in Entities
             PROVE  /\ number'[e][d] = IF HasStat(e, d)' THEN 1 ELSE 0
                    /\ \A h \in Hours : DayOf(h) = d =>
                         total'[e][h] = IF h \in HoursWith(e)' THEN 1 ELSE 0
  BY DEF ExactOn
<1>1. HasStat(e, d)' <=> HasStat(e, d)
  BY SameFacts
<1>2. HoursWith(e)' = HoursWith(e)
  BY SameFacts
<1>3. QED
  BY <1>1, <1>2 DEF ExactOn

(* What is read and what is stored stays as it is.                          *)
LEMMA ExactlyWaits ==
  ASSUME Typed, Exactly, UNCHANGED <<kind, closed, seen, statVars>>,
         Alone', Fresh', \A r \in Runs : ReadExactly(run[r])'
  PROVE  Exactly'
<1>1. /\ kind' = kind /\ closed' = closed /\ seen' = seen
      /\ number' = number /\ total' = total /\ processed' = processed /\ unclean' = unclean
  BY DEF statVars
<1>2. NoStatNoCount'
  BY <1>1 DEF Exactly, NoStatNoCount
<1>3. ASSUME NEW d \in processed \ unclean PROVE Complete(d)' /\ ExactOn(d)'
  <2>1. Complete(d) /\ ExactOn(d)
    BY DEF Exactly
  <2>2. ExactOn(d)'
    BY <1>1, <2>1, StillExact
  <2>3. Complete(d)'
    BY <1>1, <2>1 DEF Complete
  <2>4. QED
    BY <2>2, <2>3
<1>4. QED
  BY <1>1, <1>2, <1>3 DEF Exactly

LEMMA ExactlyTick == Typed /\ Exactly /\ Tick => Exactly'
<1> SUFFICES ASSUME Typed, Exactly, Tick PROVE Exactly'
  OBVIOUS
<1>1. UNCHANGED <<kind, closed, seen, statVars>> /\ run' = run
  BY DEF Tick, Hourly!Tick
<1>2. number' = number /\ kind' = kind /\ closed' = closed /\ seen' = seen
  BY <1>1 DEF statVars
<1>3. Alone'
  BY <1>1 DEF Exactly, Alone, Active
<1>4. Fresh'
  BY <1>1, <1>2 DEF Exactly, Fresh, AtWork
<1>5. \A r \in Runs : ReadExactly(run[r])'
  BY <1>1, <1>2, StillRead DEF Exactly
<1>6. QED
  BY <1>1, <1>3, <1>4, <1>5, ExactlyWaits

(* The hour that is closed is none of a complete day.                       *)
LEMMA CompleteStays ==
  ASSUME Typed, OneByOne, NEW h \in Hours, CloseHour(h), NEW d \in Days, Complete(d)
  PROVE  /\ Complete(d)' /\ DayOf(h) # d
         /\ \A e \in Entities : HasStat(e, d)' <=> HasStat(e, d)
         /\ \A e \in Entities : \A i \in Hours : DayOf(i) = d =>
              (i \in HoursWith(e)' <=> i \in HoursWith(e))
<1>1. /\ closed' = closed \cup {h} /\ h \in Nat /\ h \notin closed
      /\ \A j \in closed : j \in Nat /\ j < h
  BY ClosedLast
<1>2. PICK i \in closed : i >= EndOf(d) - 1
  BY DEF Complete
<1>3. EndOf(d) \in Nat
  <2>1. PICK c \in Nat : c = d + 1
    BY DaysAreNat
  <2>2. QED
    BY <2>1, Times DEF EndOf
<1>4. DayOf(h) # d
  <2> SUFFICES ASSUME DayOf(h) = d PROVE FALSE
    OBVIOUS
  <2>1. h < EndOf(d)
    BY <1>1, DayBounds
  <2>2. QED
    BY <1>1, <1>2, <1>3, <2>1
<1>5. Complete(d)'
  BY <1>1, <1>2 DEF Complete
<1>6. kind' = kind
  BY DEF CloseHour
<1>7. \A e \in Entities : \A j \in Hours : j # h => (j \in HoursWith(e)' <=> j \in HoursWith(e))
  <2>1. PICK es \in IF kind = "site" THEN {Entities} ELSE SUBSET Entities :
          seen' = [seen EXCEPT ![h] = es]
    BY DEF CloseHour
  <2>2. \A j \in Hours : j # h => seen'[j] = seen[j]
    BY <1>1, <2>1 DEF Typed, TypeOK
  <2>3. QED
    BY <1>1, <2>2 DEF HoursWith
<1>8. \A e \in Entities : \A j \in Hours : DayOf(j) = d =>
        (j \in HoursWith(e)' <=> j \in HoursWith(e))
  BY <1>4, <1>7
<1>9. \A e \in Entities : HoursWith(e) \subseteq Hours /\ HoursWith(e)' \subseteq Hours
  BY <1>1, ThreadFacts DEF HoursWith, Typed, TypeOK
<1>10. \A e \in Entities : HasStat(e, d)' <=> HasStat(e, d)
  BY <1>6, <1>8, <1>9 DEF HasStat, DaysWith
<1>11. QED
  BY <1>4, <1>5, <1>8, <1>10

LEMMA ExactlyCloseHour ==
  ASSUME NEW h \in Hours PROVE Typed /\ Orderly /\ Exactly /\ CloseHour(h) => Exactly'
<1> SUFFICES ASSUME Typed, Orderly, Exactly, CloseHour(h) PROVE Exactly'
  OBVIOUS
<1>1. /\ run' = run /\ number' = number /\ total' = total
      /\ processed' = processed /\ unclean' = unclean
  BY DEF CloseHour, statVars
<1>2. OneByOne
  BY DEF Orderly
<1>3. Alone' /\ NoStatNoCount' /\ Fresh'
  BY <1>1 DEF Exactly, Alone, Active, NoStatNoCount, Fresh, AtWork
<1>4. ASSUME NEW r \in Runs PROVE ReadExactly(run[r])'
  <2> SUFFICES ASSUME NEW d \in run[r].clean
               PROVE  Complete(d)' /\ \A e \in Entities :
        /\ <<e, d>> \in run[r].parents <=> HasStat(e, d)'
        /\ \A i \in Hours : DayOf(i) = d => (i \in run[r].counts[e] <=> i \in HoursWith(e)')
    BY <1>1 DEF ReadExactly
  <2>1. Complete(d) /\ \A e \in Entities :
        /\ <<e, d>> \in run[r].parents <=> HasStat(e, d)
        /\ \A i \in Hours : DayOf(i) = d => (i \in run[r].counts[e] <=> i \in HoursWith(e))
    BY DEF Exactly, ReadExactly
  <2>2. d \in Days
    BY ThreadFacts DEF Thread
  <2>3. /\ Complete(d)'
        /\ \A e \in Entities : HasStat(e, d)' <=> HasStat(e, d)
        /\ \A e \in Entities : \A i \in Hours : DayOf(i) = d =>
             (i \in HoursWith(e)' <=> i \in HoursWith(e))
    BY <1>2, <2>1, <2>2, CompleteStays
  <2>4. QED
    BY <2>1, <2>3
<1>5. ASSUME NEW d \in processed \ unclean PROVE Complete(d)' /\ ExactOn(d)'
  <2>1. Complete(d) /\ ExactOn(d)
    BY DEF Exactly
  <2>2. d \in Days
    BY DEF Typed, TypeOK
  <2>3. /\ Complete(d)'
        /\ \A e \in Entities : HasStat(e, d)' <=> HasStat(e, d)
        /\ \A e \in Entities : \A i \in Hours : DayOf(i) = d =>
             (i \in HoursWith(e)' <=> i \in HoursWith(e))
    BY <1>2, <2>1, <2>2, CompleteStays
  <2>4. ExactOn(d)'
    <3> SUFFICES ASSUME NEW e \in Entities
                 PROVE  /\ number[e][d] = IF HasStat(e, d)' THEN 1 ELSE 0
                        /\ \A i \in Hours : DayOf(i) = d =>
                             total[e][i] = IF i \in HoursWith(e)' THEN 1 ELSE 0
      BY <1>1 DEF ExactOn
    <3>1. /\ number[e][d] = IF HasStat(e, d) THEN 1 ELSE 0
          /\ \A i \in Hours : DayOf(i) = d => total[e][i] = IF i \in HoursWith(e) THEN 1 ELSE 0
      BY <2>1 DEF ExactOn
    <3>2. QED
      BY <2>3, <3>1
  <2>5. QED
    BY <2>3, <2>4
<1>6. QED
  BY <1>1, <1>3, <1>4, <1>5 DEF Exactly

LEMMA ExactlyStart ==
  ASSUME NEW r \in Runs PROVE Typed /\ Exactly /\ Start(r) => Exactly'
<1> SUFFICES ASSUME Typed, Exactly, Start(r) PROVE Exactly'
  OBVIOUS
<1> DEFINE lone == [Idle EXCEPT !.pc = "begin", !.alone = (Active = {})]
<1>1. run' = [q \in Runs |-> IF q = r THEN lone
                  ELSE IF q \in Active THEN [run[q] EXCEPT !.alone = FALSE] ELSE run[q]]
      /\ run[r].pc = "idle"
  BY DEF Start
<1>2. UNCHANGED <<kind, closed, seen, statVars>>
  BY DEF Start, hourVars
<1>3. number' = number /\ kind' = kind /\ closed' = closed /\ seen' = seen
  BY <1>2 DEF statVars
<1>4. lone.pc = "begin" /\ lone.alone = (Active = {}) /\ lone.clean = {}
  BY DEF Idle
<1> HIDE DEF lone
<1>5. run'[r].pc = "begin" /\ run'[r].alone = (Active = {}) /\ run'[r].clean = {}
  BY <1>1, <1>4
<1>6. ASSUME NEW q \in Runs, q # r
      PROVE  /\ run'[q].pc = run[q].pc
             /\ run'[q].clean = run[q].clean /\ run'[q].parents = run[q].parents
             /\ run'[q].counts = run[q].counts
             /\ q \in Active => run'[q].alone = FALSE
  <2>1. run[q] \in Thread
    BY ThreadFacts
  <2>2. run'[q] = IF q \in Active THEN [run[q] EXCEPT !.alone = FALSE] ELSE run[q]
    BY <1>1, <1>6
  <2>3. QED
    BY <2>1, <2>2 DEF Thread
<1>7. Active' = Active \cup {r}
  BY <1>5, <1>6 DEF Active
<1>8. Alone'
  <2> SUFFICES ASSUME NEW q \in Active', run'[q].alone PROVE Active' = {q}
    BY DEF Alone
  <2>1. q = r
    <3>1. q \in Runs
      BY DEF Active
    <3>2. q # r => q \in Active
      BY <1>7
    <3>3. q # r => run'[q].alone = FALSE
      BY <1>6, <3>1, <3>2
    <3>4. QED
      BY <3>3
  <2>2. Active = {}
    BY <1>5, <2>1
  <2>3. QED
    BY <1>7, <2>1, <2>2
<1>9. Fresh'
  <2> SUFFICES ASSUME NEW q \in AtWork', run'[q].alone PROVE FALSE
    BY DEF Fresh
  <2>1. q \in Runs /\ q # r /\ q \in Active
    BY <1>5, <1>6 DEF AtWork, Active
  <2>2. QED
    BY <1>6, <2>1
<1>10. ASSUME NEW q \in Runs PROVE ReadExactly(run[q])'
  <2>1. CASE q = r
    BY <1>5, <2>1 DEF ReadExactly
  <2>2. CASE q # r
    BY <1>3, <1>6, <2>2, StillRead DEF Exactly
  <2>3. QED
    BY <2>1, <2>2
<1>11. QED
  BY <1>2, <1>8, <1>9, <1>10, ExactlyWaits

(* A thread that was at it goes on or stops.                                *)
LEMMA AloneStays ==
  ASSUME Alone, NEW r \in Active, \A q \in Runs : q # r => run'[q] = run[q],
         run'[r].pc = "idle" \/ run'[r].alone = run[r].alone
  PROVE  Alone' /\ \A q \in Active' : q # r => ~run'[q].alone
<1>1. \A q \in Active : q # r => ~run[q].alone
  BY DEF Alone
<1>2. \A q \in Runs : q # r => (q \in Active' <=> q \in Active)
  BY DEF Active
<1>3. ASSUME NEW q \in Active', run'[q].alone PROVE Active' = {q}
  <2>1. q = r
    BY <1>1, <1>2, <1>3 DEF Active
  <2>2. run[r].alone
    BY <1>3, <2>1 DEF Active
  <2>3. Active = {r}
    BY <2>2 DEF Alone
  <2>4. \A p \in Active' : p = r
    BY <1>2, <2>3 DEF Active
  <2>5. QED
    BY <2>1, <2>4
<1>4. \A q \in Active' : q # r => ~run'[q].alone
  BY <1>1, <1>2 DEF Active
<1>5. QED
  BY <1>3, <1>4 DEF Alone

LEMMA ExactlyThread ==
  ASSUME Typed, Exactly, NEW r \in Active, UNCHANGED <<hourVars, statVars>>,
         \A q \in Runs : q # r => run'[q] = run[q],
         run'[r].pc = "idle" \/ run'[r].alone = run[r].alone,
         r \in AtWork' /\ run'[r].alone => \A e \in Entities : \A d \in Days :
           run'[r].first \/ run'[r].day <= d => number[e][d] = 0,
         ReadExactly(run[r])'
  PROVE  Exactly'
<1>1. /\ kind' = kind /\ closed' = closed /\ seen' = seen /\ number' = number
      /\ UNCHANGED statVars
  BY DEF hourVars, statVars
<1>2. Alone' /\ \A q \in Active' : q # r => ~run'[q].alone
  BY AloneStays DEF Exactly
<1>3. Fresh'
  <2> SUFFICES ASSUME NEW q \in AtWork', run'[q].alone, NEW e \in Entities, NEW d \in Days,
                      run'[q].first \/ run'[q].day <= d
               PROVE  number[e][d] = 0
    BY <1>1 DEF Fresh
  <2>1. q \in Active'
    BY DEF AtWork, Active
  <2>2. QED
    BY <1>2, <2>1
<1>4. ASSUME NEW q \in Runs PROVE ReadExactly(run[q])'
  <2>1. CASE q = r
    BY <2>1
  <2>2. CASE q # r
    BY <1>1, <2>2, StillRead DEF Exactly
  <2>3. QED
    BY <2>1, <2>2
<1>5. QED
  BY <1>1, <1>2, <1>3, <1>4, ExactlyWaits

LEMMA ExactlyIdle ==
  ASSUME NEW r \in Active, Typed, Exactly, run' = [run EXCEPT ![r] = Idle],
         UNCHANGED <<hourVars, statVars>>
  PROVE  Exactly'
<1>1. r \in Runs
  BY DEF Active
<1>2. run'[r].pc = "idle" /\ run'[r].clean = {} /\ \A q \in Runs : q # r => run'[q] = run[q]
  BY <1>1, ThreadFacts DEF Idle
<1>3. r \notin AtWork'
  BY <1>2 DEF AtWork
<1>4. ReadExactly(run[r])'
  BY <1>2 DEF ReadExactly
<1>5. QED
  BY <1>2, <1>3, <1>4, ExactlyThread

LEMMA ExactlyNothingBelow ==
  ASSUME NEW r \in Runs PROVE Typed /\ Exactly /\ NothingBelow(r) => Exactly'
<1> SUFFICES ASSUME Typed, Exactly, NothingBelow(r) PROVE Exactly'
  OBVIOUS
<1>1. r \in Active /\ run' = [run EXCEPT ![r] = Idle] /\ UNCHANGED <<hourVars, statVars>>
  BY DEF NothingBelow, Active
<1>2. QED
  BY <1>1, ExactlyIdle

LEMMA ExactlyRunFails ==
  ASSUME NEW r \in Runs PROVE Typed /\ Exactly /\ RunFails(r) => Exactly'
<1> SUFFICES ASSUME Typed, Exactly, RunFails(r) PROVE Exactly'
  OBVIOUS
<1>1. r \in Active /\ run' = [run EXCEPT ![r] = Idle] /\ UNCHANGED <<hourVars, statVars>>
  BY DEF RunFails, Active
<1>2. QED
  BY <1>1, ExactlyIdle

LEMMA ExactlyFrom ==
  ASSUME NEW r \in Runs, Typed, Exactly, NEW first \in BOOLEAN, NEW day \in Nat,
         From(r, first, day), run[r].pc = "begin",
         \A e \in Entities : \A d \in Days : first \/ day <= d => number[e][d] = 0
  PROVE  Exactly'
<1>1. run[r] \in Thread /\ run \in [Runs -> Thread] /\ r \in Active
  BY ThreadFacts DEF Active
<1>2. run' = [run EXCEPT ![r] =
        [run[r] EXCEPT !.pc = "frame", !.first = first, !.day = day, !.asOf = now]]
      /\ UNCHANGED <<hourVars, statVars>>
  BY <1>1 DEF From
<1>3. /\ run'[r].day = day /\ run'[r].first = first /\ run'[r].alone = run[r].alone
      /\ run'[r].clean = run[r].clean /\ run'[r].parents = run[r].parents
      /\ run'[r].counts = run[r].counts
  BY <1>1, <1>2 DEF Thread
<1>4. \A q \in Runs : q # r => run'[q] = run[q]
  BY <1>1, <1>2
<1>5. kind' = kind /\ closed' = closed /\ seen' = seen
  BY <1>2 DEF hourVars
<1>6. ReadExactly(run[r])
  BY DEF Exactly
<1>7. ReadExactly(run[r])'
  BY <1>3, <1>5, <1>6, StillRead
<1>8. QED
  BY <1>1, <1>2, <1>3, <1>4, <1>7, ExactlyThread

(* A day is not done if no entity has a stat of it.                         *)
LEMMA NotDone ==
  ASSUME Typed, NEW e \in Entities, NEW d \in Days, d \notin DaysDone
  PROVE  number[e][d] = 0
<1>1. ~(number[e][d] > 0)
  BY DEF DaysDone
<1>2. number[e][d] \in Nat
  BY DEF Typed, TypeOK
<1>3. QED
  BY <1>1, <1>2

LEMMA ExactlyFirstTime ==
  ASSUME NEW r \in Runs PROVE Typed /\ Exactly /\ FirstTime(r) => Exactly'
<1> SUFFICES ASSUME Typed, Exactly, FirstTime(r) PROVE Exactly'
  OBVIOUS
<1>1. DaysBelow \subseteq Nat
  BY ThreadFacts, HourSets, DaysAreNat
<1>2. PICK day \in Nat : day = Min(DaysBelow)
  BY <1>1, FirstDay DEF FirstTime
<1>3. From(r, TRUE, day) /\ run[r].pc = "begin" /\ DaysDone = {}
  BY <1>2 DEF FirstTime
<1>4. \A e \in Entities : \A d \in Days : TRUE \/ day <= d => number[e][d] = 0
  BY <1>3, NotDone
<1>5. QED
  BY <1>3, <1>4, ExactlyFrom

LEMMA ExactlyGoOn ==
  ASSUME NEW r \in Runs PROVE Typed /\ Exactly /\ GoOn(r) => Exactly'
<1> SUFFICES ASSUME Typed, Exactly, GoOn(r) PROVE Exactly'
  OBVIOUS
<1>1. DaysDone \subseteq Days /\ DaysDone # {}
  BY DEF DaysDone, GoOn
<1>2. PICK q \in Nat : q = Max(DaysDone) /\ \A d \in DaysDone : d <= q
  BY <1>1, LastDay
<1>3. PICK day \in Nat : day = q + 1
  OBVIOUS
<1>4. From(r, FALSE, day) /\ run[r].pc = "begin"
  BY <1>2, <1>3 DEF GoOn
<1>5. \A e \in Entities : \A d \in Days : FALSE \/ day <= d => number[e][d] = 0
  <2> SUFFICES ASSUME NEW e \in Entities, NEW d \in Days, day <= d PROVE number[e][d] = 0
    OBVIOUS
  <2>1. d \notin DaysDone
    BY <1>2, <1>3, DaysAreNat
  <2>2. QED
    BY <2>1, NotDone
<1>6. QED
  BY <1>4, <1>5, ExactlyFrom

LEMMA ExactlyFrame ==
  ASSUME NEW r \in Runs PROVE Typed /\ Exactly /\ Frame(r) => Exactly'
<1> SUFFICES ASSUME Typed, Exactly, Frame(r) PROVE Exactly'
  OBVIOUS
<1> DEFINE day == run[r].day
<1>1. /\ \A q \in Runs : q # r => run'[q] = run[q]
      /\ run[r].pc = "frame" /\ day \in PastDays
      /\ run'[r].first = run[r].first /\ run'[r].alone = run[r].alone
      /\ run'[r].day = IF run[r].first THEN day + 1 ELSE day
      /\ run'[r].parents = run[r].parents \cup
              ({e \in Entities : HasStat(e, day)} \X {day})
      /\ run'[r].counts = [e \in Entities |-> run[r].counts[e] \cup
              {h \in HoursWith(e) : DayOf(h) = day}]
      /\ run'[r].read = run[r].read \cup {day}
      /\ run'[r].clean = IF Complete(day) THEN run[r].clean \cup {day} ELSE run[r].clean
      /\ UNCHANGED <<hourVars, statVars>>
  BY FrameFields
<1>2. r \in AtWork /\ r \in Active
  BY <1>1 DEF AtWork, Active
<1>3. day \in Nat /\ day \in Days /\ run[r] \in Thread /\ ReadSoFar(run[r])
  BY <1>1, DaysAreNat, ThreadFacts DEF PastDays
<1>4. day \notin run[r].read
  <2>1. CASE run[r].first
    <3>1. \A d \in run[r].read : d < run[r].day
      BY <1>3, <2>1 DEF ReadSoFar
    <3>2. QED
      BY <1>3, <3>1
  <2>2. CASE ~run[r].first
    BY <1>1, <1>3, <2>2 DEF ReadSoFar
  <2>3. QED
    BY <2>1, <2>2
<1>5. run[r].parents \subseteq Entities \X run[r].read /\ run[r].clean \subseteq run[r].read
      /\ \A e \in Entities : \A h \in run[r].counts[e] : DayOf(h) \in run[r].read
  BY <1>3 DEF ReadSoFar
<1>6. run'[r].alone => \A e \in Entities : \A d \in Days :
           run'[r].first \/ run'[r].day <= d => number[e][d] = 0
  <2> SUFFICES ASSUME run'[r].alone, NEW e \in Entities, NEW d \in Days,
                      run'[r].first \/ run'[r].day <= d
               PROVE  number[e][d] = 0
    OBVIOUS
  <2>1. run[r].alone /\ (run[r].first \/ run[r].day <= d)
    BY <1>1
  <2>2. QED
    BY <1>2, <2>1 DEF Exactly, Fresh
<1> HIDE DEF day
<1>7. ASSUME NEW d \in run'[r].clean
      PROVE  Complete(d) /\ \A e \in Entities :
        /\ <<e, d>> \in run'[r].parents <=> HasStat(e, d)
        /\ \A i \in Hours : DayOf(i) = d => (i \in run'[r].counts[e] <=> i \in HoursWith(e))
  <2>1. CASE d \in run[r].clean
    <3>1. Complete(d) /\ \A e \in Entities :
        /\ <<e, d>> \in run[r].parents <=> HasStat(e, d)
        /\ \A i \in Hours : DayOf(i) = d => (i \in run[r].counts[e] <=> i \in HoursWith(e))
      BY <2>1 DEF Exactly, ReadExactly
    <3>2. d # day
      BY <1>4, <1>5, <2>1
    <3>3. \A e \in Entities : <<e, d>> \in run'[r].parents <=> <<e, d>> \in run[r].parents
      BY <1>1, <3>2
    <3>4. \A e \in Entities : \A i \in Hours : DayOf(i) = d =>
            (i \in run'[r].counts[e] <=> i \in run[r].counts[e])
      BY <1>1, <3>2
    <3>5. QED
      BY <3>1, <3>3, <3>4
  <2>2. CASE d \notin run[r].clean
    <3>1. d = day /\ Complete(d)
      BY <1>1, <2>2
    <3>2. \A e \in Entities : <<e, day>> \notin run[r].parents
      BY <1>4, <1>5
    <3>3. \A e \in Entities : <<e, day>> \in run'[r].parents <=> HasStat(e, day)
      BY <1>1, <3>2
    <3>4. \A e \in Entities : \A i \in Hours : DayOf(i) = day => i \notin run[r].counts[e]
      BY <1>4, <1>5
    <3>5. \A e \in Entities : \A i \in Hours : DayOf(i) = day =>
            (i \in run'[r].counts[e] <=> i \in HoursWith(e))
      BY <1>1, <3>4
    <3>6. QED
      BY <3>1, <3>3, <3>5
  <2>3. QED
    BY <2>1, <2>2
<1>8. ReadExactly(run[r])'
  <2>1. kind' = kind /\ closed' = closed /\ seen' = seen
    BY <1>1 DEF hourVars
  <2>2. /\ \A e : HoursWith(e)' = HoursWith(e)
        /\ \A e, d : HasStat(e, d)' <=> HasStat(e, d)
        /\ \A d : Complete(d)' <=> Complete(d)
    BY <2>1, SameFacts
  <2>3. QED
    BY <1>7, <2>2 DEF ReadExactly
<1>9. QED
  BY <1>1, <1>2, <1>6, <1>8, ExactlyThread

LEMMA ExactlyOver ==
  ASSUME NEW r \in Runs PROVE Typed /\ Exactly /\ Over(r) => Exactly'
<1> SUFFICES ASSUME Typed, Exactly, Over(r) PROVE Exactly'
  OBVIOUS
<1>1. /\ run[r].pc = "frame" /\ UNCHANGED <<hourVars, statVars>>
      /\ run' = [run EXCEPT ![r] = IF run[r].first THEN [run[r] EXCEPT !.pc = "put"] ELSE Idle]
  BY DEF Over
<1>2. r \in Active /\ r \in AtWork
  BY <1>1 DEF Active, AtWork
<1>3. CASE ~run[r].first
  BY <1>1, <1>2, <1>3, ExactlyIdle
<1>4. CASE run[r].first
  <2>1. run[r] \in Thread /\ run \in [Runs -> Thread]
    BY ThreadFacts
  <2>2. run' = [run EXCEPT ![r] = [run[r] EXCEPT !.pc = "put"]]
    BY <1>1, <1>4
  <2>3. /\ run'[r].day = run[r].day /\ run'[r].first = run[r].first
        /\ run'[r].alone = run[r].alone
        /\ run'[r].clean = run[r].clean /\ run'[r].parents = run[r].parents
        /\ run'[r].counts = run[r].counts
    BY <2>1, <2>2 DEF Thread
  <2>4. \A q \in Runs : q # r => run'[q] = run[q]
    BY <2>1, <2>2
  <2>5. kind' = kind /\ closed' = closed /\ seen' = seen
    BY <1>1 DEF hourVars
  <2>6. ReadExactly(run[r])'
    <3>1. ReadExactly(run[r])
      BY DEF Exactly
    <3>2. QED
      BY <2>3, <2>5, <3>1, StillRead
  <2>7. run'[r].alone => \A e \in Entities : \A d \in Days :
           run'[r].first \/ run'[r].day <= d => number[e][d] = 0
    BY <1>2, <2>3 DEF Exactly, Fresh
  <2>8. QED
    BY <1>1, <1>2, <2>3, <2>4, <2>6, <2>7, ExactlyThread
<1>5. QED
  BY <1>3, <1>4

(* Putting stats of r, which is then idle or goes on with a later day.      *)
LEMMA ExactlyPuts ==
  ASSUME Typed, Exactly, NEW r \in Runs, run[r].pc = "put",
         NEW puts, puts \subseteq run[r].parents, PutOf(r, puts), UNCHANGED hourVars,
         \A q \in Runs : q # r => run'[q] = run[q],
         run'[r].clean = {}, run'[r].pc = "idle" \/ run'[r].alone = run[r].alone,
         r \in AtWork' => ~run'[r].first /\ run[r].day < run'[r].day /\ ~run[r].first
                          /\ run'[r].day \in Nat,
         \A d \in processed' \ unclean' : d \in run[r].read =>
           run[r].alone /\ d \in run[r].clean /\ puts = run[r].parents,
         \A d \in processed' \ unclean' : d \notin run[r].read => d \in processed \ unclean
  PROVE  Exactly'
<1>1. r \in Active /\ r \in AtWork
  BY DEF Active, AtWork
<1>2. run[r] \in Thread /\ ReadSoFar(run[r])
  BY ThreadFacts
<1>3. kind' = kind /\ closed' = closed /\ seen' = seen
  BY DEF hourVars
<1>4. /\ \A e \in Entities, d \in Days : number'[e][d] =
           IF <<e, d>> \in puts THEN number[e][d] + 1 ELSE number[e][d]
      /\ \A e \in Entities, h \in Hours : total'[e][h] =
           IF <<e, DayOf(h)>> \in puts /\ h \in run[r].counts[e] THEN total[e][h] + 1
           ELSE total[e][h]
  BY DEF PutOf
<1>5. \A e \in Entities, d \in Days : number[e][d] \in Nat
  BY DEF Typed, TypeOK
<1>6. \A e, d : <<e, d>> \in puts => d \in run[r].read
  BY <1>2 DEF ReadSoFar
<1>7. Alone' /\ \A q \in Active' : q # r => ~run'[q].alone
  BY <1>1, AloneStays DEF Exactly
<1>8. NoStatNoCount'
  <2> SUFFICES ASSUME NEW e \in Entities, NEW h \in Hours, number'[e][DayOf(h)] = 0
               PROVE  total'[e][h] = 0
    BY DEF NoStatNoCount
  <2>1. PICK d \in Days : d = DayOf(h)
    BY DaysAreNat
  <2>2. <<e, d>> \notin puts /\ number[e][d] = 0
    BY <1>4, <1>5, <2>1
  <2>3. total[e][h] = 0
    BY <2>1, <2>2 DEF Exactly, NoStatNoCount
  <2>4. QED
    BY <1>4, <2>1, <2>2, <2>3
<1>9. Fresh'
  <2> SUFFICES ASSUME NEW q \in AtWork', run'[q].alone, NEW e \in Entities, NEW d \in Days,
                      run'[q].first \/ run'[q].day <= d
               PROVE  number'[e][d] = 0
    BY DEF Fresh
  <2>1. q \in Active'
    BY DEF AtWork, Active
  <2>2. q = r
    BY <1>7, <2>1
  <2>3. ~run[r].first /\ run[r].day < run'[r].day /\ run'[r].day <= d /\ run'[r].day \in Nat
    BY <2>2
  <2>4. run'[r].pc # "idle" /\ run[r].alone
    BY <2>2 DEF AtWork
  <2>5. run[r].day \in Nat /\ d \in Nat /\ run[r].read = {run[r].day}
    BY <1>2, <2>3, DaysAreNat DEF Thread, ReadSoFar
  <2>6. number[e][d] = 0
    BY <1>1, <2>3, <2>4, <2>5 DEF Exactly, Fresh
  <2>7. <<e, d>> \notin puts
    BY <1>6, <2>3, <2>5
  <2>8. QED
    BY <1>4, <2>6, <2>7
<1>10. ASSUME NEW q \in Runs PROVE ReadExactly(run[q])'
  <2>1. CASE q = r
    BY <2>1 DEF ReadExactly
  <2>2. CASE q # r
    BY <1>3, <2>2, StillRead DEF Exactly
  <2>3. QED
    BY <2>1, <2>2
<1>11. ASSUME NEW d \in processed' \ unclean' PROVE Complete(d)' /\ ExactOn(d)'
  <2>1. CASE d \notin run[r].read
    <3>1. Complete(d) /\ ExactOn(d) /\ d \in Days
      BY <2>1 DEF Exactly, Typed, TypeOK
    <3>2. \A e \in Entities : number'[e][d] = number[e][d]
      BY <1>4, <1>6, <2>1, <3>1
    <3>3. \A e \in Entities : \A h \in Hours : DayOf(h) = d => total'[e][h] = total[e][h]
      BY <1>4, <1>6, <2>1
    <3>4. ExactOn(d)'
      BY <1>3, <3>1, <3>2, <3>3, StillExact
    <3>5. QED
      BY <1>3, <3>1, <3>4, SameFacts
  <2>2. CASE d \in run[r].read
    <3>1. run[r].alone /\ d \in run[r].clean /\ puts = run[r].parents
      BY <1>11, <2>2
    <3>2. Complete(d) /\ \A e \in Entities :
        /\ <<e, d>> \in puts <=> HasStat(e, d)
        /\ \A i \in Hours : DayOf(i) = d => (i \in run[r].counts[e] <=> i \in HoursWith(e))
      BY <3>1 DEF Exactly, ReadExactly
    <3>3. d \in Days /\ d \in Nat /\ (run[r].first \/ run[r].day <= d)
      <4>1. d \in Days /\ d \in Nat
        BY <1>2, <2>2, DaysAreNat DEF Thread
      <4>2. ~run[r].first => d = run[r].day
        BY <1>2, <2>2 DEF ReadSoFar
      <4>3. QED
        BY <4>1, <4>2
    <3>4. \A e \in Entities : number[e][d] = 0
      BY <1>1, <3>1, <3>3 DEF Exactly, Fresh
    <3>5. ASSUME NEW e \in Entities
          PROVE  /\ number'[e][d] = IF HasStat(e, d)' THEN 1 ELSE 0
                 /\ \A h \in Hours : DayOf(h) = d =>
                      total'[e][h] = IF h \in HoursWith(e)' THEN 1 ELSE 0
      <4>1. (HasStat(e, d)' <=> HasStat(e, d)) /\ HoursWith(e)' = HoursWith(e)
        BY <1>3, SameFacts
      <4>2. number'[e][d] = IF HasStat(e, d) THEN 1 ELSE 0
        <5>1. number[e][d] = 0 /\ (<<e, d>> \in puts <=> HasStat(e, d))
          BY <3>2, <3>4
        <5>2. number'[e][d] = IF <<e, d>> \in puts THEN number[e][d] + 1 ELSE number[e][d]
          BY <1>4, <3>3
        <5>3. CASE HasStat(e, d)
          BY <5>1, <5>2, <5>3
        <5>4. CASE ~HasStat(e, d)
          BY <5>1, <5>2, <5>4
        <5>5. QED
          BY <5>3, <5>4
      <4>3. ASSUME NEW h \in Hours, DayOf(h) = d
            PROVE  total'[e][h] = IF h \in HoursWith(e) THEN 1 ELSE 0
        <5>1. total[e][h] = 0
          BY <3>4, <4>3 DEF Exactly, NoStatNoCount
        <5>2. h \in HoursWith(e) => HasStat(e, d)
          BY <4>3 DEF HasStat, DaysWith
        <5>3. total'[e][h] = IF <<e, d>> \in puts /\ h \in run[r].counts[e] THEN 1 ELSE 0
          BY <1>4, <4>3, <5>1
        <5>4. QED
          BY <3>2, <4>3, <5>2, <5>3
      <4>4. QED
        BY <4>1, <4>2, <4>3
    <3>6. ExactOn(d)'
      BY <3>5 DEF ExactOn
    <3>7. QED
      BY <1>3, <3>2, <3>6, SameFacts
  <2>3. QED
    BY <2>1, <2>2
<1>12. QED
  BY <1>7, <1>8, <1>9, <1>10, <1>11 DEF Exactly

LEMMA ExactlyPut ==
  ASSUME NEW r \in Runs PROVE Typed /\ Exactly /\ Put(r) => Exactly'
<1> SUFFICES ASSUME Typed, Exactly, Put(r) PROVE Exactly'
  OBVIOUS
<1>1. /\ run[r].pc = "put" /\ PutOf(r, run[r].parents)
      /\ processed' = processed \cup run[r].read
      /\ unclean' = unclean \cup IF run[r].alone THEN run[r].read \ run[r].clean
                                 ELSE run[r].read
      /\ UNCHANGED hourVars
  BY DEF Put
<1>2. run' = [run EXCEPT ![r] = IF run[r].first THEN Idle
       ELSE [Idle EXCEPT !.pc = "frame", !.day = run[r].day + 1, !.asOf = run[r].asOf,
                         !.alone = run[r].alone]]
  BY DEF Put
<1>3. run \in [Runs -> Thread] /\ run[r].day \in Nat
  BY ThreadFacts DEF Thread
<1>4. \A q \in Runs : q # r => run'[q] = run[q]
  BY <1>2, <1>3
<1>5. /\ run'[r].clean = {} /\ ~run'[r].first
      /\ run[r].first => run'[r].pc = "idle"
      /\ ~run[r].first => run'[r].alone = run[r].alone /\ run'[r].day = run[r].day + 1
  BY <1>2, <1>3 DEF Idle
<1>6. run'[r].pc = "idle" \/ run'[r].alone = run[r].alone
  BY <1>5
<1>7. r \in AtWork' => ~run'[r].first /\ run[r].day < run'[r].day /\ ~run[r].first
                       /\ run'[r].day \in Nat
  BY <1>3, <1>5 DEF AtWork
<1>8. \A d \in processed' \ unclean' : d \in run[r].read =>
        run[r].alone /\ d \in run[r].clean /\ run[r].parents = run[r].parents
  BY <1>1
<1>9. \A d \in processed' \ unclean' : d \notin run[r].read => d \in processed \ unclean
  BY <1>1
<1>10. QED
  BY <1>1, <1>4, <1>5, <1>6, <1>7, <1>8, <1>9, ExactlyPuts

LEMMA ExactlyPutFails ==
  ASSUME NEW r \in Runs PROVE Typed /\ Exactly /\ PutFails(r) => Exactly'
<1> SUFFICES ASSUME Typed, Exactly, PutFails(r) PROVE Exactly'
  OBVIOUS
<1>1. PICK puts \in SUBSET run[r].parents :
        PutOf(r, puts) /\ processed' = processed \cup {s[2] : s \in puts}
  BY DEF PutFails
<1>2. /\ unclean' = unclean \cup run[r].read /\ run' = [run EXCEPT ![r] = Idle]
      /\ UNCHANGED hourVars /\ run[r].pc = "put"
  BY DEF PutFails
<1>3. /\ run'[r].clean = {} /\ run'[r].pc = "idle"
      /\ \A q \in Runs : q # r => run'[q] = run[q]
  BY <1>2, ThreadFacts DEF Idle
<1>4. r \notin AtWork'
  BY <1>3 DEF AtWork
<1>5. \A d \in processed' \ unclean' : d \in run[r].read =>
        run[r].alone /\ d \in run[r].clean /\ puts = run[r].parents
  BY <1>2
<1>6. {s[2] : s \in puts} \subseteq run[r].read
  <2>1. ReadSoFar(run[r])
    BY ThreadFacts
  <2>2. QED
    BY <2>1 DEF ReadSoFar
<1>7. \A d \in processed' \ unclean' : d \notin run[r].read => d \in processed \ unclean
  BY <1>1, <1>2, <1>6
<1>8. QED
  BY <1>1, <1>2, <1>3, <1>4, <1>5, <1>7, ExactlyPuts

LEMMA ExactlyStep == Typed /\ Orderly /\ Exactly /\ [Next]_periodVars => Exactly'
<1> SUFFICES ASSUME Typed, Orderly, Exactly, [Next]_periodVars PROVE Exactly'
  OBVIOUS
<1>1. ASSUME NEW r \in Runs,
             \/ Start(r) \/ NothingBelow(r) \/ FirstTime(r) \/ GoOn(r)
             \/ Frame(r) \/ Over(r) \/ Put(r) \/ PutFails(r) \/ RunFails(r)
      PROVE  Exactly'
  BY <1>1, ExactlyStart, ExactlyNothingBelow, ExactlyFirstTime, ExactlyGoOn, ExactlyFrame,
     ExactlyOver, ExactlyPut, ExactlyPutFails, ExactlyRunFails, Zenon
<1>2. ASSUME NEW h \in Hours, CloseHour(h) PROVE Exactly'
  BY <1>2, ExactlyCloseHour
<1>3. ASSUME UNCHANGED periodVars PROVE Exactly'
  <2>1. UNCHANGED <<kind, closed, seen, statVars>> /\ run' = run
    BY <1>3 DEF periodVars, statVars
  <2>2. number' = number /\ kind' = kind /\ closed' = closed /\ seen' = seen
    BY <2>1 DEF statVars
  <2>3. Alone' /\ Fresh'
    BY <2>1, <2>2 DEF Exactly, Alone, Active, Fresh, AtWork
  <2>4. \A r \in Runs : ReadExactly(run[r])'
    BY <2>1, <2>2, StillRead DEF Exactly
  <2>5. QED
    BY <2>1, <2>3, <2>4, ExactlyWaits
<1>4. QED
  BY <1>1, <1>2, <1>3, ExactlyTick, Zenon DEF Next

LEMMA InitExactly == Init => Exactly
<1> SUFFICES ASSUME Init PROVE Exactly
  OBVIOUS
<1>1. \A r \in Runs : run[r].pc = "idle" /\ run[r].clean = {}
  BY DEF Init, Idle
<1>2. Alone /\ Fresh
  BY <1>1 DEF Alone, Active, Fresh, AtWork
<1>3. NoStatNoCount
  BY DEF Init, NoStatNoCount
<1>4. \A r \in Runs : ReadExactly(run[r])
  BY <1>1 DEF ReadExactly
<1>5. processed = {}
  BY DEF Init
<1>6. QED
  BY <1>2, <1>3, <1>4, <1>5 DEF Exactly

(* A day that one thread alone read when its hours were closed counts each  *)
(* of them once, in one stat for the site and for every entity that had one *)
(* of them: whatever failed, overlapped or came too early on other days.    *)
THEOREM CleanDaysCounted == Spec => []CleanDaysExact
<1>1. Typed /\ Exactly => CleanDaysExact
  <2> SUFFICES ASSUME Typed, Exactly, NEW d \in processed \ unclean, NEW e \in Entities
               PROVE  LET mine == {h \in HoursWith(e) : DayOf(h) = d} IN
                      /\ number[e][d] = IF mine # {} \/ kind = "site" THEN 1 ELSE 0
                      /\ \A h \in Hours : DayOf(h) = d =>
                           total[e][h] = IF h \in mine THEN 1 ELSE 0
    BY DEF CleanDaysExact
  <2> DEFINE mine == {h \in HoursWith(e) : DayOf(h) = d}
  <2>1. /\ number[e][d] = IF HasStat(e, d) THEN 1 ELSE 0
        /\ \A h \in Hours : DayOf(h) = d => total[e][h] = IF h \in HoursWith(e) THEN 1 ELSE 0
    BY DEF Exactly, ExactOn
  <2>2. HasStat(e, d) <=> mine # {} \/ kind = "site"
    BY DEF HasStat, DaysWith
  <2>3. QED
    BY <2>1, <2>2
<1>2. QED
  BY <1>1, InitTyped, TypedStep, InitOrderly, OrderlyStep, InitExactly, ExactlyStep, PTL
     DEF Spec
=============================================================================
