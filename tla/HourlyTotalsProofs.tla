------------------------- MODULE HourlyTotalsProofs -------------------------
(***************************************************************************)
(* For every number of threads and instances, every clock and every number  *)
(* of failures and overlapping runs: the types of HourlyTotals, that no     *)
(* hour is skipped, that the hours are closed as HourLedger says (Inv), and *)
(* that the totals of clean hours are exact (Books).                        *)
(***************************************************************************)
EXTENDS HourlyTotals, TLAPS, FiniteSetTheorems

-----------------------------------------------------------------------------
(* Types.                                                                  *)

Threads == [pc : {"idle", "read", "count"}, inst : Insts, hour : 0..MaxHour + 1,
            first : BOOLEAN, last : Hours, asOf : Hours, anas : Seq(Concepts), done : Nat]
Dict == [Keys -> [total : Nat, touch : Nat]]

(* A thread counts no hour that has not begun.                             *)
InTime ==
  \A r \in Active :
    /\ run[r].first => run[r].hour <= run[r].last /\ run[r].last <= now
    /\ run[r].pc = "count" => run[r].hour <= now

LEMMA IdleType == Idle \in Threads
  BY HourlyAssumption DEF Idle, Threads, Hours

LEMMA InitType == Init => TypeOK
<1> SUFFICES ASSUME Init PROVE TypeOK
  OBVIOUS
<1>1. run \in [Runs -> Threads]
  BY IdleType DEF Init
<1>2. 0 \in Hours
  BY HourlyAssumption DEF Hours
<1>3. art_ana_stats \in [Insts -> Dict] /\ org_ana_stats \in [Insts -> [Hours -> Nat]]
  BY DEF Init, Absent, Dict
<1>4. QED
  BY <1>1, <1>2, <1>3 DEF Init, TypeOK, Threads, Dict

(* A thread that starts in an hour of the clock's is well formed.          *)
LEMMA StartType ==
  ASSUME TypeOK, NEW r \in Runs, NEW i \in Insts, Start(r, i)
  PROVE  run' \in [Runs -> Threads] /\ troubles' \in Nat
<1>1. run \in [Runs -> Threads] /\ now \in Hours /\ troubles \in Nat
  BY DEF TypeOK, Threads
<1>2. \A h \in Hours : h \in 0..MaxHour + 1 /\ h + 1 \in 0..MaxHour + 1
  BY HourlyAssumption DEF Hours
<1>3. CASE StartFirst(r, i)
  <2>1. PICK f, l \in Hours : Begin(r, [Idle EXCEPT !.pc = "read", !.inst = i, !.hour = f,
                                !.first = TRUE, !.last = l, !.asOf = now])
    BY <1>3 DEF StartFirst
  <2>2. [Idle EXCEPT !.pc = "read", !.inst = i, !.hour = f,
                     !.first = TRUE, !.last = l, !.asOf = now] \in Threads
    BY <1>1, <1>2, IdleType DEF Threads
  <2>3. QED
    BY <1>1, <2>1, <2>2 DEF Begin
<1>4. CASE StartNext(r, i)
  <2>1. PICK l \in Hours : Begin(r, [Idle EXCEPT !.pc = "read", !.inst = i, !.hour = l + 1])
    BY <1>4 DEF StartNext, Closed
  <2>2. [Idle EXCEPT !.pc = "read", !.inst = i, !.hour = l + 1] \in Threads
    BY <1>2, IdleType DEF Threads
  <2>3. QED
    BY <1>1, <2>1, <2>2 DEF Begin
<1>5. QED
  BY <1>3, <1>4 DEF Start

(* What is stored stays well formed, whatever a put_multi gets to store.   *)
LEMMA PutType ==
  ASSUME TypeOK, NEW r \in Runs, run[r].hour \in Hours, NEW ofSite \in BOOLEAN,
         NEW puts \in SUBSET Keys, NEW orgs \in SUBSET Hours,
         PutOf(r, ofSite, puts, orgs)
  PROVE  site' \in [Hours -> Seq(Nat)] /\ con' \in [Keys -> Nat] /\ org' \in [Hours -> Nat]
<1>1. run[r] \in Threads
  BY DEF TypeOK, Threads
<1>2. art_ana_stats[run[r].inst] \in Dict /\ org_ana_stats[run[r].inst] \in [Hours -> Nat]
  BY <1>1 DEF TypeOK, Threads, Dict
<1>3. Len(run[r].anas) \in Nat
  BY <1>1 DEF Threads
<1>4. site' \in [Hours -> Seq(Nat)]
  <2>1. site[run[r].hour] \in Seq(Nat)
    BY DEF TypeOK
  <2>2. Append(site[run[r].hour], Len(run[r].anas)) \in Seq(Nat)
    BY <1>3, <2>1
  <2>3. QED
    BY <2>2 DEF PutOf, TypeOK
<1>5. con' \in [Keys -> Nat]
  BY <1>2 DEF PutOf, Saved, Dict, TypeOK
<1>6. org' \in [Hours -> Nat]
  BY <1>2 DEF PutOf, TypeOK
<1>7. QED
  BY <1>4, <1>5, <1>6

LEMMA CountType ==
  ASSUME TypeOK, NEW r \in Runs, Count(r), run[r].hour \in Hours
  PROVE  TypeOK'
<1> DEFINE t == run[r]
           dict == art_ana_stats[t.inst]
           k == <<t.hour, t.anas[t.done + 1]>>
           e == Entry(dict, k)
           added == [dict EXCEPT ![k] = [total |-> e.total + 1, touch |-> e.touch + 1]]
<1>1. t \in Threads
  BY DEF TypeOK, Threads
<1>2. t.anas[t.done + 1] \in Concepts
  <2>1. t.anas \in Seq(Concepts) /\ t.done \in Nat
    BY <1>1 DEF Threads
  <2>2. t.done < Len(t.anas)
    BY DEF Count
  <2>3. t.done + 1 \in 1..Len(t.anas)
    BY <2>1, <2>2
  <2> HIDE DEF t
  <2>4. QED
    BY <2>1, <2>3
<1>3. k \in Keys /\ dict \in Dict
  BY <1>1, <1>2 DEF Keys, TypeOK, Threads, Dict
<1>4. e.total \in Nat /\ e.touch \in Nat
  BY <1>3 DEF Entry, Dict, TypeOK
<1>5. added \in Dict
  BY <1>3, <1>4 DEF Dict
<1>6. con' \in [Keys -> Nat] /\ art_ana_stats' \in [Insts -> Dict]
  <2>1. ASSUME NEW gone \in SUBSET Held(added)
        PROVE  /\ Saved(added, gone) \in [Keys -> Nat]
               /\ [x \in Keys |-> IF x \in gone THEN Absent ELSE added[x]] \in Dict
    BY <1>5 DEF Saved, Dict, TypeOK, Absent
  <2> HIDE DEF added
  <2>2. art_ana_stats \in [Insts -> Dict] /\ con \in [Keys -> Nat]
    BY DEF TypeOK, Dict
  <2>3. CASE con' = con /\ art_ana_stats' = [art_ana_stats EXCEPT ![t.inst] = added]
    BY <1>5, <2>2, <2>3
  <2>4. CASE \E gone \in SUBSET Held(added) :
               /\ con' = Saved(added, gone)
               /\ art_ana_stats' = [art_ana_stats EXCEPT ![t.inst] =
                    [x \in Keys |-> IF x \in gone THEN Absent ELSE added[x]]]
    <3>1. PICK gone \in SUBSET Held(added) :
               /\ con' = Saved(added, gone)
               /\ art_ana_stats' = [art_ana_stats EXCEPT ![t.inst] =
                    [x \in Keys |-> IF x \in gone THEN Absent ELSE added[x]]]
      BY <2>4
    <3>2. QED
      BY <2>1, <2>2, <3>1
  <2>5. QED
    BY <2>3, <2>4 DEF Count, added
<1>7. org_ana_stats' \in [Insts -> [Hours -> Nat]]
  <2>1. org_ana_stats' = [org_ana_stats EXCEPT ![t.inst][t.hour] = @ + 1]
    BY DEF Count
  <2>2. t.inst \in Insts /\ org_ana_stats \in [Insts -> [Hours -> Nat]]
    BY <1>1 DEF Threads, TypeOK
  <2>3. org_ana_stats[t.inst][t.hour] + 1 \in Nat
    BY <2>2
  <2>4. QED
    BY <2>1, <2>2, <2>3
<1>8. run' \in [Runs -> Threads]
  <2>1. [t EXCEPT !.done = @ + 1] \in Threads
    BY <1>1 DEF Threads
  <2>2. QED
    BY <2>1 DEF Count, TypeOK, Threads
<1>9. QED
  BY <1>6, <1>7, <1>8 DEF Count, TypeOK, Threads, Dict

LEMMA HourCounted ==
  ASSUME TypeOK, NEW r \in Runs, run[r].pc = "count", run[r].hour <= now
  PROVE  run[r].hour \in Hours
<1>1. run[r].hour \in 0..MaxHour + 1 /\ now \in 0..MaxHour
  BY DEF TypeOK, Hours
<1>2. QED
  BY <1>1, HourlyAssumption DEF Hours

LEMMA NextType == TypeOK /\ InTime /\ [Next]_hourlyVars => TypeOK'
<1> SUFFICES ASSUME TypeOK, InTime, [Next]_hourlyVars PROVE TypeOK'
  OBVIOUS
<1>0. run \in [Runs -> Threads]
  BY DEF TypeOK, Threads
<1>1. ASSUME NEW c \in Concepts, Record(c)
      PROVE  TypeOK'
  <2>1. Append(events[now], c) \in Seq(Concepts)
    BY DEF TypeOK
  <2>2. QED
    BY <1>1, <2>1 DEF Record, TypeOK
<1>2. CASE Tick
  <2>1. now' \in Hours
    BY <1>2, HourlyAssumption DEF Tick, TypeOK, Hours
  <2>2. QED
    BY <1>2, <2>1 DEF Tick, TypeOK
<1>3. ASSUME NEW r \in Runs, NEW i \in Insts, Start(r, i)
      PROVE  TypeOK'
  <2>1. run' \in [Runs -> Threads] /\ troubles' \in Nat
    BY <1>3, StartType
  <2>2. \A q \in Active : run[q].hour \in 0..MaxHour + 1
    BY DEF Active, TypeOK
  <2>3. /\ unclean' = unclean \cup {run[q].hour : q \in Active}
        /\ UNCHANGED <<now, events, site, con, org, art_ana_stats, org_ana_stats>>
    BY <1>3 DEF Start, StartFirst, StartNext, Begin
  <2>4. QED
    BY <2>1, <2>2, <2>3 DEF TypeOK, Threads
<1>4. ASSUME NEW r \in Runs, EndOfRun(r)
      PROVE  TypeOK'
  BY <1>4, IdleType DEF EndOfRun, TypeOK, Threads
<1>5. ASSUME NEW r \in Runs, Read(r)
      PROVE  TypeOK'
  <2>0. run[r] \in Threads /\ now \in Hours
    BY <1>0 DEF TypeOK
  <2>a. run[r].hour \in Nat /\ run[r].last \in Nat /\ now \in Nat /\ now <= MaxHour
    BY <2>0, HourlyAssumption DEF Threads, Hours
  <2>b. run[r].hour <= now
    BY <1>5, <2>a DEF Read, TooEarly, InTime, Active
  <2>1. run[r].hour \in Hours
    BY <2>a, <2>b, HourlyAssumption DEF Hours
  <2>2. [run[r] EXCEPT !.pc = "count", !.anas = events[run[r].hour]] \in Threads
    BY <1>0, <2>1 DEF TypeOK, Threads
  <2>3. run' \in [Runs -> Threads]
    BY <1>0, <1>5, <2>2 DEF Read
  <2>4. unclean' \subseteq 0..MaxHour + 1
    BY <1>5 DEF Read, TypeOK
  <2>5. QED
    BY <1>5, <2>3, <2>4 DEF Read, TypeOK, Threads
<1>6. ASSUME NEW r \in Runs, Count(r)
      PROVE  TypeOK'
  BY <1>6, CountType, HourCounted DEF Count, InTime, Active
<1>7. ASSUME NEW r \in Runs, Put(r)
      PROVE  TypeOK'
  <2>1. run[r].hour \in Hours
    BY <1>7, HourCounted DEF Put, Counted, InTime, Active
  <2>2. /\ site' \in [Hours -> Seq(Nat)] /\ con' \in [Keys -> Nat]
        /\ org' \in [Hours -> Nat]
    BY <1>7, <2>1, PutType DEF Put, Held, OrgHeld
  <2>a. run[r] \in Threads /\ run[r].hour + 1 \in 0..MaxHour + 1
    BY <1>0, <2>1, HourlyAssumption DEF Hours
  <2>3. [run[r] EXCEPT !.pc = "read", !.hour = run[r].hour + 1, !.anas = <<>>, !.done = 0] \in Threads
    <3>1. <<>> \in Seq(Concepts)
      OBVIOUS
    <3>2. QED
      BY <2>a, <3>1 DEF Threads
  <2>4. run' \in [Runs -> Threads]
    BY <1>0, <1>7, <2>3, IdleType DEF Put
  <2>5. QED
    BY <1>7, <2>2, <2>4 DEF Put, TypeOK, Threads
<1>8. ASSUME NEW r \in Runs, PutFails(r)
      PROVE  TypeOK'
  <2>1. run[r].hour \in Hours
    BY <1>8, HourCounted DEF PutFails, Counted, InTime, Active
  <2>2. /\ site' \in [Hours -> Seq(Nat)] /\ con' \in [Keys -> Nat]
        /\ org' \in [Hours -> Nat]
    BY <1>8, <2>1, PutType DEF PutFails, Held, OrgHeld
  <2>3. run' \in [Runs -> Threads]
    BY <1>0, <1>8, IdleType DEF PutFails
  <2>b. run[r].hour \in 0..MaxHour + 1 /\ troubles \in Nat /\ unclean \subseteq 0..MaxHour + 1
    BY DEF TypeOK
  <2>c. troubles' \in Nat
    BY <1>8, <2>b DEF PutFails
  <2>d. unclean' \subseteq 0..MaxHour + 1
    BY <1>8, <2>b DEF PutFails
  <2>4. QED
    BY <1>8, <2>2, <2>3, <2>c, <2>d DEF PutFails, TypeOK, Threads
<1>9. ASSUME NEW r \in Runs, RunFails(r)
      PROVE  TypeOK'
  <2>1. run' \in [Runs -> Threads]
    BY <1>0, <1>9, IdleType DEF RunFails
  <2>b. run[r].hour \in 0..MaxHour + 1 /\ troubles \in Nat /\ unclean \subseteq 0..MaxHour + 1
    BY DEF TypeOK
  <2>c. troubles' \in Nat
    BY <1>9, <2>b DEF RunFails
  <2>d. unclean' \subseteq 0..MaxHour + 1
    BY <1>9, <2>b DEF RunFails
  <2>2. QED
    BY <1>9, <2>1, <2>c, <2>d DEF RunFails, TypeOK, Threads
<1>10. ASSUME NEW i \in Insts, Stop(i)
       PROVE  TypeOK'
  <2>1. run' \in [Runs -> Threads]
    BY <1>0, <1>10, IdleType DEF Stop
  <2>b. troubles' \in Nat
    BY <1>10 DEF Stop, TypeOK
  <2>2. unclean' \subseteq 0..MaxHour + 1
    BY <1>10 DEF Stop, Active, TypeOK
  <2>3. art_ana_stats' \in [Insts -> Dict] /\ org_ana_stats' \in [Insts -> [Hours -> Nat]]
    <3>1. [k \in Keys |-> Absent] \in Dict /\ [h \in Hours |-> 0] \in [Hours -> Nat]
      BY DEF Dict, Absent
    <3>2. QED
      BY <1>10, <3>1 DEF Stop, TypeOK, Dict
  <2>4. QED
    BY <1>10, <2>1, <2>2, <2>3, <2>b DEF Stop, TypeOK, Threads, Dict
<1>11. CASE UNCHANGED hourlyVars
  BY <1>11 DEF hourlyVars, TypeOK
<1>12. QED
  BY <1>1, <1>2, <1>3, <1>4, <1>5, <1>6, <1>7, <1>8, <1>9, <1>10, <1>11 DEF Next, Go

-----------------------------------------------------------------------------
(* No hour is skipped. The strengthening says it of the hour that each      *)
(* thread is at, which is where the next stat will be, and that nothing is  *)
(* closed before the hour of the first event.                               *)

Began(h) == \E e \in Hours : e <= h /\ events[e] # <<>>
Caught(h) == \A k \in Hours : k < h /\ Began(k) => k \in Closed

EventsPast == \A h \in Hours : events[h] # <<>> => h <= now
RunsInOrder == \A r \in Active : Began(run[r].hour) /\ Caught(run[r].hour)
ClosedInOrder == \A h \in Closed : Began(h) /\ Caught(h)

Inv == TypeOK /\ InTime /\ EventsPast /\ RunsInOrder /\ ClosedInOrder

Numbers == /\ now \in Nat /\ now <= MaxHour
           /\ \A h \in Hours : h \in Nat /\ h <= MaxHour
           /\ \A r \in Runs : run[r].hour \in Nat /\ run[r].last \in Nat

LEMMA TypesAreNumbers == TypeOK => Numbers
<1> SUFFICES ASSUME TypeOK PROVE Numbers
  OBVIOUS
<1>1. run \in [Runs -> Threads] /\ now \in Hours
  BY DEF TypeOK, Threads
<1>2. \A h \in Hours : h \in Nat /\ h <= MaxHour
  BY HourlyAssumption DEF Hours
<1>3. ASSUME NEW r \in Runs PROVE run[r].hour \in Nat /\ run[r].last \in Nat
  <2>1. run[r] \in Threads
    BY <1>1
  <2>2. QED
    BY <2>1, HourlyAssumption DEF Threads, Hours
<1>4. QED
  BY <1>1, <1>2, <1>3 DEF Numbers

LEMMA AppendNotEmpty ==
  ASSUME NEW S, NEW s \in Seq(S), NEW x
  PROVE  Append(s, x) # <<>>
<1>1. Len(Append(s, x)) = Len(s) + 1 /\ Len(s) \in Nat
  OBVIOUS
<1>2. Len(<<>>) = 0
  OBVIOUS
<1>3. QED
  BY <1>1, <1>2

(* Without new events and without a stat that goes, what is in order stays. *)
LEMMA OrderStays ==
  ASSUME events' = events, Closed \subseteq Closed', NEW h
  PROVE  (Began(h) => Began(h)') /\ (Caught(h) => Caught(h)')
  BY DEF Began, Caught

LEMMA InitInv == Init => Inv
<1> SUFFICES ASSUME Init PROVE Inv
  OBVIOUS
<1>1. Active = {} /\ Closed = {} /\ \A h \in Hours : events[h] = <<>>
  BY DEF Init, Active, Closed, Idle
<1>2. QED
  BY <1>1, InitType DEF Inv, InTime, EventsPast, RunsInOrder, ClosedInOrder

(* Steps that neither record an event nor store a stat nor move a thread.   *)
LEMMA QuietStep ==
  ASSUME Inv, TypeOK', UNCHANGED <<events, site>>, now' = now \/ now' = now + 1,
         \A r \in Active' :
           /\ r \in Active
           /\ run'[r].hour = run[r].hour
           /\ run'[r].first = run[r].first
           /\ run'[r].last = run[r].last
           /\ run'[r].pc = "count" => run[r].pc = "count" \/ run[r].hour <= now
  PROVE  Inv'
<1>0. Numbers
  BY TypesAreNumbers DEF Inv
<1>1. Closed' = Closed /\ now <= now'
  BY <1>0 DEF Closed, Numbers
<1>2. InTime'
  <2> SUFFICES ASSUME NEW r \in Active'
               PROVE  /\ run'[r].first => run'[r].hour <= run'[r].last /\ run'[r].last <= now'
                      /\ run'[r].pc = "count" => run'[r].hour <= now'
    BY DEF InTime
  <2>1. r \in Runs /\ r \in Active
    BY DEF Active
  <2>2. QED
    BY <1>0, <1>1, <2>1 DEF InTime, Inv, Numbers
<1>3. EventsPast'
  BY <1>0, <1>1 DEF EventsPast, Inv, Numbers
<1>4. RunsInOrder'
  <2>1. ASSUME NEW r \in Active', NEW h, h = run'[r].hour
        PROVE  Began(h)' /\ Caught(h)'
    <3>1. Began(h) /\ Caught(h)
      BY <2>1 DEF RunsInOrder, Inv
    <3>2. QED
      BY <1>1, <3>1, OrderStays
  <2>2. QED
    BY <2>1 DEF RunsInOrder, Began, Caught
<1>5. ClosedInOrder'
  BY <1>1 DEF ClosedInOrder, Inv, Began, Caught
<1>6. QED
  BY <1>2, <1>3, <1>4, <1>5 DEF Inv

(* An event comes in the present hour, which is not before the first one.   *)
LEMMA RecordStep ==
  ASSUME Inv, TypeOK', NEW c \in Concepts, Record(c)
  PROVE  Inv'
<1>0. Numbers
  BY TypesAreNumbers DEF Inv
<1>1. Closed' = Closed /\ Active' = Active
  BY DEF Record, Closed, Active
<1> DEFINE appended == Append(events[now], c)
<1>a. appended # <<>> /\ events' = [events EXCEPT ![now] = appended]
  BY AppendNotEmpty DEF Record, Inv, TypeOK
<1> HIDE DEF appended
<1>b. \A h \in Hours : events'[h] = IF h = now THEN appended ELSE events[h]
  BY <1>a DEF Inv, TypeOK
<1>2. \A h \in Hours : events'[h] # <<>> => events[h] # <<>> \/ h = now
  BY <1>b
<1>3. \A h \in Hours : events[h] # <<>> => events'[h] # <<>>
  BY <1>a, <1>b
<1>4. ASSUME NEW h, Began(h) PROVE Began(h)'
  BY <1>3, <1>4 DEF Began
<1>5. ASSUME NEW h, h \in Nat, Began(h), Caught(h) PROVE Caught(h)'
  <2> SUFFICES ASSUME NEW k \in Hours, k < h, Began(k)' PROVE k \in Closed
    BY <1>1 DEF Caught
  <2>1. PICK e \in Hours : e <= k /\ events'[e] # <<>>
    BY DEF Began
  <2>2. CASE events[e] # <<>>
    BY <1>5, <2>1, <2>2 DEF Began, Caught
  <2>3. CASE e = now
    <3>1. PICK f \in Hours : f <= h /\ events[f] # <<>>
      BY <1>5 DEF Began
    <3>2. f <= now
      BY <3>1 DEF Inv, EventsPast
    <3>3. f <= k
      BY <1>0, <2>1, <2>3, <3>2 DEF Numbers
    <3>4. QED
      BY <1>5, <3>1, <3>3 DEF Began, Caught
  <2>4. QED
    BY <1>2, <2>1, <2>2, <2>3
<1>6. EventsPast'
  BY <1>0, <1>2 DEF EventsPast, Inv, Record, Numbers
<1>7. InTime'
  BY <1>1 DEF InTime, Inv, Record
<1>8. RunsInOrder'
  <2> SUFFICES ASSUME NEW r \in Active PROVE Began(run[r].hour)' /\ Caught(run[r].hour)'
    BY <1>1 DEF RunsInOrder, Record
  <2>1. run[r].hour \in Nat
    BY <1>0 DEF Active, Numbers
  <2>2. Began(run[r].hour) /\ Caught(run[r].hour) /\ run' = run
    BY DEF Inv, RunsInOrder, Record
  <2>3. QED
    BY <1>4, <1>5, <2>1, <2>2
<1>9. ClosedInOrder'
  BY <1>0, <1>1, <1>4, <1>5 DEF ClosedInOrder, Inv, Closed, Numbers
<1>10. QED
  BY <1>6, <1>7, <1>8, <1>9 DEF Inv

(* A thread starts with the first hour or after the last that is closed.    *)
LEMMA StartStep ==
  ASSUME Inv, TypeOK', NEW r \in Runs, NEW i \in Insts, Start(r, i)
  PROVE  Inv'
<1>0. Numbers
  BY TypesAreNumbers DEF Inv
<1>1. UNCHANGED <<events, site, now>> /\ Closed' = Closed
  BY DEF Start, StartFirst, StartNext, Begin, Closed
<1>2. \A q \in Active' : q # r => q \in Active /\ run'[q] = run[q]
  BY DEF Start, StartFirst, StartNext, Begin, Active, Inv, TypeOK
<1>3. /\ Began(run'[r].hour) /\ Caught(run'[r].hour) /\ run'[r].pc = "read"
      /\ run'[r].first => run'[r].hour <= run'[r].last /\ run'[r].last <= now
  <2>1. CASE StartFirst(r, i)
    <3>1. PICK f, l \in Hours :
            /\ IsFirst(f) /\ IsLast(l)
            /\ Begin(r, [Idle EXCEPT !.pc = "read", !.inst = i, !.hour = f,
                                     !.first = TRUE, !.last = l, !.asOf = now])
      BY <2>1 DEF StartFirst
    <3>2. run'[r].hour = f /\ run'[r].last = l /\ run'[r].pc = "read"
      BY <3>1 DEF Begin, Inv, TypeOK, Idle
    <3>3. Began(f) /\ f <= l /\ l <= now
      BY <1>0, <3>1 DEF Began, IsFirst, IsLast, Inv, EventsPast, Numbers
    <3>4. Caught(f)
      BY <1>0, <3>1 DEF Began, Caught, IsFirst, Numbers
    <3>5. QED
      BY <3>2, <3>3, <3>4
  <2>2. CASE StartNext(r, i)
    <3>1. PICK l \in Closed :
            Begin(r, [Idle EXCEPT !.pc = "read", !.inst = i, !.hour = l + 1])
      BY <2>2 DEF StartNext
    <3>2. run'[r].hour = l + 1 /\ run'[r].pc = "read" /\ ~run'[r].first
      BY <3>1 DEF Begin, Inv, TypeOK, Idle
    <3>3. l \in Nat /\ Began(l) /\ Caught(l)
      BY <1>0 DEF Inv, ClosedInOrder, Closed, Numbers
    <3>4. Began(l + 1)
      BY <1>0, <3>3 DEF Began, Numbers
    <3>5. Caught(l + 1)
      <4> SUFFICES ASSUME NEW k \in Hours, k < l + 1, Began(k) PROVE k \in Closed
        BY DEF Caught
      <4>1. k = l \/ k < l
        BY <1>0, <3>3 DEF Numbers
      <4>2. QED
        BY <3>3, <4>1 DEF Caught
    <3>6. QED
      BY <3>2, <3>4, <3>5
  <2>3. QED
    BY <2>1, <2>2 DEF Start
<1>4. InTime'
  BY <1>1, <1>2, <1>3 DEF InTime, Inv
<1>5. RunsInOrder'
  <2>1. ASSUME NEW q \in Active', NEW h, h = run'[q].hour
        PROVE  Began(h)' /\ Caught(h)'
    <3>1. Began(h) /\ Caught(h)
      BY <1>2, <1>3, <2>1 DEF RunsInOrder, Inv
    <3>2. QED
      BY <1>1, <3>1, OrderStays
  <2>2. QED
    BY <2>1 DEF RunsInOrder, Began, Caught
<1>6. ClosedInOrder'
  BY <1>1 DEF ClosedInOrder, Inv, Began, Caught
<1>7. EventsPast'
  BY <1>1 DEF EventsPast, Inv
<1>8. QED
  BY <1>4, <1>5, <1>6, <1>7 DEF Inv

(* A put that may have stored the site's stat closes the thread's hour.     *)
LEMMA PutCloses ==
  ASSUME TypeOK, NEW r \in Runs, run[r].hour \in Hours, NEW ofSite \in BOOLEAN,
         NEW puts, NEW orgs, PutOf(r, ofSite, puts, orgs)
  PROVE  Closed' = IF ofSite THEN Closed \cup {run[r].hour} ELSE Closed
<1>1. CASE ofSite
  <2>1. Append(site[run[r].hour], Len(run[r].anas)) # <<>>
    BY AppendNotEmpty DEF TypeOK
  <2>2. site' = [site EXCEPT ![run[r].hour] = Append(site[run[r].hour], Len(run[r].anas))]
    BY <1>1 DEF PutOf
  <2> DEFINE appended == Append(site[run[r].hour], Len(run[r].anas))
  <2> HIDE DEF appended
  <2>3. \A h \in Hours : site'[h] = IF h = run[r].hour THEN appended ELSE site[h]
    BY <2>2 DEF TypeOK, appended
  <2>4. appended # <<>>
    BY <2>1 DEF appended
  <2>5. QED
    BY <1>1, <2>3, <2>4 DEF Closed
<1>2. CASE ~ofSite
  BY <1>2 DEF PutOf, Closed
<1>3. QED
  BY <1>1, <1>2

(* What put_multi stored, the thread being at its end or at the next hour.  *)
LEMMA StoreStep ==
  ASSUME Inv, TypeOK', NEW r \in Runs, Counted(r), NEW ofSite \in BOOLEAN,
         NEW puts, NEW orgs, PutOf(r, ofSite, puts, orgs),
         UNCHANGED <<now, events>>,
         \A q \in Runs : q # r => run'[q] = run[q],
         \/ run'[r].pc = "idle"
         \/ /\ ofSite /\ ~LastOfFirst(r) /\ run'[r].pc = "read"
            /\ run'[r].hour = run[r].hour + 1
            /\ run'[r].first = run[r].first /\ run'[r].last = run[r].last
  PROVE  Inv'
<1>0. Numbers
  BY TypesAreNumbers DEF Inv
<1>1. /\ run[r].hour \in Hours /\ r \in Active
      /\ Began(run[r].hour) /\ Caught(run[r].hour)
  BY HourCounted DEF Inv, InTime, Active, Counted, RunsInOrder
<1>2. Closed' = IF ofSite THEN Closed \cup {run[r].hour} ELSE Closed
  BY <1>1, PutCloses DEF Inv
<1>3. Closed \subseteq Closed'
  BY <1>2
<1>4. \A q \in Active' : q # r => q \in Active /\ run'[q] = run[q]
  BY DEF Active
<1>5. InTime'
  <2>1. ASSUME r \in Active', run'[r].first
        PROVE  run'[r].hour <= run'[r].last /\ run'[r].last <= now
    <3>1. /\ ~LastOfFirst(r) /\ run'[r].hour = run[r].hour + 1
          /\ run[r].first /\ run'[r].last = run[r].last
      BY <2>1 DEF Active
    <3>2. run[r].hour <= run[r].last /\ run[r].last <= now
      BY <1>1, <3>1 DEF InTime, Inv
    <3>3. run[r].hour # run[r].last
      BY <3>1 DEF LastOfFirst
    <3>4. run[r].hour \in Nat /\ run[r].last \in Nat
      BY <1>0 DEF Numbers
    <3>5. QED
      BY <3>1, <3>2, <3>3, <3>4
  <2>2. r \in Active' => run'[r].pc = "read"
    BY DEF Active
  <2>3. QED
    BY <1>4, <2>1, <2>2 DEF InTime, Inv
<1>6. RunsInOrder'
  <2>1. ASSUME NEW q \in Active', q # r, NEW h, h = run'[q].hour
        PROVE  Began(h)' /\ Caught(h)'
    <3>1. q \in Active /\ run'[q].hour = run[q].hour
      BY <1>4, <2>1
    <3>2. Began(run[q].hour) /\ Caught(run[q].hour)
      BY <3>1 DEF Inv, RunsInOrder
    <3>3. QED
      BY <1>3, <2>1, <3>1, <3>2, OrderStays
  <2>2. ASSUME NEW h, h = run[r].hour + 1, ofSite
        PROVE  Began(h)' /\ Caught(h)'
    <3>1. Began(h)'
      BY <1>0, <1>1, <2>2 DEF Began, Numbers
    <3>2. ASSUME NEW k \in Hours, k < h, Began(k)'
          PROVE  k \in Closed'
      <4>1. k = run[r].hour \/ k < run[r].hour
        BY <1>0, <2>2, <3>2 DEF Numbers
      <4>2. Began(k)
        BY <3>2 DEF Began
      <4>3. QED
        BY <1>1, <1>2, <2>2, <4>1, <4>2 DEF Caught
    <3>3. QED
      BY <3>1, <3>2 DEF Caught
  <2>3. ASSUME NEW q \in Active', NEW h, h = run'[q].hour
        PROVE  Began(h)' /\ Caught(h)'
    BY <2>1, <2>2, <2>3 DEF Active
  <2>4. QED
    BY <2>3 DEF RunsInOrder, Began, Caught
<1>7. ClosedInOrder'
  BY <1>1, <1>2, <1>3, OrderStays DEF ClosedInOrder, Inv
<1>8. EventsPast'
  BY DEF EventsPast, Inv
<1>9. QED
  BY <1>5, <1>6, <1>7, <1>8 DEF Inv

LEMMA NextInv == Inv /\ [Next]_hourlyVars => Inv'
<1> SUFFICES ASSUME Inv, [Next]_hourlyVars PROVE Inv'
  OBVIOUS
<1>0. TypeOK' /\ run \in [Runs -> Threads]
  BY NextType DEF Inv, TypeOK, Threads
<1>1. ASSUME NEW c \in Concepts, Record(c)
      PROVE  Inv'
  BY <1>0, <1>1, RecordStep
<1>2. CASE Tick
  <2>1. \A r \in Active' : r \in Active /\ run'[r] = run[r]
    BY <1>2 DEF Tick, Active
  <2>2. UNCHANGED <<events, site>> /\ now' = now + 1
    BY <1>2 DEF Tick
  <2>3. QED
    BY <1>0, <2>1, <2>2, QuietStep
<1>3. ASSUME NEW r \in Runs, NEW i \in Insts, Start(r, i)
      PROVE  Inv'
  BY <1>0, <1>3, StartStep
<1>4. ASSUME NEW r \in Runs, EndOfRun(r) \/ RunFails(r)
      PROVE  Inv'
  <2>1. run' = [run EXCEPT ![r] = Idle] /\ UNCHANGED <<now, events, site>>
    BY <1>4 DEF EndOfRun, RunFails
  <2>2. \A q \in Active' : q \in Active /\ run'[q] = run[q]
    BY <1>0, <2>1 DEF Active, Idle
  <2>3. QED
    BY <1>0, <2>1, <2>2, QuietStep
<1>5. ASSUME NEW r \in Runs, Read(r)
      PROVE  Inv'
  <2>0. run[r].hour \in Nat /\ run[r].last \in Nat /\ now \in Nat
    BY TypesAreNumbers DEF Inv, Numbers
  <2>1. r \in Active /\ run[r].hour <= now
    BY <1>5, <2>0 DEF Read, TooEarly, Active, Inv, InTime
  <2>2. /\ run' = [run EXCEPT ![r] = [run[r] EXCEPT !.pc = "count", !.anas = events[run[r].hour]]]
        /\ UNCHANGED <<now, events, site>>
    BY <1>5 DEF Read
  <2>3. \A q \in Active' :
          /\ q \in Active /\ run'[q].hour = run[q].hour
          /\ run'[q].first = run[q].first /\ run'[q].last = run[q].last
          /\ run'[q].pc = "count" => run[q].pc = "count" \/ run[q].hour <= now
    BY <1>0, <2>1, <2>2 DEF Active, Threads
  <2>4. QED
    BY <1>0, <2>2, <2>3, QuietStep
<1>6. ASSUME NEW r \in Runs, Count(r)
      PROVE  Inv'
  <2>1. r \in Active
    BY <1>6 DEF Count, Active
  <2>2. /\ run' = [run EXCEPT ![r] = [run[r] EXCEPT !.done = run[r].done + 1]]
        /\ UNCHANGED <<now, events, site>>
    BY <1>6 DEF Count
  <2>3. \A q \in Active' :
          /\ q \in Active /\ run'[q].hour = run[q].hour /\ run'[q].pc = run[q].pc
          /\ run'[q].first = run[q].first /\ run'[q].last = run[q].last
    BY <1>0, <2>1, <2>2 DEF Active, Threads
  <2>4. QED
    BY <1>0, <2>2, <2>3, QuietStep
<1>7. ASSUME NEW r \in Runs, Put(r)
      PROVE  Inv'
  <2>1. PutOf(r, TRUE, Held(art_ana_stats[run[r].inst]), OrgHeld(run[r].inst))
    BY <1>7 DEF Put
  <2>2. Counted(r) /\ UNCHANGED <<now, events>>
    BY <1>7 DEF Put
  <2>3. \A q \in Runs : q # r => run'[q] = run[q]
    BY <1>0, <1>7 DEF Put
  <2>4. CASE LastOfFirst(r)
    <3>1. run'[r].pc = "idle"
      BY <1>0, <1>7, <2>4 DEF Put, Idle
    <3>2. QED
      BY <1>0, <2>1, <2>2, <2>3, <3>1, StoreStep
  <2>5. CASE ~LastOfFirst(r)
    <3>1. run'[r] = [run[r] EXCEPT !.pc = "read", !.hour = run[r].hour + 1,
                                   !.anas = <<>>, !.done = 0]
      BY <1>0, <1>7, <2>5 DEF Put
    <3>2. /\ run'[r].pc = "read" /\ run'[r].hour = run[r].hour + 1
          /\ run'[r].first = run[r].first /\ run'[r].last = run[r].last
      BY <1>0, <3>1 DEF Threads
    <3>3. QED
      BY <1>0, <2>1, <2>2, <2>3, <2>5, <3>2, StoreStep
  <2>6. QED
    BY <2>4, <2>5
<1>8. ASSUME NEW r \in Runs, PutFails(r)
      PROVE  Inv'
  <2>1. PICK ofSite \in BOOLEAN, puts \in SUBSET Held(art_ana_stats[run[r].inst]),
             orgs \in SUBSET OrgHeld(run[r].inst) : PutOf(r, ofSite, puts, orgs)
    BY <1>8 DEF PutFails
  <2>2. Counted(r) /\ UNCHANGED <<now, events>>
    BY <1>8 DEF PutFails
  <2>3. run'[r].pc = "idle" /\ \A q \in Runs : q # r => run'[q] = run[q]
    BY <1>0, <1>8 DEF PutFails, Idle
  <2>4. QED
    BY <1>0, <2>1, <2>2, <2>3, StoreStep
<1>9. ASSUME NEW i \in Insts, Stop(i)
      PROVE  Inv'
  <2>1. \A q \in Active' : q \in Active /\ run'[q] = run[q]
    BY <1>9 DEF Stop, Active, Idle
  <2>2. UNCHANGED <<now, events, site>>
    BY <1>9 DEF Stop
  <2>3. QED
    BY <1>0, <2>1, <2>2, QuietStep
<1>10. CASE UNCHANGED hourlyVars
  <2>1. UNCHANGED <<now, events, site, run>>
    BY <1>10 DEF hourlyVars
  <2>2. \A q \in Active' : q \in Active /\ run'[q] = run[q]
    BY <2>1 DEF Active
  <2>3. QED
    BY <1>0, <2>1, <2>2, QuietStep
<1>11. QED
  BY <1>1, <1>2, <1>3, <1>4, <1>5, <1>6, <1>7, <1>8, <1>9, <1>10 DEF Next, Go

LEMMA SpecInv == Spec => []Inv
<1>1. QED
  BY InitInv, NextInv, PTL DEF Spec

(* Every state is well formed.                                             *)
THEOREM TypesHold == Spec => []TypeOK
<1>1. Inv => TypeOK
  BY DEF Inv
<1>2. QED
  BY <1>1, SpecInv, PTL

(* Whatever runs overlap, fail or stop with their instance, no hour between *)
(* the first event and a stored stat (_process_hourly_analytics) is skipped. *)
THEOREM NoHourEverSkipped == Spec => []NoHourSkipped
<1>1. Inv => NoHourSkipped
  <2> SUFFICES ASSUME Inv, NEW h \in Closed, NEW k \in Hours, k < h,
                      NEW e \in 0..k, events[e] # <<>>
               PROVE  k \in Closed
    BY DEF NoHourSkipped
  <2>1. h \in Hours /\ k \in Nat /\ k <= MaxHour
    BY TypesAreNumbers DEF Inv, Numbers, Closed
  <2>2. e \in Hours /\ e <= k
    BY <2>1, HourlyAssumption DEF Hours
  <2>3. Caught(h)
    BY DEF Inv, ClosedInOrder
  <2>4. QED
    BY <2>2, <2>3 DEF Caught, Began
<1>2. QED
  BY <1>1, SpecInv, PTL

-----------------------------------------------------------------------------
(* The refinement: a put that stores the site's stat closes an hour or      *)
(* appends to the stat of a closed one, everything else is unseen.          *)

LEMMA StoreIsClose ==
  ASSUME Inv, NEW r \in Runs, Counted(r), NEW ofSite \in BOOLEAN,
         NEW puts, NEW orgs, PutOf(r, ofSite, puts, orgs), UNCHANGED now
  PROVE  [Ledger!Next]_(<<now, Closed>>)
<1> DEFINE h == run[r].hour
<1>0. Numbers /\ TypeOK
  BY TypesAreNumbers DEF Inv
<1>1. h \in Hours /\ h <= now /\ r \in Active /\ Began(h) /\ Caught(h)
  BY HourCounted DEF Inv, InTime, Active, Counted, RunsInOrder
<1>2. Closed' = IF ofSite THEN Closed \cup {h} ELSE Closed
  BY <1>0, <1>1, PutCloses
<1>3. CASE ~ofSite \/ h \in Closed
  BY <1>2, <1>3
<1>4. CASE ofSite /\ h \notin Closed
  <2>1. h \in 0..now \ Closed
    BY <1>0, <1>1, <1>4 DEF Numbers
  <2>2. ASSUME NEW c \in Closed
        PROVE  h > 0 /\ h - 1 \in Closed
    <3>1. Began(c) /\ Caught(c) /\ c \in Hours /\ c \in Nat /\ h \in Nat
      BY <1>0, <1>1 DEF Inv, ClosedInOrder, Closed, Numbers
    <3>2. c < h
      <4>1. ~(h < c)
        BY <1>1, <1>4, <3>1 DEF Caught
      <4>2. h # c
        BY <1>4
      <4>3. QED
        BY <3>1, <4>1, <4>2
    <3>3. h > 0 /\ h - 1 \in Hours /\ c <= h - 1 /\ h - 1 < h
      BY <1>1, <3>1, <3>2, HourlyAssumption DEF Hours
    <3>4. Began(h - 1)
      BY <3>1, <3>3, <1>0 DEF Began, Numbers
    <3>5. QED
      BY <1>1, <3>3, <3>4 DEF Caught
  <2>3. Ledger!Close(h)
    BY <1>2, <1>4, <2>1, <2>2 DEF Ledger!Close
  <2>4. h \in 0..now
    BY <2>1
  <2>5. QED
    BY <2>3, <2>4 DEF Ledger!Next
<1>5. QED
  BY <1>3, <1>4

(* Runs that overlap, are repeated or stop half way close the hours as the  *)
(* ledger says.                                                             *)
THEOREM KeepsTheLedger == Spec => LedgerSpec
<1>1. Init => Ledger!Init
  BY DEF Init, Closed, Ledger!Init
<1>2. ASSUME Inv, [Next]_hourlyVars
      PROVE  [Ledger!Next]_(<<now, Closed>>)
  <2>1. CASE Tick
    <3>1. Closed' = Closed
      BY <2>1 DEF Tick, Closed
    <3>2. Ledger!Tick
      BY <2>1, <3>1 DEF Tick, Ledger!Tick
    <3>3. QED
      BY <3>2 DEF Ledger!Next
  <2>2. ASSUME NEW r \in Runs, Put(r)
        PROVE  [Ledger!Next]_(<<now, Closed>>)
    <3>1. PutOf(r, TRUE, Held(art_ana_stats[run[r].inst]), OrgHeld(run[r].inst))
      BY <2>2 DEF Put
    <3>2. Counted(r) /\ UNCHANGED now
      BY <2>2 DEF Put
    <3>3. QED
      BY <1>2, <3>1, <3>2, StoreIsClose
  <2>3. ASSUME NEW r \in Runs, PutFails(r)
        PROVE  [Ledger!Next]_(<<now, Closed>>)
    <3>1. PICK ofSite \in BOOLEAN, puts \in SUBSET Held(art_ana_stats[run[r].inst]),
               orgs \in SUBSET OrgHeld(run[r].inst) : PutOf(r, ofSite, puts, orgs)
      BY <2>3 DEF PutFails
    <3>2. Counted(r) /\ UNCHANGED now
      BY <2>3 DEF PutFails
    <3>3. QED
      BY <1>2, <3>1, <3>2, StoreIsClose
  <2>4. ASSUME UNCHANGED <<now, site>>
        PROVE  [Ledger!Next]_(<<now, Closed>>)
    BY <2>4 DEF Closed
  <2>5. ASSUME NEW r \in Runs, NEW i \in Insts, Start(r, i)
        PROVE  UNCHANGED <<now, site>>
    BY <2>5 DEF Start, StartFirst, StartNext, Begin
  <2>6. ASSUME NEW r \in Runs, EndOfRun(r) \/ Read(r) \/ Count(r) \/ RunFails(r)
        PROVE  UNCHANGED <<now, site>>
    BY <2>6 DEF EndOfRun, Read, Count, RunFails
  <2>7. ASSUME (\E c \in Concepts : Record(c)) \/ (\E i \in Insts : Stop(i))
               \/ UNCHANGED hourlyVars
        PROVE  UNCHANGED <<now, site>>
    BY <2>7 DEF Record, Stop, hourlyVars
  <2>8. QED
    BY <1>2, <2>1, <2>2, <2>3, <2>4, <2>5, <2>6, <2>7 DEF Next, Go
<1>3. QED
  BY <1>1, <1>2, SpecInv, PTL DEF Spec, LedgerSpec, Ledger!Spec, Ledger!ledgerVars
-----------------------------------------------------------------------------
(* The clean hours. A thread that counts one is alone and counts what the   *)
(* hour's events are; the strengthening says what the totals of the hour    *)
(* are, in the datastore and in every dictionary: nothing before it is      *)
(* counted, the events counted so far while it is, and the same in both     *)
(* afterwards, so that later puts of what is still held change nothing.     *)

Counts(r, h) == run[r].pc = "count" /\ run[r].hour = h
CountTo(c, anas, n) == Cardinality({i \in 1..n : anas[i] = c})

Ready ==
  \A r \in Runs : /\ run[r].pc = "read" => run[r].done = 0
                  /\ run[r].pc = "count" => run[r].done <= Len(run[r].anas)
Behind == \A r \in Active : \A h \in Closed \ unclean : h < run[r].hour
CountsAlone ==
  \A r \in Runs : run[r].pc = "count" /\ run[r].hour \notin unclean =>
    /\ Active = {r} /\ run[r].hour < now /\ run[r].anas = events[run[r].hour]
Ended == \A h \in Closed \ unclean : h < now

Order == Ready /\ Behind /\ CountsAlone /\ Ended

Unheld(i, h) ==
  org_ana_stats[i][h] = 0 /\ \A c \in Concepts : art_ana_stats[i][<<h, c>>].touch = 0
TotalOf(i, k) == IF art_ana_stats[i][k].touch > 0 THEN art_ana_stats[i][k].total ELSE con[k]

Untouched(h) ==
  /\ org[h] = 0
  /\ \A c \in Concepts : con[<<h, c>>] = 0
  /\ \A i \in Insts : Unheld(i, h)
UnderWay(h, r) ==
  /\ org[h] = 0
  /\ org_ana_stats[run[r].inst][h] = run[r].done
  /\ \A c \in Concepts :
       TotalOf(run[r].inst, <<h, c>>) = CountTo(c, events[h], run[r].done)
  /\ \A i \in Insts \ {run[r].inst} : Unheld(i, h)
Settled(h) ==
  /\ site[h] = <<Len(events[h])>>
  /\ org[h] = Len(events[h])
  /\ \A c \in Concepts : con[<<h, c>>] = CountTo(c, events[h], Len(events[h]))
  /\ \A i \in Insts : /\ org_ana_stats[i][h] \in {0, org[h]}
                      /\ \A c \in Concepts : TotalOf(i, <<h, c>>) = con[<<h, c>>]

HourExact(h) ==
  IF h \in Closed THEN Settled(h)
  ELSE /\ \A r \in Runs : Counts(r, h) => UnderWay(h, r)
       /\ (\A r \in Runs : ~Counts(r, h)) => Untouched(h)

Books == Order /\ \A h \in Hours \ unclean : HourExact(h)

(* Counting the events of a concept, one more at a time.                    *)
LEMMA CountOne ==
  ASSUME NEW s, NEW n \in Nat, NEW c
  PROVE  /\ CountTo(c, s, 0) = 0
         /\ CountTo(c, s, n) \in Nat
         /\ CountTo(c, s, n + 1) = IF s[n + 1] = c THEN CountTo(c, s, n) + 1 ELSE CountTo(c, s, n)
<1> DEFINE upTo == {i \in 1..n : s[i] = c}
<1>1. CountTo(c, s, 0) = 0
  <2>1. {i \in 1..0 : s[i] = c} = {}
    OBVIOUS
  <2>2. QED
    BY <2>1, FS_EmptySet DEF CountTo
<1>2. IsFiniteSet(upTo)
  <2>1. IsFiniteSet(1..n)
    BY FS_Interval
  <2>2. QED
    BY <2>1, FS_Subset
<1>3. Cardinality(upTo) \in Nat
  BY <1>2, FS_CardinalityType
<1>4. CASE s[n + 1] = c
  <2>1. {i \in 1..n + 1 : s[i] = c} = upTo \cup {n + 1} /\ n + 1 \notin upTo
    BY <1>4
  <2> HIDE DEF upTo
  <2>2. Cardinality(upTo \cup {n + 1}) = Cardinality(upTo) + 1
    BY <1>2, <2>1, FS_AddElement
  <2>3. QED
    BY <1>1, <1>3, <1>4, <2>1, <2>2 DEF CountTo, upTo
<1>5. CASE s[n + 1] # c
  <2>1. {i \in 1..n + 1 : s[i] = c} = upTo
    BY <1>5
  <2>2. QED
    BY <1>1, <1>3, <1>5, <2>1 DEF CountTo
<1>6. QED
  BY <1>4, <1>5

(* A step that, of an hour, only stores or drops what is held of it.        *)
Flushed(h) ==
  /\ site'[h] = site[h]
  /\ org'[h] = org[h] \/ \E i \in Insts : org_ana_stats[i][h] > 0 /\ org'[h] = org_ana_stats[i][h]
  /\ \A c \in Concepts :
       \/ con'[<<h, c>>] = con[<<h, c>>]
       \/ \E i \in Insts : /\ art_ana_stats[i][<<h, c>>].touch > 0
                           /\ con'[<<h, c>>] = art_ana_stats[i][<<h, c>>].total
  /\ \A i \in Insts : org_ana_stats'[i][h] \in {0, org_ana_stats[i][h]}
  /\ \A i \in Insts, c \in Concepts :
       art_ana_stats'[i][<<h, c>>] \in {Absent, art_ana_stats[i][<<h, c>>]}

LEMMA FlushedStays ==
  ASSUME TypeOK, NEW h \in Hours, HourExact(h), Flushed(h),
         \A r \in Runs : ~Counts(r, h) /\ ~Counts(r, h)',
         h \in Closed => events'[h] = events[h]
  PROVE  HourExact(h)'
<1>1. h \in Closed' <=> h \in Closed
  BY DEF Closed, Flushed
<1>2. CASE h \in Closed
  <2>1. Settled(h)
    BY <1>2 DEF HourExact
  <2>2. \A c \in Concepts : con'[<<h, c>>] = con[<<h, c>>]
    BY <2>1 DEF Settled, TotalOf, Flushed
  <2>3. org'[h] = org[h]
    <3>1. org[h] \in Nat /\ \A i \in Insts : org_ana_stats[i][h] \in {0, org[h]}
      BY <2>1 DEF Settled, TypeOK
    <3>2. QED
      BY <3>1 DEF Flushed
  <2>4. \A i \in Insts, c \in Concepts : TotalOf(i, <<h, c>>)' = con'[<<h, c>>]
    BY <2>1, <2>2 DEF Settled, TotalOf, Flushed, Absent
  <2>5. \A i \in Insts : org_ana_stats'[i][h] \in {0, org'[h]}
    BY <2>1, <2>3 DEF Settled, Flushed
  <2>6. site'[h] = site[h] /\ events'[h] = events[h]
    BY <1>2 DEF Flushed
  <2>7. Settled(h)'
    BY <2>1, <2>2, <2>3, <2>4, <2>5, <2>6 DEF Settled
  <2>8. QED
    BY <1>1, <1>2, <2>7 DEF HourExact
<1>3. CASE h \notin Closed
  <2>1. Untouched(h)
    BY <1>3 DEF HourExact
  <2>2. Untouched(h)'
    BY <2>1 DEF Untouched, Unheld, Flushed, Absent
  <2>3. QED
    BY <1>1, <1>3, <2>2 DEF HourExact
<1>4. QED
  BY <1>2, <1>3

(* A step that leaves the count of an hour as it is, whatever it does to    *)
(* other instances.                                                        *)
LEMMA CountStays ==
  ASSUME NEW h \in Hours, NEW r \in Runs, run'[r] = run[r], UnderWay(h, r), Flushed(h),
         events'[h] = events[h], run[r].inst \in Insts,
         org'[h] = org[h], \A c \in Concepts : con'[<<h, c>>] = con[<<h, c>>],
         org_ana_stats'[run[r].inst] = org_ana_stats[run[r].inst],
         art_ana_stats'[run[r].inst] = art_ana_stats[run[r].inst]
  PROVE  UnderWay(h, r)'
<1>1. \A i \in Insts \ {run[r].inst} : Unheld(i, h)'
  BY DEF UnderWay, Unheld, Flushed, Absent
<1>2. \A c \in Concepts : TotalOf(run[r].inst, <<h, c>>)' = TotalOf(run[r].inst, <<h, c>>)
  BY DEF TotalOf
<1>3. QED
  BY <1>1, <1>2 DEF UnderWay

(* Who counts a clean hour finds it open and nobody else at work.           *)
LEMMA CleanCount ==
  ASSUME TypeOK, Order, NEW r \in Runs, NEW h \in Hours \ unclean, Counts(r, h)
  PROVE  h \notin Closed /\ Active = {r} /\ h < now /\ run[r].anas = events[h]
<1>1. Active = {r} /\ h < now /\ run[r].anas = events[h]
  BY DEF Order, CountsAlone, Counts
<1>2. ASSUME h \in Closed PROVE FALSE
  <2>1. h < run[r].hour
    BY <1>1, <1>2 DEF Order, Behind
  <2>2. QED
    BY <2>1, TypesAreNumbers DEF Counts, Numbers
<1>3. QED
  BY <1>1, <1>2

LEMMA InitBooks == Init => Books
<1> SUFFICES ASSUME Init PROVE Books
  OBVIOUS
<1>1. Active = {} /\ Closed = {} /\ \A r \in Runs : run[r].pc = "idle"
  BY DEF Init, Active, Closed, Idle
<1>2. Order
  BY <1>1 DEF Order, Ready, Behind, CountsAlone, Ended
<1>3. ASSUME NEW h \in Hours PROVE HourExact(h)
  <2>1. \A c \in Concepts : <<h, c>> \in Keys
    BY DEF Keys
  <2>2. Untouched(h)
    BY <2>1 DEF Init, Untouched, Unheld, Absent
  <2>3. QED
    BY <1>1, <2>2 DEF HourExact, Counts
<1>4. QED
  BY <1>2, <1>3 DEF Books

(* Steps after which a thread is at work only where it was before, that     *)
(* close no clean hour and move the clock forward if at all.                *)
LEMMA OrderKept ==
  ASSUME Inv, Order, unclean \subseteq unclean', Closed' \ unclean' \subseteq Closed,
         now' \in Nat, now <= now',
         \A h \in Hours : h < now => events'[h] = events[h],
         \A r \in Runs : run'[r].pc = "idle" \/ run'[r] = run[r]
  PROVE  Order'
<1>0. Numbers /\ now \in Nat
  BY TypesAreNumbers DEF Inv, Numbers
<1>1. Active' \subseteq Active /\ \A r \in Active' : run'[r] = run[r]
  BY DEF Active
<1>2. Ready'
  BY DEF Order, Ready
<1>3. Behind'
  BY <1>1 DEF Order, Behind
<1>4. CountsAlone'
  <2> SUFFICES ASSUME NEW r \in Runs, run'[r].pc = "count", run'[r].hour \notin unclean'
               PROVE  /\ Active' = {r} /\ run'[r].hour < now'
                      /\ run'[r].anas = events'[run'[r].hour]
    BY DEF CountsAlone
  <2>1. run'[r] = run[r] /\ r \in Active'
    BY DEF Active
  <2>2. Active = {r} /\ run[r].hour < now /\ run[r].anas = events[run[r].hour]
    BY <2>1 DEF Order, CountsAlone
  <2>3. run[r].hour \in Hours
    BY <2>1, HourCounted DEF Inv, InTime, Active
  <2>4. run[r].hour < now'
    BY <1>0, <2>2 DEF Numbers
  <2>5. QED
    BY <1>1, <2>1, <2>2, <2>3, <2>4
<1>5. Ended'
  <2> SUFFICES ASSUME NEW h \in Closed' \ unclean' PROVE h < now'
    BY DEF Ended
  <2>1. h < now /\ h \in Hours
    BY DEF Order, Ended, Closed
  <2>2. QED
    BY <1>0, <2>1 DEF Numbers
<1>6. QED
  BY <1>2, <1>3, <1>4, <1>5 DEF Order

(* A thread starts after all closed hours, and what others count is not     *)
(* clean any more.                                                          *)
LEMMA StartOrder ==
  ASSUME Inv, Inv', Order, NEW r \in Runs, NEW i \in Insts, Start(r, i)
  PROVE  Order' /\ \A q \in Runs, h \in Hours \ unclean' : ~Counts(q, h) /\ ~Counts(q, h)'
<1>0. Numbers /\ run \in [Runs -> Threads]
  BY TypesAreNumbers DEF Inv, Numbers, TypeOK, Threads
<1>1. PICK thread : /\ Begin(r, thread) /\ thread.pc = "read" /\ thread.done = 0
                    /\ \A h \in Closed : h < thread.hour
  <2>1. CASE StartFirst(r, i)
    <3>1. PICK f, l \in Hours : Begin(r, [Idle EXCEPT !.pc = "read", !.inst = i, !.hour = f,
                                !.first = TRUE, !.last = l, !.asOf = now])
      BY <2>1 DEF StartFirst
    <3> DEFINE first == [Idle EXCEPT !.pc = "read", !.inst = i, !.hour = f,
                                     !.first = TRUE, !.last = l, !.asOf = now]
    <3>2. Closed = {} /\ first.pc = "read" /\ first.done = 0
      BY <2>1 DEF StartFirst, Idle
    <3>3. Begin(r, first)
      BY <3>1
    <3> HIDE DEF first
    <3>4. QED
      BY <3>2, <3>3
  <2>2. CASE StartNext(r, i)
    <3>1. PICK l \in Closed : /\ \A h \in Closed : h <= l
                              /\ Begin(r, [Idle EXCEPT !.pc = "read", !.inst = i, !.hour = l + 1])
      BY <2>2 DEF StartNext
    <3> DEFINE next == [Idle EXCEPT !.pc = "read", !.inst = i, !.hour = l + 1]
    <3>2. \A h \in Closed : h < l + 1
      BY <1>0, <3>1 DEF Numbers, Closed
    <3>3. next.pc = "read" /\ next.done = 0 /\ next.hour = l + 1 /\ Begin(r, next)
      BY <3>1 DEF Idle
    <3> HIDE DEF next
    <3>4. QED
      BY <3>2, <3>3
  <2>3. QED
    BY <2>1, <2>2 DEF Start
<1>2. /\ run'[r] = thread /\ \A q \in Runs : q # r => run'[q] = run[q]
      /\ unclean' = unclean \cup {run[q].hour : q \in Active}
      /\ UNCHANGED <<now, events, site>>
  BY <1>0, <1>1 DEF Begin
<1>3. Closed' = Closed
  BY <1>2 DEF Closed
<1>4. \A q \in Runs : run'[q].pc = "count" => q # r /\ q \in Active /\ run'[q].hour \in unclean'
  BY <1>1, <1>2 DEF Active
<1>5. run[r].pc = "idle"
  BY DEF Start, StartFirst, StartNext
<1>6. \A q \in Active' : q = r \/ (q \in Active /\ run'[q] = run[q])
  BY <1>2 DEF Active
<1>7. Ready'
  BY <1>1, <1>2 DEF Order, Ready
<1>8. Behind'
  BY <1>1, <1>2, <1>3, <1>6 DEF Order, Behind
<1>9. CountsAlone' /\ Ended'
  BY <1>2, <1>3, <1>4 DEF Order, CountsAlone, Ended
<1>10. ASSUME NEW q \in Runs, NEW h \in Hours \ unclean'
       PROVE  ~Counts(q, h) /\ ~Counts(q, h)'
  BY <1>2, <1>4 DEF Counts, Active
<1>11. QED
  BY <1>7, <1>8, <1>9, <1>10 DEF Order

(* A thread that reads a clean hour is alone, and the hour is untouched.    *)
LEMMA ReadOrder ==
  ASSUME Inv, Inv', Order, NEW r \in Runs, Read(r)
  PROVE  Order'
<1>0. Numbers /\ run \in [Runs -> Threads]
  BY TypesAreNumbers DEF Inv, Numbers, TypeOK, Threads
<1>1. run' = [run EXCEPT ![r] = [run[r] EXCEPT !.pc = "count", !.anas = events[run[r].hour]]]
  BY DEF Read
<1>2. /\ run'[r].pc = "count" /\ run'[r].anas = events[run[r].hour]
      /\ run'[r].hour = run[r].hour /\ run'[r].done = run[r].done
      /\ run'[r].first = run[r].first /\ run'[r].last = run[r].last
      /\ \A q \in Runs : q # r => run'[q] = run[q]
  BY <1>0, <1>1 DEF Threads
<1>3. /\ run[r].pc = "read" /\ UNCHANGED <<now, events, site>>
      /\ unclean' = unclean \cup (IF Active # {r} \/ run[r].hour >= now THEN {run[r].hour} ELSE {})
  BY DEF Read
<1>4. Closed' = Closed /\ Active' = Active /\ unclean \subseteq unclean'
  BY <1>2, <1>3 DEF Closed, Active
<1>5. Ready'
  <2>1. run[r].done = 0 /\ run'[r].anas \in Seq(Concepts)
    BY <1>3, <1>2 DEF Order, Ready, Inv, TypeOK
  <2>2. Len(run'[r].anas) \in Nat
    BY <2>1
  <2>3. QED
    BY <1>2, <2>1, <2>2 DEF Order, Ready
<1>6. Behind'
  <2>1. \A q \in Runs : run'[q].hour = run[q].hour
    BY <1>2
  <2>2. QED
    BY <1>4, <2>1 DEF Order, Behind, Active
<1>7. CountsAlone'
  <2> SUFFICES ASSUME NEW q \in Runs, run'[q].pc = "count", run'[q].hour \notin unclean'
               PROVE  /\ Active' = {q} /\ run'[q].hour < now'
                      /\ run'[q].anas = events'[run'[q].hour]
    BY DEF CountsAlone
  <2>1. CASE q = r
    BY <1>0, <1>2, <1>3, <1>4, <2>1 DEF Numbers
  <2>2. CASE q # r
    <3>1. Active = {q}
      BY <1>2, <1>4, <2>2 DEF Order, CountsAlone
    <3>2. r \in Active
      BY <1>3 DEF Active
    <3>3. QED
      BY <2>2, <3>1, <3>2
  <2>3. QED
    BY <2>1, <2>2
<1>8. Ended'
  BY <1>3, <1>4 DEF Order, Ended
<1>9. QED
  BY <1>5, <1>6, <1>7, <1>8 DEF Order

LEMMA CountOrder ==
  ASSUME Inv, Inv', Order, NEW r \in Runs, Count(r)
  PROVE  Order'
<1>0. Numbers /\ run \in [Runs -> Threads]
  BY TypesAreNumbers DEF Inv, Numbers, TypeOK, Threads
<1>1. run' = [run EXCEPT ![r] = [run[r] EXCEPT !.done = run[r].done + 1]]
  BY DEF Count
<1>2. /\ run'[r].pc = run[r].pc /\ run'[r].anas = run[r].anas
      /\ run'[r].hour = run[r].hour /\ run'[r].done = run[r].done + 1
      /\ \A q \in Runs : q # r => run'[q] = run[q]
  BY <1>0, <1>1 DEF Threads
<1>3. /\ run[r].pc = "count" /\ run[r].done < Len(run[r].anas)
      /\ UNCHANGED <<now, events, site, unclean>>
  BY DEF Count
<1>4. Closed' = Closed /\ Active' = Active
  BY <1>2, <1>3 DEF Closed, Active
<1>5. Ready'
  <2>1. run[r].done \in Nat /\ run[r].anas \in Seq(Concepts)
    BY <1>0 DEF Threads
  <2>2. Len(run[r].anas) \in Nat
    BY <2>1
  <2>3. QED
    BY <1>2, <1>3, <2>1, <2>2 DEF Order, Ready
<1>6. Behind' /\ CountsAlone' /\ Ended'
  <2>1. \A q \in Runs : /\ run'[q].hour = run[q].hour /\ run'[q].pc = run[q].pc
                        /\ run'[q].anas = run[q].anas
    BY <1>2
  <2>2. QED
    BY <1>3, <1>4, <2>1 DEF Order, Behind, CountsAlone, Ended, Active
<1>7. QED
  BY <1>5, <1>6 DEF Order

(* A put closes the hour of its thread, and the thread is past it.          *)
LEMMA PutOrder ==
  ASSUME Inv, Inv', Order, NEW r \in Runs, Put(r)
  PROVE  Order' /\ run'[r].pc # "count" /\ \A q \in Runs : q # r => run'[q] = run[q]
<1>0. Numbers /\ run \in [Runs -> Threads]
  BY TypesAreNumbers DEF Inv, Numbers, TypeOK, Threads
<1>1. /\ run[r].pc = "count" /\ UNCHANGED <<now, events, unclean>> /\ r \in Active
      /\ \A q \in Runs : q # r => run'[q] = run[q]
  BY <1>0 DEF Put, Counted, Active
<1>2. \/ run'[r].pc = "idle"
      \/ run'[r].pc = "read" /\ run'[r].hour = run[r].hour + 1 /\ run'[r].done = 0
  <2>1. CASE LastOfFirst(r)
    BY <1>0, <2>1 DEF Put, Idle
  <2>2. CASE ~LastOfFirst(r)
    <3>1. run'[r] = [run[r] EXCEPT !.pc = "read", !.hour = run[r].hour + 1,
                                   !.anas = <<>>, !.done = 0]
      BY <1>0, <2>2 DEF Put
    <3>2. QED
      BY <1>0, <3>1 DEF Threads
  <2>3. QED
    BY <2>1, <2>2
<1>3. run[r].hour \in Hours
  BY <1>1, HourCounted DEF Inv, InTime
<1>4. Closed' = Closed \cup {run[r].hour}
  BY <1>3, PutCloses DEF Put, Held, OrgHeld, Inv
<1>5. \A q \in Active' : q \in Active
  BY <1>1 DEF Active
<1>6. Ready'
  BY <1>1, <1>2 DEF Order, Ready
<1>7. Behind'
  <2> SUFFICES ASSUME NEW q \in Active', NEW h \in Closed' \ unclean
               PROVE  h < run'[q].hour
    BY <1>1 DEF Behind
  <2>1. CASE h = run[r].hour
    <3>1. Active = {r}
      BY <1>1, <2>1 DEF Order, CountsAlone
    <3>2. q = r
      BY <1>5, <3>1
    <3>3. QED
      BY <1>0, <1>2, <2>1, <3>2 DEF Numbers, Active
  <2>2. CASE h # run[r].hour
    <3>1. h \in Closed /\ h \in Hours
      BY <1>4, <2>2 DEF Closed
    <3>2. h < run[q].hour
      BY <1>5, <3>1 DEF Order, Behind
    <3>3. run'[q].hour = run[q].hour \/ run'[q].hour = run[q].hour + 1
      BY <1>1, <1>2 DEF Active
    <3>4. QED
      BY <1>0, <1>5, <3>1, <3>2, <3>3 DEF Numbers, Active
  <2>3. QED
    BY <2>1, <2>2
<1>8. CountsAlone'
  <2> SUFFICES ASSUME NEW q \in Runs, run'[q].pc = "count", run'[q].hour \notin unclean'
               PROVE  FALSE
    BY DEF CountsAlone
  <2>1. q # r /\ run'[q] = run[q]
    BY <1>1, <1>2
  <2>2. Active = {q}
    BY <1>1, <2>1 DEF Order, CountsAlone
  <2>3. QED
    BY <1>1, <2>1, <2>2
<1>9. Ended'
  BY <1>1, <1>4 DEF Order, Ended, CountsAlone
<1>10. QED
  BY <1>1, <1>2, <1>6, <1>7, <1>8, <1>9 DEF Order

(* The count of one event, in the dictionary or through a drop that stores. *)
LEMMA CountHour ==
  ASSUME TypeOK, NEW r \in Runs, Count(r), NEW h \in Hours, run[r].hour = h,
         run[r].anas = events[h], UnderWay(h, r)
  PROVE  UnderWay(h, r)'
<1> DEFINE t == run[r]
           dict == art_ana_stats[t.inst]
           k == <<t.hour, t.anas[t.done + 1]>>
           e == Entry(dict, k)
           added == [dict EXCEPT ![k] = [total |-> e.total + 1, touch |-> e.touch + 1]]
<1>0. run[r] \in Threads /\ run \in [Runs -> Threads]
  BY DEF TypeOK, Threads
<1>1. /\ run'[r].inst = t.inst /\ run'[r].done = t.done + 1 /\ t.inst \in Insts /\ t.done \in Nat
      /\ UNCHANGED <<events, org>>
      /\ org_ana_stats' = [org_ana_stats EXCEPT ![t.inst][h] = @ + 1]
  BY <1>0 DEF Count, Threads
<1>2. events[h][t.done + 1] \in Concepts
  <2>1. events[h] \in Seq(Concepts) /\ t.done < Len(events[h])
    BY DEF TypeOK, Count
  <2>2. t.done + 1 \in 1..Len(events[h])
    BY <1>1, <2>1
  <2> HIDE DEF t
  <2>3. QED
    BY <2>1, <2>2
<1>a. k = <<h, events[h][t.done + 1]>>
  OBVIOUS
<1>3. k \in Keys /\ dict \in Dict /\ \A c \in Concepts : <<h, c>> \in Keys
  BY <1>1, <1>2, <1>a DEF Keys, TypeOK, Dict
<1>4. e.total = TotalOf(t.inst, k) /\ e.touch \in Nat
  BY <1>3 DEF Entry, TotalOf, Held, Dict
<1>5. \A x \in Keys :
        /\ x # k => added[x] = dict[x]
        /\ added[k].total = e.total + 1 /\ added[k].touch > 0
  BY <1>3, <1>4 DEF Dict
<1>6. \/ /\ con' = con
         /\ art_ana_stats' = [art_ana_stats EXCEPT ![t.inst] = added]
      \/ \E gone \in SUBSET Held(added) :
           /\ con' = Saved(added, gone)
           /\ art_ana_stats' = [art_ana_stats EXCEPT ![t.inst] =
                [x \in Keys |-> IF x \in gone THEN Absent ELSE added[x]]]
  BY DEF Count
<1> HIDE DEF added, e, dict
<1>7. art_ana_stats \in [Insts -> Dict] /\ org_ana_stats \in [Insts -> [Hours -> Nat]]
  BY DEF TypeOK, Dict
<1>8. \A x \in Keys : TotalOf(t.inst, x)' = IF x = k THEN TotalOf(t.inst, x) + 1 ELSE TotalOf(t.inst, x)
  <2> SUFFICES ASSUME NEW x \in Keys
               PROVE  TotalOf(t.inst, x)' = IF x = k THEN TotalOf(t.inst, x) + 1 ELSE TotalOf(t.inst, x)
    OBVIOUS
  <2>1. IF added[x].touch > 0
        THEN added[x].total = IF x = k THEN TotalOf(t.inst, x) + 1 ELSE TotalOf(t.inst, x)
        ELSE x # k /\ con[x] = TotalOf(t.inst, x)
    BY <1>3, <1>4, <1>5 DEF TotalOf, dict
  <2>2. CASE /\ con' = con
             /\ art_ana_stats' = [art_ana_stats EXCEPT ![t.inst] = added]
    <3>1. art_ana_stats'[t.inst] = added
      BY <1>1, <1>7, <2>2
    <3>2. QED
      BY <1>1, <2>1, <2>2, <3>1 DEF TotalOf
  <2>3. ASSUME NEW gone \in SUBSET Held(added), con' = Saved(added, gone),
               art_ana_stats' = [art_ana_stats EXCEPT ![t.inst] =
                [y \in Keys |-> IF y \in gone THEN Absent ELSE added[y]]]
        PROVE  TotalOf(t.inst, x)' = IF x = k THEN TotalOf(t.inst, x) + 1 ELSE TotalOf(t.inst, x)
    <3>1. art_ana_stats'[t.inst][x] = IF x \in gone THEN Absent ELSE added[x]
      BY <1>1, <1>7, <2>3
    <3>2. con'[x] = IF x \in gone THEN added[x].total ELSE con[x]
      BY <2>3 DEF Saved
    <3>3. x \in gone => added[x].touch > 0
      BY DEF Held
    <3>4. QED
      BY <1>1, <2>1, <3>1, <3>2, <3>3 DEF TotalOf, Absent
  <2>4. QED
    BY <1>6, <2>2, <2>3
<1>9. ASSUME NEW c \in Concepts
      PROVE  TotalOf(t.inst, <<h, c>>)' = CountTo(c, events[h], t.done + 1)
  <2>1. TotalOf(t.inst, <<h, c>>) = CountTo(c, events[h], t.done)
    BY DEF UnderWay
  <2>2. <<h, c>> = k <=> events[h][t.done + 1] = c
    BY <1>a
  <2>3. CountTo(c, events[h], t.done + 1) =
          IF events[h][t.done + 1] = c THEN CountTo(c, events[h], t.done) + 1
          ELSE CountTo(c, events[h], t.done)
    BY <1>1, CountOne
  <2>4. QED
    BY <1>3, <1>8, <2>1, <2>2, <2>3
<1>10. org_ana_stats'[t.inst][h] = t.done + 1
  BY <1>1, <1>7 DEF UnderWay
<1>11. \A i \in Insts \ {t.inst} : Unheld(i, h)'
  <2>1. \A i \in Insts \ {t.inst} : org_ana_stats'[i] = org_ana_stats[i]
    BY <1>1, <1>7
  <2>2. \A i \in Insts \ {t.inst} : art_ana_stats'[i] = art_ana_stats[i]
    BY <1>6, <1>7
  <2>3. QED
    BY <2>1, <2>2 DEF UnderWay, Unheld
<1> HIDE DEF k
<1>12. QED
  BY <1>1, <1>9, <1>10, <1>11 DEF UnderWay

(* Of the other hours, a count and a put only store or drop what is held.   *)
LEMMA CountFlushes ==
  ASSUME TypeOK, NEW r \in Runs, Count(r), run[r].hour \in Hours, NEW h \in Hours, run[r].hour # h
  PROVE  Flushed(h)
<1> DEFINE t == run[r]
           dict == art_ana_stats[t.inst]
           k == <<t.hour, t.anas[t.done + 1]>>
           e == Entry(dict, k)
           added == [dict EXCEPT ![k] = [total |-> e.total + 1, touch |-> e.touch + 1]]
<1>1. t.inst \in Insts /\ dict \in Dict /\ \A c \in Concepts : <<h, c>> \in Keys /\ <<h, c>> # k
  BY DEF TypeOK, Dict, Keys
<1>2. \A c \in Concepts : added[<<h, c>>] = dict[<<h, c>>]
  BY <1>1 DEF Dict
<1>3. /\ UNCHANGED <<site, org>>
      /\ org_ana_stats' = [org_ana_stats EXCEPT ![t.inst][t.hour] = @ + 1]
      /\ \/ /\ con' = con
            /\ art_ana_stats' = [art_ana_stats EXCEPT ![t.inst] = added]
         \/ \E gone \in SUBSET Held(added) :
              /\ con' = Saved(added, gone)
              /\ art_ana_stats' = [art_ana_stats EXCEPT ![t.inst] =
                   [x \in Keys |-> IF x \in gone THEN Absent ELSE added[x]]]
  BY DEF Count
<1> HIDE DEF added, e, k
<1>4. art_ana_stats \in [Insts -> Dict] /\ org_ana_stats \in [Insts -> [Hours -> Nat]]
  BY DEF TypeOK, Dict
<1>5. \A i \in Insts : org_ana_stats'[i][h] = org_ana_stats[i][h]
  BY <1>1, <1>3, <1>4
<1>6. CASE con' = con /\ art_ana_stats' = [art_ana_stats EXCEPT ![t.inst] = added]
  <2>1. \A i \in Insts, c \in Concepts : art_ana_stats'[i][<<h, c>>] = art_ana_stats[i][<<h, c>>]
    BY <1>1, <1>2, <1>4, <1>6
  <2>2. QED
    BY <1>3, <1>5, <1>6, <2>1 DEF Flushed
<1>7. ASSUME NEW gone \in SUBSET Held(added), con' = Saved(added, gone),
             art_ana_stats' = [art_ana_stats EXCEPT ![t.inst] =
               [x \in Keys |-> IF x \in gone THEN Absent ELSE added[x]]]
      PROVE  Flushed(h)
  <2>1. \A i \in Insts, c \in Concepts :
          art_ana_stats'[i][<<h, c>>] \in {Absent, art_ana_stats[i][<<h, c>>]}
    BY <1>1, <1>2, <1>4, <1>7
  <2>2. ASSUME NEW c \in Concepts
        PROVE  \/ con'[<<h, c>>] = con[<<h, c>>]
               \/ /\ dict[<<h, c>>].touch > 0
                  /\ con'[<<h, c>>] = dict[<<h, c>>].total
    <3>1. con'[<<h, c>>] = IF <<h, c>> \in gone THEN added[<<h, c>>].total ELSE con[<<h, c>>]
      BY <1>1, <1>7 DEF Saved
    <3>2. <<h, c>> \in gone => added[<<h, c>>].touch > 0
      BY DEF Held
    <3>3. QED
      BY <1>2, <3>1, <3>2
  <2>3. QED
    BY <1>1, <1>3, <1>5, <2>1, <2>2 DEF Flushed
<1>8. QED
  BY <1>3, <1>6, <1>7

LEMMA StoreFlushes ==
  ASSUME TypeOK, NEW r \in Runs, run[r].hour \in Hours, NEW h \in Hours, run[r].hour # h,
         NEW ofSite \in BOOLEAN, NEW puts \in SUBSET Held(art_ana_stats[run[r].inst]),
         NEW orgs \in SUBSET OrgHeld(run[r].inst), PutOf(r, ofSite, puts, orgs),
         UNCHANGED <<art_ana_stats, org_ana_stats>>
  PROVE  Flushed(h)
<1>1. run[r].inst \in Insts /\ \A c \in Concepts : <<h, c>> \in Keys
  BY DEF TypeOK, Keys
<1>2. site'[h] = site[h]
  BY DEF PutOf, TypeOK
<1>3. org'[h] = org[h] \/ (org_ana_stats[run[r].inst][h] > 0 /\ org'[h] = org_ana_stats[run[r].inst][h])
  BY DEF PutOf, OrgHeld
<1>4. \A c \in Concepts :
        \/ con'[<<h, c>>] = con[<<h, c>>]
        \/ /\ art_ana_stats[run[r].inst][<<h, c>>].touch > 0
           /\ con'[<<h, c>>] = art_ana_stats[run[r].inst][<<h, c>>].total
  BY <1>1 DEF PutOf, Saved, Held
<1>5. QED
  BY <1>1, <1>2, <1>3, <1>4 DEF Flushed

(* The put after the last event of a clean hour.                            *)
LEMMA PutSettles ==
  ASSUME TypeOK, NEW r \in Runs, Counted(r), NEW h \in Hours, run[r].hour = h, h \notin Closed,
         run[r].anas = events[h], UnderWay(h, r), UNCHANGED <<events, art_ana_stats, org_ana_stats>>,
         PutOf(r, TRUE, Held(art_ana_stats[run[r].inst]), OrgHeld(run[r].inst))
  PROVE  Settled(h)'
<1> DEFINE i == run[r].inst
<1>1. i \in Insts /\ run[r].done = Len(events[h]) /\ \A c \in Concepts : <<h, c>> \in Keys
  BY DEF TypeOK, Keys, Counted
<1>2. site'[h] = <<Len(events[h])>>
  <2>1. site[h] = <<>>
    BY DEF Closed
  <2>2. site'[h] = Append(site[h], Len(events[h]))
    BY DEF PutOf, TypeOK
  <2>3. QED
    BY <2>1, <2>2
<1>3. org'[h] = Len(events[h])
  BY <1>1 DEF PutOf, OrgHeld, UnderWay, TypeOK
<1>4. \A c \in Concepts : con'[<<h, c>>] = TotalOf(i, <<h, c>>)
  BY <1>1 DEF PutOf, Saved, Held, TotalOf
<1>5. \A c \in Concepts : con'[<<h, c>>] = CountTo(c, events[h], Len(events[h]))
  BY <1>1, <1>4 DEF UnderWay
<1>6. ASSUME NEW j \in Insts
      PROVE  /\ org_ana_stats'[j][h] \in {0, org'[h]}
             /\ \A c \in Concepts : TotalOf(j, <<h, c>>)' = con'[<<h, c>>]
  <2>1. CASE j = i
    BY <1>1, <1>3, <1>4, <2>1 DEF UnderWay, TotalOf
  <2>2. CASE j # i
    BY <2>2 DEF UnderWay, Unheld, TotalOf
  <2>3. QED
    BY <2>1, <2>2
<1>7. QED
  BY <1>2, <1>3, <1>5, <1>6 DEF Settled

LEMMA StopFlushes ==
  ASSUME TypeOK, NEW i \in Insts, Stop(i), NEW h \in Hours
  PROVE  Flushed(h)
<1>1. \A c \in Concepts : <<h, c>> \in Keys
  BY DEF Keys
<1>2. /\ UNCHANGED <<site, org, con>>
      /\ art_ana_stats' = [art_ana_stats EXCEPT ![i] = [k \in Keys |-> Absent]]
      /\ org_ana_stats' = [org_ana_stats EXCEPT ![i] = [g \in Hours |-> 0]]
  BY DEF Stop
<1>3. \A j \in Insts : org_ana_stats'[j][h] \in {0, org_ana_stats[j][h]}
  BY <1>2 DEF TypeOK
<1>4. \A j \in Insts, c \in Concepts :
        art_ana_stats'[j][<<h, c>>] \in {Absent, art_ana_stats[j][<<h, c>>]}
  BY <1>1, <1>2 DEF TypeOK
<1>5. QED
  BY <1>2, <1>3, <1>4 DEF Flushed

LEMMA QuietFlushes ==
  ASSUME UNCHANGED <<site, org, con, art_ana_stats, org_ana_stats>>, NEW h
  PROVE  Flushed(h)
  BY DEF Flushed

(* Time and events do not touch a clean hour that somebody is at or past.   *)
LEMMA ClockBooks ==
  ASSUME Inv, Inv', Books, Tick \/ \E c \in Concepts : Record(c)
  PROVE  Books'
<1>0. Numbers /\ now \in Nat /\ now' \in Nat
  BY TypesAreNumbers, HourlyAssumption DEF Inv, Numbers, TypeOK, Hours
<1>1. /\ UNCHANGED <<site, org, con, art_ana_stats, org_ana_stats, run, unclean>>
      /\ now <= now'
      /\ \A h \in Hours : h < now => events'[h] = events[h]
  <2>1. CASE Tick
    BY <1>0, <2>1 DEF Tick
  <2>2. ASSUME NEW c \in Concepts, Record(c)
        PROVE  /\ UNCHANGED <<now, site, org, con, art_ana_stats, org_ana_stats, run, unclean>>
               /\ \A h \in Hours : h # now => events'[h] = events[h]
    <3>1. PICK appended : events' = [events EXCEPT ![now] = appended]
      BY <2>2 DEF Record
    <3>2. QED
      BY <2>2, <3>1 DEF Record, Inv, TypeOK
  <2>3. \A h \in Hours : h < now => h # now
    BY <1>0 DEF Numbers
  <2>4. QED
    BY <1>0, <2>1, <2>2, <2>3
<1>2. \A h \in Hours : h < now => events'[h] = events[h]
  BY <1>1
<1>3. Order'
  <2>1. Closed' = Closed
    BY <1>1 DEF Closed
  <2>2. QED
    BY <1>0, <1>1, <1>2, <2>1, OrderKept DEF Books
<1>4. ASSUME NEW h \in Hours \ unclean
      PROVE  HourExact(h)'
  <2>0. TypeOK /\ Order /\ HourExact(h) /\ Flushed(h)
    BY <1>1, QuietFlushes DEF Books, Inv
  <2>1. ASSUME NEW r \in Runs, Counts(r, h)
        PROVE  UnderWay(h, r)' /\ h \notin Closed
    <3>1. h \notin Closed /\ h < now
      BY <2>0, <2>1, CleanCount
    <3>2. UnderWay(h, r)
      BY <2>0, <2>1, <3>1 DEF HourExact
    <3>3. run[r].inst \in Insts
      BY <2>0 DEF TypeOK
    <3>4. run'[r] = run[r] /\ events'[h] = events[h] /\ org'[h] = org[h]
          /\ (\A c \in Concepts : con'[<<h, c>>] = con[<<h, c>>])
          /\ org_ana_stats'[run[r].inst] = org_ana_stats[run[r].inst]
          /\ art_ana_stats'[run[r].inst] = art_ana_stats[run[r].inst]
      BY <1>1, <1>2, <3>1
    <3>5. QED
      BY <2>0, <3>1, <3>2, <3>3, <3>4, CountStays
  <2>2. \A r \in Runs : Counts(r, h)' <=> Counts(r, h)
    BY <1>1 DEF Counts
  <2>3. CASE \E r \in Runs : Counts(r, h)
    BY <1>1, <2>1, <2>2, <2>3 DEF HourExact, Closed
  <2>4. CASE \A r \in Runs : ~Counts(r, h)
    <3>1. h \in Closed => events'[h] = events[h]
      BY <1>2, <2>0 DEF Order, Ended
    <3>2. QED
      BY <2>0, <2>2, <2>4, <3>1, FlushedStays
  <2>5. QED
    BY <2>3, <2>4
<1>5. QED
  BY <1>1, <1>3, <1>4 DEF Books

(* Steps of a thread after which no clean hour is counted.                  *)
LEMMA HoursFlushed ==
  ASSUME TypeOK, Books, UNCHANGED events, unclean \subseteq unclean',
         NEW h \in Hours \ unclean', Flushed(h),
         \A q \in Runs : ~Counts(q, h) /\ ~Counts(q, h)'
  PROVE  HourExact(h)'
  BY FlushedStays DEF Books

LEMMA NextBooks == Inv /\ Books /\ [Next]_hourlyVars => Books'
<1> SUFFICES ASSUME Inv, Books, [Next]_hourlyVars PROVE Books'
  OBVIOUS
<1>0. Inv' /\ TypeOK /\ Order
  BY NextInv DEF Inv, Books
<1>a. Numbers /\ now' \in Nat /\ run \in [Runs -> Threads] /\ Idle.pc = "idle"
  <2>1. Idle.pc = "idle" /\ Numbers
    BY TypesAreNumbers DEF Idle, Inv
  <2>2. now' \in Nat /\ run \in [Runs -> Threads]
    BY <1>0, HourlyAssumption DEF Inv, TypeOK, Threads, Hours
  <2>3. QED
    BY <2>1, <2>2
<1>b. ASSUME NEW r \in Runs, NEW q \in Runs, NEW h \in Hours \ unclean,
             Counts(q, h), r \in Active
      PROVE  q = r
  BY <1>0, <1>b, CleanCount
<1>1. CASE Tick \/ \E c \in Concepts : Record(c)
  BY <1>0, <1>1, ClockBooks
<1>2. ASSUME NEW r \in Runs, NEW i \in Insts, Start(r, i)
      PROVE  Books'
  <2>1. Order' /\ \A q \in Runs, h \in Hours \ unclean' : ~Counts(q, h) /\ ~Counts(q, h)'
    BY <1>0, <1>2, StartOrder
  <2>2. /\ UNCHANGED <<site, org, con, art_ana_stats, org_ana_stats, events>>
        /\ unclean \subseteq unclean'
    BY <1>2 DEF Start, StartFirst, StartNext, Begin
  <2>3. \A h \in Hours \ unclean' : HourExact(h)'
    BY <1>0, <2>1, <2>2, QuietFlushes, HoursFlushed
  <2>4. QED
    BY <2>1, <2>3 DEF Books
<1>3. ASSUME NEW r \in Runs, EndOfRun(r) \/ RunFails(r)
      PROVE  Books'
  <2>1. /\ run' = [run EXCEPT ![r] = Idle] /\ r \in Active
        /\ UNCHANGED <<now, events, site, org, con, art_ana_stats, org_ana_stats>>
        /\ unclean \subseteq unclean'
        /\ run[r].pc = "read" \/ run[r].hour \in unclean'
    BY <1>3 DEF EndOfRun, RunFails, Active
  <2>2. \A q \in Runs : run'[q] = IF q = r THEN Idle ELSE run[q]
    BY <1>a, <2>1
  <2>3. Order'
    <3>1. \A q \in Runs : run'[q].pc = "idle" \/ run'[q] = run[q]
      BY <1>a, <2>2
    <3>2. Closed' = Closed
      BY <2>1 DEF Closed
    <3>3. QED
      BY <1>0, <1>a, <2>1, <3>1, <3>2, OrderKept DEF Numbers
  <2>4. ASSUME NEW q \in Runs, NEW h \in Hours \ unclean'
        PROVE  ~Counts(q, h) /\ ~Counts(q, h)'
    <3>1. ~Counts(q, h)
      <4> SUFFICES ASSUME Counts(q, h) PROVE FALSE
        OBVIOUS
      <4>1. q = r
        BY <1>b, <2>1
      <4>2. QED
        BY <2>1, <4>1 DEF Counts
    <3>2. QED
      BY <1>a, <2>2, <3>1 DEF Counts
  <2>5. \A h \in Hours \ unclean' : HourExact(h)'
    BY <1>0, <2>1, <2>4, QuietFlushes, HoursFlushed
  <2>6. QED
    BY <2>3, <2>5 DEF Books
<1>4. ASSUME NEW r \in Runs, Read(r)
      PROVE  Books'
  <2>1. /\ run' = [run EXCEPT ![r] = [run[r] EXCEPT !.pc = "count", !.anas = events[run[r].hour]]]
        /\ UNCHANGED <<now, events, site, org, con, art_ana_stats, org_ana_stats>>
        /\ unclean \subseteq unclean' /\ run[r].pc = "read" /\ r \in Active
    BY <1>4 DEF Read, Active
  <2>2. /\ run'[r].pc = "count" /\ run'[r].hour = run[r].hour
        /\ run'[r].inst = run[r].inst /\ run'[r].done = 0 /\ run[r].inst \in Insts
        /\ \A q \in Runs : q # r => run'[q] = run[q]
    BY <1>0, <1>a, <2>1 DEF Threads, Order, Ready
  <2>3. Order'
    BY <1>0, <1>4, ReadOrder
  <2>4. ASSUME NEW q \in Runs, NEW h \in Hours \ unclean'
        PROVE  ~Counts(q, h) /\ (Counts(q, h)' <=> q = r /\ h = run[r].hour)
    <3>1. ~Counts(q, h)
      BY <1>b, <2>1 DEF Counts
    <3>2. QED
      BY <2>2, <3>1 DEF Counts
  <2>5. ASSUME NEW h \in Hours \ unclean'
        PROVE  HourExact(h)'
    <3>1. CASE h # run[r].hour
      BY <1>0, <2>1, <2>4, <2>5, <3>1, QuietFlushes, HoursFlushed
    <3>2. CASE h = run[r].hour
      <4>1. h \notin Closed
        BY <1>0, <1>a, <2>1, <3>2 DEF Order, Behind, Numbers
      <4>2. Untouched(h)
        BY <2>1, <2>4, <4>1 DEF Books, HourExact
      <4>3. \A c \in Concepts : TotalOf(run[r].inst, <<h, c>>) = 0
        BY <2>2, <4>2 DEF Untouched, Unheld, TotalOf
      <4>a. \A c \in Concepts : CountTo(c, events[h], 0) = 0
        BY CountOne
      <4>b. \A c \in Concepts : TotalOf(run[r].inst, <<h, c>>)' = TotalOf(run[r].inst, <<h, c>>)
        BY <2>1 DEF TotalOf
      <4>c. \A j \in Insts : Unheld(j, h)' /\ org_ana_stats'[j][h] = 0
        BY <2>1, <4>2 DEF Untouched, Unheld
      <4>4. UnderWay(h, r)'
        BY <2>1, <2>2, <4>2, <4>3, <4>a, <4>b, <4>c DEF Untouched, UnderWay
      <4>5. QED
        BY <2>1, <2>4, <3>2, <4>1, <4>4 DEF HourExact, Closed
    <3>3. QED
      BY <3>1, <3>2
  <2>6. QED
    BY <2>3, <2>5 DEF Books
<1>5. ASSUME NEW r \in Runs, Count(r)
      PROVE  Books'
  <2>1. /\ run' = [run EXCEPT ![r] = [run[r] EXCEPT !.done = run[r].done + 1]]
        /\ UNCHANGED <<now, events, site, org, unclean>>
        /\ run[r].pc = "count" /\ r \in Active
    BY <1>5 DEF Count, Active
  <2>2. \A q \in Runs, h \in Hours : Counts(q, h)' <=> Counts(q, h)
    BY <1>a, <2>1 DEF Threads, Counts
  <2>3. Order'
    BY <1>0, <1>5, CountOrder
  <2>4. run[r].hour \in Hours
    BY <2>1, HourCounted DEF Inv, InTime
  <2>5. ASSUME NEW h \in Hours \ unclean
        PROVE  HourExact(h)'
    <3>1. CASE h # run[r].hour
      <4>1. Flushed(h)
        BY <1>0, <1>5, <2>4, <3>1, CountFlushes
      <4>2. \A q \in Runs : ~Counts(q, h)
        BY <1>b, <2>1, <3>1 DEF Counts
      <4>3. QED
        BY <1>0, <2>1, <2>2, <2>5, <4>1, <4>2, HoursFlushed
    <3>2. CASE h = run[r].hour
      <4>1. Counts(r, h)
        BY <2>1, <3>2 DEF Counts
      <4>2. h \notin Closed /\ run[r].anas = events[h]
        BY <1>0, <4>1, CleanCount
      <4>3. UnderWay(h, r)
        BY <4>1, <4>2 DEF Books, HourExact
      <4>4. UnderWay(h, r)'
        BY <1>0, <1>5, <3>2, <4>2, <4>3, CountHour
      <4>5. \A q \in Runs : Counts(q, h) => q = r
        BY <1>b, <2>1
      <4>6. QED
        BY <2>1, <2>2, <4>1, <4>2, <4>4, <4>5 DEF HourExact, Closed
    <3>3. QED
      BY <3>1, <3>2
  <2>6. QED
    BY <2>1, <2>3, <2>5 DEF Books
<1>6. ASSUME NEW r \in Runs, Put(r)
      PROVE  Books'
  <2>1. /\ PutOf(r, TRUE, Held(art_ana_stats[run[r].inst]), OrgHeld(run[r].inst)) /\ Counted(r)
        /\ UNCHANGED <<now, events, art_ana_stats, org_ana_stats, unclean>>
        /\ run[r].pc = "count" /\ r \in Active
    BY <1>6 DEF Put, Counted, Active
  <2>2. Order' /\ run'[r].pc # "count" /\ \A q \in Runs : q # r => run'[q] = run[q]
    BY <1>0, <1>6, PutOrder
  <2>3. run[r].hour \in Hours
    BY <2>1, HourCounted DEF Inv, InTime
  <2>4. \A q \in Runs, h \in Hours \ unclean : Counts(q, h) => q = r
    BY <1>b, <2>1
  <2>5. \A q \in Runs, h \in Hours \ unclean : ~Counts(q, h)'
    BY <2>2, <2>4 DEF Counts
  <2>6. ASSUME NEW h \in Hours \ unclean
        PROVE  HourExact(h)'
    <3>1. CASE h # run[r].hour
      <4>1. Flushed(h)
        BY <1>0, <2>1, <2>3, <3>1, StoreFlushes
      <4>2. \A q \in Runs : ~Counts(q, h)
        BY <2>4, <3>1 DEF Counts
      <4>3. QED
        BY <1>0, <2>1, <2>5, <2>6, <4>1, <4>2, HoursFlushed
    <3>2. CASE h = run[r].hour
      <4>1. Counts(r, h)
        BY <2>1, <3>2 DEF Counts
      <4>2. h \notin Closed /\ run[r].anas = events[h]
        BY <1>0, <4>1, CleanCount
      <4>3. UnderWay(h, r)
        BY <4>1, <4>2 DEF Books, HourExact
      <4>4. Settled(h)'
        BY <1>0, <2>1, <3>2, <4>2, <4>3, PutSettles
      <4>5. h \in Closed'
        BY <1>0, <2>1, <2>3, <3>2, PutCloses
      <4>6. QED
        BY <4>4, <4>5 DEF HourExact
    <3>3. QED
      BY <3>1, <3>2
  <2>7. QED
    BY <2>1, <2>2, <2>6 DEF Books
<1>7. ASSUME NEW r \in Runs, PutFails(r)
      PROVE  Books'
  <2>1. /\ run' = [run EXCEPT ![r] = Idle] /\ r \in Active /\ Counted(r)
        /\ UNCHANGED <<now, events, art_ana_stats, org_ana_stats>>
        /\ unclean' = unclean \cup {run[r].hour}
    BY <1>7 DEF PutFails, Counted, Active
  <2>a. PICK ofSite \in BOOLEAN, puts \in SUBSET Held(art_ana_stats[run[r].inst]),
             orgs \in SUBSET OrgHeld(run[r].inst) : PutOf(r, ofSite, puts, orgs)
    BY <1>7 DEF PutFails
  <2>2. \A q \in Runs : run'[q] = IF q = r THEN Idle ELSE run[q]
    BY <1>a, <2>1
  <2>3. run[r].hour \in Hours
    BY <2>1, HourCounted DEF Inv, InTime, Counted
  <2>4. Order'
    <3>1. \A q \in Runs : run'[q].pc = "idle" \/ run'[q] = run[q]
      BY <1>a, <2>2
    <3>2. Closed' = IF ofSite THEN Closed \cup {run[r].hour} ELSE Closed
      BY <1>0, <2>a, <2>3, PutCloses
    <3>3. Closed' \ unclean' \subseteq Closed
      BY <2>1, <3>2
    <3>4. QED
      BY <1>0, <1>a, <2>1, <3>1, <3>3, OrderKept DEF Numbers
  <2>5. ASSUME NEW q \in Runs, NEW h \in Hours \ unclean'
        PROVE  ~Counts(q, h) /\ ~Counts(q, h)'
    <3>1. ~Counts(q, h)
      BY <1>b, <2>1 DEF Counts
    <3>2. QED
      BY <1>a, <2>2, <3>1 DEF Counts
  <2>6. ASSUME NEW h \in Hours \ unclean'
        PROVE  HourExact(h)'
    <3>1. Flushed(h)
      BY <1>0, <2>1, <2>a, <2>3, StoreFlushes
    <3>2. QED
      BY <1>0, <2>1, <2>5, <2>6, <3>1, HoursFlushed
  <2>7. QED
    BY <2>4, <2>6 DEF Books
<1>8. ASSUME NEW i \in Insts, Stop(i)
      PROVE  Books'
  <2>1. /\ run' = [r \in Runs |-> IF r \in Active /\ run[r].inst = i THEN Idle ELSE run[r]]
        /\ UNCHANGED <<now, events, site, org, con>>
        /\ unclean' = unclean \cup {run[r].hour : r \in {q \in Active : run[q].inst = i}}
        /\ art_ana_stats' = [art_ana_stats EXCEPT ![i] = [k \in Keys |-> Absent]]
        /\ org_ana_stats' = [org_ana_stats EXCEPT ![i] = [h \in Hours |-> 0]]
    BY <1>8 DEF Stop
  <2>2. Closed' = Closed /\ unclean \subseteq unclean'
    BY <2>1 DEF Closed
  <2>3. \A q \in Runs : run'[q].pc = "idle" \/ run'[q] = run[q]
    BY <2>1 DEF Idle
  <2>4. Order'
    BY <1>0, <1>a, <2>1, <2>2, <2>3, OrderKept DEF Numbers
  <2>5. ASSUME NEW h \in Hours \ unclean'
        PROVE  HourExact(h)'
    <3>0. Flushed(h) /\ h \in Hours \ unclean
      BY <1>0, <1>8, <2>2, StopFlushes
    <3>1. CASE \A q \in Runs : ~Counts(q, h)
      <4>1. \A q \in Runs : ~Counts(q, h)'
        BY <2>3, <3>1 DEF Counts
      <4>2. QED
        BY <1>0, <2>1, <2>2, <2>5, <3>0, <3>1, <4>1, HoursFlushed
    <3>2. ASSUME NEW r \in Runs, Counts(r, h)
          PROVE  HourExact(h)'
      <4>1. h \notin Closed /\ Active = {r}
        BY <1>0, <3>0, <3>2, CleanCount
      <4>2. run[r].inst # i
        BY <2>1, <2>5, <3>2, <4>1 DEF Counts
      <4>3. run'[r] = run[r] /\ run[r].inst \in Insts
        BY <1>a, <2>1, <4>2 DEF Threads
      <4>4. UnderWay(h, r)
        BY <3>0, <3>2, <4>1 DEF Books, HourExact
      <4>5. /\ events'[h] = events[h] /\ org'[h] = org[h]
            /\ \A c \in Concepts : con'[<<h, c>>] = con[<<h, c>>]
            /\ org_ana_stats'[run[r].inst] = org_ana_stats[run[r].inst]
            /\ art_ana_stats'[run[r].inst] = art_ana_stats[run[r].inst]
        BY <1>0, <2>1, <4>2, <4>3 DEF TypeOK
      <4>6. UnderWay(h, r)'
        BY <3>0, <4>3, <4>4, <4>5, CountStays
      <4>7. \A q \in Runs : Counts(q, h)' => q = r
        BY <2>3, <4>1 DEF Counts, Active
      <4>8. Counts(r, h)'
        BY <3>2, <4>3 DEF Counts
      <4>9. QED
        BY <2>2, <4>1, <4>6, <4>7, <4>8 DEF HourExact
    <3>3. QED
      BY <3>1, <3>2
  <2>6. QED
    BY <2>4, <2>5 DEF Books
<1>9. CASE UNCHANGED hourlyVars
  <2>1. UNCHANGED <<now, events, site, con, org, art_ana_stats, org_ana_stats, run, unclean>>
    BY <1>9 DEF hourlyVars
  <2>2. Closed' = Closed /\ Active' = Active
    BY <2>1 DEF Closed, Active
  <2>3. Order'
    BY <1>0, <2>1, <2>2 DEF Order, Ready, Behind, CountsAlone, Ended
  <2>4. ASSUME NEW h \in Hours \ unclean PROVE HourExact(h)'
    <3>1. HourExact(h)
      BY DEF Books
    <3>2. QED
      BY <2>1, <2>2, <3>1 DEF HourExact, Counts, UnderWay, Untouched, Settled, Unheld, TotalOf
  <2>5. QED
    BY <2>1, <2>3, <2>4 DEF Books
<1>10. QED
  BY <1>1, <1>2, <1>3, <1>4, <1>5, <1>6, <1>7, <1>8, <1>9 DEF Next, Go

(* The totals of an hour that one run processed alone, after its end and    *)
(* without a failure, are the numbers of its events, for any number of      *)
(* concepts and any size of the dictionary (_drop_lowest_art_stat).         *)
THEOREM CleanHoursCounted == Spec => []CleanHoursExact
<1>1. Inv /\ Books => CleanHoursExact
  <2> SUFFICES ASSUME Inv, Books, NEW h \in Closed \ unclean
               PROVE  /\ site[h] = <<Len(events[h])>>
                      /\ org[h] = Len(events[h])
                      /\ \A c \in Concepts : con[<<h, c>>] = CountIn(c, events[h])
    BY DEF CleanHoursExact
  <2>1. Settled(h) /\ events[h] \in Seq(Concepts)
    BY DEF Books, HourExact, Closed, Inv, TypeOK
  <2>2. DOMAIN events[h] = 1..Len(events[h])
    BY <2>1
  <2>3. QED
    BY <2>1, <2>2 DEF Settled, CountIn, CountTo
<1>2. QED
  BY <1>1, InitBooks, NextBooks, InitInv, NextInv, PTL DEF Spec
=============================================================================
