----------------------------- MODULE HourLedger -----------------------------
(***************************************************************************)
(* What the hourly aggregation promises whoever sums up its stats: hours    *)
(* are closed one after the other, none twice and none in the future, and   *)
(* what is closed stays closed.                                             *)
(***************************************************************************)
EXTENDS Naturals

CONSTANT MaxHour

VARIABLES
  now,     \* the hour the clock is in
  closed   \* the hours that have a total

ledgerVars == <<now, closed>>

Init == now = 0 /\ closed = {}

Tick ==
  /\ now < MaxHour
  /\ now' = now + 1
  /\ UNCHANGED closed

\* The first hour that is ever closed may be any, from then on it is the next.
Close(h) ==
  /\ h \in 0..now \ closed
  /\ closed = {} \/ (h > 0 /\ h - 1 \in closed)
  /\ closed' = closed \cup {h}
  /\ UNCHANGED now

Next == Tick \/ \E h \in 0..now : Close(h)

Spec == Init /\ [][Next]_ledgerVars
=============================================================================
