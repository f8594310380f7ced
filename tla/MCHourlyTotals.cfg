\* Runs overlap, one failure or stop; every entry but one is dropped when a second comes.
CONSTANTS
  r1 = r1
  r2 = r2
  i1 = i1
  c1 = c1
  c2 = c2
  Runs <- MCRuns
  Insts <- MCInsts
  Concepts <- MCConcepts
  MaxHour = 2
  MaxEvents = 3
  High = 2
  Low = 1
  MaxTroubles = 1
SPECIFICATION Spec
INVARIANTS NoHourSkipped CleanHoursExact
PROPERTIES LedgerSpec EndedHoursAreClosed
CHECK_DEADLOCK FALSE
