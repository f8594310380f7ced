\* Days of two hours, two and a half of them; one trouble.
CONSTANTS
  r1 = r1
  r2 = r2
  e1 = e1
  Runs <- MCRuns
  Entities <- MCEntities
  Kinds <- MCKinds
  HoursOfDay = 2
  MaxHour = 6
  MaxTroubles = 1
SYMMETRY MCSymmetry
SPECIFICATION Spec
INVARIANTS TypeOK CleanDaysExact NoDaySkipped
CHECK_DEADLOCK FALSE
