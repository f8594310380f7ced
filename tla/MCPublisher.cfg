\* Two jobs, a reader and deletes overlap, every step may fail, the lock may expire.
CONSTANTS
  j1 = j1
  j2 = j2
  Names <- MCNames
  Latest = Latest
  None = None
  Jobs <- MCJobs
  FailSteps <- MCAnyStep
  LockExpires = TRUE
  MaxRunning = 2
SPECIFICATION Spec
INVARIANTS TypeOK AnsweredIsListed CacheTellsList VersionsInOrder
PROPERTY StartedIsAnswered
CHECK_DEADLOCK FALSE
