\* A vote that is refused for lack of points.
CONSTANTS
  u = u
  v = v
  c = c
  s1 = s1
  s2 = s2
  Users <- MCUsers
  Project = Project
  Concepts <- MCConcepts
  None = None
  Cost = 5
  Hasty <- MCNone
  Slots <- MCOneSlot
  StartSpectra = 0
  Gift = 10
  MaxGifts = 1
  MaxVotes = 3
  MaxRunning = 1
SYMMETRY MCSymmetry
SPECIFICATION Spec
INVARIANT VoteAgainDisallowed
CHECK_DEADLOCK FALSE
