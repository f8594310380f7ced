\* Overlapping requests of a patient and a hasty user, with points for two votes.
CONSTANTS
  u = u
  v = v
  c = c
  s1 = s1
  s2 = s2
  Users <- MCUsers
  Project = Project
  Concepts <- MCConcepts
  None = None
  Cost = 5
  Hasty <- MCHasty
  Slots <- MCTwoSlots
  StartSpectra = 10
  Gift = 3
  MaxGifts = 1
  MaxVotes = 3
  MaxRunning = 2
SYMMETRY MCSlotSymmetry
SPECIFICATION Spec
INVARIANTS ScoreIsTally SpectraAddUp NeverOverdrawn OneVoteEach VoteShowsTally
CHECK_DEADLOCK FALSE
