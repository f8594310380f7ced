\* Two overlapping requests, three in all, on a project and a document.
CONSTANTS
  doc = doc
  g = g
  h = h
  s1 = s1
  s2 = s2
  Project = Project
  None = None
  Artifacts <- MCArtifacts
  Chain <- MCChain
  Operations <- MCOperations
  Alternative <- MCAlternative
  Organized <- MCOrganized
  Groups <- MCGroups
  Slots <- MCSlots
  MaxRequests = 3
  MaxRunning = 2
SYMMETRY MCSymmetry
SPECIFICATION Spec
INVARIANTS TypeOK NearestRuleCounts ListedIffRules
PROPERTIES ToldIfAffected ChangeTouchesItsGroup
CHECK_DEADLOCK FALSE
