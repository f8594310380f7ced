\* A link, a checked move on its way, a late move, failed moves and dead keys.
CONSTANTS
  a = a
  b = b
  c = c
  d = d
  k = k
  Project = Project
  NoSibling = NoSibling
  MaxAsked = 1
  MaxLate = 1
  Concepts <- MCThree
  Protected <- MCNone
  LinkIds <- MCOne
SYMMETRY MCSymmetry
SPECIFICATION Spec
INVARIANTS NoCycle
PROPERTIES ForestSteps SiblingsKeepOrder
CHECK_DEADLOCK FALSE
