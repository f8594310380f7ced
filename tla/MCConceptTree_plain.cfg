\* No links: the lists agree with the pointers, the permissions with the ancestors.
CONSTANTS
  a = a
  b = b
  c = c
  d = d
  k = k
  Project = Project
  NoSibling = NoSibling
  MaxAsked = 1
  MaxLate = 0
  Concepts <- MCFour
  Protected <- MCProtected
  LinkIds <- MCNone
SYMMETRY MCSymmetry
SPECIFICATION Spec
INVARIANTS ListsExact InheritsFromAncestors
PROPERTIES MovedBeforeSibling
CHECK_DEADLOCK FALSE
