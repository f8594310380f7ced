\* Two overlapping requests, four in all.
CONSTANTS
  doc = doc
  sum = sum
  s1 = s1
  s2 = s2
  Distilled = Distilled
  None = None
  Places <- MCPlaces
  Kind <- MCKind
  Slots <- MCSlots
  MaxRequests = 4
  MaxRunning = 2
SYMMETRY MCSymmetry
SPECIFICATION Spec
INVARIANTS OneSelectionEach NeverRaises ShownIsStored ChosenIsShown
CHECK_DEADLOCK FALSE
