\* Two requests, a late publication, two failures.
CONSTANTS
  d1 = d1
  d2 = d2
  mark = mark
  old = old
  new = new
  c1 = c1
  c2 = c2
  g1 = g1
  world = world
  guests = guests
  q1 = q1
  q2 = q2
  Docs <- MCDocs
  Distilled = d2
  Items <- MCItems
  Doc <- MCDoc
  Publications <- MCPublications
  Late <- MCLate
  Roots <- MCRoots
  Kept <- MCKept
  OrgGroups <- MCOrgGroups
  OtherGroups <- MCOtherGroups
  RuleGroups <- MCRuleGroups
  Fresh <- MCFresh
  Requests <- MCRequests
  MaxFaults = 2
SPECIFICATION Spec
INVARIANTS NothingLeft ShownIsWhole
PROPERTIES RetryHeals
CHECK_DEADLOCK FALSE
