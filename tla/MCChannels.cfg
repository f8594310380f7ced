\* Two tabs of one user, two rounds at once, one death, one lost connection.
CONSTANTS
  t1 = t1
  t2 = t2
  u = u
  n1 = n1
  n2 = n2
  Tabs <- MCTabs
  Asks <- MCAsks
  User <- MCUser
  MaxDeaths = 1
  Shaky <- MCShaky
SPECIFICATION ChannelsSpec
INVARIANTS AnswererKept FlagHasTask
PROPERTIES ClosedTabsLeave
CHECK_DEADLOCK FALSE
