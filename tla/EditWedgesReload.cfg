SPECIFICATION FairSpec
CONSTANTS
  s1 = s1
  s2 = s2
  r1 = r1
  None = None
  Watcher = Watcher
  Savers = {s1}
  Reloaders = {r1}
  MaxEdits = 1
  MaxCalls = 1
  MaxCrashes = 0
CHECK_DEADLOCK FALSE
PROPERTIES
  ReloadReturns
