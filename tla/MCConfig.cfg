SPECIFICATION FairSpec
CONSTANTS
  s1 = s1
  s2 = s2
  r1 = r1
  None = None
  Watcher = Watcher
  Savers = {s1, s2}
  Reloaders = {r1}
  MaxEdits = 2
  MaxCalls = 3
  MaxCrashes = 2
CHECK_DEADLOCK FALSE
INVARIANTS
  ConfigInv
  LoadedWhole
  OwnSaveUnnoticed
PROPERTIES
  ConfigCallsReturn
