SPECIFICATION Spec
CONSTANTS
  h1 = h1
  h2 = h2
  Hw = {h1, h2}
  Dell = {h2}
  Labels = {"e1", "e2", "x", "y"}
  Name <- Names
  Confs = {"a", "b"}
  Files <- SomeFiles
  NoFile = NoFile
  NoConf = NoConf
  MaxEvents = 5
CHECK_DEADLOCK FALSE
INVARIANTS
  DevicesInv
PROPERTIES
  ReloadKeepsEnabled
  ReloadKeepsDisabled
  ReloadApplies
