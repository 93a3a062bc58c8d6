SPECIFICATION FairSpec
CONSTANTS
  Curves <- SomeCurves
  Mappings <- TwoMappings
  Temps = {25, 42, 66}
  StartPwm = 120
  Kick = 120
  Stall = 60
  Smoothings = {0, 2}
  Stickiness = 2
  Dynamic = TRUE
  UintMod = 1048576
CHECK_DEADLOCK FALSE
INVARIANTS
  LoopTypeOK
  DrivenSpins
  HotterNotSlower
PROPERTIES
  RaisedStays
  NoOvershoot
  ReachesDemand
