SPECIFICATION FairSpec
CONSTANTS
  Hardware <- AllHardware
  PwmMax = 15
  UintMod = 32
  None = None
  Noises = {25}
  MaxNoise = 2
  MaxFaults = 1
CHECK_DEADLOCK FALSE
INVARIANTS
  CalibrationTypeOK
  RpmIncreasesWithPwm
  StartPwmStarts
  MappedKeepsRunning
PROPERTIES
  TestEnds
