SPECIFICATION SensorSpec
CONSTANTS
  Temperatures <- Warm
  Intervals = {1, 2, 3}
  IntMod = 1024
  MaxReads = 6
CHECK_DEADLOCK FALSE
INVARIANTS
  SensorTypeOK
  AverageWithinRecent
