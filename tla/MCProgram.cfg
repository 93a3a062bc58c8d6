SPECIFICATION FairSpec
CONSTANTS
  p1 = p1
  p2 = p2
  Processes <- TwoProcesses
  Fans <- SomeFans
  MaxFaults = 2
  MaxStops = 2
  MaxCalls = 2
  MaxMishaps = 1
CHECK_DEADLOCK FALSE

  
  
  
PROPERTIES
  StopEnds
