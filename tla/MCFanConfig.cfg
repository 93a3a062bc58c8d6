SPECIFICATION Spec
CONSTANTS
  PwmMax = 255
  IntMax = 4000
  Curves <- SomeCurves
  Mappings <- SomeMappings
  Starts = {0, 300}
  Measured <- SomeTests
  MaxEvents = 4
CHECK_DEADLOCK FALSE
INVARIANTS
  FanConfigTypeOK
  LoadsBack
  RisingCurve
PROPERTIES
  EntryKept
