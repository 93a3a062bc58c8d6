SPECIFICATION Spec
CONSTANTS
  f1 = f1
  f2 = f2
  f3 = f3
  c1 = c1
  c2 = c2
  w1 = w1
  w2 = w2
  w3 = w3
  w4 = w4
  w5 = w5
  None = None
  Callers <- TwoCallers
  Workers <- FourWorkers
  Fans = {f1, f2, f3}
  Dell = {f2, f3}
  Configured = {f1, f2}
  Ignored = {}
  Flaky = {f2}
  Throwing = {f2}
  Ops = {"Enable", "EnableAll", "Disable", "DisableAll", "Test", "GetFanStatus", "SubscribeFanStatus", "Reload"}
  MaxCalls = 3
SYMMETRY ThreadSymmetry
CHECK_DEADLOCK FALSE
INVARIANTS
  IInv
  OneDriverPerFan
  SavedWhenQuiet
  NoDanglingStatus
  NoStrandedFan
PROPERTIES
  LifecycleSpec
  EntryChangesLocked
