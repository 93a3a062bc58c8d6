SPECIFICATION FairSpec
CONSTANTS
  f1 = f1
  f2 = f2
  f3 = f3
  c1 = c1
  c2 = c2
  w1 = w1
  w2 = w2
  w3 = w3
  w4 = w4
  w5 = w5
  None = None
  Callers <- TwoCallers
  Workers <- TwoWorkers
  Fans = {f1, f2, f3}
  Dell = {f2}
  Configured = {f1, f2}
  Ignored = {f3}
  Flaky = {f1}
  Throwing = {f2}
  Ops = {"Enable", "EnableAll", "Disable", "DisableAll", "Recover", "GetFanStatus"}
  MaxCalls = 3
PROPERTIES
  CallsReturn
