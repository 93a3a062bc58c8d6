SPECIFICATION FairSpec
CONSTANTS
  f1 = f1
  f2 = f2
  f3 = f3
  c1 = c1
  c2 = c2
  w1 = w1
  w2 = w2
  w3 = w3
  w4 = w4
  w5 = w5
  None = None
  Callers <- TwoCallers
  Workers <- FourWorkers
  Fans = {f1}
  Dell = {}
  Configured = {f1}
  Ignored = {}
  Flaky = {}
  Throwing = {}
  Ops = {"Test", "Disable"}
  MaxCalls = 2
CHECK_DEADLOCK FALSE
PROPERTIES
  JoinEndsGracefully
