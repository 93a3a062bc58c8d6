SPECIFICATION FairSpec
CONSTANTS
  c1 = c1
  c2 = c2
  n1 = n1
  n2 = n2
  Clients = {c1, c2}
  Notifiers = {n1, n2}
  MaxChanges = 3
CHECK_DEADLOCK FALSE
INVARIANTS
  ObserversInv
PROPERTIES
  NotifyReturns
  UnsubscribeReturns
