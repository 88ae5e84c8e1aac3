SPECIFICATION Spec
CONSTANTS
  Last = 2
  Requests = {1, 2, 3}
  Snapshot = 1
  MaxRepeats = 1
  MaxFaults = 2
INVARIANTS
  QuietIsSettled
PROPERTIES
  Settles
  SubscriptionReleased
CHECK_DEADLOCK FALSE
