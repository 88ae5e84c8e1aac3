SPECIFICATION Spec
CONSTANTS
  MaxAttempts = 1
  MaxFaults = 0
  NShards = 1
INVARIANT
  WorkflowIdKept
CHECK_DEADLOCK FALSE
