SPECIFICATION ReviewSpec
CONSTANTS
  MaxAttempts = 1
  MaxFaults = 0
  NShards = 1
  Reviewers = {r1, r2}
PROPERTY
  DecidedOnce
CHECK_DEADLOCK FALSE
