SPECIFICATION ReviewSpec
CONSTANTS
  MaxAttempts = 2
  MaxFaults = 1
  NShards = 1
  Reviewers = {r1, r2}
SYMMETRY ReviewerSymmetry
INVARIANTS
  DecisionDelivered
  RowTellsDecision
CHECK_DEADLOCK FALSE
