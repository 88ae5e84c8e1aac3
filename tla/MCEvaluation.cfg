\* The code's two attempts; two faults exhaust one activity.
SPECIFICATION FairSpec
CONSTANTS
  MaxAttempts = 2
  MaxFaults = 2
INVARIANTS
  ReportResolves
  FailureIsRecorded
PROPERTIES
  RunCloses
CHECK_DEADLOCK FALSE
