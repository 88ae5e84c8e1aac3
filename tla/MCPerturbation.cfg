\* The code's three attempts; three faults reach exhaustion of one activity.
SPECIFICATION FairSpec
CONSTANTS
  MaxAttempts = 3
  MaxFaults = 3
INVARIANTS
  ResultResolves
PROPERTIES
  StampLostOnlyByRace
  RunCloses
  ImplementsPublication
CHECK_DEADLOCK FALSE
