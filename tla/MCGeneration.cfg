\* Two attempts and two faults reach retry, exhaustion and abandoned attempts.
SPECIFICATION FairSpec
CONSTANTS
  MaxAttempts = 2
  MaxFaults = 2
  NShards = 2
INVARIANTS
  NothingBeforeApproval
  VersionIsComplete
  SuccessIsRegistered
  DuplicatesNeedFaults
PROPERTIES
  RegressesOnlyByRace
  ImplementsPublication
  GateReleased
  ParkedJobGetsTask
CHECK_DEADLOCK FALSE
