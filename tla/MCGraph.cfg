SPECIFICATION Spec
CONSTANTS
  Specs <- MCSpecs
  Plans <- MCPlans
  Keys = {0}
  Replies <- MCReplies
  Limits <- MCLimits
  MaxLlmEdges = 2
  Intensities = {2}
  MaxJobs = 1
  MinHops = 2
  MaxHops = 3
  Questions = 2
INVARIANTS
  NoNodeLost
  GraphConforms
  DegreesPreserved
  JudgeCatchesViolations
  FixtureIsReal
  NoContradiction
CHECK_DEADLOCK FALSE
