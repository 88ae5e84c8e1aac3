SPECIFICATION Spec
CONSTANTS
  Tenants = {"t1", "t2"}
  Tokens <- MCTokens
  Ids = {1, 2, 3}
  Requests = {r1, r2}
  MaxRequests = 3
  Edits <- MCEdits
  ReqFormats = {"none", "csv", "rdfxml", "owl"}
  RowCounts = {2, 3}
  LARGE_DATASET_ROW_THRESHOLD = 2
INVARIANTS ReferencesResolve SampleInStep ExportMatches
PROPERTIES Noninterference RolesLimitChanges UnaskedChangeNeedsOverlap
CHECK_DEADLOCK FALSE
