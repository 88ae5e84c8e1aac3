SPECIFICATION Spec
CONSTANTS
  SampleColumns <- MCSampleColumns
  ColumnOrder <- MCColumnOrder
  EditTypes = {"integer", "float", "boolean", "categorical", "datetime", "name"}
  EditBounds <- MCEditBounds
  MaxCategories = 1
  NRows = 2
  OtherVersions <- MCOtherVersions
  Specs <- MCSpecs
  Questions <- MCQuestions
  Contexts <- MCContexts
  Values = {0, 120, 300}
  Ratings = {1, 5, 7}
  Overrides <- MCOverrides
INVARIANTS
  SyntheticConforms
  PerturbationKeepsRows
  OverallIsAMean
  OracleAsAdvertised
