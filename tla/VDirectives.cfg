SPECIFICATION MediaSpec
CONSTANTS
  Targets <- MCTargets
  Sizes = {2, 3}
  Modalities = {"tabular"}
  MaxItems = 3
  MaxTries = 2
  Configs = {"p1", "p2"}
  Formats = {"mp3", "wav"}
  LabelChoices <- MCChoices
  Salts = {0, 1}
  Directives = TRUE
  Fields <- MCFields
  Replies <- MCReplies
  BatchSize = 1
  MaxAttempts = 2
  MaxPolls = 2

PROPERTIES Reproducible
CHECK_DEADLOCK FALSE
