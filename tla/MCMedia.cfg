SPECIFICATION MediaSpec
CONSTANTS
  Targets <- MCTargets
  Sizes = {2, 3}
  Modalities = {"tabular", "text", "image", "audio", "video"}
  MaxItems = 3
  MaxTries = 2
  Configs = {"p1", "p2"}
  Formats = {"mp3", "wav"}
  LabelChoices <- MCChoices
  Salts = {0, 1}
  Directives = TRUE
  Fields <- MCFields
  Replies <- MCReplies
  BatchSize = 1
  MaxAttempts = 2
  MaxPolls = 2
INVARIANTS EveryRowOnce DatasetComplete TextShardSound
PROPERTIES Completes
CHECK_DEADLOCK FALSE
