SPECIFICATION Spec
CONSTANTS
  MaxBlocks = 3
  Partitions = {0, 1}
  FADs = {151, 152}
  Route <- DiscRoute
  Ranges <- DiscRanges
  MaxRepeats = {1}
  SoftInit = FALSE
  ResetOpen = FALSE
  PutBehind = TRUE
PROPERTY EndFrees
