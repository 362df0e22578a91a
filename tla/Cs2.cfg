SPECIFICATION FairSpec
CONSTANTS
  MaxBlocks = 3
  Partitions = {0, 1}
  FADs = {151, 152}
  Route <- DiscRoute
  Ranges <- DiscRanges
  MaxRepeats = {1}
  SoftInit = FALSE
  ResetOpen = FALSE
  PutBehind = FALSE
INVARIANTS
  TypeOK
  PoolConserved
  ReadsWhatItAsked
PROPERTIES
  KeepsOrder
  NoSectorLost
  PlayEnds
