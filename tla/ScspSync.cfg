SPECIFICATION FairSpec
CONSTANTS
  SampleCycles = 2
  FrameCycles = 6
  One = 4
  W = 64
  PerLineRates = {0, 4, 6}
  MaxLineCount = 5
  VBlankLineCount = 4
  MaxResets = 2
  MaxMutes = 2
  MaxRestarts = 1
INVARIANTS
  TypeOK
  CyclesCounted
  FramesMeet
PROPERTIES
  FramesGoOn
  DeInitEnds
CHECK_DEADLOCK FALSE
