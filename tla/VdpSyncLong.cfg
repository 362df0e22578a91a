\* Command lists that go on for some frames, and a small queue
SPECIFICATION FairSpec
CONSTANTS
  VBlankLineCount = 2
  MaxLineCount = 3
  PlotDelay = 2
  DirectDelay = 2
  AvoidLine = 2
  EvCapacity = 32
  RcvCapacity = 2
  PTMRValues = {0, 2}
  RamLines = {0}
  MaxPauses = 6
  MaxDirect = 0
  MaxStops = 0
  MaxResets = 0
PROPERTIES
  FramesGoOn
\* both threads stop when the queue of a drawing's codes is full
CHECK_DEADLOCK FALSE
