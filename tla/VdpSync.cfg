\* VDP1's memory is written early in the frame; a list that goes on, a forced end and a reset
SPECIFICATION FairSpec
CONSTANTS
  VBlankLineCount = 2
  MaxLineCount = 3
  PlotDelay = 2
  DirectDelay = 2
  AvoidLine = 2
  EvCapacity = 32
  RcvCapacity = 8
  PTMRValues = {1, 2}
  RamLines = {0}
  MaxPauses = 1
  MaxDirect = 1
  MaxStops = 1
  MaxResets = 1
INVARIANTS
  TypeOK
  WaitIsAnswered
  VBlankINIsAlone
  SwapIsOnItsWay
PROPERTIES
  FramesGoOn
