SPECIFICATION FairSpec
CONSTANTS
  Commands = {1, 14, 16, 25}
  PortSizes = {2}
  ReportSize = 4
  StatusTime = 2
  LongTime = 9
  DecilinesPerLine = 2
  WaitLine = 2
  VBlankLineCount = 3
  MaxLineCount = 5
  Polite = TRUE
INVARIANTS
  IdleMeansDone
PROPERTIES
  AcceptedIsAnswered
  CommandEnds
