SPECIFICATION Spec
CONSTANTS
  Commands = {14, 16}
  PortSizes = {4, 6}
  ReportSize = 4
  StatusTime = 2
  LongTime = 9
  DecilinesPerLine = 2
  WaitLine = 2
  VBlankLineCount = 3
  MaxLineCount = 4
  Polite = FALSE
INVARIANTS
  TypeOK
PROPERTIES
  ReportsFull
  ContinueBeatsVBlank
