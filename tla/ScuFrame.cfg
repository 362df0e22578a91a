SPECIFICATION FairSpec
CONSTANTS
  HighCount = 10
  LowCount = 4
  Levels = {0, 1}
  Slices = 3
  MaxLineCount = 4
  FirstBlankLine = 2
  NoLine = 5
  SliceTime = 2
  StartTime = 1
  FlushTime = 8
  Works <- MCWorks
  Factors = {1, 3, 5, 7}
  BlankLines = {2, 3, 5}
  T0Cs = {1, 6}
  T1Ss = {2, 3, 4}
  MaxWrites = 3
  MaxResets = 1
INVARIANTS
  TypeOK
  BlanksCounted
  Timer0IsLine
PROPERTIES
  OneEndPerStart
  Timer1Comes
