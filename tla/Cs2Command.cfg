SPECIFICATION FairSpec
CONSTANTS
  CommandTimes = {1, 3}
  LockTimes = {0, 4}
  MaxTrays = 2
INVARIANTS
  TypeOK
  AnswerIsWhole
PROPERTY CommandAnswered
