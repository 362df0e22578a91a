SPECIFICATION Spec
CONSTANTS
  Sources = {64, 67, 80}
  MaskLevels = {0}
INVARIANTS
  TypeOK
  QueuesInOrder
PROPERTIES
  ServesHighestFirst
  NothingBeatsMask
