SPECIFICATION Spec
CONSTANTS
  Sources = {64, 65, 75}
  MaskLevels = {0}
PROPERTIES
  AckKeepsOthers
