SPECIFICATION BothSpec
CONSTANTS
  a = a
  b = b
  None = None
CHECK_DEADLOCK FALSE
PROPERTIES
  StopsAreOrderly
  ApplicationEnds
  WindowCatchesUp
