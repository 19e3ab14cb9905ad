CONSTANTS
  p1 = p1
  p2 = p2
  Procs = {p1, p2}
  Programs <- MCPrograms
  UINT = 6
  INPUT_BUF = 3
  Counts = {2}
  Naps <- MCNaps
  Codes <- MCCodes
  Chars <- MCChars
SPECIFICATION Spec
INVARIANTS RingOrdered 
PROPERTIES  SleptEnough LinesInOrder
CHECK_DEADLOCK FALSE
