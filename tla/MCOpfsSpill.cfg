CONSTANTS
  NINODES = 6
  NMETA = 2
  NBLOCKS = 8
  NLOG = 1
  BSIZE = 2
  NDIRECT = 1
  BUFSIZE = 2
  CHUNK = 2
  MaxCmds = 3
  Inputs <- MCInputs
  Paths <- MCPaths
  Texts <- MCTexts
SPECIFICATION Spec
INVARIANTS DataInDataArea
CHECK_DEADLOCK FALSE
