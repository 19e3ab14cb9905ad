CONSTANTS
  NPROC = 2
  NCPU = 2
  LowPages = 10
  NPAGES = 26
  PGSIZE = 2
  NPT = 2
  NPD = 15
  UINT = 68
  Deltas <- Changes
  Sizes = {1, 3}
  Values = {"v"}
  Programs <- Files
  MaxCalls = 4
SPECIFICATION Spec
CHECK_DEADLOCK FALSE
INVARIANTS PagesOwnedOnce OnlyUpperTablesLost  UnlockedAlone
 
