CONSTANTS
  p1 = p1
  p2 = p2
  r = r
  i1 = i1
  i2 = i2
  i3 = i3
  None = None
  Procs <- Two
  Started <- Two
  Inums <- Disk
  Root = r
  NINODE = 4
  NFILE = 2
  NOFILE = 2
  Names = {"a", "b"}
  Calls <- Jobs
  Trees <- Boot
  MaxCalls = 4
SPECIFICATION Spec
SYMMETRY Symmetry
CHECK_DEADLOCK FALSE
INVARIANTS RefsExact  CacheCoherent LinksCounted DirTree UnlinkedAreHeld NoDeadlock
