CONSTANTS
  c1 = c1
  c2 = c2
  ch = ch
  Free = Free
  NPROC = 4
  MaxPid = 4
  CPUs <- TwoCPUs
  Chans <- OneChan
  KillPids = {2, 3}
  Services = {"fork", "exit", "wait", "kill", "sleep", "wakeup"}
SPECIFICATION Spec
SYMMETRY Symmetry
INVARIANTS RunsOnOneCpu NoLostChild
