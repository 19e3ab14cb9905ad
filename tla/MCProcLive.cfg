CONSTANTS
  c1 = c1
  c2 = c2
  ch = ch
  Free = Free
  NPROC = 4
  MaxPid = 4
  CPUs <- OneCPU
  Chans <- OneChan
  KillPids = {2}
  Services = {"fork", "exit", "wait", "kill"}
SPECIFICATION FairSpec
PROPERTIES OrphansReaped NoStarvation
