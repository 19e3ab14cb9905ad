CONSTANTS
  c1 = c1
  c2 = c2
  outer = outer
  inner = inner
  NoCPU = NoCPU
  MaxDepth = 3
  CPUs <- MCCPUs
  Locks <- MCLocks
  Rank <- MCRank
SPECIFICATION FairSpec
INVARIANTS MutualExclusion NoPanic
PROPERTY InnermostReleased
