\* Two processes, four blocks that compete for three buffers, one of which may be
\* pinned.
CONSTANTS
  p1 = p1
  p2 = p2
  Proc = {p1, p2}
  NoProc = NoProc
  k1 = k1
  k2 = k2
  k3 = k3
  k4 = k4
  Blocks = {k1, k2, k3, k4}
  NoBlock = NoBlock
  NBUF = 3
  Vals = {0, 1}
  MaxPinned = 1
  Errors = FALSE
  NoRequest = NoRequest
SPECIFICATION Spec
INVARIANT SleepersHaveAWaker
PROPERTY Coherent
SYMMETRY Symmetry
