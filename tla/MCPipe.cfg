\* Three processes that fork and close, one of which is killed; a ring of two
\* bytes whose counters wrap after two rounds; calls that move less than the ring
\* holds, and more.
CONSTANTS
  p1 = p1
  p2 = p2
  p3 = p3
  Proc = {p1, p2, p3}
  Creator = p1
  NoProc = NoProc
  Bytes = {0, 1}
  NoByte = NoByte
  PIPESIZE = 2
  WRAP = 4
  Counts = {1, 3}
  Victims = {p1}
SPECIFICATION Spec
INVARIANTS NoUseAfterFree WriterSleepsOnFull
PROPERTIES InOrder ReadersWokenUnlessKilled
SYMMETRY Symmetry
CHECK_DEADLOCK FALSE
