SPECIFICATION Spec
CONSTANTS
  Pids = {p1, p2}
  Failing = {p1}
  NCPU = 1
  Word = 256
  N = 1
  MaxClock = 2
  MaxGen = 1
INVARIANTS TypeOK SinceLastCall
