SPECIFICATION SpecClient
CHECK_DEADLOCK FALSE
CONSTANTS
  Tabs = {t1, t2}
  Slots = {s1}
  Revs = {r1, r2, r3}
  MaxPage = 2
  MaxChain = 2
  MaxRestores = 1
  MaxSignIns = 2
  None = None
  Writers <- MCWriters
  Checkpoints <- MCCheckpoints
SYMMETRY Symmetry
INVARIANTS
  CheckpointsOnOneChain
