SPECIFICATION SpecClient
CHECK_DEADLOCK FALSE
CONSTANTS
  Tabs = {t1}
  Slots = {s1}
  Revs = {r1, r2}
  MaxPage = 1
  MaxChain = 2
  MaxRestores = 0
  MaxSignIns = 1
  None = None
  Writers <- MCWriters
  Checkpoints <- MCCheckpoints
SYMMETRY Symmetry
INVARIANTS
  ServerChainVerifiable
