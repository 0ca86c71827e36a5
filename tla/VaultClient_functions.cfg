SPECIFICATION SpecClient
CHECK_DEADLOCK FALSE
CONSTANTS
  Tabs = {t1}
  Slots = {s1, s2}
  Revs = {r1, r2, r3}
  MaxPage = 1
  MaxChain = 2
  MaxRestores = 1
  MaxSignIns = 2
  None = None
  Writers <- MCWriters
  Checkpoints <- MCCheckpoints
SYMMETRY Symmetry
INVARIANTS
  ClientTypeOK
  TrustsOnlyAuthentic
  OpenIsCheckpointed
  MeetsOwnCheckpoint
  BusyHasOwner
