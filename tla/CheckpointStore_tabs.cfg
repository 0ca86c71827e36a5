SPECIFICATION SpecCheckpoints
CONSTANTS
  Writers = {w1, w2, w3}
  None = None
  MaxSeq = 3
  Chains = {a, b}
  Checkpoints <- MCCheckpoints
INVARIANTS
  NoForkAccepted
  AcceptedIsRemembered
PROPERTY
  LoadNeverRegresses
