SPECIFICATION LoginSpec
CHECK_DEADLOCK FALSE
CONSTANTS
  Handlers = {h1, h2}
  Handles = {synthetic}
  Synthetic = {synthetic}
  ChallengeIds = {c1, c2, c3}
  Accounts = {a1, a2}
  VaultIds = {v1, v2}
  Limit = 1
  Window = 2
  Ttl <- ShortTtl
  MinAge = 1
  MaxDelete = 1
  MaxTime = 3
  MaxLag = 1
  Secrets = {p1, p2}
  None = None
SYMMETRY Symmetry
INVARIANTS
  LoginTypeOK
  OvershootBounded
  ChallengeAnsweredOnce
  AccountsWhole
  ProofDecides
PROPERTY
  ReportsHold
