SPECIFICATION Spec
CHECK_DEADLOCK FALSE
CONSTANTS
  Requests = {q1, q2}
  CsrfTokens = {c1}
  IdleTtl = 3
  AbsoluteTtl = 4
  MaxTime = 4
  MaxLag = 1
  None = None
SYMMETRY Symmetry
INVARIANTS
  TypeOK
  LimitsHold
  RefreshLosesOnlyLag
PROPERTY
  EndedForGood
