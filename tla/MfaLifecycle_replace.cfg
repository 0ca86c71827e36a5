SPECIFICATION Spec
CHECK_DEADLOCK FALSE
CONSTANTS
  Handlers = {h1, h2}
  Logins = {l1}
  Challenges = {c1}
  Sessions = {s1}
  Factors = {f1, f2}
  RecoveryCodes = {r1}
  CodeCount = 1
  MaxAttempts = 1
  MaxStep = 1
  MaxLag = 0
  None = None
  Hotp <- MCHotp
  TotpCodes <- MCTotpCodes
SYMMETRY Symmetry
INVARIANTS
  OnlyEnrollingSessionsReplace
