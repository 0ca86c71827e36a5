SPECIFICATION Spec
CHECK_DEADLOCK FALSE
CONSTANTS
  Handlers = {h1, h2}
  Logins = {l1, l2}
  Challenges = {c1, c2}
  Sessions = {s1, s2, s3}
  Factors = {f1, f2}
  RecoveryCodes = {r1, r2}
  CodeCount = 1
  MaxAttempts = 2
  MaxStep = 1
  MaxLag = 1
  None = None
  Hotp <- MCHotp
  TotpCodes <- MCTotpCodes
SYMMETRY Symmetry
INVARIANTS
  TypeOK
  NoTotpReplay
  ChallengeSpentOnce
  RecoveryCodesSpent
  LoginOnlyAfterConfirmation
