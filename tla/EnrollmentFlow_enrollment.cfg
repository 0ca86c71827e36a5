\* Two functions of one page, two registrations.
SPECIFICATION Spec
CONSTANTS
  Accounts = {a1, a2}
  Slots = {w1, w2}
  MaxSessions = 2
  MaxFactors = 2
  None = None
SYMMETRY Symmetry
INVARIANTS TypeOK SecretSavedFirst DisabledHasOwner OneAccountUnlessOvertaken
