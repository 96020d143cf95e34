SPECIFICATION RecoverySpec
CONSTANTS
  Browsers = {b1, b2}
  Passwords <- MCPasswords
  Old = 0
  Codes <- MCCodes
  SessionIds <- MCSessionIds
  None = None
  MaximumAttempts = 1
  MaxRequests = 3
  MaxStrays = 1
SYMMETRY MCSymmetry
INVARIANTS
  RecoveryTypeOK
  OldSessionsEnd
  CodeUsedOnce
  GuessesLimited
  PagesFollowState
CHECK_DEADLOCK FALSE
