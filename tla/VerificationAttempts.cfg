SPECIFICATION Spec
CONSTANTS
  Clients = {c1, c2}
  Emails = {e1}
  Subjects = {s1}
  ChallengeIds <- MCChallengeIds
  None = None
  Free = Free
  ChallengeTtl = 3
  ResendCooldown = 2
  MaximumAttempts = 1
  MaxTime = 1
  MaxRequests = 3
PROPERTIES
  AttemptsLimited
