SPECIFICATION Spec
CONSTANTS
  Clients = {c1, c2}
  Emails = {e1}
  Subjects = {s1, s2}
  ChallengeIds <- MCChallengeIds
  None = None
  Free = Free
  ChallengeTtl = 2
  ResendCooldown = 1
  MaximumAttempts = 2
  MaxTime = 2
  MaxRequests = 3
INVARIANTS
  IdentitiesKeepApart
  OneOpenChallenge
  CodesWereMailed
  SpacedUnlessOverlapped
  NewestCodeIsOpen
PROPERTIES
  ActivatedByOpenCode
