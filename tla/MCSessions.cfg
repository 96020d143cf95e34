SPECIFICATION Spec
CONSTANTS
  Browsers = {b1}
  Slots <- MCSlots
  Users = {u1}
  SessionIds <- MCSessionIds
  Tokens <- MCTokens
  Hashes <- MCHashes
  HashOf <- MCHashOf
  None = None
  Ttl = 5
  RenewalWindow = 2
  RotationGrace = 3
  RoundTrip = 1
  MaxTime = 6
  MaxRequests = 3
CHECK_DEADLOCK FALSE
INVARIANTS
  RotatesOnce
  HoldsCurrentToken
PROPERTIES
  RevokedIsFinal
  RefusedOnlyWhenOver
