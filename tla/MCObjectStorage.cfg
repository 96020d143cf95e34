SPECIFICATION Spec
CONSTANTS
  outer = outer
  inner = inner
  Requests = {r1, r2}
  Keys <- MCKeys
  Root = Root
  Above <- MCAbove
  Uploads <- MCUploads
  None = None
  Lengths <- MCLengths
  Limits <- MCLimits
  MaxRequests = 4
  MaxCrashes = 1
SYMMETRY MCSymmetry
INVARIANTS
  StoredUntilRemoved
  OneObjectPerDownload
  TemporariesAreSwept
PROPERTIES
  CreateOnly
CHECK_DEADLOCK FALSE
