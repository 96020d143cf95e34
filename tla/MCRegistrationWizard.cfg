SPECIFICATION Spec
CONSTANTS
  Tabs = {t1, t2}
  None = None
  Subject = 1
  Addresses = {"account", "confirm-google"}
  MaxRequests = 3
  MaxStrays = 1
SYMMETRY MCSymmetry
INVARIANTS
  StepsInOrder
  NoEmptyStep
  RegistrationReachesCode
  NothingLeftBehind
CHECK_DEADLOCK FALSE
