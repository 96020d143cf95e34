SPECIFICATION Spec
CONSTANTS
  alice = alice
  bob = bob
  carol = carol
  node = node
  edge = edge
  Accounts <- MCAccounts
  Uuids <- MCUuids
  Slots = {s1, s2}
  Requests <- MCRequests
  InitialAssignments <- MCInitialAssignments
  InitialActive <- MCInitialActive
  InitialCatalog <- MCInitialCatalog
SYMMETRY SlotSymmetry
INVARIANTS
  LostOnlyByOverlap
PROPERTIES
  EffectsAreAuthorized
