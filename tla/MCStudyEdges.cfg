SPECIFICATION Spec
CONSTANTS
  EdgeIds <- MCEdgeIds
  NodeIds <- MCNodeIds
  Nodes <- MCNodes
  NodeKind <- MCNodeKind
  Positions <- MCPositions
  InitialEdges <- MCInitialEdges
  Requests <- MCRequests
  Clients = {c1, c2}
  Free = Free
  MaxRequests = 4
INVARIANTS
  ReadsStillCurrent
  DeadlockNeedsMisplacedMove
PROPERTIES
  ChangedGroupsAreDense
  AtomicOperations
