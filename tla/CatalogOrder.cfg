SPECIFICATION ScreenSpec
CONSTANTS
    Admins = {ana}
    None = None
    Failed = Failed
    Names = {"a", "b"}
    EdgeIds <- MCEdgeIds
    NodeIds <- MCNodes
    Nodes <- MCNodes
    NodeKind <- MCNodeKind
    Positions <- MCNodes
    InitialRows <- MCInitialRows
    InitialNodes <- MCInitialNodes
    Filters <- MCFilters
    MaxCalls = 2
    MaxMoves = 2
PROPERTIES
    OrderOnlyFromOutgoing
CHECK_DEADLOCK FALSE
