SPECIFICATION ScreenSpec
CONSTANTS
    Admins = {ana, bea}
    None = None
    Failed = Failed
    Names = {"a", "b"}
    EdgeIds <- MCEdgeIds
    NodeIds <- MCNodes
    Nodes <- MCNodes
    NodeKind <- MCNodeKind
    Positions <- MCNodes
    InitialRows <- MCInitialRows
    InitialNodes <- MCInitialNodes
    Filters <- MCFilters
    MaxCalls = 2
    MaxMoves = 2
SYMMETRY Symmetry
INVARIANTS
    ShownIsCurrent
CHECK_DEADLOCK FALSE
