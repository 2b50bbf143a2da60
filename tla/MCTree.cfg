SPECIFICATION Spec
CONSTANTS
    PieceSpan = 6
    ChainBits = 3
    MaxSize = 45
    MCNodeCap = 100
INVARIANTS
    TypeOK
    AssertsHold
    ChildrenSplitRange
    RangesNest
    NamesUnique
    NamesAgree
    DashboardAgrees
CHECK_DEADLOCK FALSE
