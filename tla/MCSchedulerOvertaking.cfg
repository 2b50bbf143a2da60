SPECIFICATION Spec
CONSTANTS
    MCPieceSpan = 6
    MCChainBits = 2
    MCSize = 9
    Node <- MCNode9
    NoNode = NoNode
    NProcess = 3
    MemLaunch = 9
    MemMax = 11
    LeafCost = 1
    JoinCost <- MCJoinCost
    JoinCeiling <- MCJoinCeiling
    Kept <- MCKept
    Shared <- MCShared
    MaxFailures = 1
PROPERTIES
    NoOvertaking
