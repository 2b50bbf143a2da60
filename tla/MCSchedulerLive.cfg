SPECIFICATION FairSpec
CONSTANTS
    MCPieceSpan = 6
    MCChainBits = 2
    MCSize = 5
    Node <- MCNode5
    NoNode = NoNode
    NProcess = 2
    MemLaunch = 6
    MemMax = 7
    LeafCost = 3
    JoinCost <- MCJoinCost
    JoinCeiling <- MCJoinCeiling
    Kept <- MCKept
    Shared <- MCShared
    MaxFailures = 2
PROPERTIES
    Finishes
    CacheRefined
