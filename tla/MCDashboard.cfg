SPECIFICATION MCSpec
CONSTANTS
    PieceSize = 6
    TreeNodeCap = 100
    ArgSize = 7
    ArgNProcess = 1
    MCChainBits = 2
    MCSize = 13
    Node <- MCNode13
    NoNode = NoNode
    NProcess = 2
    MemLaunch = 12
    MemMax = 15
    LeafCost = 3
    JoinCost <- MCJoinCost
    JoinCeiling <- MCJoinCeiling
    Kept <- MCNone
    Shared <- MCShared
    MaxFailures = 1
    KeyOf <- MCKeyOf
    Config <- MCConfig
    MaxUpsets = 1
    UpsetsAfter <- MCUpsetsAfter
    Big <- MCBig
    BarWidths = {3, 7}
    RssReadings = {0, 20}
VIEW MCView
INVARIANTS
    TrailExact
    RunningShown
    ProgressExact
    BooksMirrored
    LiveNeverOverstated
    UtilisationBounded
    LadderTiles
    BarsTrue
