SPECIFICATION Spec
CONSTANTS
    PieceSize = 6
    TreeNodeCap = 100
    ArgSize = 0
    ArgNProcess = 0
    MCChainBits = 2
    MCSize = 9
    Node <- MCNode9
    NoNode = NoNode
    NProcess = 3
    MemLaunch = 6
    MemMax = 8
    LeafCost = 3
    JoinCost <- MCLightCost
    JoinCeiling <- MCLightCeiling
    Kept <- MCNone
    Shared <- MCNone
    MaxFailures = 0
    KeyOf <- MCKeyOf
    Config <- MCConfig
    MaxUpsets = 0
    UpsetsAfter <- MCNone
    Big <- MCBig
    BarWidths = {3, 7}
    RssReadings = {0, 20}
VIEW MCView
INVARIANT QueueDimsWhenFull
