SPECIFICATION FairSpec
CONSTANTS
    Node <- MCNode5
    Span <- MCSpan
    SigFits <- MCFits5
    Shared <- MCShared5
    KeepPieces = TRUE
    Worker = {w1, w2}
    NoWorker = NoWorker
    NoNode = NoNode
    NoFile = NoFile
    MaxFailures = 2
PROPERTIES
    Finishes
    CacheRefined
