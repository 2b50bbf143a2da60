SPECIFICATION Spec
CONSTANTS
    Node <- MCNode5
    Span <- MCSpan
    SigFits <- MCFits5
    Shared <- MCNone
    KeepPieces = TRUE
    Worker = {w1, w2}
    NoWorker = NoWorker
    NoNode = NoNode
    NoFile = NoFile
    MaxFailures = 0
PROPERTIES
    PiecesLeft
