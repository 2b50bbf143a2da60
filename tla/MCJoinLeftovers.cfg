SPECIFICATION Spec
CONSTANTS
    Node <- MCNode5
    Span <- MCSpan
    SigFits <- MCNone
    Shared <- MCNone
    KeepPieces = FALSE
    Worker = {w1, w2}
    NoWorker = NoWorker
    NoNode = NoNode
    NoFile = NoFile
    MaxFailures = 1
INVARIANTS
    NoLeftovers
