SPECIFICATION Spec
CONSTANTS
    Node <- MCNode9
    Span <- MCSpan
    SigFits <- MCFits9
    Shared <- MCShared9
    KeepPieces = TRUE
    Worker = {w1, w2}
    NoWorker = NoWorker
    NoNode = NoNode
    NoFile = NoFile
    MaxFailures = 1
INVARIANTS
    TypeOK
    CompleteIsWhole
    LoadsSucceed
    LockDiscipline
    OneForm
SYMMETRY MCSymmetry
PROPERTIES
    CommittedKept
