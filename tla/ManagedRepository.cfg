SPECIFICATION Spec
CONSTANTS
    Proc = {p1, p2}
    NoProc = NoProc
    Change = {a, b}
    Foreign = Foreign
    MaxHistory = 2
    MaxDrift = 1
SYMMETRY Symmetric
INVARIANTS
    TypeOK
    BranchNeverDiverges
    NamedCommitsExist
    AcknowledgedWriteIsDurable
    PinIsStable
    StageSurvives
PROPERTIES
    ImplementsHistory
    BranchMovesSafely
