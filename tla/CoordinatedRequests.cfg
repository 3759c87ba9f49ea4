SPECIFICATION Spec
CONSTANTS
    Proc = {p1, p2}
    Repo = {r1, r2}
    File = {f1}
    NoProc = NoProc
    Absent = Absent
    Foreign = Foreign
    MaxDepth = 2
    MaxHistory = 2
    MaxFaults = 1
SYMMETRY Symmetric
CONSTRAINT EitherInstance
INVARIANTS
    TypeOK
    QuietIsMatched
    FilesMatchRows
    BranchNeverLosesAccepted
PROPERTIES
    AcceptedOnlyGrows
    DriftIsLeftAlone
