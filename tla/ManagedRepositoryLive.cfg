SPECIFICATION FairSpec
CONSTANTS
    Proc = {p1, p2}
    NoProc = NoProc
    Change = {a}
    Foreign = Foreign
    MaxHistory = 1
    MaxDrift = 1
PROPERTIES
    CallsEnd
