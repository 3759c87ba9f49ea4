SPECIFICATION Spec
CONSTANTS
    Worker = {w1, w2}
    Endpoint = {e1, e2}
    Unreadable = {}
    Organization = {o1, o2}
    OwnerOf <- TwoOwners
    Delivery <- Two
    EndpointOf <- OneEach
    MaxAttempts = 2
    AttemptsLimit = 2
    MaxDelay = 2
    BatchSize = 2
    TimeLimit = 2
    MaxClock = 1
    MaxCrashes = 1
    MaxAdmin = 1
    MaxAccepted = 2
    e1 = e1
    e2 = e2
    o1 = o1
    o2 = o2
SYMMETRY Symmetric
INVARIANTS
    TypeOK
    CallIsCurrent
    AcceptedOnce
PROPERTIES
    ImplementsPromise
CHECK_DEADLOCK FALSE
