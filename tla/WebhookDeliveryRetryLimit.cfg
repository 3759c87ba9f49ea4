SPECIFICATION FairSpec
CONSTANTS
    Worker = {w1}
    Endpoint = {e1}
    Unreadable = {}
    Organization = {o1}
    OwnerOf <- OneOwner
    Delivery <- Two
    EndpointOf <- SameForBoth
    MaxAttempts = 2
    AttemptsLimit = 2
    MaxDelay = 2
    BatchSize = 2
    TimeLimit = 9
    MaxClock = 1
    MaxCrashes = 0
    MaxAdmin = 1
    MaxAccepted = 2
    e1 = e1
    e2 = e2
    o1 = o1
    o2 = o2
PROPERTIES
    DeliveriesEnd
CHECK_DEADLOCK FALSE
