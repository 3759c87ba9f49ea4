SPECIFICATION FairSpec
CONSTANTS
    Day = 2
    HourSlots = 1
    Worker = {w1}
    Recipient = {r1, r2}
    Organization = {o1, o2}
    Wish <- Digested
    Delivery <- Four
    RecipientOf <- ForFour
    OrgOf <- AboutFour
    MaxAttempts = 2
    MaxDigest = 2
    MaxDelay = 2
    BatchSize = 3
    MaxClock = 2
    MaxCrashes = 1
    MaxAdmin = 1
    MaxUpsets = 1
    MaxAccepted = 2
    r1 = r1
    r2 = r2
    o1 = o1
    o2 = o2
INVARIANTS
    DigestsAreNotMixed
PROPERTIES
    DeliveriesEnd
CHECK_DEADLOCK FALSE
