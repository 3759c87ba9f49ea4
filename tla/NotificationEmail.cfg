SPECIFICATION Spec
CONSTANTS
    Day = 1
    HourSlots = 1
    Worker = {w1, w2}
    Recipient = {r1, r2}
    Organization = {o1, o2}
    Wish <- OnOrOff
    Delivery <- Two
    RecipientOf <- ForEach
    OrgOf <- AboutTwo
    MaxAttempts = 2
    MaxDigest = 1
    MaxDelay = 2
    BatchSize = 3
    MaxClock = 1
    MaxCrashes = 1
    MaxAdmin = 1
    MaxUpsets = 2
    MaxAccepted = 2
    r1 = r1
    r2 = r2
    o1 = o1
    o2 = o2
SYMMETRY Symmetric
INVARIANTS
    TypeOK
    ClosedAccountsGetNothing
    MailedOnce
PROPERTIES
    ImplementsPromise
CHECK_DEADLOCK FALSE
