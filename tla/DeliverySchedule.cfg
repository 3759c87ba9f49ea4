SPECIFICATION Spec
CONSTANTS
    Day = 6
    HourSlots = 2
    Days = 3
INVARIANTS
    MovedToTheEndOfQuietHours
    DigestIsTheNextOne
    PutOffOnce
CHECK_DEADLOCK FALSE
