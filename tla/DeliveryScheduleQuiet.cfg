SPECIFICATION Spec
CONSTANTS
    Day = 6
    HourSlots = 2
    Days = 3
INVARIANTS
    QuietHoursAreKept
CHECK_DEADLOCK FALSE
