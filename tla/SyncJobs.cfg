CONSTANTS
    Workers = 2
    Record <- Two
    Matching <- First
    PageSize = 1
    MaxAttempts = 2
    Interval = 2
    LeaseTime = 1
    MaxDelay = 1
    ManualKey = {1}
    None = None
    MaxRuns = 2
    MaxClock = 1
    MaxTasks = 1
    MaxUpsets = 2
SPECIFICATION Spec
CONSTRAINT FewFailures
INVARIANTS
    TypeOK
    RunsReadInOrder
    RetirementsAreSound
    RetirementsAreReviewed
CHECK_DEADLOCK FALSE
