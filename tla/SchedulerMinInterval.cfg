CONSTANTS
    Interval = 5
    MinEventSyncInterval = 3
    EventDelay = 2
    Informers = {i1}
    StartTime = 3
    MaxTime = 10
    MaxSoftErrors = 1
SPECIFICATION Spec
PROPERTY MinimumIntervalKept
CHECK_DEADLOCK FALSE
