CONSTANTS
    Interval = 5
    MinEventSyncInterval = 3
    EventDelay = 2
    Informers = {i1, i2}
    StartTime = 3
    MaxTime = 10
    MaxSoftErrors = 1
SPECIFICATION Spec
INVARIANTS
    TypeOK
    EventScheduled
    PeriodicRunKept
PROPERTY SpacedUnlessRaced
CHECK_DEADLOCK FALSE
