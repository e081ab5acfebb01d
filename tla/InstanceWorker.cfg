CONSTANTS
    Calls = {c1, c2, c3}
    MayCancel = {c1}
    QueueMaxLen = 2
    ShutdownAfter = 1
    GracePeriod = 1
SPECIFICATION FairSpec
INVARIANTS
    OpenedIsLock
    HeartbeatPromise
PROPERTIES
    SerialSpec
    EventuallyStopped
    WorkersEnd
    LostOnlyInQueue
CHECK_DEADLOCK FALSE
