CONSTANTS
    Calls = {c1, c2}
    MayCancel = {}
    QueueMaxLen = 1
    ShutdownAfter = 1
    GracePeriod = 1
SPECIFICATION Spec
INVARIANT AddToQueueAssertions
CHECK_DEADLOCK FALSE
