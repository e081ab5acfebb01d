SPECIFICATION FairSpec
CONSTANTS
    MaxBatch = 3
    MaxOpen = 2
INVARIANT AtMostOneStale
PROPERTIES BurstIsPaced FollowsEnabled WorkerEnds
CHECK_DEADLOCK FALSE
