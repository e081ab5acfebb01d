SPECIFICATION FairSpec
CONSTANTS
    Instances = {i1, i2}
    Ports = {p1, p2}
    None = None
    MaxStartRetries = 2
INVARIANT ProcessIsHeld
PROPERTIES ReadyIsOwnGuest StartEnds StopEnds
CHECK_DEADLOCK FALSE
