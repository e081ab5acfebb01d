SPECIFICATION FairSpec
CONSTANTS
    Requests = {q1, q2, q3}
    Addrs = {a1, a2}
    None = None
INVARIANTS OpenIsShared OrderlyClose
PROPERTY ShutdownEnds
CHECK_DEADLOCK FALSE
