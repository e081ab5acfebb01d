CONSTANTS
    Calls = {c1, c2, c3}
    MayCancel = {c1}
    MaxCrashes = 1
SPECIFICATION FairSpec
INVARIANTS
    SingleFlight
    NoLostSubscriber
    AnsweredWasSubmitted
    FilesSound
CHECK_DEADLOCK FALSE
PROPERTY EveryCallReturns
