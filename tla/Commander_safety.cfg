CONSTANTS
    FunctionIds = {f1, f2}
    InstanceIds = {i1, i2}
    RunnerAddrs = {r1, r2}
    QueueLens = {0, 1}
    None = None
    Requests = {q1, q2}
    Deployed = {f1, f2}
    InstanceOverload = 1
    RunnerOverload = 1
    MaxCrashes = 1
SPECIFICATION Spec
CONSTRAINT SafetyBound
SYMMETRY Symmetry
INVARIANTS
    IndexesAgree
    RequestsAreTotals
    CacheIsTrue
    RoutedRight
    CachedArePolled
