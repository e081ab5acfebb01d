CONSTANTS
    FunctionIds = {f1}
    InstanceIds = {i1}
    RunnerAddrs = {r1}
    QueueLens = {0}
    None = None
    Requests = {q1, q2}
    Deployed = {f1}
    InstanceOverload = 1
    RunnerOverload = 1
    MaxCrashes = 0
SPECIFICATION FairSpec
PROPERTY WarmInstanceUsed
