CONSTANTS
    Procs = {p1, p2}
    Keys = {k1, k2, k3}
    NoKey = NoKey
    Limit = 1
    Window = 3
    Slack = 1
    Delay = 1
    Retry = 2
    TTL = 3
    MaxClients = 1
    MaxTime = 5
    MaxRequests = 3
    MaxFaults = 2
SYMMETRY Symmetry
SPECIFICATION Spec
INVARIANTS TypeOK SharedLimit MemoryLimit RefusedUncounted
CHECK_DEADLOCK FALSE
PROPERTY CleanupMakesRoom
