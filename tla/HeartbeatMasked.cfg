\* The bot outlives the only worker.
CONSTANTS
    w1 = w1
    b1 = b1
    Workers = {w1}
    Bots = {b1}
    Unset = Unset
    ProcessRole <- Deployed
    Pid <- DistinctPids
    Ttl = 3
    Refresh = 1
    MaxTime = 4
SPECIFICATION Spec
CHECK_DEADLOCK FALSE
INVARIANT
    WorkerProbeHonest
