\* A worker and the bot, five minutes in steps of half a minute.
CONSTANTS
    w1 = w1
    b1 = b1
    Workers = {w1}
    Bots = {b1}
    Unset = Unset
    ProcessRole <- Deployed
    Pid <- DistinctPids
    Ttl = 3
    Refresh = 1
    MaxTime = 4
SPECIFICATION FairSpec
CHECK_DEADLOCK FALSE
INVARIANTS
    TypeOK
    NoFalseAlarm
    DeadDetected
    ShutdownSilent
    NothingLeftOpen
PROPERTY
    EveryStopEnds
