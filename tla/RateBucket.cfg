\* Two callers, one with a clock ahead; a tick refills one and a half tokens, the TTL is 2 ticks.
CONSTANTS
    Callers = {c1, c2}
    Ahead = {c2}
    Skew = 1
    Capacity = 2
    RefillPerHour = 3
    Hour = 2
    MaxTime = 3
    MaxCalls = 4
SPECIFICATION FairSpec
CHECK_DEADLOCK FALSE
INVARIANTS
    TypeOK
    WindowBound
    RefusalJustified
PROPERTY
    EveryCallReturns
