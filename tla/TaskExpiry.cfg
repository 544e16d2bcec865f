\* Three attempts while keys and links expire; a row may hold retention 0.
CONSTANTS
    Tasks = {t1}
    Private = {}
    Cancellable = {}
    Slots = {w1}
    MaxAttempts = 3
    Retentions = {0, 1}
    DefaultRetention = 2
    MaxTime = 3
    MaxCrashes = 0
    MaxDrops = 0
SPECIFICATION Spec
CHECK_DEADLOCK FALSE
INVARIANT
    LinkAlive
PROPERTY
    MarkedNotResent
