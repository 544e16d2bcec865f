\* A crash between re-kick and acknowledgement, two slots.
CONSTANTS
    Tasks = {t1}
    Private = {t1}
    Cancellable = {}
    Slots = {w1, w2}
    MaxAttempts = 2
    Retentions = {1}
    DefaultRetention = 1
    MaxTime = 0
    MaxCrashes = 1
    MaxDrops = 0
SPECIFICATION Spec
CHECK_DEADLOCK FALSE
SYMMETRY SlotSymmetry
INVARIANT
    LinkAliveDespiteRedelivery
