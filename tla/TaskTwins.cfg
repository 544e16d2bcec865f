\* Two slots: a lost connection leaves two live copies of one job.
CONSTANTS
    Tasks = {t1}
    Private = {t1}
    Cancellable = {}
    Slots = {w1, w2}
    MaxAttempts = 2
    Retentions = {1}
    DefaultRetention = 1
    MaxTime = 0
    MaxCrashes = 0
    MaxDrops = 1
SPECIFICATION Spec
CHECK_DEADLOCK FALSE
SYMMETRY SlotSymmetry
INVARIANTS
    SingleFlight
    NeverLost
PROPERTY
    ImplementsLifecycle
