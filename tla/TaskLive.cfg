\* Errors, retries, a cancellation and a crash around one job.
CONSTANTS
    Tasks = {t1}
    Private = {}
    Cancellable = {t1}
    Slots = {w1}
    MaxAttempts = 3
    Retentions = {1}
    DefaultRetention = 1
    MaxTime = 0
    MaxCrashes = 1
    MaxDrops = 0
SPECIFICATION FairSpec
CHECK_DEADLOCK FALSE
INVARIANTS
    TypeOK
    NoticeBeforeClaim
    PartialBlobCleaned
    RetriesAccounted
    NeverLost
PROPERTIES
    EveryJobSettles
    UndisturbedJobDelivered
    ForgetOnlyAfterNotice
