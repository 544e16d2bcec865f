\* Each filter against the messages at its edges; two pages; one late message.
CONSTANTS
    Cases <- AllCases
    Late <- LateMessage
    PageSize = 2
    MaxPosts = 1
SPECIFICATION FairSpec
CHECK_DEADLOCK FALSE
INVARIANTS
    TypeOK
    ArchiveComplete
    WholeOrNothing
    EmptyMeansNothing
    TallyHonest
PROPERTIES
    PositionForward
    EveryWalkEnds
