\* Commands in flight against two jobs of one index, while keys expire.
CONSTANTS
    Jobs = {j1, j2}
    Users = {u1, u2}
    Guilds = {g1}
    NoGuild = None
    owner = u2
    OwnerOf <- AllOwnedBy
    BotOwners = {}
    Calls = {h1, h2}
    Retentions = {0, 2}
    DefaultRetention = 1
    ResultHours = 1
    MaxTurns = 4
    MaxTime = 2
SPECIFICATION Spec
CHECK_DEADLOCK FALSE
SYMMETRY CallSymmetry
INVARIANTS
    TypeOK
    RefundDue
    CancelledOutranks
    QueuedMeansUnstarted
    MetaMeansListed
