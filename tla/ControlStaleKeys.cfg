\* /status for a job whose index entry outlives its progress and result.
CONSTANTS
    Jobs = {j1}
    Users = {u1, u2}
    Guilds = {g1}
    NoGuild = None
    owner = u2
    OwnerOf <- AllOwnedBy
    BotOwners = {}
    Calls = {h1}
    Retentions = {2}
    DefaultRetention = 1
    ResultHours = 1
    MaxTurns = 3
    MaxTime = 1
SPECIFICATION Spec
CHECK_DEADLOCK FALSE
INVARIANTS
    AbsenceIsUnambiguous
