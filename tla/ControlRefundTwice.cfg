\* Two /cancel for a job that is still queued.
CONSTANTS
    Jobs = {j1}
    Users = {u1, u2}
    Guilds = {g1}
    NoGuild = None
    owner = u2
    OwnerOf <- AllOwnedBy
    BotOwners = {}
    Calls = {h1}
    Retentions = {1}
    DefaultRetention = 1
    ResultHours = 1
    MaxTurns = 3
    MaxTime = 0
SPECIFICATION Spec
CHECK_DEADLOCK FALSE
INVARIANTS
    OneRefundPerToken
