\* Two /setup handlers in flight while jobs read the row.
CONSTANTS
    Setups = {h1, h2}
    Jobs = {j1, j2}
    DmMe = {j2}
    Channels = {c1}
    None = None
    Kinds = {image, video}
    Retentions = {1, 2}
    DefaultHours = 1
    MaxSetups = 3
SPECIFICATION Spec
CHECK_DEADLOCK FALSE
INVARIANTS
    TypeOK
    NeverBounces
    IndexMatchesLink
PROPERTY
    ClearPreserves
