CONSTANTS
    Requests = {r1, r2, r3}
    Conns = {x1, x2}
    MaxTasks = 2
    None = none
    Uploads = {u1, u2}
    MaxMillis = 2
    Nothing = nothing
    Handlers = {r1, r2, r3, h4, h5}
    Secrets = {x1, x2}
    NoSecret = noSecret
SPECIFICATION Spec
INVARIANTS
    TypeOK
    DoneIsDated
    DiskMatchesRows
    FactorIsProved
PROPERTIES
    ReplacedAtOnce
SYMMETRY Symmetry
CHECK_DEADLOCK FALSE
