CONSTANTS
    Users = {u1, u2}
    Nobody = nobody
    MaxPairs = 3
    Calls = {k1, k2}
    Tabs = {t1, t2}
    Slots = {s1, s2}
    Runs = {e1, e2}
    MaxTokens = 2
    Saves = {v1, v2}
SPECIFICATION Spec
INVARIANTS
    TypeOK
    SignOutSticks
    ShownUserOwnsTokens
    WebSignOutSticks
    FlagsTellTheTruth
    SwitchTellsTheTruth
PROPERTIES
    OnlyMishapsSignOut
    OneTabKeepsSession
    DisabledStaysSilent
CONSTRAINT StillPromised
SYMMETRY Symmetry
CHECK_DEADLOCK FALSE
