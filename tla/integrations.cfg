CONSTANTS
    Devices = {d1}
    Handlers = {h1, h2}
    MaxTs = 2
    Clients = {c1, c2, c3}
    FirstClient = c1
    MaxDelay = 2
    Requests = {r1, r2}
    MaxFailures = 3
    OpenWindow = 2
    PageRange = 2
    MaxInstant = 5
    Ranges <- MCRanges
    MqttWindow = 1
    HistoryWindow = 2
    MaxNow = 3
SPECIFICATION Spec
INVARIANTS
    TypeOK
    SnapshotHasPoints
    OnlyDisorderSetsBack
    IngestHealthIsEarned
    NeverStranded
    PagesMakeTheWhole
PROPERTIES
    Recovers
    BreakerSpec
CHECK_DEADLOCK FALSE
