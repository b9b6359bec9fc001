SPECIFICATION MCSpec
SYMMETRY MCSymmetry
CONSTANTS
    Txs = {t1, t2}
    TooLarge = TooLarge
    Candidates <- MCCandidates
    Timeout = 1
    Backoff = 1
    MaxMessages = 2
    MaxBytes = 4
    MaxTime = 2
    MaxRequests = 2
    MaxStarts = 2
    None = None
    Validators = {"v1", "v2"}
    Precommits <- MCPrecommits
    MaxTxs = 2
    MaxPrecommits = 2
    MaxHeights = 2
    NotBase64 = NotBase64
    Realms = {"realm"}
    Packages = {"package"}
    PathCaps = {"qdoc"}
    RealmCaps = {"qrender"}
    ContentAt <- MCContentAt
    Collectors = {c1, c2}
    MaxHeight = 2
    MaxWallTime = 1
    Null = Null
    Registry <- MCRegistry
    PageSize = 2
    MaxPages = 2
    Persisters = {p1, p2}
    TopHeight = 4
    Nothing = Nothing
    Nodes = {n1}
    Ips = {1, 2}
    Sources = 2
    MaxLookups = 1
    SuccessTtl = 1
    FailureTtl = 1
    Retention = 2
    Scanners = {s1, s2}
    MaxClock = 2
    NoIp = NoIp
INVARIANTS
    SummaryIsOwn
    NoStrayHelper
    VotesAndResultsFit
    MetadataTruthful
    RunStateSound
    SnapshotWhole
PROPERTIES
    GeoNotDegraded
CHECK_DEADLOCK FALSE
