SPECIFICATION MCSpec
CONSTANTS
    Parts = {"cache", "history", "signing", "assets", "sessions"}
    v1 = v1
    v2 = v2
    Tasks = {t1, t2}
    Requested = {"transaction_search_window", "block"}
    MaxEntries = 2
    Ttl <- MCTtl
    MaxTime = 2
    MaxCancels = 1
    NoLeader = NoLeader
    TxsAt <- MCTxsAt
    HistoryWindow = 2
    EmptyHops = 2
    PageRows = 2
    MaxPage = 3
    Endpoints = {1, 2}
    Indexed = {2}
    MaxLag = 1
    SuspectTime = 1
    MaxNow = 1
    Signers = {v1, v2}
    SignersAt <- MCSignersAt
    SignedAt <- MCSignedAt
    Points = 2
    SetCache = 2
    TaskIds = {1, 2}
    SetAt <- MCSetAt
    TxAt <- MCTxAt
    CallsAt <- MCCallsAt
    OwnAt <- MCOwnAt
    Undecoded = {2}
    Validators = {v1, v2}
    Window = 2
    Span = 1
    Limit = 1
    Proposals <- MCProposals
    Votes <- MCVotes
    Proposal = 2
    MaxMetadata = 2
    AssetPaths = {"art", "coin"}
    StandardsOf <- MCStandardsOf
    Verifies <- MCVerifies
    HasSource <- MCHasSource
    CacheSize = 2
    Handlers = {h1, h2}
    Threads = {1, 2, 3}
    Sessions = {1, 2, 3, 4, 5}
    MaxSessions = 2
INVARIANTS
    SingleFlight
    FreshAnswers
    HistoryComplete
    StripSound
    AssetsVerified
    SessionsSound
PROPERTIES
    Answered
CHECK_DEADLOCK FALSE
