SPECIFICATION Spec
CONSTANTS
    w1 = w1
    w2 = w2
    e1 = e1
    e2 = e2
    None = None
    Writers = {w1, w2}
    Endpoints = {e1, e2}
    Forks = {"main", "fork"}
    StartHeight = 1
    MaxHeight = 3
    BatchSize = 2
    MaxLag = 1
    MaxFaults = 1
    Reliable = {}
    Hashes <- MCHashes
    HashAt <- MCHashAt
    Serves <- MCServesForked
SYMMETRY MCWriterSymmetry
INVARIANTS
    ChainLinked
    ExpectedIsStored
    CoverageExact
    SourceServedHeight
PROPERTIES
    FinalizedStable
    RefinesChainLog
