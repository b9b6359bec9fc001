SPECIFICATION RangeSpec
CONSTANTS
    w1 = w1
    e1 = e1
    e2 = e2
    None = None
    Writers = {w1}
    Endpoints = {e1, e2}
    Forks = {"main", "fork"}
    StartHeight = 2
    MaxHeight = 3
    BatchSize = 2
    MaxLag = 1
    MaxFaults = 0
    Reliable = {}
    Hashes <- MCHashes
    HashAt <- MCHashAt
    Serves <- MCServes
INVARIANTS
    CoverageTruthful
PROPERTIES
    RangeFinalizedStable
