SPECIFICATION FairSpec
CONSTANTS
    e1 = e1
    e2 = e2
    e3 = e3
    None = None
    Urls <- MCUrls
    Latencies = {12, 16, 21}
    MinImprovement = 5
    MinPercent = 25
    Confirmations = 3
    BatchSize = 2
    MaxFaults = 1
INVARIANTS
    RestartKeepsSelection
PROPERTIES
    SwitchEarned
    SettlesOnBest
