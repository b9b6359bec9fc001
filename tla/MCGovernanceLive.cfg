SPECIFICATION LiveSpec
CONSTANTS
    main = main
    fork = fork
    unclear = unclear
    u1 = u1
    u2 = u2
    e1 = e1
    e2 = e2
    None = None
    Updaters = {u1}
    Endpoints = {e1, e2}
    Reliable = {e1}
    Histories = {main, fork, unclear}
    Services <- MCServices
    Renders <- MCRenders
    Proposals = {1, 2}
    MaxHeight = 3
    MaxLag = 1
    Contents = {"c1", "c2", "c3"}
    RawBytes <- MCRawBytes
    MaxRawBytes = 5
    MaxFaults = 2
PROPERTIES
    Settles
