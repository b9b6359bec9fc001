SPECIFICATION Spec
CONSTANTS
    a = a
    b = b
    None = None
    Paths <- MCPaths
    MaxHeight = 3
    CallsAt <- MCCallsAt
    VisibleAt <- MCVisibleAt
    LegacyHeights = {0, 1}
INVARIANTS
    CallIndexExact
    AlignedIsExact
    LiveNeverRefused
PROPERTIES
    PublishesNewest
