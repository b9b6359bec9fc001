SPECIFICATION SchemaSpec
CONSTANTS
    Terminals = {1, 2}
    Rows = {1, 2, 3}
    BatchSize = 2
    MaxAborts = 1
INVARIANTS
    SchemaExact
PROPERTIES
    ReachesFinal
CHECK_DEADLOCK FALSE
