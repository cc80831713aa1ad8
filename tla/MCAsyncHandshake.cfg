SPECIFICATION FairSpec
CONSTANTS
    MaxRecordUnits = 4
    MaxWipes = 1
    CoalesceAfterAsync = FALSE
INVARIANTS
    NothingLost
PROPERTIES
    InOrder
    HandshakeEnds
CHECK_DEADLOCK FALSE
