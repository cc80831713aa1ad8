SPECIFICATION FairSpec
CONSTANTS
    MaxRecords = 3
    MaxSent = 2
    CoalesceAlerts = FALSE
INVARIANTS
    StreamUnderstood
PROPERTIES
    EndIsNoticed
CHECK_DEADLOCK FALSE
