SPECIFICATION Spec
CONSTANTS
    UINT32_MAX = 3
    GROWTH = 2
    PageSize = 1
    Radix = 2
    Keys = {"a", "b", "c"}
    Values = {1, 2}
    Elements = {1, 2, 3, 4}
    InitialCapacity = 2
    MaxCapacity = 4
    S2N_INITIAL_ARRAY_SIZE = 2
    Failures = 1
    Inputs <- MCInputs
    MaxForks = 1
    Threads = {"main", "other"}
    MaxPages = 2
    MaxDice = 15
    Callers = {"a", "b", "c"}
    MaxGenerations = 3
INVARIANTS
    LibraryRight
    ForkNoticed
PROPERTIES
    StufferIsQueue
CHECK_DEADLOCK FALSE
