SPECIFICATION HelloSpec
CONSTANTS
    Examined = {"selection", "features", "psk"}
    Setups <- SelectionSetups
    AgeAdds = {15}
    PskSetups <- MCPskSetups
    Sizes = {5, 20}
    MaxSends = 2
    MaxClock = 5
    MaxRounds = 2
INVARIANTS
    SelectionRight
    FeaturesRight
    PskRight
CHECK_DEADLOCK FALSE
