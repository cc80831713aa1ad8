SPECIFICATION HelloSpec
CONSTANTS
    Examined = {"psk"}
    Setups <- SelectionSetups
    AgeAdds = {15}
    PskSetups <- RetrySetups
    Sizes = {5, 20}
    MaxSends = 2
    MaxClock = 5
    MaxRounds = 2
INVARIANT
    PskAgreed
CHECK_DEADLOCK FALSE
