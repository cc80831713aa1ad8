SPECIFICATION Spec
CONSTANTS
    Configs <- Tls13Configs
    MaxEarlyData = 2
    MaxMessages = 16
INVARIANTS
    NoRewritingThePast
    KeysInStep
    Agreement
    EarlyDataAllOrNothing
PROPERTIES
    NonceNeverRepeats
    Completes
