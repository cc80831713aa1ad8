SPECIFICATION Spec
CONSTANTS
    Configs <- Tls12Configs
    MaxEarlyData = 0
    MaxMessages = 16
INVARIANTS
    NoRewritingThePast
    KeysInStep
    Agreement
PROPERTIES
    NonceNeverRepeats
    Completes
