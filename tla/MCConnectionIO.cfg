SPECIFICATION Spec
CONSTANTS
    StreamLen <- ClientSends
    PayloadSizes = {1, 2}
    encryption_limit = 1
    tickets_to_send = 1
    Capacity = 2
    Duplex = FALSE
INVARIANTS
    NothingSkippedOrRepeated
    ReportedIsOnTheWire
    StreamIntact
    KeysInSync
