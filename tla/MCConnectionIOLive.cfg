SPECIFICATION FairSpec
CONSTANTS
    StreamLen <- ClientOnly
    PayloadSizes = {1}
    encryption_limit = 1
    tickets_to_send = 0
    Capacity = 1
    Duplex = FALSE
PROPERTIES
    EverythingArrives
    ShutdownsMeet
