CONSTANTS
    EVQ_SIZE = 4
    BATCH = 2
    MaxSerial = 5
SPECIFICATION FairSpec
INVARIANTS
    NothingLost
    MergedIsSuperseded
PROPERTIES
    ImplementsFifo
    EverythingIsDelivered
