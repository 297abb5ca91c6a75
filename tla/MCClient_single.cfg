SPECIFICATION FairSpec
CONSTANTS
    Fds = {3, 4}
    MaxConnects = 1
    MaxMessages = 2
    MaxSends = 0
    CreateFails = TRUE
INVARIANTS
    FreedAfterThreads
    NothingLeftOpen
    StaysConnected
    DeliveredInOrder
    CallbacksBalance
PROPERTIES
    EndNoticed
    CleanupCompletes
CHECK_DEADLOCK FALSE
