SPECIFICATION FairSpec
CONSTANTS
    Fds = {3, 4}
    MaxConnects = 2
    MaxMessages = 0
    MaxSends = 1
    CreateFails = TRUE
INVARIANTS
    TypeOK
    OneReader
    OneAttached
    SocketNamesConnection
    OrdersCounted
PROPERTIES
    CleanupCompletes
CHECK_DEADLOCK FALSE
