SPECIFICATION Spec
CONSTANTS
    Fds = {3, 4}
    MaxConnects = 2
    MaxMessages = 0
    MaxSends = 0
    CreateFails = FALSE
INVARIANTS
    FreedAfterThreads
CHECK_DEADLOCK FALSE
