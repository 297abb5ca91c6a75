SPECIFICATION Spec
CONSTANTS
    Fds = {3, 4}
    MaxConnects = 1
    MaxMessages = 1
    MaxSends = 2
    CreateFails = TRUE
INVARIANTS
    NoSocketWhenDisconnected
CHECK_DEADLOCK FALSE
