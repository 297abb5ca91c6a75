SPECIFICATION FairSpec
CONSTANTS
    c1 = c1
    c2 = c2
    c3 = c3
    Conns = {c1, c2, c3}
    Fds = {3, 4, 5, 6, 7}
    MaxClients = 2
    Backlog = 2
    LevelOption = 2
    AcceptErrors = {}

PROPERTIES
    ShutdownCompletes
CHECK_DEADLOCK FALSE
