SPECIFICATION Spec
CONSTANTS
    c1 = c1
    c2 = c2
    c3 = c3
    HOST = HOST
    Conns = {c1, c2, c3}
    Fds = {3, 4, 5}
    MaxClients = 2
    MAX_CLIENTS = 2
    MaxMessages = 1
    Types = {"MARKET_DATA"}
    Tracked = TRUE
INVARIANTS
    TypeOK
    CountExact
    BroadcastExact
SYMMETRY Symmetry
CHECK_DEADLOCK FALSE
