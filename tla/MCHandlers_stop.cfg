SPECIFICATION FairSpec
CONSTANTS
    c1 = c1
    c2 = c2
    c3 = c3
    HOST = HOST
    Conns = {c1, c2}
    Fds = {3, 4}
    MaxClients = 2
    MAX_CLIENTS = 2
    MaxMessages = 1
    Types = {"ORDER", "MARKET_DATA", "TRADE_EXEC", "DAMAGED", "OTHER"}
    Tracked = FALSE
PROPERTIES
    StopCompletes
CHECK_DEADLOCK FALSE
