SPECIFICATION Spec
CONSTANTS
    Bytes = {0, 1, 3}
    OrderSize = 3
    MarketDataSize = 2
    TradeExecutionSize = 3
    BufferSize = 9
    MaxMessageSize = 12
    ChecksumBits = 16
    MaxField = 14
INVARIANTS
    RoundTrip
    CutIsIncomplete
    DamageConfined
    WritesWithinLimit
CHECK_DEADLOCK FALSE
