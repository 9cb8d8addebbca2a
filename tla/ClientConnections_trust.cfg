SPECIFICATION Spec
CONSTANTS
    s1 = s1
    s2 = s2
    key1 = key1
    key2 = key2
    oldKey = oldKey
    NoKey = NoKey
    Servers = {s1, s2}
    Connections <- MCConnections
    ServerOf <- MCServerOf
    KeyOf <- MCKeyOf
    InitiallyKnown <- MCInitiallyKnown
    BatchSize = 3
    TrustAll = FALSE
    MaxAttempts = 2
    MaxReconnects = 1
    ThrottleSize = 1
    Retry = TRUE
INVARIANTS
    ChannelsExact
    TrustedIsKnown
PROPERTIES
    ThrottleIsPool
    CancelEnds
CHECK_DEADLOCK FALSE
