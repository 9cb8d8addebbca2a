SPECIFICATION Spec
CONSTANTS
    s1 = s1
    s2 = s2
    m1 = m1
    m2 = m2
    f1 = f1
    Servers = {s1, s2}
    Message = {m1, m2}
    Files = {f1}
    From <- TwoServers
    MaxGeneration = 0
    Modes <- RemoteClient
INVARIANT
    LastBatchNotLost
CHECK_DEADLOCK FALSE
