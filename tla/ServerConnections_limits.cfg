SPECIFICATION Spec
CONSTANTS
    c1 = c1
    c2 = c2
    sched = sched
    k1 = k1
    k2 = k2
    badLine = badLine
    jobName = jobName
    wrongName = wrongName
    allowedHost = allowedHost
    unknownHost = unknownHost
    ip1 = ip1
    ip2 = ip2
    Users = {sched}
    Keys = {k1, k2}
    TTL = 1
    MaxKeysPerUser = 1
    AuthKeyEnabled = TRUE
    CachedKeys <- MCCachedKeys
    HomeKeys <- MCHomeKeys
    Jobs <- MCJobs
    HealthUser = health
    Resolve <- MCResolve
    Conns = {c1, c2}
    MaxShells = 2
    UserOf <- MCUserOf
    IpOf <- MCIpOf
    NoPermissions = {}
    MaxConnections = 1
    Secrets = {jobName, wrongName}
    NoConn = NoConn
    MaxClock = 1
    MaxWork = 4
INVARIANTS
    CountersMatch
    KeyLoginRegistered
    RegisteredKeyUsable
PROPERTIES
    ConnectionLimit
    
CHECK_DEADLOCK FALSE
