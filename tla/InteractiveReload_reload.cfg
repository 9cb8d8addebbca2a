SPECIFICATION FairSpec
CONSTANTS
    s0 = s0
    s1 = s1
    s2 = s2
    N = 2
    Spec = {s0, s1, s2}
    NoSpec = NoSpec
    Initial = s0
    AckCapacity = 1
    Scenarios <- MCScenarios
INVARIANTS
    ServersRunStored
    CommittedMatchesServer
    StaleOutputDropped
PROPERTY
    ReloadEnds
CHECK_DEADLOCK FALSE
