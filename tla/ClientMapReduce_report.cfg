SPECIFICATION Spec
CONSTANTS
    s1 = s1
    s2 = s2
    m1 = m1
    m2 = m2
    f1 = f1
    Servers = {s1}
    Message = {m1, m2}
    Files = {f1}
    From <- OneServer
    MaxGeneration = 1
    Modes <- AllClients
INVARIANTS
    CountedOnce
    ServerlessResultComplete
PROPERTIES
    OutfileWhole
    ClientFinishes
CHECK_DEADLOCK FALSE
