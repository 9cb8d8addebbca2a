SPECIFICATION Spec
CONSTANTS
    p1 = p1
    p2 = p2
    l1 = l1
    l2 = l2
    l3 = l3
    g1 = g1
    g2 = g2
    Processor = {p1, p2}
    Line = {l1, l2, l3}
    Source <- MCSource
    Group = {g1, g2}
    GroupKey <- MCGroupKey
    BatchSize = 2
    ChannelSize = 1
    MaxTicks = 1
    Unmatched = {}
    Scenarios <- DisconnectingScenarios
INVARIANT
    NoSendOnClosedChannel
CHECK_DEADLOCK FALSE
