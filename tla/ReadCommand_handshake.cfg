SPECIFICATION Spec
CONSTANTS
    c1 = c1
    c2 = c2
    f1 = f1
    f2 = f2
    Command = {c1, c2}
    File = {f1, f2}
    Owner <- OneFileEach
    MaxPayloads = 2
    Payload <- MCPayload
    NoPayload = NoPayload
    ChannelBufferSize = 1
    MaxGeneration = 2
    Limit = 1
    Cancellable = {c1}
INVARIANTS
    NoEOFMidBatch
    NoStrandedOutput
    ReplacedAckClosed
    LimiterMatchesHolders
PROPERTY
    ImplementsSession
