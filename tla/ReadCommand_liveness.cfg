SPECIFICATION FairSpec
CONSTANTS
    c1 = c1
    c2 = c2
    f1 = f1
    f2 = f2
    Payload <- MCPayload
    NoPayload = NoPayload
    ChannelBufferSize = 1
    Command = {c1, c2}
    File = {f1, f2}
    Owner <- OneFileEach
    MaxPayloads = 2
    MaxGeneration = 0
    Limit = 2
    Cancellable = {}
PROPERTIES
    AckWaitReleased
    OutputModeEnds
