SPECIFICATION Spec
CONSTANTS
    Streams <- MCStreams
    MaxCommands = 3
    ChannelSize = 1
INVARIANTS
    NoCommandCutOff
    OutputBeforeClose

    
CHECK_DEADLOCK FALSE
