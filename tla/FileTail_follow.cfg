SPECIFICATION Spec
CONSTANTS
    Match <- MCMatch
    Letters = {"m", "x"}
    Newline = "n"
    LineLimit = 2
    Contexts <- MCContexts
    Modes = {"cat", "tail"}
    InitialContent <- MCInitialContent
    Scripts <- MCScripts
    MaxInodes = 2
    MaxChunk = 2
    MaxOpens = 2
INVARIANTS
    LinesIntact
    ContextExact
    LinkNeverRead
PROPERTY
    TruncationNoticed
CHECK_DEADLOCK FALSE
