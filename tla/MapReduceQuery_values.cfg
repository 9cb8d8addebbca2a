CONSTANTS
    LowerOf <- MCLowerOf
    UpperOf <- MCUpperOf
    Unquoted <- MCUnquoted
    Floats <- MCFloats
    Calls <- MCCalls
    Variables <- MCVariables
    CallbackOf <- MCCallbackOf
    Related <- MCRelated
    KeyValueOf <- MCKeyValueOf
    InfoTokens = {"INFO"}
    MapreduceTokens = {"MAPREDUCE:STATS"}
    DateOf <- MCDateOf
    LineText <- MCLineText
    CommonValues <- MCCommonValues
    LengthOf <- MCLengthOf
    Rank <- MCRank
    Matching <- MCMatching
    CleanPath <- MCCleanPath
    OsReadable <- MCOsReadable
    Regular = {"/log", "/secret"}
    Journals = {"journal:a"}
    InternalUsers = {"DTAIL-SCHEDULE"}
    Cases <- MCCases
    Sources = {"f1", "f2", "f3"}
    Servers = {"s1", "s2"}
    ServerOf <- MCServerOf
SPECIFICATION QuerySpec
INVARIANTS
    ParsedAsMeant
    PlanSufficient
    DenyWins
    ResultExact
CHECK_DEADLOCK FALSE
