CONSTANTS
    a = a
    b = b
    c = c
    toml = toml
    Paths = {a, b, c, toml}
    Schemas = {1, 2, 3, 4}
    FilesOf <- MCFilesOf
    Sources = {a, b, c}
    Requests <- MCRequests
    MaxRuns = 2
    Missing = Missing
    Torn = Torn
SPECIFICATION FairSpec
INVARIANTS
    FailsClosed
    ZeroMeansWritten
    OneStyle
    PrefixWritten
PROPERTIES
    RunEnds
CHECK_DEADLOCK FALSE
