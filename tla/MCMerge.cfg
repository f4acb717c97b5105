CONSTANTS
    a = a
    b = b
    c = c
    lib = lib
    Bad = Bad
    Paths = {a, b, c, lib}
    Keys <- MCKeys
    FoldOf <- MCFold
    Rank <- MCRank
    Defs = {1, 2}
    Broken = Bad
    Directories <- MCDirectories
SPECIFICATION Spec
INVARIANTS
    VerdictOfTheWhole
    NothingLost
    OneNamespace
    OriginsTrue
    BlameRight
CHECK_DEADLOCK FALSE
