CONSTANTS
    Files <- MCFiles
    Root = "r"
    Kinds = {"struct", "enum"}
    Names = {"P", "p", "Q", "M"}
    FoldOf <- MCFold
    Rank <- MCRank
    Bodies = {1, 2}
    Here = Here
    BadPointer = BadPointer
    Projects <- BackRefProjects
SPECIFICATION Spec
INVARIANTS
    AcceptedAsWritten
CHECK_DEADLOCK FALSE
