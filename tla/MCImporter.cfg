CONSTANTS
    Files <- MCFiles
    Root = "r"
    Kinds = {"struct", "enum"}
    Names = {"P", "p", "Q", "M"}
    FoldOf <- MCFold
    Rank <- MCRank
    Bodies = {1, 2}
    Here = Here
    BadPointer = BadPointer
    Projects <- AllProjects
SPECIFICATION FairSpec
INVARIANTS
    OneNamespace
    OriginsTrue
    MeaningKept
PROPERTIES
    ImplementsFlatten
    Termination
CHECK_DEADLOCK FALSE
