CONSTANTS
    p1 = p1
    q = q
    s = s
    x = x
    y = y
    TreeFields = {p1, q, s, x, y}
    Root = Root
    InOrder <- MCInOrder
    Locations <- MCLocations
    Missing = Missing
    TooBig = TooBig
    Never = Never
    Trees <- MCTrees
    Graphs <- MCGraphs
    Refers <- RefsIn
    RefNames <- MCRefNames
    MessageNames <- MCMessages
    MaxDepth = 3
    None = None
    Unbounded = Unbounded
    Width = 268435456
    Default = 40
    SizedSchemas <- MCSizedSchemas
    Policies <- MCPolicies
    Documents <- MCDocuments
    Letters <- MCLetters
    Capital <- MCCapital
    TypeNames = {"S", "U", "V", "gone"}
    Sites = {s1, s2, s3, s4}
    OptionIds = {1, 2, 3}
    Whole = Whole
    Absent = Absent
    Schemas <- MCSchemas
SPECIFICATION WalkSpec
INVARIANTS
    VerdictExact
    EveryDuplicateReported
    SameProblems
    RefusesExactlyCycles
    DepthIsWhatIsOpened
    ValidatedIsGenerated
    IdentsDistinct
    DocumentedIsAccepted
    NoStaleTarget
    SitesGetTheirDefault
    EveryUnionBound
    OrderKept
    BoundedWhenItIs
    NeverExceeded
PROPERTIES
    BoundStays
CHECK_DEADLOCK FALSE
