CONSTANTS
    p = p
    q = q
    s = s
    x = x
    y = y
    TreeFields = {p, q, s, x, y}
    Root = Root
    InOrder <- MCInOrder
    Locations <- MCLocations
    Missing = Missing
    TooBig = TooBig
    Never = Never
    Trees <- MCTrees
SPECIFICATION ScopesSpec
INVARIANTS
    SameReport
CHECK_DEADLOCK FALSE
