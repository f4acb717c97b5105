CONSTANTS
    None = None
    Unbounded = Unbounded
    Width = 262144
    Default = 40
    SizedSchemas <- Big
    Policies <- DefaultOnly
SPECIFICATION SizeSpec
INVARIANTS
    NeverExceeded
CHECK_DEADLOCK FALSE
