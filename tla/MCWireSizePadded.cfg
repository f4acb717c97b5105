CONSTANTS
    None = None
    Unbounded = Unbounded
    Width = 268435456
    Default = 40
    SizedSchemas <- OneText
    Policies <- DefaultOnly
SPECIFICATION SizeSpec
INVARIANTS
    SpanHoldsPaddedVarints
CHECK_DEADLOCK FALSE
