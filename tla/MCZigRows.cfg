CONSTANTS
    None = None
    Schemas <- FloatRowSchemas
    Caps <- MCCaps
SPECIFICATION Spec
INVARIANT StraysAreSkipped
