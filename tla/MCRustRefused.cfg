CONSTANTS
    None = None
    Schemas <- RefusedSchemas
    Caps <- MCCaps
SPECIFICATION Spec
CHECK_DEADLOCK FALSE
INVARIANT InvalidOnlyOfTheInvalid
