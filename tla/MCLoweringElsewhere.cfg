CONSTANTS
    Documents <- MCElsewhere
    Letters <- MCLetters
    Capital <- MCCapital
SPECIFICATION Spec
CHECK_DEADLOCK FALSE
INVARIANT ValidatedIsGenerated
