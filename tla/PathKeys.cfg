\* Two paths of one key, or an aggregate with the name of the built-in component.
CONSTANTS
    NameChar <- MCNameChar
    OtherChar <- MCOtherChar
    MaxSegments = 3
    MaxParameters = 2
    Patterns <- MCPatterns
    Object <- MCObject
    Plain = "int"
    Fields <- MCFields
    NameOf <- MCNameOf
SPECIFICATION MCSpec
\* An API that is refused, or a request that is answered, is the end.
CHECK_DEADLOCK FALSE
INVARIANTS
    KeysDiffer
