\* Three segments and two parameters at most; the programs are listed in MCApi.
CONSTANTS
    NameChar <- MCNameChar
    OtherChar <- MCOtherChar
    MaxSegments = 3
    MaxParameters = 2
    Patterns <- MCPatterns
    Object <- MCObject
    Plain = "int"
    Fields <- MCFields
    NameOf <- MCNameOf
SPECIFICATION MCSpec
\* An API that is refused, or a request that is answered, is the end.
CHECK_DEADLOCK FALSE
INVARIANTS
    GrammarTypeOK
    GrammarExact
    CapturesFindParameters
    ReferencesResolve
    DocumentedOnce
    AnswerIsDocumented
    AllowIsHonest
    MatchIsFilling
    BestChoice
    TemplatesMatchParameters
    DocumentedIsServed
