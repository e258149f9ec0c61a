\* Small documents, blank-filled and damaged, read as eight types; and short
\* strings and numbers, read as the types of a field.
CONSTANTS
    Types <- MCTypes
    Inputs <- MCInputs
    Limits <- MCLimits
    MaximumString = 5
    Width = 4
    Doubles <- MCDoubles
    Even <- MCEven
    Held <- MCHeld
    Originals <- MCOriginals
SPECIFICATION MCSpec
\* One call of json::read: it ends with a value or an error.
CHECK_DEADLOCK FALSE
INVARIANTS
    ReadsExactly
    DepthIsBounded
    CountsAreBounded
    TextMeans
    WrittenIsRead
    BoundsHold
PROPERTIES
    ReaderEnds
