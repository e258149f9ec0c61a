\* Every short query, cookie header and pair of headers, and encoded forms and paths.
CONSTANTS
    Char <- MCChar
    Hex <- MCHex
    Byte <- MCByte
    Digit <- MCDigit
    Cases <- MCCases
SPECIFICATION TurnSpec
INVARIANTS
    BindingTypeOK
    FoundIsUnique
    BoundAsMeant
    SentIsReceived
PROPERTIES
    GetsNearer
