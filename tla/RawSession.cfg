\* Every behaviour of one connection under stop requests at any moment.
CONSTANTS
    s1 = s1
    Session <- OneSession
SPECIFICATION SessionSpec
\* A session that is gone takes no further step.
CHECK_DEADLOCK FALSE
INVARIANTS
    AtMostOneLateRequest
    NoIdleReadAfterStop
    GracefulSparesResponses
PROPERTIES
    ForcedStartsNothing
    WaitsAreBounded
    KeepsConnection
