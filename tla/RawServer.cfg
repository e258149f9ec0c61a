\* Two connections and one worker, which a synchronous handler can block.
CONSTANTS
    s1 = s1
    s2 = s2
    Session <- TwoSessions
    Workers = 1
SPECIFICATION SafetySpec
SYMMETRY Symmetry
\* The server and its sessions come to rest when the owner has returned.
CHECK_DEADLOCK FALSE
INVARIANTS
    Accounting
    NoSessionEscapesStop
    DrainIsTimed
    WaitMeansDrained
PROPERTIES
    KeepsLifecycle
