\* The header of a later request on a kept-alive connection.
CONSTANTS
    s1 = s1
    Session <- OneSession
INIT InitSession
NEXT SessionNext
CHECK_DEADLOCK FALSE
INVARIANTS
    BegunHeaderHasHeaderDeadline
