\* One connection and two workers under the fairness of the scheduler.
CONSTANTS
    s1 = s1
    s2 = s2
    Session <- OneSession
    Workers = 2
SPECIFICATION Spec
\* The server and its sessions come to rest when the owner has returned.
CHECK_DEADLOCK FALSE
PROPERTIES
    StopEndsServer
    DrainEnds
