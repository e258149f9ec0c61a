\* A stop token that is triggered before serve_raw has called start().
CONSTANTS
    s1 = s1
    s2 = s2
    Session <- OneSession
    Workers = 2
SPECIFICATION Spec
CHECK_DEADLOCK FALSE
PROPERTIES
    StopTokenEndsServe
