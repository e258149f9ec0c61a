\* A graceful stop that arrives while a request body is being read.
CONSTANTS
    s1 = s1
    Session <- OneSession
INIT InitSession
NEXT SessionNext
CHECK_DEADLOCK FALSE
PROPERTIES
    BadRequestMeansBadBytes
