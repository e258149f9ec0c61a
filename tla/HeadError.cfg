\* A HEAD request whose endpoint throws, through the stack of the tests.
CONSTANTS
    r1 = r1
    r2 = r2
    Request <- OneRequest
    Stacks <- UsualStack
    ClientIds = {1}
SPECIFICATION ApplicationSpec
CHECK_DEADLOCK FALSE
INVARIANTS
    HeadSuppressesBody
