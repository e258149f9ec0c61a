\* Two concurrent requests through every stack of up to three layers.
CONSTANTS
    r1 = r1
    r2 = r2
    Request <- TwoRequests
    Stacks <- AllStacks
    ClientIds = {1}
SPECIFICATION ApplicationSpec
SYMMETRY Symmetry
\* The requests are finite: the run ends when both have been answered.
CHECK_DEADLOCK FALSE
INVARIANTS
    LogTellsStatus
    OneIdPerRequest
    GeneratedIdsDiffer
    RecoveredKeepsId
