\* Two kernels of two work-items, a breakpoint, three hits wanted; the host may
\* be killed at any step, SIGPIPE is ignored.
SPECIFICATION SessionSpec
CONSTANTS
    w1 = w1
    w2 = w2
    NoWI = NoWI
    WorkItems <- MCWorkItems
    GlobalIds <- MCWorkItems
    GroupOf <- OneGroup
    Lines = {1, 2}
    Depths = {1}
    MaxId = 1
    MaxKernels = 2
    MaxInstrs = 3
    MaxLaunches = 1
    SigPipeFatal = FALSE
    Killable = {"host"}
    break_at = 1
    break_for = 3
    print_exprs = 1
INVARIANTS
    SessionTypeOK
    ReportsEnough
    HostRanToCompletion
PROPERTIES
    SessionEnds
CHECK_DEADLOCK FALSE
