\* A loop that comes back to the line of the breakpoint, every hit wanted.
SPECIFICATION SessionSpec
CONSTANTS
    w1 = w1
    w2 = w2
    NoWI = NoWI
    WorkItems <- MCWorkItems
    GlobalIds <- MCWorkItems
    GroupOf <- OneGroup
    Lines = {1, 2}
    Depths = {1}
    MaxId = 1
    MaxKernels = 2
    MaxInstrs = 3
    MaxLaunches = 1
    SigPipeFatal = TRUE
    Killable = {}
    break_at = 1
    break_for = 0
    print_exprs = 1
PROPERTIES
    EveryArrivalHalts
CHECK_DEADLOCK FALSE
