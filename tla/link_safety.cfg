\* Both processes may be killed, one relaunch, two breakpoints, two lines.
SPECIFICATION Spec
CONSTANTS
    w1 = w1
    w2 = w2
    out = out
    NoWI = NoWI
    WorkItems <- MCWorkItems
    GlobalIds <- MCGlobalIds
    GroupOf <- OneGroup
    Lines = {1, 2}
    Depths = {1}
    MaxId = 2
    MaxKernels = 1
    MaxInstrs = 2
    MaxLaunches = 2
    SigPipeFatal = TRUE
    Killable = {"host", "debugger"}
SYMMETRY Twins
INVARIANTS
    TypeOK
    RepliesMatch
    AfterResume
    BreakpointsAgree
    SelectedIsCurrent
    StopsAreAskedFor
PROPERTIES
    ImplementsContract
    FirstArrivalHalts
CHECK_DEADLOCK FALSE
