\* The debugger may be killed; SIGPIPE has its default action.
SPECIFICATION FairSpec
CONSTANTS
    w1 = w1
    w2 = w2
    out = out
    NoWI = NoWI
    WorkItems <- MCWorkItems
    GlobalIds <- MCGlobalIds
    GroupOf <- TwoGroups
    Lines = {1}
    Depths = {1}
    MaxId = 1
    MaxKernels = 1
    MaxInstrs = 2
    MaxLaunches = 1
    SigPipeFatal = TRUE
    Killable = {"debugger"}
PROPERTIES
    HostOutlivesDebugger
CHECK_DEADLOCK FALSE
