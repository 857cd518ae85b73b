\* The debugger may be killed; SIGPIPE is ignored in both processes.
SPECIFICATION FairSpec
CONSTANTS
    w1 = w1
    w2 = w2
    out = out
    NoWI = NoWI
    WorkItems <- MCWorkItems
    GlobalIds <- MCGlobalIds
    GroupOf <- TwoGroups
    Lines = {1}
    Depths = {1}
    MaxId = 1
    MaxKernels = 1
    MaxInstrs = 2
    MaxLaunches = 1
    SigPipeFatal = FALSE
    Killable = {"debugger"}
PROPERTIES
    CallsReturn
    HostOutlivesDebugger
CHECK_DEADLOCK FALSE
