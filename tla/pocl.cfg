\* Two workers, two kernels of two groups, two breakpoints.
SPECIFICATION Spec
CONSTANTS
    NumWorkers = 2
    CodeLines <- TwoKernels
    Locations <- MCLocations
    MaxGroups = 2
    MaxBps = 2
INVARIANTS
    TypeOK
    IdsAgree
PROPERTIES
    KernelLineStops
    InferredAtEnqueue
    HidesOwnStops
    CallsReturn
CHECK_DEADLOCK FALSE
