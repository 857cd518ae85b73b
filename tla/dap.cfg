\* Three requests after the handshake, up to two of them not yet answered.
SPECIFICATION Spec
CONSTANTS
    w1 = w1
    w2 = w2
    out_of_range = out_of_range
    NoWI = NoWI
    WorkItems <- MCWorkItems
    GlobalIds <- MCGlobalIds
    Stops <- MCStops
    MaxThreads = 2
    MaxRequests = 3
    MaxInFlight = 2
INVARIANTS
    TypeOK
    StreamInOrder
    VariablesOfThread
PROPERTIES
    DisconnectEnds
CHECK_DEADLOCK FALSE
