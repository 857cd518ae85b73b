\* Every small NDRange, and runs of one and two workers over some of them.
SPECIFICATION Spec
CONSTANTS
    w1 = w1
    w2 = w2
    main = main
    NoGroup = NoGroup
    Workers <- MCWorkers
    Setups <- MCSetups
INVARIANTS
    TypeOK
    EveryItemInOneGroup
    ItemCountsRight
    SamplesExist
    EveryDispatchCounted
    NoMoreThanBreakFor
    EveryPassReported
    ReportsRight
CHECK_DEADLOCK FALSE
