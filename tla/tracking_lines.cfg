\* Two workers, three groups and a line.
SPECIFICATION Spec
CONSTANTS
    w1 = w1
    w2 = w2
    main = main
    NoGroup = NoGroup
    Workers <- MCWorkers
    Setups <- LongLines
PROPERTIES
    ReportedGroupIsRunning
CHECK_DEADLOCK FALSE
