\* A look at the variables of the host program before the kernel is loaded.
SPECIFICATION Spec
CONSTANTS
    Number <- MCNumber
    Unknown = {}
    PortWidth = 6
    LineWidth = 6
    SizeBits = 7
    Plausible = 4
    AssumedLocal = 4
    NumWorkers = 2
    MaxGroups = 2
    MaxTyped = 3
    CommandLines <- LookLines
    Typed <- LookTyped
    Words <- MCWords
    Sourced <- MCSourced
    Binaries = {"app"}
    LocationOf <- MCLocationOf
    Rows <- MCRows
    Mapped <- MCMapped
    Names <- MCNames
    Scope <- MCScope
    Gives <- MCGives
    Located <- MCLocated
    Aliased <- MCAliased
PROPERTIES
    BreakpointStopsAfterALook
CHECK_DEADLOCK FALSE
