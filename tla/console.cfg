\* A user, batches and files of commands; two workers and two groups.
SPECIFICATION Spec
CONSTANTS
    Number <- MCNumber
    Unknown = {}
    PortWidth = 6
    LineWidth = 6
    SizeBits = 7
    Plausible = 4
    AssumedLocal = 4
    NumWorkers = 2
    MaxGroups = 2
    MaxTyped = 5
    CommandLines <- MCCommandLines
    Typed <- MCTyped
    Words <- MCWords
    Sourced <- MCSourced
    Binaries = {"app"}
    LocationOf <- MCLocationOf
    Rows <- MCRows
    Mapped <- MCMapped
    Names <- MCNames
    Scope <- MCScope
    Gives <- MCGives
    Located <- MCLocated
    Aliased <- MCAliased
INVARIANTS
    TypeOK
    ReadableIsShown
PROPERTIES
    BreakpointStops
CHECK_DEADLOCK FALSE
