\* Command lines, line tables, scopes, locations and stops.
SPECIFICATION Spec
CONSTANTS
    Number <- MCNumber
    Unknown <- MCUnknown
    PortWidth = 6
    LineWidth = 6
    WordBits = 7
    IntBits = 4
    Payload = 3
    NamedRegs = 8
    SizeBits = 7
    Plausible = 4
    AssumedLocal = 4
    CommandLines <- MCCommandLines
    Breakpoints <- MCBreakpoints
    Scopes <- MCScopes
    Locations <- MCLocations
    Stops <- MCStops
    Layouts <- MCLayouts
INVARIANTS
    ParsesBack
    BreakpointMovesForward
    ScopeComplete
    ValueMeansLocation
    ListedIsSelected
CHECK_DEADLOCK FALSE
