CONSTANTS
    Calls <- MCCalls
    LineLists <- MCLineLists
    Sep <- Blank
SPECIFICATION Spec
INVARIANTS
    TypeOK
    LinesRoundTrip
PROPERTIES
    ImplementsParseCall
CHECK_DEADLOCK FALSE
