CONSTANTS
    Calls <- MCCalls
    PointLists <- MCPointLists
SPECIFICATION Spec
INVARIANTS
    TypeOK
    PointsRoundTrip
    UnmatchedOpenRaises
PROPERTIES
    ImplementsParseCall
CHECK_DEADLOCK FALSE
