CONSTANTS
    Calls <- MCCalls
    LineLists <- MCLineLists
    Sep <- BackToBack
SPECIFICATION Spec
INVARIANT
    LinesRoundTrip
CHECK_DEADLOCK FALSE
