CONSTANTS
    Logs <- MCPerfLogs
SPECIFICATION PerfSpec
INVARIANTS
    TypeOK
    OutcomeByInput
    MedianOfNonZero
    MeanPerZoom
    DrawsUnlessZoomBeyondSlots
    OddSymmetry
    ZoomNesting
    MedianIsOrderStatistic
CHECK_DEADLOCK FALSE
