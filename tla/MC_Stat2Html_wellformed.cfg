CONSTANTS
    Logs <- MCWellFormedLogs
SPECIFICATION Spec
INVARIANTS
    WritesPages
CHECK_DEADLOCK FALSE
