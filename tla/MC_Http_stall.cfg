CONSTANTS
    w1 = w1
    w2 = w2
    Workers <- MCWorkers
    QueueSize <- MCQueueSize
    MaxZoom <- MCMaxZoom
    NThreads <- MCNThreads
    Requests <- MCRequests
    ServerMayStall = TRUE
SPECIFICATION HSpec
PROPERTIES
    ScriptEnds
CHECK_DEADLOCK FALSE
