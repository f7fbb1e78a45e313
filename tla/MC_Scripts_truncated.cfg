CONSTANTS
    Logs <- MCLogs
    Wrapped = TRUE
    Sep <- Blank
    Dumps <- Truncated
    Missing = Missing
    RefZoom <- MCRefZoom
    RefLo <- MCRefLo
    RefHi <- MCRefHi
    PointLists <- MCPointLists
    LineLists <- MCLineLists
    LeafLists <- MCLeafLists
    Profiles <- MCProfiles
    NoGmon = NoGmon
    NoFile = NoFile
    Objs <- MCObjs
    MaxBuild <- MCMaxBuild
    w1 = w1
    w2 = w2
    Workers <- MCWorkers
    QueueSize <- MCQueueSize
    MaxZoom <- MCMaxZoom
    NThreads <- MCNThreads
    Requests <- MCRequests
    ServerMayStall = TRUE
SPECIFICATION ScriptSpec
INVARIANTS
    ImageOnlyFromBalancedDump
CHECK_DEADLOCK FALSE
