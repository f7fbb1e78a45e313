CONSTANTS
    Logs <- MCLogs
    Wrapped = TRUE
    Sep <- Blank
    Dumps <- MCDumps
    Missing = Missing
    RefZoom <- MCRefZoom
    RefLo <- MCRefLo
    RefHi <- MCRefHi
    PointLists <- MCPointLists
    LineLists <- MCLineLists
    LeafLists <- MCLeafLists
    Profiles <- MCProfiles
    NoGmon = NoGmon
    NoFile = NoFile
    Objs <- MCObjs
    MaxBuild <- MCMaxBuild
    w1 = w1
    w2 = w2
    Workers <- MCWorkers
    QueueSize <- MCQueueSize
    MaxZoom <- MCMaxZoom
    NThreads <- MCNThreads
    Requests <- MCRequests
    ServerMayStall = TRUE
SPECIFICATION ScriptSpec
INVARIANTS
    TypeOK
    DrawsWholeLog
    LeavesTypeOK
    LeafRoundTrip
    GprofTypeOK
    PageShowsServerProf
    EveryGcdaReported
    CrawlTypeOK
    UnfinishedCountsColumns
PROPERTIES
    LeavesTerminates
    
    ReportNeverForgets
    OnlyStallsBlockScripts
    CrawlerImplementsHeadRequests
    LoadTestImplementsHeadRequests
CHECK_DEADLOCK FALSE
