SPECIFICATION RuntimeFairSpec
CONSTANTS
    g1 = g1
    GameThreads <- OneThread
    MaxCount = 2
    WriteOutcomes <- AllOutcomes
    MaxLoads = 2
    HostLeavesLast = TRUE
INVARIANTS LoggerOutlivesItsUsers NothingLeftBehind SmokeProtected
PROPERTIES UnloadCompletes
