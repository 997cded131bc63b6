SPECIFICATION Spec
CONSTANTS
    g1 = g1
    g2 = g2
    GameThreads <- TwoThreads
    MaxCount = 2
    WriteOutcomes <- BytesWritten
INVARIANT FailedInstallLeavesTarget
