SPECIFICATION FairSpec
CONSTANTS
    g1 = g1
    g2 = g2
    GameThreads <- TwoThreads
    MaxCount = 2
    WriteOutcomes <- AllOutcomes
INVARIANTS Counting SmokeProtected ClaimHasHolder AtMostOncePerThread
PROPERTIES NoCallDropped ImplementsGate UninstallCompletes
