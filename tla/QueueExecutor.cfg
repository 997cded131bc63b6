SPECIFICATION FairSpec
CONSTANTS
    w1 = w1
    w2 = w2
    s1 = s1
    s2 = s2
    Workers <- TwoWorkers
    Submitters <- TwoSubmitters
    MaxTasks = 2
CHECK_DEADLOCK FALSE
INVARIANTS TakenInOrder RunsInOneWorker NoLostWakeup StoppedMeansQuiet
PROPERTIES ImplementsPool StopReturns QueuedTaskEnds
