SPECIFICATION FairSpec
CONSTANTS
    c1 = c1
    c2 = c2
    n1 = n1
    f1 = f1
    f2 = f2
    Clients <- OneClient
    Names <- OneName
    Files <- TwoFiles
    Times = {1, 2}
    MaxMonitors = 1
    MaxChanges = 2
    MaxFailures = 1
INVARIANTS RunningMeansWatched
PROPERTIES EventsMakeSense StoppedServiceWatchesNothing InStep
