SPECIFICATION Spec
CONSTANTS
    c1 = c1
    c2 = c2
    n1 = n1
    f1 = f1
    f2 = f2
    Clients <- TwoClients
    Names <- OneName
    Files <- OneFile
    Times = {1, 2}
    MaxMonitors = 1
    MaxChanges = 1
    MaxFailures = 1
INVARIANTS NoDanglingMonitor
