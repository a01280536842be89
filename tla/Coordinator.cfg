CONSTANTS
    g1 = g1
    g2 = g2
    b1 = b1
    b2 = b2
    cpuPool = cpuPool
    gpuPool = gpuPool
    N = 4
    GroupOf <- MCGroups
    BackendOf <- MCBackends
    ExecutorOf <- MCExecutors
    Need <- MCNeed
    Capacity <- MCCapacity
    StagePlans = {4}
    Quantity = {"cpu", "mem"}
    MaxWorkers = 2
    MaxGroups = 1
    Policy = "terminal-waves"
    EventsMayFail = TRUE
SPECIFICATION MCSpec
INVARIANTS CapacityRespected LeftOutOnlyWhenStopped QuarantineExact EvidenceFaithful
           NothingUnprovenReleased NoCloseUnderWorkers
PROPERTIES NoStartAfterStop CancelledRunEnds
