SPECIFICATION Spec
CONSTANTS
    h1 = h1
    h2 = h2
    j1 = j1
    j2 = j2
    Artifacts = {1, 2}
    Chunks = 2
    MaxDeaths = 2
    Attempts = 3
    MaxRestarts = 3
    Threads = {h1, h2}
    Jobs = {j1, j2}
    Turns = 2
    MaxCrashes = 1
    MaxFaults = 1
    ChallengeTtl = 1
    ReadyTtl = 2
    Life = 4
    Required = 2
    MaxTime = 3
    MaxBoots = 1
    MaxPolicy = 1
    Trials = {"t1"}
    WaveSize = 1
    MaxTurns = 2
    Episodes = {"e1", "e2", "e3"}
    BuildSlots = {"b1"}
    GpuSlots = {"g1", "g2"}
    Level = 3
    TurnLimits = {1, 2}
    Modes <- TwoModes
    HostCapacity = 3
    HostBytes <- HostUnits
    Consumers = {"c1", "c2"}
    Keys = {"k1", "k2"}
    Reserve <- Reservations
    Capacity <- Tiers
    MaxEntries = 2
    CopyLimit = 2
    MaxLeases = 2
SYMMETRY Symmetric
INVARIANTS DeliveredIsExact AdmissionsFresh TrialEvidenceSound ConsumedOnce
           VerifiedMeansReaped ReleasedClean StorageSafe NoReplay
