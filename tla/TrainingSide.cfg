SPECIFICATION Spec
CONSTANTS
    dir1 = dir1
    dir2 = dir2
    s1 = s1
    s2 = s2
    EngramRows = {"a", "b", "c"}
    Samples = {1, 2}
    Reads <- SampleReads
    Initials = {{}, {"b"}}
    MaxUpdates = 3
    MaxStarts = 2
    NumRows = 3
    CacheRows = 2
    StagingRows = 1
    Streams = {s1, s2}
    MaxReads = 2
    MaxWrites = 1
    MaxReadFaults = 1
    World = 2
    CpSize = 1
    BatchSize = 1
    Examples = 5
    DenseSize = 3
    EngramSize = 3
    Touches <- TouchedRows
    Dirs = {dir1, dir2}
    SaveEvery = 1
    MaxTarget = 2
    MaxLaunches = 3
SYMMETRY Symmetric
INVARIANTS SnapshotsExact LookupsExact RolesAgree DispatchRestores ContextExact
           ScoredAsSampled
