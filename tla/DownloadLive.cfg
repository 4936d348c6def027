SPECIFICATION LiveSpec
CONSTANTS
    kernel = kernel
    userland = userland
    Dists = {d1}
    Items = {kernel, userland}
    Priority <- KernelFirst
    Workers = {w1}
    Clients = {c1}
    Requests = {"start"}
    HasMirror = FALSE
    MaxRetries = 1
    Stoppable = TRUE
    NoWorker = NoWorker
    MaxJobs = 3
    MaxUserRetry = 0

    Readers = {r1, r2}
    Global = Global
    WorkerRate = 0
    GlobalRate = 2
    Second = 3
    BurstFloor = 3
    MaxRead = 2

    Sources = {s1}
    Components = {}
    Callers = {c1, c2}
    Admins = {c1}
    LastVersion = 1
    Text <- TextOrder
    Lts = {}
    Candidates = {}
    Method <- OneGitHub
    MaxSyncs = 2
    MaxRequests = 2
INVARIANT OneRowPerArtifact
INVARIANT LiveTypeOK
INVARIANT WithinRate
PROPERTY PendingIsPicked
PROPERTY DownloadsSettle
 
PROPERTY SomeoneIsServed
PROPERTY RefusedWhileSyncing
PROPERTY SyncsEnd
CHECK_DEADLOCK FALSE
