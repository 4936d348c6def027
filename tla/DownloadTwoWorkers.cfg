SPECIFICATION Spec
CONSTANTS
    kernel = kernel
    userland = userland
    Dists = {d1}
    Items = {kernel}
    Priority <- KernelFirst
    Workers = {w1, w2}
    Clients = {c1}
    Requests = {"start", "cancel", "retry", "flush"}
    HasMirror = TRUE
    MaxRetries = 1
    Stoppable = TRUE
    NoWorker = NoWorker
    MaxJobs = 1
    MaxUserRetry = 1
SYMMETRY Symmetry
INVARIANT ActiveDownloadHasRunner
INVARIANT CancelFuncsLive
PROPERTY FlushedStaysFlushed
CHECK_DEADLOCK FALSE
