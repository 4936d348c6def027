SPECIFICATION FairSpec
CONSTANTS
    kernel = kernel
    userland = userland
    Dists = {d1}
    Items = {kernel}
    Priority <- KernelFirst
    Workers = {w1}
    Clients = {c1}
    Requests = {"start"}
    HasMirror = FALSE
    MaxRetries = 1
    Stoppable = FALSE
    NoWorker = NoWorker
    MaxJobs = 1
    MaxUserRetry = 0
PROPERTY RetriesEnd
