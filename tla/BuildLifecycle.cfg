SPECIFICATION FairSpec
CONSTANTS
    Dists = {d1}
    Workers = {w1, w2}
    Clients = {c1}
    Requests = {"submit", "retry", "clear"}
    Stages <- OneStage
    Stoppable = FALSE
    NoWorker = NoWorker
    MaxJobs = 1
    MaxRetry = 1
INVARIANT CancelFuncsLive
PROPERTY ImplementsLifecycle
