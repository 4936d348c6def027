SPECIFICATION Spec
CONSTANTS
    Dists = {d1}
    Workers = {w1}
    Clients = {c1}
    Requests = {"submit", "cancel", "retry", "clear"}
    Stages <- OneStage
    Stoppable = FALSE
    NoWorker = NoWorker
    MaxJobs = 2
    MaxRetry = 0
PROPERTY CancelledUntilRetried
