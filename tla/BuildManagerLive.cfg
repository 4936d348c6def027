SPECIFICATION FairSpec
CONSTANTS
    Dists = {d1}
    Workers = {w1}
    Clients = {c1}
    Requests = {"submit"}
    Stages <- OneStage
    Stoppable = TRUE
    NoWorker = NoWorker
    MaxJobs = 2
    MaxRetry = 0
PROPERTY PendingIsPicked
 
 
CHECK_DEADLOCK FALSE
