SPECIFICATION Spec
CONSTANTS
    Dists = {d1}
    Workers = {w1}
    Clients = {c1, c2}
    Requests = {"submit", "cancel", "retry", "clear"}
    Stages <- ThreeStages
    Stoppable = FALSE
    NoWorker = NoWorker
    MaxJobs = 1
    MaxRetry = 1
SYMMETRY Symmetry
INVARIANT BuildingDistHasRunner
INVARIANT SoleRunCancellable
INVARIANT StagesInOrder
INVARIANT CompletedMeansAllStages
PROPERTY ClearedStaysCleared
