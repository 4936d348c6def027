SPECIFICATION CatalogueSpec
CONSTANTS
    Dists = {d1, d2}
    Artifacts = {a1, a2}
    Procs = {p1, p2}
    Shared = Shared
    Size <- OneFills
    MaxSize = 1
    Batch = 5
    MaxBegun = 4
    Nobody = Nobody

    Distributions = {d1}
    SourcesOfUsers = {s1}
    Owner <- OneOwner
    Handlers = {h1, h2}

    Sources = {s1}
    Components = {k1}
    Callers = {c1}
    Admins = {c1}
    LastVersion = 2
    Text <- TextOrder
    Lts = {}
    Candidates = {}
    Method <- OneGitHub
    MaxSyncs = 2
    MaxRequests = 2
SYMMETRY Symmetry
 
INVARIANT CacheWithinLimit
INVARIANT OneEntryPerArtifact
INVARIANT CatalogueTypeOK
INVARIANT NothingForgotten
INVARIANT RefusedForABuild
INVARIANT NewVersionsCountedOnce
CHECK_DEADLOCK FALSE
