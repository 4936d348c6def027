SPECIFICATION Spec
CONSTANTS
    small = small
    large = large
    Dists = {d1}
    Artifacts = {small}
    Procs = {p1}
    Shared = Shared
    Size <- OneLarge
    MaxSize = 0
    Batch = 5
    MaxBegun = 6
    Nobody = Nobody
INVARIANT HitIsWhole
