\* Two replicas starting against an empty OpenFGA.
CONSTANTS
    r1 = r1
    r2 = r2
    NoStore = NoStore
    Replicas = {r1, r2}
    StoreName = "rebac"
    InitialStores <- EmptyStores
    PageSize = 3
    MaxStores = 3
    MaxFailures = 0
SPECIFICATION Spec
INVARIANTS
    NoDuplicateStore
\* A replica that runs stays running unless it crashes.
CHECK_DEADLOCK FALSE
