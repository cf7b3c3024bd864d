\* One replica, two other stores filling the first page, one crash.
CONSTANTS
    r1 = r1
    r2 = r2
    NoStore = NoStore
    Replicas = {r1}
    StoreName = "rebac"
    InitialStores <- FullPageStores
    PageSize = 2
    MaxStores = 4
    MaxFailures = 1
SPECIFICATION Spec
INVARIANTS
    NoDuplicateStore
\* A replica that runs stays running unless it crashes.
CHECK_DEADLOCK FALSE
