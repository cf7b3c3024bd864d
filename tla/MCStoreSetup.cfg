\* One replica, every store list that fits on one page, failed calls,
\* lost CreateStore answers and crashes.
CONSTANTS
    r1 = r1
    r2 = r2
    NoStore = NoStore
    Replicas = {r1}
    StoreName = "rebac"
    InitialStores <- OnePageStores
    PageSize = 4
    MaxStores = 4
    MaxFailures = 3
SPECIFICATION Spec
INVARIANTS
    TypeOK
    NoDuplicateStore
PROPERTIES
    EventuallyRunning
\* A replica that runs stays running unless it crashes.
CHECK_DEADLOCK FALSE
