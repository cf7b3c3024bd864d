\* One replica, batches of 2 so that the role's diff spans several Write
\* requests: edits of the aggregated role, one failed call.
CONSTANTS
    Absent = Absent
    Objects <- ServingObjects
    Versions <- ServingVersions
    Requests <- ServingRequests
    SkippedNames <- MCSkippedNames
    EscapedNames <- MCEscapedNames
    ResolveNodeLimit = 25
    ChunkSize = 2
    AllowDelete = FALSE
    MaxFailures = 1
    MaxCrashes = 0
    r1 = r1
    r2 = r2
    Replicas = {1}
SPECIFICATION Spec
PROPERTIES
    EventuallyConverged
\* Once every object is synced and the failure is spent, the workers idle.
CHECK_DEADLOCK FALSE
