\* One replica with the real batch size 10; the role is edited to a rule on
\* ten resources, so its diff takes two Write requests.
CONSTANTS
    Absent = Absent
    Objects <- ServingObjects
    Versions <- SplitVersions
    Requests <- ServingRequests
    SkippedNames <- MCSkippedNames
    EscapedNames <- MCEscapedNames
    ResolveNodeLimit = 25
    ChunkSize = 10
    AllowDelete = FALSE
    MaxFailures = 0
    MaxCrashes = 0
    r1 = r1
    r2 = r2
    Replicas = {1}
SPECIFICATION Spec
INVARIANTS
    GrantsFromSeenVersions
\* Once every object is synced and the failure is spent, the workers idle.
CHECK_DEADLOCK FALSE
