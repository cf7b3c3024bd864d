CONSTANTS
    Absent = Absent
    Objects <- RaceObjects
    Versions <- RaceVersions
    Requests <- ServingRequests
    SkippedNames <- MCSkippedNames
    EscapedNames <- MCEscapedNames
    ResolveNodeLimit = 25
    ChunkSize = 10
    AllowDelete = FALSE
    MaxFailures = 0
    MaxCrashes = 0
    r1 = r1
    r2 = r2
    Replicas <- MCReplicas
SYMMETRY ReplicaSymmetry
SPECIFICATION Spec
INVARIANTS
    GrantsFromSeenVersions
CHECK_DEADLOCK FALSE
