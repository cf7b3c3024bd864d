\* Two replicas of the manager (leader election off) reconciling the same
\* binding and role while both are edited.
CONSTANTS
    Absent = Absent
    Objects <- ReplicaObjects
    Versions <- ReplicaVersions
    SkippedNames <- MCSkippedNames
    EscapedNames <- MCEscapedNames
    ChunkSize = 2
    AllowDelete = FALSE
    MaxFailures = 0
    MaxCrashes = 0
    r1 = r1
    r2 = r2
    Replicas <- MCReplicas
SYMMETRY ReplicaSymmetry
SPECIFICATION Spec
INVARIANTS
    SyncedWhenQuiet
\* Once everything is synced the workers idle: a quiescent controller.
CHECK_DEADLOCK FALSE
