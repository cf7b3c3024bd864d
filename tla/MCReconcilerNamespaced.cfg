\* A RoleBinding, its Role, a Node and a Pod scheduled onto it, all but the
\* node edited; one failed call.
CONSTANTS
    Absent = Absent
    Objects <- NamespacedObjects
    Versions <- NamespacedVersions
    SkippedNames <- MCSkippedNames
    EscapedNames <- NamespacedEscapedNames
    ChunkSize = 2
    AllowDelete = FALSE
    MaxFailures = 1
    MaxCrashes = 0
    r1 = r1
    r2 = r2
    Replicas = {1}
SPECIFICATION Spec
INVARIANTS
    SyncedWhenQuiet
\* Once every object is synced the workers idle.
CHECK_DEADLOCK FALSE
