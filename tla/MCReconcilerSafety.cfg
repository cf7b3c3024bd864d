\* Edits, deletion, a duplicate rule, one failed call and one restart.
CONSTANTS
    Absent = Absent
    Objects <- SafetyObjects
    Versions <- SafetyVersions
    SkippedNames <- MCSkippedNames
    EscapedNames <- MCEscapedNames
    ChunkSize = 2
    AllowDelete = TRUE
    MaxFailures = 1
    MaxCrashes = 1
    r1 = r1
    r2 = r2
    Replicas = {1}
SPECIFICATION Spec
INVARIANTS
    SyncedWhenQuiet
\* A deleted object stays queued (its Get fails with NotFound forever) and
\* the kcp role is never reconciled, but the worker never stops.
CHECK_DEADLOCK FALSE
