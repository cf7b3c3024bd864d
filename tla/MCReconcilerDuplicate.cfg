\* A role one of whose rules names the same resource twice; the code's
\* batch size of 10.
CONSTANTS
    Absent = Absent
    Objects <- DuplicateObjects
    Versions <- DuplicateVersions
    SkippedNames <- MCSkippedNames
    EscapedNames <- MCEscapedNames
    ChunkSize = 10
    AllowDelete = FALSE
    MaxFailures = 0
    MaxCrashes = 0
    r1 = r1
    r2 = r2
    Replicas = {1}
SPECIFICATION Spec
PROPERTIES
    EventuallyConverged
CHECK_DEADLOCK FALSE
