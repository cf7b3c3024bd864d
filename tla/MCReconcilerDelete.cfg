\* A binding and its role; the binding is deleted.
CONSTANTS
    Absent = Absent
    Objects <- DeleteObjects
    Versions <- DeleteVersions
    SkippedNames <- MCSkippedNames
    EscapedNames <- MCEscapedNames
    ChunkSize = 10
    AllowDelete = TRUE
    MaxFailures = 0
    MaxCrashes = 0
    r1 = r1
    r2 = r2
    Replicas = {1}
SPECIFICATION Spec
PROPERTIES
    DeletedRevoked
CHECK_DEADLOCK FALSE
