\* A named pod's subresource: RBAC needs a rule on pods/log.
CONSTANTS
    Absent = Absent
    Objects <- AuthzObjects
    Versions <- AuthzVersions
    Requests <- SubresourceRequests
    EscapedNames <- AuthzEscapedNames
    ResolveNodeLimit = 25
SPECIFICATION Spec
INVARIANTS
    AuthorizeMatchesReference
