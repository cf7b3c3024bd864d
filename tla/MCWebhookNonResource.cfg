\* get /healthz, through the webhook.
CONSTANTS
    Absent = Absent
    Objects <- AuthzObjects
    Versions <- AuthzVersions
    Requests <- AuthzRequests
    Reviews <- NonResourceReviews
    EscapedNames <- AuthzEscapedNames
    ResolveNodeLimit = 25
SPECIFICATION Spec
INVARIANTS
    WebhookMatchesReference
