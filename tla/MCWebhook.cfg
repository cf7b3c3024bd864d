\* Every combination of the six objects; the requests of four users, asked
\* directly of the authorizer and as reviews through the webhook, and
\* reviews with both kinds of attributes.
CONSTANTS
    Absent = Absent
    Objects <- AuthzObjects
    Versions <- AuthzVersions
    Requests <- AuthzRequests
    Reviews <- ResourceReviews
    EscapedNames <- AuthzEscapedNames
    ResolveNodeLimit = 25
SPECIFICATION Spec
INVARIANTS
    AuthorizeMatchesReference
    WebhookMatchesReference
