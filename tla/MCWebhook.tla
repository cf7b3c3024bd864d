----------------------------- MODULE MCWebhook ------------------------------
(***************************************************************************)
(* The reviews the API server sends the webhook, over the cluster of      *)
(* MCAuthorizer.                                                          *)
(***************************************************************************)
EXTENDS Webhook, MCAuthorizer

ResourceAttributes(req) ==
    [verb |-> req.verb, group |-> req.apiGroup, resource |-> req.resource,
     subresource |-> req.subresource, namespace |-> req.namespace, name |-> req.name]

Healthz == [verb |-> "get", path |-> "/healthz"]

Review(u, resourceAttributes, nonResourceAttributes) ==
    [user |-> u.name, groups |-> u.groups,
     resourceAttributes |-> resourceAttributes, nonResourceAttributes |-> nonResourceAttributes]

\* A review of every request of MCAuthorizer, and one per user with both
\* kinds of attributes.
ResourceReviews ==
    {[user |-> req.user, groups |-> req.groups,
      resourceAttributes |-> <<ResourceAttributes(req)>>, nonResourceAttributes |-> <<>>]
        : req \in AuthzRequests}
    \cup {Review(u, <<ResourceAttributes(ResourceRequest(u, "get", "pods", "ns", "p1"))>>, <<Healthz>>)
            : u \in Users}

\* get /healthz by every user.
NonResourceReviews == {Review(u, <<>>, <<Healthz>>) : u \in Users}
=============================================================================
