------------------------------ MODULE Webhook -------------------------------
(***************************************************************************)
(* The authorization webhook (src/pkg/authorizer/authzwebhook): a         *)
(* SubjectAccessReview is turned into authorizer attributes, the          *)
(* ReBACAuthorizer decides, and the decision becomes the review's status. *)
(*                                                                         *)
(* A review is                                                            *)
(*   [user, groups, resourceAttributes, nonResourceAttributes]            *)
(* where each attributes field is a sequence of length 0 (nil) or 1, of   *)
(*   [verb, group, resource, subresource, namespace, name]  or            *)
(*   [verb, path].                                                        *)
(***************************************************************************)
EXTENDS Authorizer

CONSTANT Reviews        \* the reviews the API server sends in every state

\* Mutant of AttributesOf: the namespace of the resource attributes not
\* copied.
AttributesOfNoNamespace(sar) ==
    LET none == [user |-> sar.user, groups |-> sar.groups, verb |-> "", isResource |-> FALSE,
                 apiGroup |-> "", resource |-> "", subresource |-> "", namespace |-> "",
                 name |-> "", path |-> ""]
    IN  CASE sar.resourceAttributes # <<>> ->
               LET a == sar.resourceAttributes[1] IN
               [none EXCEPT !.apiGroup = a.group, !.name = a.name,
                            !.resource = a.resource, !.isResource = TRUE,
                            !.subresource = a.subresource, !.verb = a.verb]
          [] sar.nonResourceAttributes # <<>> ->
               [none EXCEPT !.path = sar.nonResourceAttributes[1].path, !.isResource = TRUE,
                            !.verb = sar.nonResourceAttributes[1].verb]
          [] OTHER -> none

\* The attributes record the handler builds (authorizer.AttributesRecord).
AttributesOf(sar) ==
    LET none == [user |-> sar.user, groups |-> sar.groups, verb |-> "", isResource |-> FALSE,
                 apiGroup |-> "", resource |-> "", subresource |-> "", namespace |-> "",
                 name |-> "", path |-> ""]
    IN  CASE sar.resourceAttributes # <<>> ->
               LET a == sar.resourceAttributes[1] IN
               [none EXCEPT !.apiGroup = a.group, !.name = a.name, !.namespace = a.namespace,
                            !.resource = a.resource, !.isResource = TRUE,
                            !.subresource = a.subresource, !.verb = a.verb]
          [] sar.nonResourceAttributes # <<>> ->
               \* ResourceRequest is set to true here as well
               [none EXCEPT !.path = sar.nonResourceAttributes[1].path, !.isResource = TRUE,
                            !.verb = sar.nonResourceAttributes[1].verb]
          [] OTHER -> none

\* The status of the response: Allowed, Denied and NoOpinion.
Status(allowed, denied) == [allowed |-> allowed, denied |-> denied]

\* NewWebhookForAuthorizer's handler.  Authorize returns no error in the
\* model (CheckOne's errors count as not allowed), so Errored is not
\* reached.
Handle(sar) ==
    IF sar.resourceAttributes # <<>> /\ sar.nonResourceAttributes # <<>>
    THEN Status(FALSE, TRUE)
    ELSE IF Authorize(AttributesOf(sar), Store) = "Allow"
         THEN Status(TRUE, FALSE)
         ELSE Status(FALSE, FALSE)

-----------------------------------------------------------------------------
(* What the API server's RBAC authorizer answers for the same review.     *)

\* The review as the API server's authorizers see it.
ReferenceRequest(sar) ==
    LET r == IF sar.resourceAttributes # <<>> THEN sar.resourceAttributes[1]
             ELSE [verb |-> sar.nonResourceAttributes[1].verb, group |-> "", resource |-> "",
                   subresource |-> "", namespace |-> "", name |-> ""]
    IN  [user |-> sar.user, groups |-> sar.groups, verb |-> r.verb,
         isResource |-> sar.resourceAttributes # <<>>, apiGroup |-> r.group,
         resource |-> r.resource, subresource |-> r.subresource, namespace |-> r.namespace,
         name |-> r.name,
         path |-> IF sar.nonResourceAttributes # <<>> THEN sar.nonResourceAttributes[1].path ELSE ""]

\* A review with one kind of attributes is allowed exactly when Kubernetes
\* RBAC (or the node graph) allows it, and one with both is denied:
\* through the webhook's attribute conversion, the authorizer's contextual
\* tuples and the store's checks, nothing is granted that the RBAC objects
\* do not grant, and nothing they grant with a supported verb is lost.
WebhookMatchesReference ==
    \A sar \in Reviews :
        LET req == ReferenceRequest(sar) IN
        IF sar.resourceAttributes # <<>> /\ sar.nonResourceAttributes # <<>>
        THEN Handle(sar) = Status(FALSE, TRUE)
        ELSE SupportedVerb(req) =>
                (Handle(sar).allowed <=> (RBACAllows(req) \/ NodeAllows(req)))
=============================================================================
