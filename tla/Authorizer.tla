---------------------------- MODULE Authorizer -----------------------------
(***************************************************************************)
(* The webhook authorizer of src/pkg/authorizer/authorizer.go answering   *)
(* requests against the store the syncers keep, and the Check the store   *)
(* evaluates for it (TupleStoreAndChecker.CheckOne in                      *)
(* src/pkg/openfga/openfga.go, which hands the tuple and the contextual   *)
(* tuples to OpenFGA under the compiled model).                           *)
(*                                                                         *)
(* The state is the cluster's RBAC, Node and Pod objects; the store holds *)
(* exactly the tuples the converters generate for the present objects,    *)
(* which is what the syncers converge to (see Reconciler).  A step        *)
(* creates, edits or deletes one object.  A request is a record           *)
(*   [user, groups, verb, isResource, apiGroup, resource, subresource,    *)
(*    namespace, name, path]                                               *)
(* as authorizer.Attributes returns it.                                   *)
(***************************************************************************)
EXTENDS AuthzModel, FiniteSets

CONSTANTS
    Objects,            \* the object keys of the cluster
    Versions,           \* Versions[o]: the specs object o may have
    Absent,             \* an object that does not exist
    Requests,           \* the requests asked in every state
    ResolveNodeLimit    \* OpenFGA's bound on the depth of a Check

VARIABLE cluster        \* cluster[o]: the object o, or Absent

Kind(o) == Versions[o][1].kind

\* The tuples in OpenFGA: those generated for the present objects.
Store == UNION {ToSet(Generate(cluster[o])) : o \in {o \in Objects : cluster[o] # Absent}}

-----------------------------------------------------------------------------
(***************************************************************************)
(* OpenFGA's Check over the tuples T (stored and contextual): whether     *)
(* `user` has `rel` on `obj` under the model's rewrites.  A relation the  *)
(* type does not define is an error, and an exhausted depth is an error;  *)
(* CheckOne reports both as not allowed.                                  *)
(***************************************************************************)
RECURSIVE Check(_, _, _, _, _), Resolve(_, _, _, _, _, _)

Check(T, obj, rel, user, depth) ==
    /\ depth > 0
    /\ rel \in DOMAIN Model[NodeType(obj)].relations
    /\ Resolve(T, obj, rel, Model[NodeType(obj)].relations[rel], user, depth)

Resolve(T, obj, rel, us, user, depth) ==
    CASE us.kind = "this" ->
            \E t \in T : /\ t.obj = obj /\ t.rel = rel
                         /\ IF t.usr = NoUserSet THEN t.user = user
                            ELSE Check(T, t.user, t.usr, user, depth - 1)
      [] us.kind = "computed" -> Check(T, obj, us.relation, user, depth - 1)
      [] us.kind = "ttu" ->
            \E t \in T : /\ t.obj = obj /\ t.rel = us.tupleset /\ t.usr = NoUserSet
                         /\ Check(T, t.user, us.computed, user, depth - 1)
      [] us.kind = "union" -> \E k \in DOMAIN us.child : Resolve(T, obj, rel, us.child[k], user, depth)
      [] us.kind = "intersection" -> \A k \in DOMAIN us.child : Resolve(T, obj, rel, us.child[k], user, depth)
      [] us.kind = "difference" ->
            Resolve(T, obj, rel, us.base, user, depth) /\ ~Resolve(T, obj, rel, us.subtract, user, depth)
      [] us.kind = "empty" -> FALSE

-----------------------------------------------------------------------------
(* ReBACAuthorizer.Authorize.                                              *)

\* The verb checks at the top of Authorize.
SupportedVerb(req) ==
    IF req.isResource
    THEN IF req.name # "" THEN req.verb \in InstanceRelations ELSE req.verb \in CollectionRelations
    ELSE req.verb \in NonResourceRelations

\* userNodeFor: the user and one members tuple per group.
GroupTuples(req) ==
    {Tuple(UserNode(req.user), NoUserSet, ContextualRelationUserInGroup, GroupNode(g)) : g \in req.groups}

FullResource(req) ==
    IF req.subresource # "" THEN req.resource \o "/" \o req.subresource ELSE req.resource

\* resource:apiGroup.fullResource; a non-resource request has no resource
\* and still gets one ("core.").
CollectionNode(req) == ResourceNode(req.apiGroup, FullResource(req))

InstanceNode(req) == ResourceInstanceNode(req.apiGroup, req.resource, req.name)

WildcardNodes(req) ==
    LET subresourceMatch == RBACMatchAllResources \o "/" \o req.subresource IN
    {ResourceNode(RBACMatchAllAPIGroups, RBACMatchAllResources),
     ResourceNode(req.apiGroup, RBACMatchAllResources),
     ResourceNode(RBACMatchAllAPIGroups, FullResource(req))}
    \cup (IF req.subresource # ""
          THEN {ResourceNode(RBACMatchAllAPIGroups, subresourceMatch),
                ResourceNode(req.apiGroup, subresourceMatch)}
          ELSE {})

\* Mutant of ContextualTuples: the forwarding from the collection node to
\* the instance node left out.
ContextualTuplesNoForwarding(req) ==
    GroupTuples(req)
    \cup (IF req.isResource
          THEN {Tuple(n, NoUserSet, ContextualRelationWildcardMatch, CollectionNode(req)) : n \in WildcardNodes(req)}
          ELSE {})
    \cup (IF req.namespace # ""
          THEN {Tuple(UserNode(req.user), NoUserSet, ContextualRelationOperatesInNamespace,
                      NamespaceNode(req.namespace))}
          ELSE {})

\* The contextual tuples: groups, wildcard matches for resource requests
\* (non-resource requests get none: the code prints "TODO"), the
\* namespace, and the forwarding from the collection to the instance.
ContextualTuples(req) ==
    GroupTuples(req)
    \cup (IF req.isResource
          THEN {Tuple(n, NoUserSet, ContextualRelationWildcardMatch, CollectionNode(req)) : n \in WildcardNodes(req)}
          ELSE {})
    \cup (IF req.namespace # ""
          THEN {Tuple(UserNode(req.user), NoUserSet, ContextualRelationOperatesInNamespace,
                      NamespaceNode(req.namespace))}
          ELSE {})
    \cup (IF req.name # ""
          THEN {Tuple(CollectionNode(req), NoUserSet, ContextualRelationResourceMatch, InstanceNode(req))}
          ELSE {})

CheckNode(req) == IF req.name # "" THEN InstanceNode(req) ELSE CollectionNode(req)

\* toGVK: the three resources the lookup knows.
toGVKKind(resource) ==
    CASE resource = "nodes" -> "Node"
      [] resource = "pods" -> "Pod"
      [] resource = "secrets" -> "Secret"
      [] OTHER -> ""

\* resolveIndividual: a second check on the generic object node, when the
\* request names an object of a type the schema has.
resolveIndividual(req, T) ==
    LET typeName == GVKToTypeName(req.apiGroup, toGVKKind(req.resource)) IN
    /\ req.name # ""
    /\ MatchesOne(ManagerSchemaTypes, typeName)
    /\ Check(T, NewNode(typeName, GenericNodeID(req.namespace, req.name)), req.verb,
             UserNode(req.user), ResolveNodeLimit)

Authorize(req, store) ==
    LET T == store \cup ContextualTuples(req) IN
    IF ~SupportedVerb(req) \/ req.user = "" THEN "NoOpinion"
    ELSE IF \/ Check(T, CheckNode(req), req.verb, UserNode(req.user), ResolveNodeLimit)
            \/ resolveIndividual(req, T)
         THEN "Allow"
         ELSE "NoOpinion"

-----------------------------------------------------------------------------
\* An empty cluster: the objects are created by the steps.
Init == cluster = [o \in Objects |-> Absent]

\* An object is created, edited or deleted.
Change(o, v) ==
    /\ v # cluster[o]
    /\ cluster' = [cluster EXCEPT ![o] = v]

Next == \E o \in Objects : \E v \in {Absent} \cup ToSet(Versions[o]) : Change(o, v)

Spec == Init /\ [][Next]_cluster

-----------------------------------------------------------------------------
(***************************************************************************)
(* The reference decisions.  RBAC: the Kubernetes RBAC authorizer's rule  *)
(* matching, with a ClusterRole's aggregated rules being those of the     *)
(* ClusterRoles its selectors match (what the aggregation controller      *)
(* writes into it).  Nodes: the graph nodeauth.GetSchema encodes, a node  *)
(* may get itself, the pods scheduled onto it and the secrets they        *)
(* reference.                                                              *)
(***************************************************************************)
PresentOf(kind) == {cluster[o] : o \in {o \in Objects : cluster[o] # Absent /\ Kind(o) = kind}}

SubjectMatches(s, req, bindingNamespace) ==
    CASE s.kind = "User" -> s.name = req.user
      [] s.kind = "Group" -> s.name \in req.groups
      [] s.kind = "ServiceAccount" ->
            LET ns == IF s.namespace # "" THEN s.namespace ELSE bindingNamespace
            IN  ns # "" /\ MakeUsername(ns, s.name) = req.user

LabelsMatch(cr, sel) == sel.matchLabels \subseteq cr.labels

ClusterRoleRules(name) ==
    UNION {IF cr.aggregationRule.set
           THEN ToSet(cr.rules) \cup
                UNION {ToSet(m.rules) : m \in {m \in PresentOf("ClusterRole") :
                          \E k \in DOMAIN cr.aggregationRule.selectors : LabelsMatch(m, cr.aggregationRule.selectors[k])}}
           ELSE ToSet(cr.rules)
           : cr \in {cr \in PresentOf("ClusterRole") : cr.name = name}}

RoleRules(namespace, name) ==
    UNION {ToSet(r.rules) : r \in {r \in PresentOf("Role") : r.namespace = namespace /\ r.name = name}}

\* A non-resource URL of a rule as the schema reads it: [slash, path].
URLOf(u) == IF u.slash THEN "/" \o u.path ELSE u.path

ResourceRuleAllows(req, rule) ==
    /\ \E k \in DOMAIN rule.apiGroups : rule.apiGroups[k] \in {RBACMatchAllAPIGroups, req.apiGroup}
    /\ \E k \in DOMAIN rule.resources :
          \/ rule.resources[k] \in {RBACMatchAllResources, FullResource(req)}
          \/ req.subresource # "" /\ rule.resources[k] = RBACMatchAllResources \o "/" \o req.subresource
    /\ rule.resourceNames = <<>> \/ \E k \in DOMAIN rule.resourceNames : rule.resourceNames[k] = req.name

NonResourceRuleAllows(req, rule) ==
    \E k \in DOMAIN rule.nonResourceURLs : URLOf(rule.nonResourceURLs[k]) \in {req.path, "*"}

RuleAllows(req, rule) ==
    /\ {req.verb, RBACMatchAllVerbs} \cap rule.verbs # {}
    /\ IF req.isResource THEN ResourceRuleAllows(req, rule) ELSE NonResourceRuleAllows(req, rule)

RBACAllows(req) ==
    \/ \E b \in PresentOf("ClusterRoleBinding") :
          /\ b.roleRef.kind = "ClusterRole"
          /\ \E k \in DOMAIN b.subjects : SubjectMatches(b.subjects[k], req, "")
          /\ \E rule \in ClusterRoleRules(b.roleRef.name) : RuleAllows(req, rule)
    \/ \E b \in PresentOf("RoleBinding") :
          /\ b.roleRef.kind = "Role" /\ b.namespace = req.namespace
          /\ \E k \in DOMAIN b.subjects : SubjectMatches(b.subjects[k], req, b.namespace)
          /\ \E rule \in RoleRules(b.namespace, b.roleRef.name) : RuleAllows(req, rule)

NodeAllows(req) ==
    /\ req.isResource /\ req.verb = "get" /\ req.apiGroup = "" /\ req.subresource = ""
    /\ \E n \in PresentOf("Node") :
          /\ req.user = "system:node:" \o n.name
          /\ \/ req.resource = "nodes" /\ req.name = n.name /\ req.namespace = ""
             \/ \E p \in PresentOf("Pod") :
                   /\ p.nodeName = n.name /\ req.namespace = p.namespace
                   /\ \/ req.resource = "pods" /\ req.name = p.name
                      \/ req.resource = "secrets" /\ \E k \in DOMAIN p.secretRefs : p.secretRefs[k] = req.name

\* Every request the authorizer supports is allowed exactly when RBAC or
\* the node graph allows it, whatever objects exist: the generators, the
\* compiled model, the contextual tuples of Authorize and the fallback of
\* resolveIndividual together implement the reference.
AuthorizeMatchesReference ==
    \A req \in Requests :
        SupportedVerb(req) =>
            ((Authorize(req, Store) = "Allow") <=> (RBACAllows(req) \/ NodeAllows(req)))
=============================================================================
