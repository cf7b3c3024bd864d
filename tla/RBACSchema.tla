---------------------------- MODULE RBACSchema ----------------------------
(***************************************************************************)
(* The RBAC -> ReBAC authorization schema of                               *)
(* src/pkg/rbacconversion/declarative.go (GetSchema) and the tuples that   *)
(* zanzibar.GenerateTuplesFor produces from it for ClusterRoleBindings,    *)
(* ClusterRoles, RoleBindings and Roles.                                   *)
(*                                                                         *)
(* Kubernetes objects are records with the fields the schema reads:        *)
(*   ClusterRoleBinding [name, roleRef, subjects]                          *)
(*   ClusterRole        [name, labels, aggregationRule, rules]             *)
(*   RoleBinding        [namespace, name, roleRef, subjects]               *)
(*   Role               [namespace, name, rules]                           *)
(* Strings that the code concatenates (namespace/name, group.resource,     *)
(* key=value, the service-account user name) are concatenated here too.   *)
(***************************************************************************)
EXTENDS Zanzibar, FiniteSets

\* Type names and relations (rbacconversion/rebac.go).
TypeUser == "user"
TypeGroup == "group"
TypeClusterRole == "clusterrole"
TypeClusterRoleBinding == "clusterrolebinding"
TypeNamespacedRole == "role"
TypeNamespacedRoleBinding == "rolebinding"
TypeNamespace == "namespace"
TypeResource == "resource"
TypeNonResource == "nonresourceurls"
TypeClusterRoleLabelAggregation == "clusterrole_label"
TypeResourceInstance == "resourceinstance"

RelationResourceAnyVerb == "anyverb"
RelationClusterRoleLabelSelector == "selects"
RelationClusterRoleAssignee == "assignee"
RelationNamespacedRoleAssignee == "assignee"
RelationNamespacedRoleNamespacedAssignee == "namespaced_assignee"
RelationNamespaceContainsRole == "contains"
ContextualRelationWildcardMatch == "wildcardmatch"
ContextualRelationOperatesInNamespace == "operates_in"
ContextualRelationResourceMatch == "resourcematch"
ContextualRelationUserInGroup == "members"

RBACGroup == "rbac.authorization.k8s.io"
APIGroupKubernetesCore == "core"
RBACMatchAllVerbs == "*"

\* serviceaccount.MakeUsername.
MakeUsername(namespace, name) == "system:serviceaccount:" \o namespace \o ":" \o name

\* Verb sets (rebac.go): collection and instance verbs of resource
\* requests and the verbs of non-resource requests.
CommonRelations == {"get", "watch", "update", "patch", "delete"}
CollectionRelations == {"list", "create", "deletecollection"} \cup CommonRelations
InstanceRelations == CommonRelations
NonResourceRelations == {"get"}

\* The relations of the Role's outgoing edges, built by appending anyverb to
\* a Go set's UnsortedList (whose order ReadOrder stands for).
RoleResourceRelations == ReadOrder(CollectionRelations) \o <<RelationResourceAnyVerb>>
RoleInstanceRelations == ReadOrder(InstanceRelations) \o <<RelationResourceAnyVerb>>

ClusterRoleResourceRelations ==
    <<"get", "list", "watch", "create", "update", "patch", "delete", "deletecollection", "anyverb">>
ClusterRoleInstanceRelations == <<"get", "watch", "update", "patch", "delete", "anyverb">>
ClusterRoleNonResourceRelations == <<"get", "anyverb">>

orParent(relationName, toParentRelation) == TupleToUsersetES(relationName, toParentRelation)

orWildcardRelationOrParent(relationName, wildcardRelation, toParentRelation) ==
    UnionES(<<ComputedES(wildcardRelation), orParent(relationName, toParentRelation)>>)

\* EvaluatedUsersets of the resource-like types: one entry per verb.
VerbUsersets(verbs, parentRelation) ==
    [v \in verbs |-> orWildcardRelationOrParent(v, RelationResourceAnyVerb, parentRelation)]

(***************************************************************************)
(* GetSchema().Types: the declarations of every entry, in order.  The ID  *)
(* expressions are the generators further down.                          *)
(***************************************************************************)
GetSchemaTypes ==
  << TypeRelation(TypeClusterRoleBinding,
        << In(TypeUser, NoUserSet, RelationClusterRoleAssignee),
           In(TypeGroup, ContextualRelationUserInGroup, RelationClusterRoleAssignee) >>,
        << Out(TypeClusterRole, RelationClusterRoleAssignee, <<RelationClusterRoleAssignee>>) >>,
        <<>>),
     TypeRelation(TypeNamespacedRoleBinding,
        << In(TypeUser, NoUserSet, RelationNamespacedRoleNamespacedAssignee),
           In(TypeGroup, ContextualRelationUserInGroup, RelationNamespacedRoleNamespacedAssignee) >>,
        << Out(TypeNamespacedRole, RelationNamespacedRoleNamespacedAssignee,
               <<RelationNamespacedRoleNamespacedAssignee>>) >>,
        <<>>),
     TypeRelation(TypeNamespacedRole,
        << In(TypeNamespace, NoUserSet, RelationNamespaceContainsRole) >>,
        << Out(TypeResource, RelationNamespacedRoleAssignee, RoleResourceRelations),
           Out(TypeResourceInstance, RelationNamespacedRoleAssignee, RoleInstanceRelations) >>,
        [r \in {RelationNamespacedRoleAssignee} |->
            IntersectionES(<< ComputedES(RelationNamespacedRoleNamespacedAssignee),
                              TupleToUsersetES(ContextualRelationOperatesInNamespace,
                                               RelationNamespaceContainsRole) >>)]),
     TypeRelation(TypeClusterRole,
        << In(TypeClusterRoleLabelAggregation, RelationClusterRoleLabelSelector,
              RelationClusterRoleAssignee) >>,
        << Out(TypeClusterRoleLabelAggregation, RelationClusterRoleAssignee,
               <<RelationClusterRoleLabelSelector>>),
           Out(TypeResource, RelationClusterRoleAssignee, ClusterRoleResourceRelations),
           Out(TypeResourceInstance, RelationClusterRoleAssignee, ClusterRoleInstanceRelations),
           Out(TypeNonResource, RelationClusterRoleAssignee, ClusterRoleNonResourceRelations) >>,
        <<>>),
     TypeRelation(TypeGroup, << In(TypeUser, NoUserSet, ContextualRelationUserInGroup) >>, <<>>, <<>>),
     TypeRelation(TypeNamespace,
        << In(TypeUser, NoUserSet, ContextualRelationOperatesInNamespace),
           In(TypeGroup, ContextualRelationUserInGroup, ContextualRelationOperatesInNamespace) >>,
        <<>>, <<>>),
     TypeRelation(TypeResource, <<>>,
        << Out(TypeResource, NoUserSet, <<ContextualRelationWildcardMatch>>) >>,
        VerbUsersets(CollectionRelations, ContextualRelationWildcardMatch)),
     TypeRelation(TypeResourceInstance,
        << In(TypeResource, NoUserSet, ContextualRelationResourceMatch) >>, <<>>,
        [r \in InstanceRelations \cup {RelationResourceAnyVerb} |->
            IF r = RelationResourceAnyVerb
            THEN orParent(RelationResourceAnyVerb, ContextualRelationResourceMatch)
            ELSE VerbUsersets(InstanceRelations, ContextualRelationResourceMatch)[r]]),
     TypeRelation(TypeNonResource,
        << In(TypeNonResource, NoUserSet, ContextualRelationWildcardMatch) >>, <<>>,
        [r \in NonResourceRelations \cup {RelationResourceAnyVerb} |->
            IF r = RelationResourceAnyVerb
            THEN orParent(RelationResourceAnyVerb, ContextualRelationWildcardMatch)
            ELSE VerbUsersets(NonResourceRelations, ContextualRelationWildcardMatch)[r]]) >>

(***************************************************************************)
(* ClusterRoleBinding entry.                                               *)
(***************************************************************************)
clusterRoleBindingCondition(crb) ==
    /\ crb.roleRef.apiGroup = RBACGroup
    /\ crb.roleRef.kind = "ClusterRole"
    /\ crb.roleRef.name # ""

CRBUserIDs(crb) ==
    SeqMap(SelectSeq(crb.subjects,
                     LAMBDA s : s.name # "" /\
                                \/ s.kind = "User" /\ s.apiGroup = RBACGroup
                                \/ s.kind = "ServiceAccount" /\ s.apiGroup = "" /\ s.namespace # ""),
           LAMBDA s : IF s.kind = "User" THEN s.name ELSE MakeUsername(s.namespace, s.name))

CRBGroupIDs(crb) ==
    SeqMap(SelectSeq(crb.subjects, LAMBDA s : s.kind = "Group" /\ s.apiGroup = RBACGroup),
           LAMBDA s : s.name)

ClusterRoleBindingNode(crb) == NewNode(TypeClusterRoleBinding, QueryEscape(crb.name))

\* GenerateTuplesFor(GetSchema().Types[0], crb): outgoing edges, then incoming.
ClusterRoleBindingTuples(crb) ==
    LET node == ClusterRoleBindingNode(crb) IN
    IF ~clusterRoleBindingCondition(crb) THEN <<>>
    ELSE Outgoing(node, RelationClusterRoleAssignee, RelationClusterRoleAssignee,
                  TypeClusterRole, <<crb.roleRef.name>>, TRUE)
         \o Incoming(TypeUser, NoUserSet, RelationClusterRoleAssignee,
                     CRBUserIDs(crb), TRUE, node)
         \o Incoming(TypeGroup, ContextualRelationUserInGroup, RelationClusterRoleAssignee,
                     CRBGroupIDs(crb), TRUE, node)

(***************************************************************************)
(* ClusterRole entry.                                                      *)
(***************************************************************************)
\* The policy rules granting `relation` ("anyverb" stands for the "*" verb).
RulesWithVerb(rules, relation) ==
    LET verb == IF relation = RelationResourceAnyVerb THEN RBACMatchAllVerbs ELSE relation
    IN  SelectSeq(rules, LAMBDA pr : verb \in pr.verbs)

CoreIfEmpty(apiGroup) == IF apiGroup = "" THEN APIGroupKubernetesCore ELSE apiGroup

ResourceIDs(rules, relation) ==
    FlatMap(SelectSeq(RulesWithVerb(rules, relation), LAMBDA pr : pr.resourceNames = <<>>),
            LAMBDA pr : FlatMap(pr.apiGroups, LAMBDA g :
                          SeqMap(pr.resources, LAMBDA r : CoreIfEmpty(g) \o "." \o r)))

ResourceInstanceIDs(rules, relation) ==
    FlatMap(SelectSeq(RulesWithVerb(rules, relation), LAMBDA pr : pr.resourceNames # <<>>),
            LAMBDA pr : FlatMap(pr.apiGroups, LAMBDA g :
                          FlatMap(pr.resources, LAMBDA r :
                            SeqMap(pr.resourceNames, LAMBDA n :
                              CoreIfEmpty(g) \o "." \o r \o "/" \o QueryEscape(n)))))

\* A non-resource URL is [slash, path] with path not starting with "/": the
\* URL is "/" \o path when slash is TRUE and path otherwise.  The schema
\* prefixes "/" when it is missing, so either way the ID is "/" \o path.
NonResourceIDs(rules, relation) ==
    FlatMap(RulesWithVerb(rules, relation),
            LAMBDA pr : SeqMap(pr.nonResourceURLs, LAMBDA u : "/" \o u.path))

\* One selector of the aggregation rule: MatchLabels are appended as In
\* expressions; only a single In or Exists expression yields IDs.
SelectorIDs(sel) ==
    LET exprs == sel.matchExpressions
                 \o SeqMap(ReadOrder(sel.matchLabels),
                           LAMBDA l : [key |-> l.key, operator |-> "In", values |-> <<l.value>>])
    IN  IF Len(exprs) = 1
        THEN CASE exprs[1].operator = "In" ->
                    SeqMap(exprs[1].values, LAMBDA v : exprs[1].key \o "=" \o v)
               [] exprs[1].operator = "Exists" -> <<exprs[1].key>>
               [] OTHER -> <<>>
        ELSE <<>>

AggregationIDs(cr) == FlatMap(cr.aggregationRule.selectors, SelectorIDs)

\* Labels except the bootstrapping marker, as "k" and "k=v" (map order is
\* Go's; ReadOrder stands for it).
LabelIDs(cr) ==
    FlatMap(ReadOrder({l \in cr.labels : l.key # "kubernetes.io/bootstrapping"}),
            LAMBDA l : <<l.key, l.key \o "=" \o l.value>>)

ClusterRoleNode(cr) == NewNode(TypeClusterRole, QueryEscape(cr.name))

\* GenerateTuplesFor(GetSchema().Types[3], cr).
ClusterRoleTuples(cr) ==
    LET node == ClusterRoleNode(cr)
        usr  == RelationClusterRoleAssignee
        PerRelation(rels, type, IDs(_, _)) ==
            FlatMap(rels, LAMBDA rel : Outgoing(node, usr, rel, type, IDs(cr.rules, rel), FALSE))
    IN  (IF cr.aggregationRule.set
         THEN Outgoing(node, usr, RelationClusterRoleLabelSelector,
                       TypeClusterRoleLabelAggregation, AggregationIDs(cr), FALSE)
         ELSE <<>>)
        \o PerRelation(ClusterRoleResourceRelations, TypeResource, ResourceIDs)
        \o PerRelation(ClusterRoleInstanceRelations, TypeResourceInstance, ResourceInstanceIDs)
        \o PerRelation(ClusterRoleNonResourceRelations, TypeNonResource, NonResourceIDs)
        \o Incoming(TypeClusterRoleLabelAggregation, RelationClusterRoleLabelSelector,
                    RelationClusterRoleAssignee, LabelIDs(cr), FALSE, node)

(***************************************************************************)
(* RoleBinding and Role entries: IDs are "namespace/" \o escaped name.    *)
(***************************************************************************)
namespacedEscapedID(namespace, name) == namespace \o "/" \o QueryEscape(name)

roleBindingCondition(nrb) ==
    /\ nrb.roleRef.apiGroup = RBACGroup
    /\ nrb.roleRef.kind = "Role"
    /\ nrb.roleRef.name # ""

\* A service account without a namespace defaults to the binding's; with
\* neither, its ID is "" and the generator drops it.
RBUserIDs(nrb) ==
    SeqMap(SelectSeq(nrb.subjects,
                     LAMBDA s : s.name # "" /\
                                \/ s.kind = "User" /\ s.apiGroup = RBACGroup
                                \/ s.kind = "ServiceAccount" /\ s.apiGroup = ""),
           LAMBDA s : LET saNamespace == IF s.namespace # "" THEN s.namespace ELSE nrb.namespace
                      IN  CASE s.kind = "User" -> s.name
                            [] saNamespace = "" -> ""
                            [] OTHER -> MakeUsername(saNamespace, s.name))

RoleBindingNode(nrb) == NewNode(TypeNamespacedRoleBinding, namespacedEscapedID(nrb.namespace, nrb.name))

\* GenerateTuplesFor(GetSchema().Types[1], nrb).
RoleBindingTuples(nrb) ==
    LET node == RoleBindingNode(nrb) IN
    IF ~roleBindingCondition(nrb) THEN <<>>
    ELSE Outgoing(node, RelationNamespacedRoleNamespacedAssignee, RelationNamespacedRoleNamespacedAssignee,
                  TypeNamespacedRole, <<namespacedEscapedID(nrb.namespace, nrb.roleRef.name)>>, FALSE)
         \o Incoming(TypeUser, NoUserSet, RelationNamespacedRoleNamespacedAssignee,
                     RBUserIDs(nrb), TRUE, node)
         \o Incoming(TypeGroup, ContextualRelationUserInGroup, RelationNamespacedRoleNamespacedAssignee,
                     CRBGroupIDs(nrb), TRUE, node)

RoleNode(nr) == NewNode(TypeNamespacedRole, namespacedEscapedID(nr.namespace, nr.name))

\* GenerateTuplesFor(GetSchema().Types[2], nr): the resource edges per verb,
\* the resource-instance edges per verb, then the namespace's edge.
RoleTuples(nr) ==
    LET node == RoleNode(nr)
        usr  == RelationNamespacedRoleAssignee
        PerRelation(rels, type, IDs(_, _)) ==
            FlatMap(rels, LAMBDA rel : Outgoing(node, usr, rel, type, IDs(nr.rules, rel), FALSE))
    IN  PerRelation(RoleResourceRelations, TypeResource, ResourceIDs)
        \o PerRelation(RoleInstanceRelations, TypeResourceInstance, ResourceInstanceIDs)
        \o Incoming(TypeNamespace, NoUserSet, RelationNamespaceContainsRole, <<nr.namespace>>, TRUE, node)

(***************************************************************************)
(* The node constructors the authorizer builds requests from (rebac.go).  *)
(***************************************************************************)
RBACMatchAllAPIGroups == "*"
RBACMatchAllResources == "*"

ResourceNode(apiGroup, resource) == NewNode(TypeResource, CoreIfEmpty(apiGroup) \o "." \o resource)

ResourceInstanceNode(apiGroup, resource, instanceName) ==
    NewNode(TypeResourceInstance, CoreIfEmpty(apiGroup) \o "." \o resource \o "/" \o QueryEscape(instanceName))

NamespaceNode(namespace) == NewNode(TypeNamespace, namespace)
UserNode(username) == NewNode(TypeUser, QueryEscape(username))
GroupNode(groupname) == NewNode(TypeGroup, QueryEscape(groupname))
=============================================================================
