--------------------------- MODULE MCReconciler ---------------------------
(***************************************************************************)
(* A small cluster for the syncers: a ClusterRoleBinding "b" granting the  *)
(* ClusterRole "r", an aggregating ClusterRole "agg" selecting r by its    *)
(* label, and a ClusterRole whose name the controllers skip.              *)
(***************************************************************************)
EXTENDS Reconciler

Rule(verbs, groups, resources, names, urls) ==
    [verbs |-> verbs, apiGroups |-> groups, resources |-> resources,
     resourceNames |-> names, nonResourceURLs |-> urls]

NoAggregation == [set |-> FALSE, selectors |-> <<>>]

ClusterRole(name, labels, agg, rules) ==
    [kind |-> "ClusterRole", name |-> name, labels |-> labels,
     aggregationRule |-> agg, rules |-> rules]

Binding(subjects) ==
    [kind |-> "ClusterRoleBinding", name |-> "b",
     roleRef |-> [apiGroup |-> RBACGroup, kind |-> "ClusterRole", name |-> "r"],
     subjects |-> subjects]

Subject(kind, group, name, ns) ==
    [kind |-> kind, apiGroup |-> group, name |-> name, namespace |-> ns]

AggLabel == [key |-> "agg", value |-> "true"]

\* b: alice and the group devs, then alice and the service account ns/sa.
BindingVersions ==
    << Binding(<<Subject("User", RBACGroup, "alice", ""), Subject("Group", RBACGroup, "devs", "")>>),
       Binding(<<Subject("ServiceAccount", "", "sa", "ns"), Subject("User", RBACGroup, "alice", "")>>) >>

\* r: get/list on pods with the aggregation label; then get on one pod and
\* on the non-resource URL "healthz" (no leading slash).
RoleVersions ==
    << ClusterRole("r", {AggLabel}, NoAggregation,
                   <<Rule({"get", "list"}, <<"">>, <<"pods">>, <<>>, <<>>)>>),
       ClusterRole("r", {}, NoAggregation,
                   <<Rule({"get"}, <<"">>, <<"pods">>, <<"p1">>, <<>>),
                     Rule({"get"}, <<>>, <<>>, <<>>, <<[slash |-> FALSE, path |-> "healthz"]>>)>>) >>

\* The same role with a rule naming pods twice: a duplicate desired tuple.
DuplicateRoleVersion ==
    ClusterRole("r", {AggLabel}, NoAggregation,
                <<Rule({"*"}, <<"">>, <<"pods", "pods">>, <<>>, <<>>)>>)

AggregatingVersions ==
    << ClusterRole("agg", {}, [set |-> TRUE,
                               selectors |-> <<[matchLabels |-> {AggLabel}, matchExpressions |-> <<>>]>>],
                   <<>>) >>

SkippedVersions ==
    << ClusterRole("system:kcp:admin", {}, NoAggregation,
                   <<Rule({"*"}, <<"">>, <<"pods">>, <<>>, <<>>)>>) >>

MCEscapedNames ==
    [n \in {"system:kcp:admin", "system:serviceaccount:ns:sa"} |->
        IF n = "system:kcp:admin" THEN "system%3Akcp%3Aadmin"
        ELSE "system%3Aserviceaccount%3Ans%3Asa"]

MCSkippedNames == {"system:kcp:admin"}

\* The safety model: every object kind, edits, deletion and a duplicate rule.
SafetyObjects == {"b", "r", "kcp"}
SafetyVersions ==
    [o \in SafetyObjects |->
        CASE o = "b" -> BindingVersions
          [] o = "r" -> RoleVersions \o <<DuplicateRoleVersion>>
          [] o = "agg" -> AggregatingVersions
          [] o = "kcp" -> SkippedVersions]

\* Deletion of the binding, nothing else edited.
DeleteObjects == {"b", "r"}
DeleteVersions == [o \in DeleteObjects |-> IF o = "b" THEN <<BindingVersions[1]>> ELSE RoleVersions]

\* The role with the duplicate rule from the start.
DuplicateObjects == {"r"}
DuplicateVersions == [o \in DuplicateObjects |-> <<DuplicateRoleVersion>>]

\* Two manager replicas without leader election: the binding and the role,
\* both edited.  The replicas are interchangeable.
ReplicaObjects == {"b", "r"}
ReplicaVersions == [o \in ReplicaObjects |-> IF o = "b" THEN BindingVersions ELSE RoleVersions]
CONSTANTS r1, r2
MCReplicas == {r1, r2}
ReplicaSymmetry == Permutations(MCReplicas)

\* The namespaced and generic kinds: a RoleBinding "rb" granting the Role
\* "ro" in namespace "ns", a Node "n1" and a Pod "p1" in "ns" that is
\* scheduled onto n1 after it is created.
RoleRef == [apiGroup |-> RBACGroup, kind |-> "Role", name |-> "ro"]
RoleBinding(subjects) ==
    [kind |-> "RoleBinding", namespace |-> "ns", name |-> "rb", roleRef |-> RoleRef, subjects |-> subjects]
Role(rules) == [kind |-> "Role", namespace |-> "ns", name |-> "ro", rules |-> rules]
Pod(nodeName) ==
    [kind |-> "Pod", namespace |-> "ns", name |-> "p1", nodeName |-> nodeName, secretRefs |-> <<"s">>]

\* rb: alice and the service account sa of the binding's namespace; then
\* the group devs and the service account other/sa.
RoleBindingVersions ==
    << RoleBinding(<<Subject("User", RBACGroup, "alice", ""), Subject("ServiceAccount", "", "sa", "")>>),
       RoleBinding(<<Subject("Group", RBACGroup, "devs", ""), Subject("ServiceAccount", "", "sa", "other")>>) >>

\* ro: get/list on pods; then get on the pod p1 and every verb on secrets.
NamespacedRoleVersions ==
    << Role(<<Rule({"get", "list"}, <<"">>, <<"pods">>, <<>>, <<>>)>>),
       Role(<<Rule({"get"}, <<"">>, <<"pods">>, <<"p1">>, <<>>),
              Rule({"*"}, <<"">>, <<"secrets">>, <<>>, <<>>)>>) >>

NamespacedObjects == {"rb", "ro", "n1", "p1"}
NamespacedVersions ==
    [o \in NamespacedObjects |->
        CASE o = "rb" -> RoleBindingVersions
          [] o = "ro" -> NamespacedRoleVersions
          [] o = "n1" -> << [kind |-> "Node", name |-> "n1"] >>
          [] o = "p1" -> << Pod(""), Pod("n1") >>]

NamespacedEscapedNames ==
    [n \in {"system:serviceaccount:ns:sa", "system:serviceaccount:other:sa", "system:node:n1"} |->
        CASE n = "system:serviceaccount:ns:sa" -> "system%3Aserviceaccount%3Ans%3Asa"
          [] n = "system:serviceaccount:other:sa" -> "system%3Aserviceaccount%3Aother%3Asa"
          [] n = "system:node:n1" -> "system%3Anode%3An1"]
=============================================================================
