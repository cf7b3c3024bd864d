--------------------------- MODULE MCAuthorizer ---------------------------
(***************************************************************************)
(* A small cluster for the authorizer: a ClusterRoleBinding, its          *)
(* ClusterRole, a RoleBinding, its Role, a Node and a Pod, each of which  *)
(* may be absent or take one of its versions, and the requests of four    *)
(* users about pods, secrets and nodes.                                   *)
(***************************************************************************)
EXTENDS Authorizer

Rule(verbs, groups, resources, names) ==
    [verbs |-> verbs, apiGroups |-> groups, resources |-> resources,
     resourceNames |-> names, nonResourceURLs |-> <<>>]

NonResourceRule(verbs, urls) ==
    [verbs |-> verbs, apiGroups |-> <<>>, resources |-> <<>>, resourceNames |-> <<>>, nonResourceURLs |-> urls]

NoAggregation == [set |-> FALSE, selectors |-> <<>>]

Subject(kind, group, name, ns) ==
    [kind |-> kind, apiGroup |-> group, name |-> name, namespace |-> ns]

\* b grants the ClusterRole r to alice, then to the group devs.
CRB(subjects) ==
    [kind |-> "ClusterRoleBinding", name |-> "b",
     roleRef |-> [apiGroup |-> RBACGroup, kind |-> "ClusterRole", name |-> "r"], subjects |-> subjects]

\* r: get and list pods; then get the pod p1 and list everything; then
\* get the non-resource URL /healthz; then get everything.
CR(rules) == [kind |-> "ClusterRole", name |-> "r", labels |-> {}, aggregationRule |-> NoAggregation, rules |-> rules]

\* rb grants the Role ro in ns to bob and to the service account sa of ns.
RB == [kind |-> "RoleBinding", namespace |-> "ns", name |-> "rb",
       roleRef |-> [apiGroup |-> RBACGroup, kind |-> "Role", name |-> "ro"],
       subjects |-> <<Subject("User", RBACGroup, "bob", ""), Subject("ServiceAccount", "", "sa", "")>>]

\* ro: get secrets; then every verb on the secret s.
NsRole(rules) == [kind |-> "Role", namespace |-> "ns", name |-> "ro", rules |-> rules]

Pod(nodeName) ==
    [kind |-> "Pod", namespace |-> "ns", name |-> "p1", nodeName |-> nodeName, secretRefs |-> <<"s">>]

AuthzObjects == {"b", "r", "rb", "ro", "n1", "p1"}
AuthzVersions ==
    [o \in AuthzObjects |->
        CASE o = "b" -> << CRB(<<Subject("User", RBACGroup, "alice", "")>>),
                           CRB(<<Subject("Group", RBACGroup, "devs", "")>>) >>
          [] o = "r" -> << CR(<<Rule({"get", "list"}, <<"">>, <<"pods">>, <<>>)>>),
                           CR(<<Rule({"get"}, <<"">>, <<"pods">>, <<"p1">>),
                                Rule({"list"}, <<"*">>, <<"*">>, <<>>)>>),
                           CR(<<NonResourceRule({"get"}, <<[slash |-> TRUE, path |-> "healthz"]>>)>>),
                           CR(<<Rule({"get"}, <<"*">>, <<"*">>, <<>>)>>) >>
          [] o = "rb" -> << RB >>
          [] o = "ro" -> << NsRole(<<Rule({"get"}, <<"">>, <<"secrets">>, <<>>)>>),
                            NsRole(<<Rule({"*"}, <<"">>, <<"secrets">>, <<"s">>)>>) >>
          [] o = "n1" -> << [kind |-> "Node", name |-> "n1"] >>
          [] o = "p1" -> << Pod(""), Pod("n1") >>]

AuthzEscapedNames ==
    [n \in {"system:serviceaccount:ns:sa", "system:node:n1"} |->
        IF n = "system:serviceaccount:ns:sa" THEN "system%3Aserviceaccount%3Ans%3Asa"
        ELSE "system%3Anode%3An1"]

\* The users: alice, bob in the group devs, the service account and the
\* node's user.
Users == {[name |-> "alice", groups |-> {}], [name |-> "bob", groups |-> {"devs"}],
          [name |-> "system:serviceaccount:ns:sa", groups |-> {}],
          [name |-> "system:node:n1", groups |-> {}]}

ResourceRequest(u, verb, resource, namespace, name) ==
    [user |-> u.name, groups |-> u.groups, verb |-> verb, isResource |-> TRUE, apiGroup |-> "",
     resource |-> resource, subresource |-> "", namespace |-> namespace, name |-> name, path |-> ""]

\* get and list of pods and secrets, cluster-wide and in two namespaces,
\* of the collection and of the named object; get of the node.
AuthzRequests ==
    {ResourceRequest(u, verb, resource, ns, name) :
        u \in Users, verb \in {"get", "list"}, resource \in {"pods", "secrets"},
        ns \in {"", "ns", "other"}, name \in {"", "p1", "s"}}
    \cup {ResourceRequest(u, "get", "nodes", "", "n1") : u \in Users}

\* get of the log subresource of the pod p1.
SubresourceRequests ==
    {[ResourceRequest(u, "get", "pods", "ns", "p1") EXCEPT !.subresource = "log"] : u \in Users}
=============================================================================
