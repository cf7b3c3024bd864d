----------------------------- MODULE NodeAuth ------------------------------
(***************************************************************************)
(* The generic-object schema of src/pkg/nodeauth/nodeauth.go: nodes, pods *)
(* and secrets, related so that a node may read the pods scheduled on it  *)
(* and the secrets those pods reference, and the tuples the generic       *)
(* syncer generates for a Node and a Pod.                                 *)
(*                                                                         *)
(*   Node [name]                                                          *)
(*   Pod  [namespace, name, nodeName, secretRefs]                         *)
(* where secretRefs lists the envFrom secret names of all containers, in  *)
(* order.                                                                  *)
(***************************************************************************)
EXTENDS Zanzibar

\* strings.ToLower over the kinds the code names.
LowerKind == [k \in {"Node", "Pod", "Secret"} |-> CASE k = "Node" -> "node"
                                                    [] k = "Pod" -> "pod"
                                                    [] k = "Secret" -> "secret"]

GVKToTypeName(group, kind) ==
    (IF group = "" THEN "core" ELSE group) \o "." \o
    (IF kind \in DOMAIN LowerKind THEN LowerKind[kind] ELSE kind)

GenericNodeID(namespace, name) ==
    IF namespace = "" THEN QueryEscape(name)
    ELSE QueryEscape(namespace) \o "/" \o QueryEscape(name)

TypeCoreNode == "core.node"
TypeCorePod == "core.pod"
TypeCoreSecret == "core.secret"

\* nodeauth.GetSchema().Types.
NodeAuthSchemaTypes ==
  << TypeRelation(TypeCoreNode, << In("user", NoUserSet, "get") >>, <<>>, <<>>),
     TypeRelation(TypeCorePod,
        << In(TypeCoreNode, NoUserSet, "node_to_pod") >>,
        << Out(TypeCoreSecret, NoUserSet, <<"pod_to_secret">>) >>,
        [r \in {"get"} |-> TupleToUsersetES("get", "node_to_pod")]),
     TypeRelation(TypeCoreSecret, <<>>, <<>>,
        [r \in {"get"} |-> TupleToUsersetES("get", "pod_to_secret")]) >>

NodeNode(n) == NewNode(TypeCoreNode, GenericNodeID("", n.name))
PodNode(p) == NewNode(TypeCorePod, GenericNodeID(p.namespace, p.name))

\* GenerateTuplesFor(core.node entry, n): the node's user may get it.
NodeTuples(n) ==
    Incoming("user", NoUserSet, "get", <<QueryEscape("system:node:" \o n.name)>>, FALSE, NodeNode(n))

\* GenerateTuplesFor(core.pod entry, p): outgoing edges to the referenced
\* secrets, then the incoming edge from the pod's node (dropped while the
\* pod is unscheduled, as its ID is then empty).
PodTuples(p) ==
    Outgoing(PodNode(p), NoUserSet, "pod_to_secret", TypeCoreSecret,
             [k \in DOMAIN p.secretRefs |-> GenericNodeID(p.namespace, p.secretRefs[k])], FALSE)
    \o Incoming(TypeCoreNode, NoUserSet, "node_to_pod", <<GenericNodeID("", p.nodeName)>>,
                FALSE, PodNode(p))
=============================================================================
