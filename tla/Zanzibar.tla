----------------------------- MODULE Zanzibar -----------------------------
(***************************************************************************)
(* Graph primitives of src/pkg/zanzibar: nodes, usersets, tuples, the     *)
(* schema-driven tuple generator and the ownership keys the reconciler     *)
(* derives from a schema entry.                                            *)
(*                                                                         *)
(* A node is <<type, name>>.  A tuple is a record whose user is a node     *)
(* and whose `usr` is the userset relation of the user side ("" when the   *)
(* user is a plain node), as Tuple.GetUserSetRelation returns it.          *)
(***************************************************************************)
EXTENDS Integers, Sequences, SequencesExt, FiniteSets

\* url.QueryEscape, given as a table over the model's names that contain a
\* reserved character; every other name is its own escape.
CONSTANT EscapedNames

QueryEscape(s) == IF s \in DOMAIN EscapedNames THEN EscapedNames[s] ELSE s

NoUserSet == ""

NewNode(type, name) == <<type, name>>
NodeType(n) == n[1]
NodeName(n) == n[2]

\* NodeValid: both the type and the name are non-empty.
NodeValid(n) == NodeType(n) # "" /\ NodeName(n) # ""

Tuple(user, usr, rel, obj) == [user |-> user, usr |-> usr, rel |-> rel, obj |-> obj]

\* Tuple.Valid.
TupleValid(t) == NodeValid(t.user) /\ t.rel # "" /\ NodeValid(t.obj)

\* util.Map and util.FlatMap over sequences.
SeqMap(s, F(_)) == [k \in DOMAIN s |-> F(s[k])]
FlatMap(s, F(_)) == FlattenSeq(SeqMap(s, F))

\* util.FilterEmpty.
FilterEmpty(ids) == SelectSeq(ids, LAMBDA id : id # "")

\* relatedNode.To: one tuple per valid object node, in order.
ToObjects(user, usr, rel, objects) ==
    LET valid == SelectSeq(objects, NodeValid)
    IN  SeqMap(valid, LAMBDA o : Tuple(user, usr, rel, o))

(***************************************************************************)
(* GenerateTuplesFor, per edge of a schema entry.  The ID expressions are  *)
(* evaluated by the caller; these operators do the escaping, the           *)
(* empty-ID filtering and the node construction the generator does for    *)
(* every outgoing and incoming edge.                                       *)
(***************************************************************************)
\* The escaping and empty-ID filtering applied to every ID list.
EscapedIDs(ids, escapeID) ==
    FilterEmpty(IF escapeID THEN SeqMap(ids, QueryEscape) ELSE ids)

Outgoing(node, usr, rel, objectType, objectIDs, escapeID) ==
    LET ids == EscapedIDs(objectIDs, escapeID)
    IN  ToObjects(node, usr, rel, [k \in DOMAIN ids |-> NewNode(objectType, ids[k])])

Incoming(userType, usr, rel, userIDs, escapeID, node) ==
    LET ids == EscapedIDs(userIDs, escapeID)
    IN  [k \in DOMAIN ids |-> Tuple(NewNode(userType, ids[k]), usr, rel, node)]

(***************************************************************************)
(* The declarations of an AuthorizationSchema (zanzibar/declarative.go),  *)
(* without their ID expressions, which the generators of each schema      *)
(* apply directly.  A TypeRelation is                                      *)
(*   [typeName, incoming: Seq(In), outgoing: Seq(Out), evaluated]         *)
(* where `evaluated` maps a relation to an EvaluatedUserset.               *)
(***************************************************************************)
In(userType, usr, relation) == [userType |-> userType, usr |-> usr, relation |-> relation]
Out(objectType, usr, relations) == [objectType |-> objectType, usr |-> usr, relations |-> relations]

TypeRelation(typeName, incoming, outgoing, evaluated) ==
    [typeName |-> typeName, incoming |-> incoming, outgoing |-> outgoing, evaluated |-> evaluated]

\* EvaluatedUserset: a struct whose fields are alternatives; the pointer
\* fields Difference and TupleToUserset are sequences of length 0 (nil) or 1.
NoEvaluatedUserset ==
    [union |-> <<>>, intersection |-> <<>>, difference |-> <<>>, relation |-> "", ttu |-> <<>>]
ComputedES(relation) == [NoEvaluatedUserset EXCEPT !.relation = relation]
TupleToUsersetES(referencedRelation, fromRelation) ==
    [NoEvaluatedUserset EXCEPT !.ttu = <<[referencedRelation |-> referencedRelation,
                                          fromRelation |-> fromRelation]>>]
UnionES(children) == [NoEvaluatedUserset EXCEPT !.union = children]
IntersectionES(children) == [NoEvaluatedUserset EXCEPT !.intersection = children]

(***************************************************************************)
(* Ownership keys (zanzibar/reconcile.go): a schema entry owns the tuples *)
(* whose counterparty type and userset relation match one of its incoming *)
(* (user side) or outgoing (object side) declarations.  An entry's keys   *)
(* are [in |-> {<<userType, usr>>}, out |-> {<<objectType, usr>>}].       *)
(***************************************************************************)
OwnershipKeys(tr) ==
    [in  |-> {<<i.userType, i.usr>> : i \in ToSet(tr.incoming)},
     out |-> {<<o.objectType, o.usr>> : o \in ToSet(tr.outgoing)}]

\* util.MatchOne over the schema's types: whether exactly one entry has
\* the type name, and that entry.
MatchesOne(types, typeName) == Cardinality({k \in DOMAIN types : types[k].typeName = typeName}) = 1
MatchType(types, typeName) == types[CHOOSE k \in DOMAIN types : types[k].typeName = typeName]

OwnsIncoming(entry, t) == <<NodeType(t.user), t.usr>> \in entry.in
OwnsOutgoing(entry, t) == <<NodeType(t.obj), t.usr>> \in entry.out

\* A fixed order in which a set of stored tuples is returned by a read.
RECURSIVE ReadOrder(_)
ReadOrder(S) ==
    IF S = {} THEN <<>>
    ELSE LET x == CHOOSE x \in S : TRUE IN <<x>> \o ReadOrder(S \ {x})
=============================================================================
