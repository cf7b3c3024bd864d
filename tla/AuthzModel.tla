---------------------------- MODULE AuthzModel -----------------------------
(***************************************************************************)
(* The OpenFGA authorization model the manager compiles from its schema   *)
(* (src/pkg/openfga/authzmodel.go, BuildAuthorizationModel), and the two  *)
(* uses the code makes of it: the relation references that drive the     *)
(* ReadTuples fan-out (src/pkg/openfga/reconcile.go and openfga.go), and  *)
(* the userset rewrites the store evaluates a Check against.              *)
(*                                                                         *)
(* A compiled model is a function from type name to                       *)
(*   [relations |-> relation -> Userset,                                  *)
(*    metadata  |-> relation -> set of <<userType, usr>>]                 *)
(* where a Userset is a record whose `kind` is "this", "union",           *)
(* "intersection", "difference", "computed", "ttu" or "empty" (a Userset  *)
(* with no rewrite set).  The type definitions the code sorts by name     *)
(* are a function here, which has no order.                               *)
(***************************************************************************)
EXTENDS RBACSchema, NodeAuth

\* cmd/main.go: the RBAC schema with the node authorizer's types appended.
ManagerSchemaTypes == GetSchemaTypes \o NodeAuthSchemaTypes

This == [kind |-> "this"]
EmptyUserset == [kind |-> "empty"]
UnionOf(children) == [kind |-> "union", child |-> children]

\* userSetToOpenFGA: the first field set, in the order the code tests them.
RECURSIVE userSetToOpenFGA(_)
userSetToOpenFGA(us) ==
    LET Children(s) == [k \in DOMAIN s |-> userSetToOpenFGA(s[k])] IN
    IF us.union # <<>> THEN UnionOf(Children(us.union))
    ELSE IF us.intersection # <<>> THEN [kind |-> "intersection", child |-> Children(us.intersection)]
    ELSE IF us.difference # <<>>
         THEN [kind |-> "difference", base |-> userSetToOpenFGA(us.difference[1].base),
               subtract |-> userSetToOpenFGA(us.difference[1].subtract)]
    ELSE IF us.relation # "" THEN [kind |-> "computed", relation |-> us.relation]
    ELSE IF us.ttu # <<>>
         THEN [kind |-> "ttu", tupleset |-> us.ttu[1].fromRelation,
               computed |-> us.ttu[1].referencedRelation]
    ELSE EmptyUserset

\* Mutant of MergeUserset: a union wanted replaces the relation's direct
\* userset instead of taking it as its first child.
MergeUsersetDropsDirect(userset, wanted) ==
    CASE userset = EmptyUserset -> wanted
      [] userset.kind = "union" -> [userset EXCEPT !.child = @ \o <<wanted>>]
      [] wanted.kind = "union" -> wanted
      [] OTHER -> UnionOf(<<userset, wanted>>)

\* The second loop of BuildAuthorizationModel: an evaluated userset is
\* combined with what the relation already has.
MergeUserset(userset, wanted) ==
    CASE userset = EmptyUserset -> wanted
      [] userset.kind = "union" -> [userset EXCEPT !.child = @ \o <<wanted>>]
      [] wanted.kind = "union" -> [wanted EXCEPT !.child = <<userset>> \o @]
      [] OTHER -> UnionOf(<<userset, wanted>>)

BuildAuthorizationModel(as) ==
    LET entries == ToSet(as)
        Entries(t) == {e \in entries : e.typeName = t}
        modelTypes == {e.typeName : e \in entries}
                      \cup UNION {{i.userType : i \in ToSet(e.incoming)} : e \in entries}
                      \cup UNION {{o.objectType : o \in ToSet(e.outgoing)} : e \in entries}
        \* <<relation, <<userType, usr>>>> for every edge into type t
        Refs(t) == UNION {{<<i.relation, <<i.userType, i.usr>>>> : i \in ToSet(e.incoming)} : e \in Entries(t)}
                   \cup UNION {UNION {{<<r, <<e.typeName, o.usr>>>> : r \in ToSet(o.relations)}
                                      : o \in {o \in ToSet(e.outgoing) : o.objectType = t}}
                               : e \in entries}
        Direct(t) == {ref[1] : ref \in Refs(t)}
        Evaluated(t) == UNION {DOMAIN e.evaluated : e \in Entries(t)}
        Rewrite(t, r) ==
            FoldLeft(LAMBDA cur, e : IF e.typeName = t /\ r \in DOMAIN e.evaluated
                                     THEN MergeUserset(cur, userSetToOpenFGA(e.evaluated[r]))
                                     ELSE cur,
                     IF r \in Direct(t) THEN This ELSE EmptyUserset, as)
    IN  [t \in modelTypes |->
            [relations |-> [r \in Direct(t) \cup Evaluated(t) |-> Rewrite(t, r)],
             metadata  |-> [r \in Direct(t) |-> {ref[2] : ref \in {x \in Refs(t) : x[1] = r}}]]]

\* The converter each syncer calls: ConvertClusterRoleBindingToTuples and
\* its siblings for RBAC kinds, GenerateTuplesFor for the generic syncers.
Generate(obj) ==
    CASE obj.kind = "ClusterRoleBinding" -> ClusterRoleBindingTuples(obj)
      [] obj.kind = "ClusterRole" -> ClusterRoleTuples(obj)
      [] obj.kind = "RoleBinding" -> RoleBindingTuples(obj)
      [] obj.kind = "Role" -> RoleTuples(obj)
      [] obj.kind = "Node" -> NodeTuples(obj)
      [] obj.kind = "Pod" -> PodTuples(obj)

\* The model the store holds and the manager reads with.
Model == BuildAuthorizationModel(ManagerSchemaTypes)

\* Mutant of GetOutgoingRelationTypesFor: the userset branch missing, so a
\* reference with a relation falls through to Directs.
GetOutgoingRelationTypesForNoUsersets(model, target) ==
    LET refs == UNION {UNION {{<<t, ref>> : ref \in model[t].metadata[r]} : r \in DOMAIN model[t].metadata}
                       : t \in DOMAIN model}
    IN  [directs  |-> {x[1] : x \in {x \in refs : x[2][1] = target}},
         usersets |-> {}]

\* GetOutgoingRelationTypesFor: the object types a node of the target type
\* is directly related to, and the <<objectType, usr>> pairs it is related
\* to as a userset.  (The compiler never writes a wildcard reference, so
\* the Wildcards set is always empty and is left out.)
GetOutgoingRelationTypesFor(model, target) ==
    LET refs == UNION {UNION {{<<t, ref>> : ref \in model[t].metadata[r]} : r \in DOMAIN model[t].metadata}
                       : t \in DOMAIN model}
    IN  [directs  |-> {x[1] : x \in {x \in refs : x[2] = <<target, NoUserSet>>}},
         usersets |-> {<<x[1], x[2][2]>> : x \in {x \in refs : x[2][1] = target /\ x[2][2] # NoUserSet}}]

\* The fan-out of every type, computed once, as the store keeps one model.
OutgoingTypes == [t \in DOMAIN Model |-> GetOutgoingRelationTypesFor(Model, t)]

\* ReadTuples with a user node and no object type: one read per object
\* type the node's type is directly related to.
ReadUserTuples(store, node) ==
    UNION {{t \in store : t.user = node /\ t.usr = NoUserSet /\ NodeType(t.obj) = ot}
           : ot \in OutgoingTypes[NodeType(node)].directs}

\* ReadTuples with a user node and the wildcard userset relation: one read
\* per <<objectType, usr>> the node's type is related to as a userset.
ReadUserSetTuples(store, node) ==
    UNION {{t \in store : t.user = node /\ t.usr = p[2] /\ NodeType(t.obj) = p[1]}
           : p \in OutgoingTypes[NodeType(node)].usersets}
=============================================================================
