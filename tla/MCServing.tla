---------------------------- MODULE MCServing -----------------------------
(***************************************************************************)
(* The syncers and the authorizer over one cluster: a ClusterRoleBinding  *)
(* "b" granting the ClusterRole "r" to alice, an aggregating ClusterRole  *)
(* "agg" selecting r by its label, and a ClusterRoleBinding "ab" granting *)
(* agg to bob.  r is edited from "get pods, with the label" to "get       *)
(* secrets, without it", so in no version does agg aggregate the secrets. *)
(***************************************************************************)
EXTENDS Serving, MCReconciler

AggBinding ==
    [kind |-> "ClusterRoleBinding", name |-> "ab",
     roleRef |-> [apiGroup |-> RBACGroup, kind |-> "ClusterRole", name |-> "agg"],
     subjects |-> <<Subject("User", RBACGroup, "bob", "")>>]

ServingRoleVersions ==
    << ClusterRole("r", {AggLabel}, NoAggregation, <<Rule({"get"}, <<"">>, <<"pods">>, <<>>, <<>>)>>),
       ClusterRole("r", {}, NoAggregation, <<Rule({"get"}, <<"">>, <<"secrets">>, <<>>, <<>>)>>) >>

ServingObjects == {"b", "r", "agg", "ab"}
ServingVersions ==
    [o \in ServingObjects |->
        CASE o = "b" -> << BindingVersions[1] >>
          [] o = "r" -> ServingRoleVersions
          [] o = "agg" -> AggregatingVersions
          [] o = "ab" -> << AggBinding >>]

\* r edited to a rule on ten resources: its diff (ten adds, two deletes)
\* takes two Write requests of the real size 10, the adds first.
WideResources == <<"secrets", "configmaps", "services", "endpoints", "events",
                   "persistentvolumeclaims", "serviceaccounts", "replicationcontrollers",
                   "limitranges", "resourcequotas">>
SplitVersions ==
    [o \in ServingObjects |->
        IF o = "r"
        THEN << ServingRoleVersions[1],
                ClusterRole("r", {}, NoAggregation, <<Rule({"get"}, <<"">>, WideResources, <<>>, <<>>)>>) >>
        ELSE ServingVersions[o]]

\* The race of two replicas needs only the aggregation.
RaceObjects == {"r", "agg", "ab"}
RaceVersions == [o \in RaceObjects |-> ServingVersions[o]]

\* alice and bob getting pods and secrets in the namespace ns.
ServingRequests ==
    {[user |-> u, groups |-> {}, verb |-> "get", isResource |-> TRUE, apiGroup |-> "",
      resource |-> res, subresource |-> "", namespace |-> "ns", name |-> "", path |-> ""] :
        u \in {"alice", "bob"}, res \in {"pods", "secrets"}}
=============================================================================
