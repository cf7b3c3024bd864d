------------------------------ MODULE Serving -------------------------------
(***************************************************************************)
(* The two halves of the manager together: the syncers (Reconciler) write *)
(* the store while the webhook's authorizer answers requests from it.     *)
(* The authorizer reads OpenFGA with no lock and no snapshot shared with  *)
(* the syncers, so every Authorize call sees the store as it is between   *)
(* two Write requests: a diff half applied, a reconcile from a stale      *)
(* spec, or two replicas' writes mixed.                                   *)
(*                                                                         *)
(* The authorizer is the Authorizer module over the Reconciler's store;   *)
(* AuthzAt(c) is the same module over a cluster c, used for the RBAC      *)
(* reference of the objects' earlier versions.                            *)
(***************************************************************************)
EXTENDS Reconciler

CONSTANTS
    Requests,           \* the requests the API server sends in every state
    ResolveNodeLimit    \* OpenFGA's bound on the depth of a Check

AuthzAt(c) == INSTANCE Authorizer WITH cluster <- c

\* The specs object o has had so far: the edits only move forward
\* (Update), and a deleted object stays deleted.
SeenSpecs(o) ==
    {Versions[o][i] : i \in 1..ver[o]} \cup (IF spec[o] = Absent THEN {Absent} ELSE {})

\* Every cluster an informer-fed RBAC authorizer could have seen: each
\* object at one of the versions it has had, independently of the others.
SeenClusters == {c \in [Objects -> UNION {SeenSpecs(o) : o \in Objects}] :
                    \A o \in Objects : c[o] \in SeenSpecs(o)}

\* Authorize over the tuples OpenFGA holds now.
Served(req) == AuthzAt(spec)!Authorize(req, store) = "Allow"

\* Whatever the authorizer allows while the syncers are writing, Kubernetes
\* RBAC (or the node graph) allows in some cluster made of versions the
\* objects have had: a request is never allowed by mixing tuples of two
\* versions of one object, written by the adds-before-deletes batches of
\* WriteTuples, a reconcile of a stale spec, or two replicas racing.
GrantsFromSeenVersions ==
    \A req \in Requests :
        Served(req) =>
            \E c \in SeenClusters : AuthzAt(c)!RBACAllows(req) \/ AuthzAt(c)!NodeAllows(req)
=============================================================================
