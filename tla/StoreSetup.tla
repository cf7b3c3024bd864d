----------------------------- MODULE StoreSetup -----------------------------
(***************************************************************************)
(* Startup of the manager against OpenFGA (src/cmd/main.go, run, and      *)
(* src/pkg/openfga/openfga.go, WithStore and WithAuthorizationSchema):    *)
(* each replica lists the stores, takes the one named StoreName or        *)
(* creates it, writes the authorization model and starts its controllers  *)
(* and webhook.  Any error makes run return, the process exits and the    *)
(* kubelet starts it again.                                               *)
(*                                                                         *)
(* OpenFGA lets several stores share a name and lists stores in creation  *)
(* order, a page at a time; a store is its position in `stores`.  This    *)
(* happens before mgr.Start, so leader election does not order it.        *)
(***************************************************************************)
EXTENDS Naturals, Sequences, FiniteSets

CONSTANTS
    Replicas,       \* the manager processes
    StoreName,      \* cfg.StoreName
    InitialStores,  \* the store lists OpenFGA may hold at first
    PageSize,       \* the server's default page size of ListStores
    MaxStores,      \* bound on the stores that can exist
    MaxFailures,    \* bound on failed calls and crashes of a running replica
    NoStore         \* a replica that holds no store

ASSUME PageSize \in Nat \ {0} /\ \A s \in InitialStores : Len(s) <= MaxStores

VARIABLES
    stores,     \* the names of the stores in OpenFGA, in creation order
    pc,         \* pc[r]: the step of run replica r is at
    storeOf,    \* storeOf[r]: the store r's AuthorizationModeller holds
    failures    \* failed calls and crashes so far

vars == <<stores, pc, storeOf, failures>>

Steps == {"List", "Create", "WriteModel", "Running", "Exited"}

TypeOK ==
    /\ stores \in Seq({StoreName, "other"}) /\ Len(stores) <= MaxStores
    /\ pc \in [Replicas -> Steps]
    /\ storeOf \in [Replicas -> (1..MaxStores) \cup {NoStore}]
    /\ failures \in 0..MaxFailures

Init ==
    /\ stores \in InitialStores
    /\ pc = [r \in Replicas |-> "List"]
    /\ storeOf = [r \in Replicas |-> NoStore]
    /\ failures = 0

\* ListStores with an empty request: the first page only, the continuation
\* token ignored.
FirstPage == SubSeq(stores, 1, IF Len(stores) < PageSize THEN Len(stores) ELSE PageSize)

Matching == {i \in DOMAIN FirstPage : FirstPage[i] = StoreName}

\* Mutant of WithStore's list step: the check for several stores of the
\* name written as "at least one".
ListStoresRejectsOne(r) ==
    /\ pc[r] = "List"
    /\ CASE Cardinality(Matching) >= 1 -> pc' = [pc EXCEPT ![r] = "Exited"] /\ UNCHANGED storeOf
         [] OTHER -> pc' = [pc EXCEPT ![r] = "Create"] /\ UNCHANGED storeOf
    /\ UNCHANGED <<stores, failures>>

\* Mutant of WithStore's list step: the matching stores ignored.
ListStoresAlwaysCreates(r) ==
    /\ pc[r] = "List"
    /\ pc' = [pc EXCEPT ![r] = "Create"]
    /\ UNCHANGED <<stores, storeOf, failures>>

\* WithStore: more than one store of the name is an error; exactly one is
\* taken; none leads to CreateStore.
ListStores(r) ==
    /\ pc[r] = "List"
    /\ CASE Cardinality(Matching) > 1 ->
              pc' = [pc EXCEPT ![r] = "Exited"] /\ UNCHANGED storeOf
         [] Cardinality(Matching) = 1 ->
              /\ storeOf' = [storeOf EXCEPT ![r] = CHOOSE i \in Matching : TRUE]
              /\ pc' = [pc EXCEPT ![r] = "WriteModel"]
         [] OTHER ->
              pc' = [pc EXCEPT ![r] = "Create"] /\ UNCHANGED storeOf
    /\ UNCHANGED <<stores, failures>>

\* Mutant of CreateStore: the new store taken as the last one before it.
CreateStoreOffByOne(r) ==
    /\ pc[r] = "Create"
    /\ Len(stores) < MaxStores
    /\ stores' = Append(stores, StoreName)
    /\ storeOf' = [storeOf EXCEPT ![r] = Len(stores)]
    /\ pc' = [pc EXCEPT ![r] = "WriteModel"]
    /\ failures' = failures

\* CreateStore: the server always creates a new store, whatever its name.
CreateStore(r) ==
    /\ pc[r] = "Create"
    /\ Len(stores) < MaxStores
    /\ stores' = Append(stores, StoreName)
    /\ storeOf' = [storeOf EXCEPT ![r] = Len(stores) + 1]
    /\ pc' = [pc EXCEPT ![r] = "WriteModel"]
    /\ failures' = failures

\* WithAuthorizationSchema writes the model; run then sets up the
\* controllers and the webhook and starts the manager.
WriteAuthorizationModel(r) ==
    /\ pc[r] = "WriteModel"
    /\ pc' = [pc EXCEPT ![r] = "Running"]
    /\ UNCHANGED <<stores, storeOf, failures>>

\* A call of startup fails and run returns the error; a CreateStore whose
\* answer is lost has still created the store.
CallFails(r) ==
    /\ pc[r] \in {"List", "Create", "WriteModel"}
    /\ failures < MaxFailures
    /\ \/ UNCHANGED stores
       \/ pc[r] = "Create" /\ Len(stores) < MaxStores /\ stores' = Append(stores, StoreName)
    /\ pc' = [pc EXCEPT ![r] = "Exited"]
    /\ storeOf' = [storeOf EXCEPT ![r] = NoStore]
    /\ failures' = failures + 1

\* A running replica crashes or is rolled.
Crash(r) ==
    /\ pc[r] = "Running"
    /\ failures < MaxFailures
    /\ pc' = [pc EXCEPT ![r] = "Exited"]
    /\ storeOf' = [storeOf EXCEPT ![r] = NoStore]
    /\ failures' = failures + 1
    /\ UNCHANGED stores

\* The kubelet starts an exited process again.
Restart(r) ==
    /\ pc[r] = "Exited"
    /\ pc' = [pc EXCEPT ![r] = "List"]
    /\ UNCHANGED <<stores, storeOf, failures>>

Replica(r) ==
    \/ ListStores(r) \/ CreateStore(r) \/ WriteAuthorizationModel(r) \/ Restart(r)

Next == \E r \in Replicas : Replica(r) \/ CallFails(r) \/ Crash(r)

\* The process runs its startup to the end once started, and the kubelet
\* restarts an exited container (with back-off, but always).
Fairness == \A r \in Replicas : WF_vars(Replica(r))

Spec == Init /\ [][Next]_vars /\ Fairness

-----------------------------------------------------------------------------
NamedStores == {i \in DOMAIN stores : stores[i] = StoreName}

\* WithStore lists before creating so that restarts and replicas reuse one
\* store (openfga.go:54-55): at most one store ever has the configured
\* name, whatever the replicas, failures and restarts did.
NoDuplicateStore == Cardinality(NamedStores) <= 1

\* Every replica eventually runs for good against the store of the
\* configured name: a restart after a failure finds the store again
\* instead of failing at startup forever.
EventuallyRunning ==
    \A r \in Replicas : <>[](pc[r] = "Running" /\ storeOf[r] \in NamedStores)
=============================================================================
