---------------------------- MODULE MCStoreSetup ----------------------------
(***************************************************************************)
(* Store lists and replicas for the startup model.                        *)
(***************************************************************************)
EXTENDS StoreSetup

CONSTANTS r1, r2

\* The store lists of up to Len names, each "other" or StoreName, with at
\* most one store of the configured name (a cluster set up correctly).
StoreLists(n) ==
    {s \in UNION {[1..k -> {StoreName, "other"}] : k \in 0..n} :
        Cardinality({i \in DOMAIN s : s[i] = StoreName}) <= 1}

\* Every list that leaves room on a first page of 4 for the store created.
OnePageStores == StoreLists(3)

\* No stores of the name yet, and two other stores filling the page.
FullPageStores == {<<"other", "other">>}

\* An empty OpenFGA.
EmptyStores == {<<>>}
=============================================================================
