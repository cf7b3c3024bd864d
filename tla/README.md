# TLA+ models of kube-rebac-authorizer

These modules model kube-rebac-authorizer's two halves, checked with TLC:

- **Syncing.** Kubernetes RBAC objects, nodes and pods become OpenFGA relationship tuples, which are kept in sync. This half covers the schema-driven tuple generator, the reconcile diff, the chunked writer and the controllers that drive them.
- **Authorizing.** The authorizer answers a request from those tuples. It uses the authorization model compiled from the schema, contextual tuples, and OpenFGA's Check.

## The system

| Part | Source | State | Operations |
|---|---|---|---|
| Tuple primitives | `pkg/zanzibar/nodes.go`, `types.go`, `pkg/util/utils.go` | none (values) | `NewNode`, `WithUserSet`, `To`, `Map`/`FlatMap`/`FilterEmpty` |
| Tuple generator | `pkg/zanzibar/declarative.go` (`GenerateTuplesFor`) | none | outgoing and incoming edges of a schema entry, escaping, empty-ID filtering |
| RBAC schema | `pkg/rbacconversion/declarative.go` (`GetSchema`), `rebac.go` | none | one entry per type: ClusterRoleBinding, RoleBinding, Role, ClusterRole, group, namespace, resource, resourceinstance, nonresourceurls |
| Reconcile diff | `pkg/zanzibar/reconcile.go` (`ReconcileCompute`) | reads the store | ownership keys from the schema entry, three reads, the adds/deletes diff |
| Store adapter | `pkg/openfga/openfga.go`, `reconcile.go` | the OpenFGA store (remote) | `ReadTuples` fan-out over the model's types, paginated reads, `WriteTuples` in batches of 10 |
| Syncer controllers | `pkg/controllers/*syncer/controller.go` | work queue per controller | `Reconcile`: kcp skip, `Get`, generate, `GetID`, `ReconcileCompute`, `WriteTuples` |
| Authorization model compiler | `pkg/openfga/authzmodel.go` | none | `BuildAuthorizationModel` |
| Authorizer | `pkg/authorizer/authorizer.go` | none (queries the store) | `Authorize`, `resolveIndividual`, `userNodeFor` |
| Webhook | `pkg/authorizer/authzwebhook/*.go` | none | SubjectAccessReview to `authorizer.Attributes`, the decision to the review's status |
| Store setup | `pkg/openfga/openfga.go` (`WithStore`, `WithAuthorizationSchema`), `cmd/main.go` (`run`) | the OpenFGA stores (remote), one process per replica | list the stores, take or create the named one, write the model, start; exit on any error and be restarted by the kubelet |
| Node authorizer schema | `pkg/nodeauth/nodeauth.go` | none | node and pod tuples for the generic syncer |
| Wiring and config | `cmd/main.go`, `cmd/config.go` | process | manager, controllers, webhook, leader election (off by default) |

The parts interact as follows:

- The controllers are controller-runtime reconcilers, one per kind. Each runs a single worker. The work queue never gives one key to two workers at once.
- Different controllers run concurrently against the same store.
- Each reconcile reads the object and generates its desired tuples. It then reads the tuples the store holds for the object's node. It keeps only those the schema entry *owns*. The owned keys are:
  - incoming: `<<userType, usersetRelation>>`;
  - outgoing: `<<objectType, usersetRelation>>`.
- Finally it writes the difference as a sequence of separate `Write` requests of at most 10 tuples each.
- OpenFGA applies each request atomically. It rejects a request that writes an existing tuple, writes the same tuple twice, or deletes a missing one. The code notes this at `openfga.go:267`: "The API is not idempotent".

### What makes it hard

- **Partial writes.** A diff longer than one batch is applied one batch at a time. Any `Write` may fail after earlier batches succeeded.
- **Lost answers.** A `Write` may be applied and its answer lost. The retry must not re-send what is already there.
- **Restarts.** The process may restart in the middle of a reconcile. The store persists; the work queue does not. After a restart the informers list every object that still exists.
- **Stale snapshots.** A reconcile works from a snapshot of the object. The user may edit the object while the reconcile is still writing.
- **Shared nodes.** Two objects' tuples meet at the same node. A ClusterRoleBinding's edge to its ClusterRole is stored with the ClusterRole as the object. The ownership filter is the only thing that stops the ClusterRole's reconcile from deleting it.
- **Deletions.** A deleted object is never reconciled to "no tuples". `Get` returns NotFound, and the controller returns that error.
- **Duplicate tuples.** Duplicate rules produce duplicate desired tuples, and those become duplicate writes.
- **Index arithmetic.** The batch loop computes its slice bounds by hand. It must handle writes that are not a multiple of 10, an empty writes or deletes list, and the switch from writes to deletes inside one batch.

## Modules

| Module | Models | Actions / operators |
|---|---|---|
| `WriteTuples` | `TupleStoreAndChecker.WriteTuples` | `SendChunk` (one loop iteration); `ChunkBounds`, `Request`, `Advance` are the slice arithmetic |
| `Zanzibar` | the `zanzibar` package primitives | `Tuple`, `NodeValid`, `ToObjects` (`relatedNode.To`), `Outgoing`/`Incoming` (the two loops of `GenerateTuplesFor`), `OwnsIncoming`/`OwnsOutgoing` (the ownership filters) |
| `RBACSchema` (extends `Zanzibar`) | `rbacconversion.GetSchema` and `rebac.go` | `GetSchemaTypes` (every entry, with its relations and rewrites), the tuple generators `ClusterRoleBindingTuples`, `ClusterRoleTuples`, `RoleBindingTuples`, `RoleTuples` and their ID expressions, the node constructors (`ResourceNode`, `ResourceInstanceNode`, `UserNode`, ...) |
| `NodeAuth` (extends `Zanzibar`) | `nodeauth.GetSchema`, `GVKToTypeName`, `GenericNodeID` | `NodeAuthSchemaTypes`, `NodeTuples`, `PodTuples` |
| `AuthzModel` (extends both) | `BuildAuthorizationModel`, `userSetToOpenFGA`, `GetOutgoingRelationTypesFor`, the `ReadTuples` fan-out | `Model` (the compiled model of the manager's schema), `OutgoingTypes`, `ReadUserTuples`, `ReadUserSetTuples`, `Generate` (the converter each syncer calls) |
| `Reconciler` (extends `AuthzModel`, instances `WriteTuples`) | the six syncers (ClusterRoleBinding, ClusterRole, RoleBinding, Role, and the generic Node and Pod syncers) with `ReconcileCompute` and `WriteTuples` against a store, on one or more replicas | `Reconcile`, `ReadIncoming`, `ReadOutgoingUser`, `ReadOutgoingUserSet`, `WriteChunk`, `CallFails`; the environment: `Update`, `Delete`, `Restart` |
| `Authorizer` (extends `AuthzModel`) | `ReBACAuthorizer.Authorize`, `resolveIndividual`, `userNodeFor`, `toGVK`, `CheckOne` | `Check`/`Resolve` (OpenFGA's Check, recursive), `ContextualTuples`, `CheckNode`, `Authorize`; the environment `Change` creates, edits and deletes objects; a reference section states Kubernetes RBAC and the node graph |
| `Webhook` (extends `Authorizer`) | `NewWebhookForAuthorizer`'s handler and `response.go` | `AttributesOf` (the review's attributes as `authorizer.AttributesRecord`), `Handle` (the both-attributes denial, `Authorize`, the decision to `Status`); a reference section builds the request the API server's RBAC authorizer sees |
| `StoreSetup` | `WithStore`, `WithAuthorizationSchema` and the error exits of `run`, for a set of replicas | `ListStores`, `CreateStore`, `WriteAuthorizationModel`, `CallFails` (an error of any of them, including a `CreateStore` applied whose answer was lost), `Crash`, `Restart` |
| `Serving` (extends `Reconciler`, instances `Authorizer`) | the syncers and the webhook's authorizer running in one manager against the same OpenFGA store (`main.go` `run`) | `Served(req)`: `Authorize` over the Reconciler's `store` in every state; `AuthzAt(c)` is the `Authorizer` over a cluster `c`, used for the reference |
| `MCWriteTuples`, `MCReconciler`, `MCAuthorizer`, `MCWebhook`, `MCStoreSetup`, `MCServing` | model values, objects, requests, reviews and initial store lists for TLC | |

### How the `Reconciler` state corresponds to the code

Worker state is indexed by `w = <<replica, object>>`. Leader election is off by default (`cmd/config.go:20`), so every replica runs every controller, with its own work queue. `pc[w]` is the point replica `w[1]`'s reconcile of object `w[2]` has reached:

- `Idle`: not running.
- `ReadIn`: after `Get`, before the object-side read.
- `ReadOutUser`: before the direct-user read.
- `ReadOutUserSet`: before the userset read. That step also computes the diff, which happens in `ReconcileCompute` with no remote call in between.
- `Write`: inside the `WriteTuples` loop.

The other variables:

- `desired`, `inTuples`, `outUser`, `adds`, `dels` and `pos` are the Go locals of `Reconcile`. They are cleared when it returns.
- `dirty[o]` means `o` is in the work queue. It is set by watch events (`Update`, `Delete`), by every error return, and by the informers' initial list after `Restart`.
- `store` is the set of tuples in OpenFGA.

`WriteChunk` applies a request when `Acceptable` holds. Otherwise the reconcile returns the error and `o` is requeued.

`CallFails` is any failing remote call. On a `Write`, it may also be a write that was applied but whose answer was lost.

Objects keep their name, so `NodeOf(o)` is fixed. Each object goes through `Versions[o]`, a list of specs.

Three values are computed once, as constant tables:
- the node (`NodeTable`, from `GetID`);
- the ownership keys (`EntryTable`);
- the generated tuples of each version (`Generated`).

The code recomputes them on every reconcile. The values are the same, because `spec[o]` is `Versions[o][ver[o]]` while `o` exists. Computing them once keeps TLC's fairness evaluation fast.

The three reads go through the compiled model, as the code's do:
- `ReadOutgoingUser` reads one object type per entry of `OutgoingTypes[type].directs`;
- `ReadOutgoingUserSet` reads one `<<objectType, relation>>` per entry of `.usersets`.

A type the schema writes but the model omits would therefore never be read back.

`ConvertRoleToTuples` calls `GetSchema` on every call, and a Role's relation lists come from `UnsortedList()`. Their order may differ between reconciles, which changes only which request each tuple lands in. The model fixes one order (`ReadOrder`).

### How the `Authorizer` corresponds to the code

The state is the cluster: `cluster[o]` for each object key. `Store` holds the tuples generated for the present objects, that is, the store once the syncers are done. `Authorize(req, Store)` is evaluated for every request in `Requests` in every state. A request is a record with the fields of `authorizer.Attributes`: user, groups, verb, isResource, apiGroup, resource, subresource, namespace, name and path.

`Authorize` follows the code step by step:
- the verb checks, and an empty user name;
- the group tuples;
- the collection node `resource:group.resource[/sub]`;
- the wildcard tuples (3, or 5 with a subresource), for resource requests only;
- `operates_in` for a namespace;
- the forwarding `resourcematch` tuple and the instance node for a named request;
- `CheckOne`, then `resolveIndividual` on `core.pod`/`core.node`/`core.secret`.

`Check`/`Resolve` evaluate the compiled `Model`'s rewrites over stored and contextual tuples:
- `this`, with usersets followed recursively;
- `computed`, `ttu`, union, intersection and difference;
- an undefined relation, or a depth beyond `ResolveNodeLimit` = 25, is not allowed.

Strings are modelled as follows:

- `url.QueryEscape` is a table (`EscapedNames`) over the model's names that contain reserved characters.
- Every concatenation the code performs (`group.resource`, `key=value`, `system:serviceaccount:ns:name`) is a TLA+ string concatenation.

### How `Webhook` and `StoreSetup` correspond to the code

`Webhook.Handle(sar)` is the handler of `authzwebhook/authorizer.go`: a review with both resource and non-resource attributes is `Denied`; otherwise the attributes are copied into an `AttributesRecord` and the `Authorize` decision becomes `Allowed`, or `NoOpinion` for anything else. As in the code, the non-resource branch also sets `ResourceRequest = true` (line 38). The webhook is the authorizer's only caller (`main.go:305`), so every request reaches `Authorize` through `AttributesOf`. `ServeHTTP`'s body, content-type and JSON checks are I/O and are left out.

`StoreSetup` has one `pc` per replica: `List`, `Create`, `WriteModel`, `Running`, `Exited`. `stores` is OpenFGA's list of store names in creation order, since OpenFGA allows names to repeat and lists the oldest first. `ListStores` reads only the first `PageSize` entries, because `WithStore` sends an empty request and ignores the continuation token. `storeOf[r]` is the position of the store the replica holds. Every error makes `run` return, and the process exits (`Exited`); `Restart` is the kubelet starting it again.

The `Reconciler`'s wiring is modelled as in `main.go`. The four RBAC syncers take their schema entry by index (`SyncerTypeIndex`: ClusterRoleBinding 0, RoleBinding 1, Role 2, ClusterRole 3), and the generic syncers by type name (`TypeRelationOf`). The syncer's entry only builds the node: `GetID`'s `CastIDExpr` fails for an entry of another kind, and the reconcile then errors and requeues (`WiredToOwnKind`). `ReconcileCompute` finds the ownership keys itself, with `MatchOne` on the node's type (`reconcile.go:28-30`, `EntryTable`). A miswired index therefore stops a kind from syncing; it cannot pair a node with another kind's keys.

### How `Serving` composes the two halves

The authorizer (`ReBACAuthorizer`, `main.go:298-304`) checks against the same `openfgaTupleStore` that the syncers write, with no lock or snapshot in common. So `Served(req)` evaluates `Authorize(req, store)` on the `Reconciler`'s `store` in every state, that is, between any two `Write` requests. The reference is Kubernetes' own consistency model. An informer-fed RBAC authorizer sees each object at some version it has had, independently of the other objects. `SeenSpecs(o)` is the versions `1..ver[o]`, since edits only move forward, plus `Absent` once deleted. `SeenClusters` is every combination of them.

## Runs

| Run | Cfg | Expect | Checks |
|---|---|---|---|
| `writetuples_batches` | `MCWriteTuples.cfg` | pass | `TypeOK`, `BatchesMatchReference`, `AllSentOnce` for every `len(writes)`, `len(deletes)` in 0..25 with the code's batch size 10 |
| `reconciler_safety` | `MCReconcilerSafety.cfg` | pass | `SyncedWhenQuiet` with a binding (2 versions), a role (3 versions, the last with a duplicate resource), a skipped `system:kcp:` role, deletion, one failed call and one restart, batch size 2 |
| `serving_single` | `MCServing.cfg` | pass | `EventuallyConverged` with one replica and batch size 2: a binding to a role, the role edited so that it loses its aggregation label and gains a rule on secrets, an aggregating role and a binding to it, one failed call |
| `reconciler_replicas` | `MCReconcilerReplicas.cfg` | pass | `SyncedWhenQuiet` with two replicas (symmetric model values) reconciling the same binding and role while both are edited |
| `reconciler_namespaced` | `MCReconcilerNamespaced.cfg` | pass | `SyncedWhenQuiet` for a RoleBinding, its Role, a Node and a Pod that gets scheduled onto it, all edited, one failed call |
| `authorizer_reference` | `MCWebhook.cfg` | pass | `AuthorizeMatchesReference`: in every cluster of up to six objects (each absent or in one of its versions), every get/list of pods, secrets and nodes by four users is allowed exactly when RBAC or the node graph allows it; `WebhookMatchesReference`: the same requests sent as SubjectAccessReviews get the same answer through the webhook, and a review with both kinds of attributes is denied |
| `webhook_nonresource` | `MCWebhookNonResource.cfg` | violation | `WebhookMatchesReference` for reviews of `get /healthz`: allowed by a rule on every resource |
| `startup_single` | `MCStoreSetup.cfg` | pass | `TypeOK`, `NoDuplicateStore` and `EventuallyRunning` for one replica, from every store list of up to three stores holding at most one of the name, with up to three failures (lost `CreateStore` answers included) and crashes |
| `serving_race` | `MCServingRace.cfg` | violation | `GrantsFromSeenVersions` with two replicas: bob, bound to the aggregating role, is allowed `get secrets` |
| `startup_duplicate` | `MCStoreSetupRace.cfg` | violation | `NoDuplicateStore` for two replicas starting against an empty OpenFGA |
| `reconciler_delete` | `MCReconcilerDelete.cfg` | violation | `DeletedRevoked`: a deleted ClusterRoleBinding's tuples are never removed |
| `reconciler_duplicate` | `MCReconcilerDuplicate.cfg` | violation | `EventuallyConverged`: a ClusterRole with a duplicate resource never syncs, with the real batch size 10 |

### Bounds and why they are enough

- **`writetuples_batches`** covers every pair of lengths up to 25 with the real batch size 10. That includes:
  - zero writes, and zero deletes;
  - exactly 10 and exactly 20;
  - a batch that holds both writes and deletes;
  - three batches.
- **Batch size 2 in `reconciler_safety`.** The reconcile runs use batch size 2 so that the objects' diffs of 2–5 tuples span several requests. This makes partial application, a failure between batches and a restart between batches all reachable. The arithmetic of the real size 10 is checked separately in `writetuples_batches`.
- **Batch size 10 in `reconciler_duplicate`.** That run uses 10, because whether duplicates share a request depends on the batch size.
- **Objects.** The binding's versions move between a user, a group and a service account. The service account's name needs escaping. The role's versions move between resource, resource-instance, non-resource and label edges, so every outgoing entry of the ClusterRole schema and its incoming label entry produce tuples. Between them, the objects create both shared-node situations:
  - the binding's edge points at the role;
  - the aggregating role's selector shares the label node with the role's label edge.
- **Replicas.** Two replicas suffice for the race: each reconcile's snapshot, reads and writes interleave with the other's. The replicas are symmetric, so `SYMMETRY` over them is sound. Faults are left out of this run to keep it under five minutes.
- **Namespaced and generic objects.** The RoleBinding moves between subjects. The Role moves between collection and instance rules. The Pod moves from unscheduled to scheduled, which adds the node's incoming edge. A restart is left out: with it the state space passes three million states.
- **Authorizer.** The requests cover:
  - cluster-wide, matching-namespace and other-namespace requests;
  - collection and named requests, each with a matching and a non-matching name;
  - requests through a group and through a service account;
  - the node graph (node → pod → secret).

  Every combination of object versions is reached, including roles and bindings without their counterparts.
- **Faults and size.** One failure and one restart are enough to interrupt every step. Adding the aggregating role to the safety model takes it to about 5 minutes, so the aggregating role is checked in `serving_single` only. The skipped role adds only its queue bit, so it stays in the safety model.

- **Webhook.** `MCWebhook` sends every authorizer request as a review, one review per user with both kinds of attributes, and (in `webhook_nonresource`) a review of `get /healthz` per user. The fourth ClusterRole version grants `get` on every resource, which reaches the over-grant.
- **Store setup.** One replica, page size 4 and at most three initial stores keep the passing run away from the paging bug, so it checks the retry logic itself: every initial list, and up to three failures, are enough to fail at each of the three calls and after running. Two replicas from an empty store list are the smallest race. `MCStoreSetupPaging.cfg` (one replica, two other stores filling a page of 2, one crash) reproduces the paging finding.

- **Serving.** `GrantsFromSeenVersions` is not checked by a passing run, because the code violates it in two ways:
  - `serving_race`: two replicas. This run keeps only the role and the aggregation, so that two replicas stay within a few minutes.
  - `MCServingSplit.cfg`: one replica and the real batch size 10. The role is edited to a rule on ten resources, so its diff takes two `Write` requests, and the adds go first.

  `serving_single` uses batch size 2, so that convergence is checked across half-applied diffs. The requests are alice's and bob's `get` of pods and secrets in `ns`.

### Fairness

`Fairness` is weak fairness of each object's worker steps. This is justified because controller-runtime keeps each controller's worker running for as long as the queue holds items. The environment (edits, deletion) needs no fairness: it has finitely many steps, because `Versions` is finite.

Failures and restarts are bounded, and they get no fairness. So `serving_single` shows convergence after the last fault.

`StoreSetup` assumes weak fairness of each replica's startup steps and of `Restart`: a process runs its startup to the end, and the kubelet restarts an exited container (with back-off, but always). Failures and crashes are bounded and unfair.

The `Authorizer` has no fairness and no liveness property. `Authorize` is a function of the cluster, so there is nothing to make eventually happen.

The reference (`RBACAllows`, `NodeAllows`) is Kubernetes RBAC rule matching:
- verbs, apiGroups and resources, including `*` and `*/sub`;
- resourceNames;
- nonResourceURLs;
- ClusterRoleBindings, and RoleBindings to Roles in their own namespace;
- label aggregation.

It also includes the node graph: a node may get itself, the pods scheduled on it, and the secrets they reference. A RoleBinding to a ClusterRole is left out, because the spec leaves it open.

## Findings

1. **A deleted binding keeps granting its role** (`reconciler_delete`).
   - **Cause:** every syncer returns the NotFound error of `Client.Get` (`clusterrolebindingsyncer/controller.go:50`). The comment at lines 48–49 says "TODO: Catch deletions too".
   - **What TLC shows:** the tuples of a deleted object stay in the store forever. The key is requeued, with rate limiting, and fails again every time.
2. **A duplicate rule blocks a ClusterRole forever** (`reconciler_duplicate`).
   - **Cause:** `ReconcileCompute` copies duplicate desired tuples into `tuplesToAdd` (`reconcile.go:124`). Two rules, or one rule naming a resource twice, therefore put the same tuple twice into one `Write` request.
   - **What TLC shows:** OpenFGA rejects that request, the reconcile fails, and every retry sends the same request again.

3. **A named subresource meets its parent's instance node** (spec gap; `MCAuthorizerSubresource.cfg` reproduces it but is not a listed run).
   - **Cause:** the instance node is built from the resource without its subresource (`authorizer.go:110`). The collection node `resource:core.pods/log` is forwarded to it.
   - **What TLC shows:** a ClusterRole rule on `pods` with resourceNames `[p1]` allows `get pods/log p1`. RBAC denies this request.
   - **Why a spec gap:** spec section 4.H step 7 prescribes the same node, so the spec does not settle which behaviour is intended.
4. **Non-resource reviews are checked as resource requests** (`webhook_nonresource`).
   - **Cause:** the webhook sets `ResourceRequest = true` for non-resource attributes (`authzwebhook/authorizer.go:38`). `Authorize` then treats `get /healthz` as a collection request for the empty resource and adds the wildcard tuples.
   - **What TLC shows:** a ClusterRole rule `get` on apiGroups `[*]`, resources `[*]` allows `get /healthz`, and a rule on nonResourceURLs `[/healthz]` never does. RBAC does the opposite. The authorizer's own non-resource branch (`authorizer.go:93`, which prints "TODO") is therefore dead code.
5. **Two stores of one name** (`startup_duplicate`).
   - **Cause:** `WithStore` lists and then creates, in two calls, before leader election (`openfga.go:56`). It also reads only the first page of `ListStores` (`openfga.go:35`).
   - **What TLC shows:** two replicas starting together both create the store. With `MCStoreSetupPaging.cfg`, a single replica whose store has slipped off the first page creates a second one on restart. Either way the replicas sync into different stores, and every later start fails with "more than one store".

6. **Two replicas mix two versions of a role** (`serving_race`).
   - **Cause:** leader election is off unless `enableLeaderElection` is set (`config.go:20`, `main.go:138`), so every replica runs every syncer. One replica computes its diff from the role before an edit, the other after it. OpenFGA accepts each replica's writes of the tuples the other did not write.
   - **What TLC shows:** the store holds the role's old label edge together with its new rule on secrets. bob, bound to the aggregating role that selects the old label, is allowed `get secrets`. No version of the role ever gave the aggregating role that rule. The over-grant lasts until the requeued reconcile deletes the label edge.
   - **Single replica:** one replica gives the same over-grant once the role's diff exceeds one `Write` request of 10 tuples (`openfga.go:272-306` sends the adds first). `MCServingSplit.cfg` shows it: between the two requests, bob is allowed `get secrets`. The run list is full, so this configuration is a reproducer and not a listed run.

## Not modelled yet, and the plan

The plan, most important first:

1. **Refinement.** Refine `Reconciler` against an abstract specification in which each object's owned tuples jump to its target set.
2. **Store setup with the syncers.** Compose `StoreSetup` with the `Reconciler`, so that each replica syncs into the store it holds.

Not modelled at all:

- The HTTP server, TLS and flag parsing (pure I/O).
- Tracing.
- `pkg/openfga/vendor.go` (copied OpenFGA helpers).
- The `rbacconversiontesting` package (test data).
