---------------------------- MODULE Reconciler ----------------------------
(***************************************************************************)
(* The syncer controllers (src/pkg/controllers/*syncer) reconciling      *)
(* ClusterRoleBindings, ClusterRoles, RoleBindings, Roles, and (through   *)
(* the generic syncer) Nodes and Pods into the OpenFGA tuple store, one    *)
(* reconcile per object at a time (controller-runtime's                    *)
(* work queue never hands a key to two workers), different objects         *)
(* interleaved.  A reconcile is                                            *)
(*   Get -> GenerateTuplesFor -> GetID -> ReconcileCompute -> WriteTuples  *)
(* where ReconcileCompute makes three reads of the store and WriteTuples   *)
(* sends chunks of ChunkSize tuples, each a separate atomic Write.         *)
(* Every remote call may fail, and the process may restart, after which  *)
(* the informers list every existing object again.                        *)
(* Leader election is off by default (cmd/config.go), so every replica of *)
(* the manager runs every controller: the worker state is indexed by a    *)
(* worker w = <<replica, object>>, and all replicas share the store.      *)
(***************************************************************************)
EXTENDS AuthzModel, FiniteSets

CONSTANTS
    Objects,        \* the object keys of the cluster
    Versions,       \* Versions[o]: the successive specs object o takes
    SkippedNames,   \* the model's names with the prefix "system:kcp"
    Absent,         \* the result of a Get of a deleted object (NotFound)
    ChunkSize,      \* the batch size of WriteTuples
    AllowDelete,    \* whether objects may be deleted
    MaxFailures,    \* bound on failed remote calls
    MaxCrashes,     \* bound on process restarts
    Replicas        \* the manager processes (no leader election)

ASSUME ChunkSize \in Nat \ {0} /\ AllowDelete \in BOOLEAN

VARIABLES
    spec,       \* spec[o]: the object in the API server, or Absent
    ver,        \* ver[o]: the index in Versions[o] of spec[o]
    dirty,      \* dirty[w]: object w[2] is in replica w[1]'s work queue
    pc,         \* pc[w]: where replica w[1]'s reconcile of w[2] is
    desired,    \* desired[w]: the tuples generated from the Get's result
    inTuples,   \* inTuples[w]: owned tuples read with w[2] as object
    outUser,    \* outUser[w]: tuples read with w[2] as direct user
    adds,       \* adds[w]: tuplesToAdd of ReconcileCompute
    dels,       \* dels[w]: tuplesToRemove of ReconcileCompute
    pos,        \* pos[w]: the loop variable i of WriteTuples
    store,      \* the set of tuples in OpenFGA
    failures,   \* failed remote calls so far
    crashes     \* process restarts so far

vars == <<spec, ver, dirty, pc, desired, inTuples, outUser, adds, dels, pos,
          store, failures, crashes>>
local == <<desired, inTuples, outUser, adds, dels, pos>>

WT == INSTANCE WriteTuples WITH BatchSize <- ChunkSize, MaxWrites <- 0,
                                MaxDeletes <- 0, writesLen <- 0, deletesLen <- 0,
                                i <- 0, requests <- <<>>

\* One worker per replica and object: a controller of one replica.
Workers == Replicas \X Objects

Kind(o) == Versions[o][1].kind

\* GetID and NewNode: the node is fixed by the object's name.
GetID(o) ==
    LET obj == Versions[o][1] IN
    CASE obj.kind = "ClusterRoleBinding" -> ClusterRoleBindingNode(obj)
      [] obj.kind = "ClusterRole" -> ClusterRoleNode(obj)
      [] obj.kind = "RoleBinding" -> RoleBindingNode(obj)
      [] obj.kind = "Role" -> RoleNode(obj)
      [] obj.kind = "Node" -> NodeNode(obj)
      [] obj.kind = "Pod" -> PodNode(obj)

\* Each object's node, computed once.
NodeTable == [o \in Objects |-> GetID(o)]
NodeOf(o) == NodeTable[o]

\* The RBAC syncers skip names with the prefix "system:kcp"; the generic
\* syncers skip nothing.
Skipped(o) ==
    /\ Kind(o) \in {"ClusterRoleBinding", "ClusterRole", "RoleBinding", "Role"}
    /\ Versions[o][1].name \in SkippedNames

\* run hands each RBAC syncer the entry at a fixed index of as.Types, and
\* each generic syncer the entry MatchOne finds for its kind's type name.
SyncerTypeIndex(kind) ==
    CASE kind = "ClusterRoleBinding" -> 0
      [] kind = "RoleBinding" -> 1
      [] kind = "Role" -> 2
      [] kind = "ClusterRole" -> 3

TypeRelationOf(o) ==
    IF Kind(o) \in {"ClusterRoleBinding", "RoleBinding", "Role", "ClusterRole"}
    THEN ManagerSchemaTypes[SyncerTypeIndex(Kind(o)) + 1]
    ELSE MatchType(ManagerSchemaTypes, GVKToTypeName("", Kind(o)))

\* GetID's CastIDExpr succeeds only when the syncer's entry is the one of
\* its object's kind, that is, the type of the node GetID builds.
WiredToOwnKind(o) == TypeRelationOf(o).typeName = NodeType(NodeOf(o))

\* ReconcileCompute matches the entry by the node's type (MatchOne), and
\* reduces it to the keys the ownership filters compare.
EntryTable == [o \in Objects |-> OwnershipKeys(MatchType(ManagerSchemaTypes, NodeType(NodeOf(o))))]
EntryOf(o) == EntryTable[o]

\* The tuples generated from each version of each object, computed once:
\* Generated[o][ver[o]] is Generate(spec[o]) while o exists.
Generated == [o \in Objects |-> [i \in DOMAIN Versions[o] |-> Generate(Versions[o][i])]]

\* The tuples the reconcile of o treats as its own.
Owns(o, t) ==
    \/ t.obj = NodeOf(o) /\ OwnsIncoming(EntryOf(o), t)
    \/ t.user = NodeOf(o) /\ OwnsOutgoing(EntryOf(o), t)

Owned(o) == {t \in store : Owns(o, t)}

\* What the store should hold for o: nothing once o is deleted.
Target(o) == IF spec[o] = Absent THEN {} ELSE ToSet(Generated[o][ver[o]])

\* A Write request is rejected unless every write is new and unique and
\* every delete exists (the OpenFGA API is not idempotent).
Acceptable(w, d) ==
    /\ Cardinality(ToSet(w)) = Len(w) /\ ToSet(w) \cap store = {}
    /\ Cardinality(ToSet(d)) = Len(d) /\ ToSet(d) \subseteq store

\* The locals of a Reconcile call are gone once it returns.
Return(w) ==
    /\ pc' = [pc EXCEPT ![w] = "Idle"]
    /\ desired' = [desired EXCEPT ![w] = <<>>]
    /\ inTuples' = [inTuples EXCEPT ![w] = <<>>]
    /\ outUser' = [outUser EXCEPT ![w] = <<>>]
    /\ adds' = [adds EXCEPT ![w] = <<>>]
    /\ dels' = [dels EXCEPT ![w] = <<>>]
    /\ pos' = [pos EXCEPT ![w] = 0]

\* A watch event or the informers' list enqueues o at every replica.
Enqueue(o) == [w \in Workers |-> IF w[2] = o THEN TRUE ELSE dirty[w]]

Init ==
    /\ spec = [o \in Objects |-> Versions[o][1]]
    /\ ver = [o \in Objects |-> 1]
    /\ dirty = [w \in Workers |-> TRUE]
    /\ pc = [w \in Workers |-> "Idle"]
    /\ desired = [w \in Workers |-> <<>>]
    /\ inTuples = [w \in Workers |-> <<>>]
    /\ outUser = [w \in Workers |-> <<>>]
    /\ adds = [w \in Workers |-> <<>>]
    /\ dels = [w \in Workers |-> <<>>]
    /\ pos = [w \in Workers |-> 0]
    /\ store = {}
    /\ failures = 0
    /\ crashes = 0

-----------------------------------------------------------------------------
(* The controllers' Reconcile, run by worker w on object w[2].            *)

\* Dequeue o, skip a "system:kcp" name, Get it (a NotFound error requeues
\* it), GenerateTuplesFor and GetID (a cast error, from an entry of another
\* kind, requeues it too).
Reconcile(w) ==
    LET o == w[2] IN
    /\ pc[w] = "Idle" /\ dirty[w]
    /\ CASE Skipped(o) ->
              dirty' = [dirty EXCEPT ![w] = FALSE] /\ UNCHANGED <<pc, desired>>
         [] spec[o] = Absent \/ ~WiredToOwnKind(o) ->
              UNCHANGED <<dirty, pc, desired>>
         [] OTHER ->
              /\ dirty' = [dirty EXCEPT ![w] = FALSE]
              /\ desired' = [desired EXCEPT ![w] = Generated[o][ver[o]]]
              /\ pc' = [pc EXCEPT ![w] = "ReadIn"]
    /\ UNCHANGED <<spec, ver, inTuples, outUser, adds, dels, pos, store, failures, crashes>>

\* Mutant of ReadIncoming: the incoming ownership filter dropped.
ReadIncomingUnfiltered(w) ==
    /\ pc[w] = "ReadIn"
    /\ inTuples' = [inTuples EXCEPT ![w] = ReadOrder({t \in store : t.obj = NodeOf(w[2])})]
    /\ pc' = [pc EXCEPT ![w] = "ReadOutUser"]
    /\ UNCHANGED <<spec, ver, dirty, desired, outUser, adds, dels, pos, store, failures, crashes>>

\* ReconcileCompute's read with o as object, filtered by owned incoming keys.
ReadIncoming(w) ==
    LET o == w[2] IN
    /\ pc[w] = "ReadIn"
    /\ inTuples' = [inTuples EXCEPT ![w] =
          SelectSeq(ReadOrder({t \in store : t.obj = NodeOf(o)}),
                    LAMBDA t : OwnsIncoming(EntryOf(o), t))]
    /\ pc' = [pc EXCEPT ![w] = "ReadOutUser"]
    /\ UNCHANGED <<spec, ver, dirty, desired, outUser, adds, dels, pos, store, failures, crashes>>

\* The read with o as a direct user: ReadTuples fans it out over the
\* object types the compiled model relates o's type to.
ReadOutgoingUser(w) ==
    /\ pc[w] = "ReadOutUser"
    /\ outUser' = [outUser EXCEPT ![w] = ReadOrder(ReadUserTuples(store, NodeOf(w[2])))]
    /\ pc' = [pc EXCEPT ![w] = "ReadOutUserSet"]
    /\ UNCHANGED <<spec, ver, dirty, desired, inTuples, adds, dels, pos, store, failures, crashes>>

\* The diff of ReconcileCompute, given the outgoing tuples read.
Diff(w, outRead) ==
    LET outgoing == SelectSeq(outRead, LAMBDA t : OwnsOutgoing(EntryOf(w[2]), t))
        current  == inTuples[w] \o outgoing
        toAdd    == SelectSeq(desired[w], LAMBDA t : t \notin ToSet(current))
        toRemove == SelectSeq(current, LAMBDA t : t \notin ToSet(desired[w]))
    IN  [add |-> toAdd, remove |-> toRemove]

\* Mutant of ReadOutgoingUserSet: the userset read left out, only the
\* direct-user read counted as the outgoing tuples.
ReadOutgoingUserSetSkipped(w) ==
    LET diff == Diff(w, outUser[w]) IN
    /\ pc[w] = "ReadOutUserSet"
    /\ adds' = [adds EXCEPT ![w] = diff.add]
    /\ dels' = [dels EXCEPT ![w] = diff.remove]
    /\ pos' = [pos EXCEPT ![w] = 0]
    /\ pc' = [pc EXCEPT ![w] = IF Len(diff.add) + Len(diff.remove) = 0 THEN "Idle" ELSE "Write"]
    /\ desired' = [desired EXCEPT ![w] = <<>>]
    /\ inTuples' = [inTuples EXCEPT ![w] = <<>>]
    /\ outUser' = [outUser EXCEPT ![w] = <<>>]
    /\ UNCHANGED <<spec, ver, dirty, store, failures, crashes>>

\* The read with o as a userset, then the outgoing filter and the diff.
ReadOutgoingUserSet(w) ==
    LET outUS == ReadOrder(ReadUserSetTuples(store, NodeOf(w[2])))
        diff  == Diff(w, outUser[w] \o outUS)
    IN
    /\ pc[w] = "ReadOutUserSet"
    /\ adds' = [adds EXCEPT ![w] = diff.add]
    /\ dels' = [dels EXCEPT ![w] = diff.remove]
    /\ pos' = [pos EXCEPT ![w] = 0]
    /\ pc' = [pc EXCEPT ![w] = IF Len(diff.add) + Len(diff.remove) = 0 THEN "Idle" ELSE "Write"]
    \* the reads and the desired list are not used after the diff
    /\ desired' = [desired EXCEPT ![w] = <<>>]
    /\ inTuples' = [inTuples EXCEPT ![w] = <<>>]
    /\ outUser' = [outUser EXCEPT ![w] = <<>>]
    /\ UNCHANGED <<spec, ver, dirty, store, failures, crashes>>

\* The request of the current WriteTuples iteration.
Chunk(w) ==
    LET b == WT!ChunkBounds(pos[w], Len(adds[w]), Len(dels[w])) IN
    [w |-> SubSeq(adds[w], b.ws + 1, b.we), d |-> SubSeq(dels[w], b.ds + 1, b.de),
     next |-> pos[w] + WT!Advance(b)]

\* Mutant of WriteChunk: a rejected Write is logged and the reconcile
\* returns success, so the key is not requeued.
WriteChunkSwallowsError(w) ==
    LET c == Chunk(w) IN
    /\ pc[w] = "Write"
    /\ IF Acceptable(c.w, c.d)
       THEN /\ store' = (store \cup ToSet(c.w)) \ ToSet(c.d)
            /\ IF c.next < Len(adds[w]) + Len(dels[w])
               THEN /\ pos' = [pos EXCEPT ![w] = c.next]
                    /\ UNCHANGED <<pc, desired, inTuples, outUser, adds, dels>>
               ELSE Return(w)
       ELSE /\ Return(w)
            /\ UNCHANGED store
    /\ UNCHANGED <<spec, ver, dirty, failures, crashes>>

\* One iteration of the WriteTuples loop: the store applies the request
\* atomically, or rejects it and the reconcile returns the error.
WriteChunk(w) ==
    LET c == Chunk(w) IN
    /\ pc[w] = "Write"
    /\ IF Acceptable(c.w, c.d)
       THEN /\ store' = (store \cup ToSet(c.w)) \ ToSet(c.d)
            /\ IF c.next < Len(adds[w]) + Len(dels[w])
               THEN /\ pos' = [pos EXCEPT ![w] = c.next]
                    /\ UNCHANGED <<pc, desired, inTuples, outUser, adds, dels>>
               ELSE Return(w)
            /\ UNCHANGED dirty
       ELSE /\ Return(w)
            /\ dirty' = [dirty EXCEPT ![w] = TRUE]
            /\ UNCHANGED store
    /\ UNCHANGED <<spec, ver, failures, crashes>>

\* A remote call of the reconcile fails (a write may still have been
\* applied when only its answer is lost); the error requeues o.
CallFails(w) ==
    LET c == Chunk(w) IN
    /\ pc[w] \in {"ReadIn", "ReadOutUser", "ReadOutUserSet", "Write"}
    /\ failures < MaxFailures
    /\ \/ UNCHANGED store
       \/ pc[w] = "Write" /\ Acceptable(c.w, c.d) /\ store' = (store \cup ToSet(c.w)) \ ToSet(c.d)
    /\ Return(w)
    /\ dirty' = [dirty EXCEPT ![w] = TRUE]
    /\ failures' = failures + 1
    /\ UNCHANGED <<spec, ver, crashes>>

-----------------------------------------------------------------------------
(* The environment: users editing RBAC objects, process restarts.         *)

Update(o) ==
    /\ spec[o] # Absent /\ ver[o] < Len(Versions[o])
    /\ ver' = [ver EXCEPT ![o] = ver[o] + 1]
    /\ spec' = [spec EXCEPT ![o] = Versions[o][ver[o] + 1]]
    /\ dirty' = Enqueue(o)
    /\ UNCHANGED <<pc, local, store, failures, crashes>>

Delete(o) ==
    /\ AllowDelete /\ spec[o] # Absent
    /\ spec' = [spec EXCEPT ![o] = Absent]
    /\ dirty' = Enqueue(o)
    /\ UNCHANGED <<ver, pc, local, store, failures, crashes>>

\* Replica r restarts: its in-flight reconciles are lost, and its
\* informers' initial list enqueues every object that still exists.
Restart(r) ==
    LET Reset(f, v) == [w \in Workers |-> IF w[1] = r THEN v ELSE f[w]] IN
    /\ crashes < MaxCrashes
    /\ crashes' = crashes + 1
    /\ pc' = Reset(pc, "Idle")
    /\ dirty' = [w \in Workers |-> IF w[1] = r THEN spec[w[2]] # Absent ELSE dirty[w]]
    /\ desired' = Reset(desired, <<>>) /\ inTuples' = Reset(inTuples, <<>>)
    /\ outUser' = Reset(outUser, <<>>) /\ adds' = Reset(adds, <<>>)
    /\ dels' = Reset(dels, <<>>) /\ pos' = Reset(pos, 0)
    /\ UNCHANGED <<spec, ver, store, failures>>

Worker(w) ==
    \/ Reconcile(w) \/ ReadIncoming(w) \/ ReadOutgoingUser(w)
    \/ ReadOutgoingUserSet(w) \/ WriteChunk(w)

Next ==
    \/ \E w \in Workers : Worker(w) \/ CallFails(w)
    \/ \E o \in Objects : Update(o) \/ Delete(o)
    \/ \E r \in Replicas : Restart(r)

\* Each controller's worker keeps taking steps while it has work.
Fairness == \A w \in Workers : WF_vars(Worker(w))

Spec == Init /\ [][Next]_vars /\ Fairness

-----------------------------------------------------------------------------
Synced(o) == Owned(o) = Target(o)

Reconciled(o) == ~Skipped(o)

\* No replica is reconciling o or has it queued.
Quiet(o) == \A r \in Replicas : pc[<<r, o>>] = "Idle" /\ ~dirty[<<r, o>>]

\* An existing object that no replica is reconciling or has queued has
\* exactly its generated tuples in the store: the ownership filters keep
\* the reconciles of other objects (a binding's edge to the role, a role's
\* label edge to an aggregating role) from removing or keeping tuples that
\* are not theirs; no partial write, failure or restart ends a reconcile
\* without requeueing it; and a replica that wrote from a stale snapshot,
\* or raced another replica's writes, was requeued by the same edit.
SyncedWhenQuiet ==
    \A o \in Objects : (Reconciled(o) /\ spec[o] # Absent /\ Quiet(o)) => Synced(o)

\* Once edits stop, the store comes to hold, for every object the syncers
\* reconcile, exactly the tuples of its current spec, and none for a
\* deleted one.
EventuallyConverged ==
    <>[](\A o \in Objects : Reconciled(o) => Synced(o))

\* A deleted object's tuples are eventually removed from the store, so a
\* deleted binding stops granting its role.
DeletedRevoked ==
    \A o \in Objects : [](spec[o] = Absent => <>(Owned(o) = {}))
=============================================================================
