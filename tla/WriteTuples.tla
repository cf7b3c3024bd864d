---------------------------- MODULE WriteTuples ----------------------------
(***************************************************************************)
(* The batching loop of TupleStoreAndChecker.WriteTuples                   *)
(* (src/pkg/openfga/openfga.go).  One call receives `writes` and           *)
(* `deletes`; it sends them to OpenFGA in requests of at most BatchSize    *)
(* tuples (the literal 10 of the code), writes first, and attaches a       *)
(* Writes or Deletes list only when that list is non-empty.  Only the      *)
(* index arithmetic matters here, so a tuple is its position: write j is   *)
(* position j, delete j is position writesLen + j of the combined list.    *)
(***************************************************************************)
EXTENDS Integers, Sequences, FiniteSets

CONSTANTS
    BatchSize,      \* the 10 hard-coded in the loop
    MaxWrites,      \* largest len(writes) checked
    MaxDeletes      \* largest len(deletes) checked

ASSUME BatchSize \in Nat \ {0} /\ MaxWrites \in Nat /\ MaxDeletes \in Nat

VARIABLES
    writesLen,      \* len(writes)
    deletesLen,     \* len(deletes)
    i,              \* the loop variable
    requests        \* the WriteRequests sent so far, in order

vars == <<writesLen, deletesLen, i, requests>>

\* The package-local helpers min and max of openfga.go.
min(a, b) == IF a < b THEN a ELSE b
max(a, b) == IF a < b THEN b ELSE a

\* Mutants of ChunkBounds: deletesStart without its clamp at 0, and
\* deletesEnd clamped at 0 instead of -BatchSize.
ChunkBoundsUnclampedStart(pos, W, D) ==
    [ws |-> min(pos, W), we |-> min(pos + BatchSize, W),
     ds |-> min(pos - W, D), de |-> min(max(pos - W, -BatchSize) + BatchSize, D)]
ChunkBoundsEndFromZero(pos, W, D) ==
    [ws |-> min(pos, W), we |-> min(pos + BatchSize, W),
     ds |-> min(max(pos - W, 0), D), de |-> min(max(pos - W, 0) + BatchSize, D)]

\* The slice bounds of one iteration (writes[ws:we], deletes[ds:de]).
ChunkBounds(pos, W, D) ==
    [ws |-> min(pos, W),
     we |-> min(pos + BatchSize, W),
     ds |-> min(max(pos - W, 0), D),
     de |-> min(max(pos - W, -BatchSize) + BatchSize, D)]

\* The request one iteration sends: a sublist is attached only when it is
\* non-empty (req.Writes / req.Deletes stay nil otherwise).
Request(b) ==
    [writes  |-> IF b.ws # b.we THEN (b.ws + 1)..b.we ELSE {},
     deletes |-> IF b.ds # b.de THEN (b.ds + 1)..b.de ELSE {}]

\* How far one iteration advances the loop variable.
Advance(b) == (b.we - b.ws) + (b.de - b.ds)

Total == writesLen + deletesLen

Init ==
    /\ writesLen \in 0..MaxWrites
    /\ deletesLen \in 0..MaxDeletes
    /\ i = 0
    /\ requests = <<>>

\* Mutant of SendChunk: the loop condition i < totalLen - 1.
SendChunkStopsEarly ==
    LET b == ChunkBounds(i, writesLen, deletesLen) IN
    /\ i < Total - 1
    /\ requests' = Append(requests, Request(b))
    /\ i' = i + Advance(b)
    /\ UNCHANGED <<writesLen, deletesLen>>

\* One iteration of `for i := 0; i < totalLen; { ... }` whose
\* fgaClient.Write returns no error.
SendChunk ==
    LET b == ChunkBounds(i, writesLen, deletesLen) IN
    /\ i < Total
    /\ requests' = Append(requests, Request(b))
    /\ i' = i + Advance(b)
    /\ UNCHANGED <<writesLen, deletesLen>>

Next == SendChunk

Spec == Init /\ [][Next]_vars /\ WF_vars(SendChunk)

-----------------------------------------------------------------------------
TypeOK ==
    /\ writesLen \in 0..MaxWrites
    /\ deletesLen \in 0..MaxDeletes
    /\ i \in Nat
    /\ requests \in Seq([writes : SUBSET Nat, deletes : SUBSET Nat])

\* Positions of the combined list (writes, then deletes) a request carries.
Positions(r) == r.writes \cup {writesLen + j : j \in r.deletes}

\* The reference batching: the k-th request carries the k-th run of
\* BatchSize consecutive positions of the combined list.
ReferenceBatch(k) ==
    ((k - 1) * BatchSize + 1)..min(k * BatchSize, Total)

\* Every request OpenFGA receives is the reference batch at its position:
\* full batches of BatchSize, writes before deletes, nothing skipped or sent
\* twice, and never a request with nothing in it.
BatchesMatchReference ==
    \A k \in 1..Len(requests) :
        /\ Positions(requests[k]) = ReferenceBatch(k)
        /\ Positions(requests[k]) # {}

\* The loop ends, and when it has ended every write and every delete has
\* been sent exactly once.
AllSentOnce ==
    <>(/\ i >= Total
       /\ \A p \in 1..Total :
            Cardinality({k \in 1..Len(requests) : p \in Positions(requests[k])}) = 1)
=============================================================================
