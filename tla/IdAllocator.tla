---------------------------- MODULE IdAllocator ----------------------------
(***************************************************************************)
(* Node and edge identifiers (crates/pelago-storage/src/ids.rs).           *)
(*                                                                         *)
(* Every server process of a site owns one IdAllocator.  It reserves       *)
(* batches of BatchSize sequence numbers by advancing a counter kept in    *)
(* FoundationDB under (database, namespace, entity type, site) and hands   *)
(* them out from memory.  The counter is advanced inside PelagoDb's        *)
(* transact, which retries on a conflict and when it is unknown whether    *)
(* the commit went through.  The allocator's mutex is held across that     *)
(* await, so a process has at most one reservation in flight; the process  *)
(* may die, or the request may be dropped, at any point of it.             *)
(*                                                                         *)
(* A scope is a (database, namespace, entity type) of one site.  The       *)
(* counter is kept per scope, the batch in memory per *formatted* scope    *)
(* ("db:ns:type"), CacheKey.                                               *)
(***************************************************************************)
EXTENDS Integers

CONSTANTS
    Procs,      \* server processes of the site
    Scopes,     \* (database, namespace, entity type) triples
    CacheKey,   \* CacheKey[s]: the text a scope is formatted to
    BatchSize,  \* PELAGO_ID_BATCH_SIZE
    MaxU64      \* the largest u64

ASSUME AllocatorConstants ==
    /\ BatchSize \in Nat \ {0}
    /\ MaxU64 \in Nat
    /\ BatchSize <= MaxU64
    /\ DOMAIN CacheKey = Scopes

VARIABLES
    counter,    \* counter[s]: the FoundationDB counter of scope s
    batch,      \* batch[p][k]: AllocationState of process p under cache key k
    filling,    \* filling[p]: the reservation p has in flight
    issued      \* history: how often each id was handed out (2: more than once)

vars == <<counter, batch, filling, issued>>

U64 == 0 .. MaxU64
Keys == {CacheKey[s] : s \in Scopes}
Batches == [next : U64, end : U64]
Reservations == [active : {TRUE}, scope : Scopes, read : U64]
NoReservation == [active |-> FALSE]

(***************************************************************************)
(* u64 arithmetic: `saturating_add` and the wrapping `+` and `fetch_add`   *)
(* of a build without overflow checks.                                     *)
(***************************************************************************)
\* Mutant: the counter is advanced without saturating.
PlainAdd(a, b) == a + b

SaturatingAdd(a, b) == IF a + b <= MaxU64 THEN a + b ELSE MaxU64
WrappingAdd(a, b) == IF a + b <= MaxU64 THEN a + b ELSE (a + b) - (MaxU64 + 1)

EmptyBatch == [next |-> 0, end |-> 0]

HandOut(s, id) ==
    issued' = [issued EXCEPT ![s][id] = IF @ = 0 THEN 1 ELSE 2]

Init ==
    /\ counter = [s \in Scopes |-> 0]
    /\ batch = [p \in Procs |-> [k \in Keys |-> EmptyBatch]]
    /\ filling = [p \in Procs |-> NoReservation]
    /\ issued = [s \in Scopes |-> [id \in U64 |-> 0]]

(***************************************************************************)
(* allocate, the batch in memory is not used up.                           *)
(***************************************************************************)
AllocateFromBatch(p, s) ==
    LET b == batch[p][CacheKey[s]] IN
    /\ ~filling[p].active
    /\ b.next < b.end
    /\ batch' = [batch EXCEPT ![p][CacheKey[s]].next = WrappingAdd(b.next, 1)]
    /\ HandOut(s, b.next)
    /\ UNCHANGED <<counter, filling>>

(***************************************************************************)
(* allocate, the batch is used up: the transaction reads the counter.      *)
(***************************************************************************)
ReadCounter(p, s) ==
    filling' = [filling EXCEPT ![p] =
                   [active |-> TRUE, scope |-> s, read |-> counter[s]]]

StartReservation(p, s) ==
    LET b == batch[p][CacheKey[s]] IN
    /\ ~filling[p].active
    /\ b.next >= b.end
    /\ ReadCounter(p, s)
    /\ UNCHANGED <<counter, batch, issued>>

\* Mutant: the counter is read as a snapshot, so no conflict is detected.
CommitCounterUnchecked(p) ==
    LET r == filling[p] IN
    /\ r.active
    /\ counter' = [counter EXCEPT ![r.scope] = SaturatingAdd(r.read, BatchSize)]

(***************************************************************************)
(* The reservation commits: nobody wrote the counter since it was read.    *)
(***************************************************************************)
CommitCounter(p) ==
    LET r == filling[p] IN
    /\ r.active
    /\ counter[r.scope] = r.read
    /\ counter' = [counter EXCEPT ![r.scope] = SaturatingAdd(r.read, BatchSize)]

\* Mutant: the batch ends one past what was reserved.
FinishReservationOneTooMany(p) ==
    LET r == filling[p] IN
    /\ CommitCounter(p)
    /\ batch' = [batch EXCEPT ![p][CacheKey[r.scope]] =
                    [next |-> WrappingAdd(r.read, 1),
                     end |-> WrappingAdd(r.read, BatchSize + 1)]]
    /\ HandOut(r.scope, r.read)
    /\ filling' = [filling EXCEPT ![p] = NoReservation]

\* ... and the caller learns of it: it stores the batch, hands out its first
\* id and releases the mutex.
FinishReservation(p) ==
    LET r == filling[p] IN
    /\ CommitCounter(p)
    /\ batch' = [batch EXCEPT ![p][CacheKey[r.scope]] =
                    [next |-> WrappingAdd(r.read, 1),
                     end |-> WrappingAdd(r.read, BatchSize)]]
    /\ HandOut(r.scope, r.read)
    /\ filling' = [filling EXCEPT ![p] = NoReservation]

\* ... and the result is unknown to the client library, which runs the
\* closure again.
CommitUnknownResult(p) ==
    LET r == filling[p] IN
    /\ CommitCounter(p)
    /\ filling' = [filling EXCEPT ![p].read = SaturatingAdd(r.read, BatchSize)]
    /\ UNCHANGED <<batch, issued>>

\* ... and the request was dropped before the answer arrived.
CommitAbandoned(p) ==
    /\ CommitCounter(p)
    /\ filling' = [filling EXCEPT ![p] = NoReservation]
    /\ UNCHANGED <<batch, issued>>

(***************************************************************************)
(* Another process wrote the counter first: conflict, read it again.       *)
(***************************************************************************)
RetryReservation(p) ==
    LET r == filling[p] IN
    /\ r.active
    /\ counter[r.scope] # r.read
    /\ ReadCounter(p, r.scope)
    /\ UNCHANGED <<counter, batch, issued>>

(***************************************************************************)
(* A non-retryable error, or the request is dropped before the commit.     *)
(***************************************************************************)
FailReservation(p) ==
    /\ filling[p].active
    /\ filling' = [filling EXCEPT ![p] = NoReservation]
    /\ UNCHANGED <<counter, batch, issued>>

(***************************************************************************)
(* The process restarts: batches in memory are gone (IdAllocator::new).    *)
(***************************************************************************)
Restart(p) ==
    /\ batch' = [batch EXCEPT ![p] = [k \in Keys |-> EmptyBatch]]
    /\ filling' = [filling EXCEPT ![p] = NoReservation]
    /\ UNCHANGED <<counter, issued>>

Step(p) ==
    \/ \E s \in Scopes : AllocateFromBatch(p, s)
    \/ \E s \in Scopes : StartReservation(p, s)
    \/ FinishReservation(p)
    \/ CommitUnknownResult(p)
    \/ CommitAbandoned(p)
    \/ RetryReservation(p)
    \/ FailReservation(p)
    \/ Restart(p)

Next == \E p \in Procs : Step(p)

Spec == Init /\ [][Next]_vars

----------------------------------------------------------------------------

\* No two scopes are formatted to the same cache key.
DistinctCacheKeys ==
    \A s, t \in Scopes : CacheKey[s] = CacheKey[t] => s = t

\* The type invariant.  Counters and batch bounds stay within u64 although
\* both are computed by addition (ids.rs saturates the one and not the other).
TypeOK ==
    /\ counter \in [Scopes -> U64]
    /\ batch \in [Procs -> [Keys -> Batches]]
    /\ filling \in [Procs -> Reservations \cup {NoReservation}]
    /\ issued \in [Scopes -> [U64 -> 0 .. 2]]

\* While the counter of a scope has not reached the end of u64, no id of the
\* scope has been handed out twice: not by two processes that share the
\* counter, not by a process that restarted, lost the answer of a commit or
\* repeated one.  (docs/concepts/data-model.md: "IDs are allocated in batches
\* per site ..., ensuring uniqueness".)
UniqueIds ==
    \A s \in Scopes : counter[s] < MaxU64 => \A id \in U64 : issued[s][id] <= 1

\* An id a process still has in memory is one no other process has in memory
\* and one that was never handed out: `allocate` may hand it out without
\* asking FoundationDB.
ReservedIdsAreFresh ==
    \A p \in Procs, s \in Scopes :
        counter[s] < MaxU64 =>
            LET b == batch[p][CacheKey[s]] IN
            \A id \in U64 :
                (b.next <= id /\ id < b.end) =>
                    /\ issued[s][id] = 0
                    /\ id < counter[s]
                    /\ \A q \in Procs \ {p} :
                          ~ (batch[q][CacheKey[s]].next <= id
                             /\ id < batch[q][CacheKey[s]].end)
=============================================================================
