------------------------- MODULE IdAllocatorProofs -------------------------
(***************************************************************************)
(* Uniqueness of identifiers for any number of processes, scopes, batch    *)
(* size and integer width.  UniqueIds is not inductive: that the next id   *)
(* of a batch is new rests on where batches come from, which               *)
(* ReservedIdsAreFresh says, and that a new batch is fresh rests on        *)
(* IssuedBelowCounter.                                                     *)
(***************************************************************************)
EXTENDS IdAllocator, TLAPS

IssuedBelowCounter ==
    \A s \in Scopes : counter[s] < MaxU64 =>
        \A id \in U64 : issued[s][id] # 0 => id < counter[s]

IInv ==
    /\ TypeOK
    /\ UniqueIds
    /\ ReservedIdsAreFresh
    /\ IssuedBelowCounter

USE AllocatorConstants

\* Both additions stay within u64.
LEMMA AddTypes ==
    ASSUME NEW x \in U64, NEW y \in U64
    PROVE  /\ SaturatingAdd(x, y) \in U64
           /\ WrappingAdd(x, y) \in U64
  BY DEF SaturatingAdd, WrappingAdd, U64

\* The numbers the allocator computes with are u64 values.
LEMMA BatchSizeIsU64 == BatchSize \in U64 /\ 1 \in U64 /\ 0 \in U64
  BY DEF U64

(* The variables keep their types (u64 values stay within their width). *)
THEOREM TypeCorrect == Spec => []TypeOK
<1>1. Init => TypeOK
  BY BatchSizeIsU64 DEF Init, TypeOK, Batches, EmptyBatch, NoReservation, Keys
<1>2. TypeOK /\ [Next]_vars => TypeOK'
  <2> SUFFICES ASSUME TypeOK, [Next]_vars
               PROVE  TypeOK'
    OBVIOUS
  <2> USE DEF TypeOK
  <2>k. \A s \in Scopes : CacheKey[s] \in Keys
    BY DEF Keys
  <2>h. ASSUME NEW s \in Scopes, NEW id \in U64, HandOut(s, id)
        PROVE  issued' \in [Scopes -> [U64 -> 0 .. 2]]
    BY <2>h DEF HandOut
  <2>r. ASSUME NEW p \in Procs, NEW s \in Scopes, ReadCounter(p, s)
        PROVE  filling' \in [Procs -> Reservations \cup {NoReservation}]
    BY <2>r, Zenon DEF ReadCounter, Reservations
  <2>c. ASSUME NEW p \in Procs, CommitCounter(p)
        PROVE  /\ filling[p] \in Reservations
               /\ counter' \in [Scopes -> U64]
    <3>1. filling[p] \in Reservations
      BY <2>c DEF CommitCounter, NoReservation
    <3>2. filling[p].scope \in Scopes /\ filling[p].read \in U64
      BY <3>1 DEF Reservations
    <3>3. SaturatingAdd(filling[p].read, BatchSize) \in U64
      BY <3>2, AddTypes, BatchSizeIsU64, Zenon
    <3> QED
      BY <3>1, <3>2, <3>3, <2>c DEF CommitCounter
  <2>1. ASSUME NEW p \in Procs, NEW s \in Scopes, AllocateFromBatch(p, s)
        PROVE  TypeOK'
    <3>1. batch[p][CacheKey[s]] \in Batches
      BY <2>k
    <3>2. batch[p][CacheKey[s]].next \in U64
      BY <3>1 DEF Batches
    <3>3. WrappingAdd(batch[p][CacheKey[s]].next, 1) \in U64
      BY <3>2, AddTypes, BatchSizeIsU64, Zenon
    <3>4. batch' \in [Procs -> [Keys -> Batches]]
      BY <2>1, <2>k, <3>3, SMTT(30) DEF AllocateFromBatch, Batches
    <3> QED
      BY <2>1, <2>h, <3>2, <3>4 DEF AllocateFromBatch
  <2>2. ASSUME NEW p \in Procs, NEW s \in Scopes, StartReservation(p, s)
        PROVE  TypeOK'
    BY <2>2, <2>r DEF StartReservation
  <2>3. ASSUME NEW p \in Procs, FinishReservation(p)
        PROVE  TypeOK'
    <3>0. CommitCounter(p)
      BY <2>3 DEF FinishReservation
    <3>1. filling[p].scope \in Scopes /\ filling[p].read \in U64
      BY <3>0, <2>c, Zenon DEF Reservations
    <3>2. /\ WrappingAdd(filling[p].read, 1) \in U64
          /\ WrappingAdd(filling[p].read, BatchSize) \in U64
      BY <3>1, AddTypes, BatchSizeIsU64, Zenon
    <3>3. batch' \in [Procs -> [Keys -> Batches]]
      BY <2>3, <2>k, <3>1, <3>2 DEF FinishReservation, Batches
    <3>4. filling' \in [Procs -> Reservations \cup {NoReservation}]
      BY <2>3 DEF FinishReservation
    <3>5. HandOut(filling[p].scope, filling[p].read)
      BY <2>3 DEF FinishReservation
    <3> QED
      BY <3>0, <3>1, <3>3, <3>4, <3>5, <2>c, <2>h
  <2>4. ASSUME NEW p \in Procs, CommitUnknownResult(p)
        PROVE  TypeOK'
    <3>0. CommitCounter(p)
      BY <2>4 DEF CommitUnknownResult
    <3>1. filling[p] \in Reservations /\ filling[p].read \in U64
      BY <3>0, <2>c, Zenon DEF Reservations
    <3>2. SaturatingAdd(filling[p].read, BatchSize) \in U64
      BY <3>1, AddTypes, BatchSizeIsU64, Zenon
    <3>3. filling' \in [Procs -> Reservations \cup {NoReservation}]
      BY <2>4, <3>1, <3>2, Zenon DEF CommitUnknownResult, Reservations
    <3> QED
      BY <2>4, <3>0, <3>3, <2>c DEF CommitUnknownResult
  <2>5. ASSUME NEW p \in Procs, CommitAbandoned(p)
        PROVE  TypeOK'
    BY <2>5, <2>c DEF CommitAbandoned
  <2>6. ASSUME NEW p \in Procs, RetryReservation(p)
        PROVE  TypeOK'
    <3>1. filling[p] \in Reservations
      BY <2>6 DEF RetryReservation, NoReservation
    <3>2. filling[p].scope \in Scopes
      BY <3>1 DEF Reservations
    <3> QED
      BY <2>6, <2>r, <3>2 DEF RetryReservation
  <2>7. ASSUME NEW p \in Procs, FailReservation(p)
        PROVE  TypeOK'
    BY <2>7 DEF FailReservation
  <2>8. ASSUME NEW p \in Procs, Restart(p)
        PROVE  TypeOK'
    BY <2>8, BatchSizeIsU64 DEF Restart, EmptyBatch, Batches
  <2>9. CASE UNCHANGED vars
    BY <2>9 DEF vars
  <2> QED
    BY <2>1, <2>2, <2>3, <2>4, <2>5, <2>6, <2>7, <2>8, <2>9 DEF Next, Step
<1> QED
  BY <1>1, <1>2, PTL DEF Spec

\* A batch in memory consists of two u64 values.
LEMMA BatchTypes ==
    ASSUME TypeOK, NEW q \in Procs, NEW t \in Scopes
    PROVE  /\ batch[q][CacheKey[t]] \in Batches
           /\ batch[q][CacheKey[t]].next \in U64
           /\ batch[q][CacheKey[t]].end \in U64
<1>1. CacheKey[t] \in Keys
  BY DEF Keys
<1>2. batch[q][CacheKey[t]] \in Batches
  BY <1>1 DEF TypeOK
<1> QED
  BY <1>2 DEF Batches

(***************************************************************************)
(* A committed reservation moves its counter forward by one batch, unless  *)
(* that reaches the end of u64.                                            *)
(***************************************************************************)
LEMMA CommitAdvances ==
    ASSUME TypeOK, NEW p \in Procs, CommitCounter(p)
    PROVE  /\ filling[p].scope \in Scopes
           /\ filling[p].read = counter[filling[p].scope]
           /\ \A s \in Scopes :
                 /\ counter[s] \in U64
                 /\ counter'[s] \in U64
                 /\ counter[s] <= counter'[s]
                 /\ s # filling[p].scope => counter'[s] = counter[s]
                 /\ s = filling[p].scope /\ counter'[s] < MaxU64
                      => counter'[s] = counter[s] + BatchSize
<1>1. filling[p] \in Reservations
  BY DEF CommitCounter, NoReservation, TypeOK
<1>2. filling[p].scope \in Scopes /\ filling[p].read \in U64
  BY <1>1, Zenon DEF Reservations
<1> DEFINE r == filling[p].read
           t == filling[p].scope
<1>3. /\ counter[t] = r
      /\ counter' = [counter EXCEPT ![t] = SaturatingAdd(r, BatchSize)]
  BY DEF CommitCounter
<1>4. /\ SaturatingAdd(r, BatchSize) \in U64
      /\ r <= SaturatingAdd(r, BatchSize)
      /\ SaturatingAdd(r, BatchSize) < MaxU64
            => SaturatingAdd(r, BatchSize) = r + BatchSize
  BY <1>2 DEF SaturatingAdd, U64
<1>5. \A s \in Scopes : counter[s] \in U64
  BY DEF TypeOK
<1>6. \A s \in Scopes : counter[s] <= counter[s]
  BY <1>5 DEF U64
<1>7. counter'[t] = SaturatingAdd(r, BatchSize)
  BY <1>2, <1>3 DEF TypeOK
<1>8. \A s \in Scopes : s # t => counter'[s] = counter[s]
  BY <1>2, <1>3 DEF TypeOK
<1> HIDE DEF r, t
<1>9. \A s \in Scopes : /\ counter'[s] \in U64
                        /\ counter[s] <= counter'[s]
                        /\ s = t /\ counter'[s] < MaxU64
                             => counter'[s] = counter[s] + BatchSize
  BY <1>3, <1>4, <1>5, <1>6, <1>7, <1>8
<1> QED
  BY <1>2, <1>3, <1>5, <1>8, <1>9 DEF r, t

(***************************************************************************)
(* A step that leaves the counters, the batches and the history alone      *)
(* keeps the three parts of the invariant.                                 *)
(***************************************************************************)
LEMMA FrameStep ==
    ASSUME UniqueIds, ReservedIdsAreFresh, IssuedBelowCounter,
           UNCHANGED <<counter, batch, issued>>
    PROVE  UniqueIds' /\ ReservedIdsAreFresh' /\ IssuedBelowCounter'
  BY DEF UniqueIds, ReservedIdsAreFresh, IssuedBelowCounter

(***************************************************************************)
(* Advancing a counter without handing out its batch wastes the batch and  *)
(* keeps the invariant.                                                    *)
(***************************************************************************)
LEMMA WastedBatch ==
    ASSUME TypeOK, UniqueIds, ReservedIdsAreFresh, IssuedBelowCounter,
           NEW p \in Procs, CommitCounter(p), UNCHANGED <<batch, issued>>
    PROVE  UniqueIds' /\ ReservedIdsAreFresh' /\ IssuedBelowCounter'
<1>1. filling[p] \in Reservations
  BY DEF CommitCounter, NoReservation, TypeOK
<1>2. filling[p].scope \in Scopes /\ filling[p].read \in U64
  BY <1>1, Zenon DEF Reservations
<1>3. \A s \in Scopes : /\ counter[s] \in U64
                        /\ counter[s] <= counter'[s]
                        /\ counter'[s] \in U64
  BY <1>2, CommitAdvances
<1>4. UniqueIds' /\ IssuedBelowCounter'
  BY <1>3 DEF UniqueIds, IssuedBelowCounter, U64
<1>5. ReservedIdsAreFresh'
  BY <1>3 DEF ReservedIdsAreFresh, U64
<1> QED
  BY <1>4, <1>5

(***************************************************************************)
(* Handing out the next id of a batch in memory.                           *)
(***************************************************************************)
LEMMA FromBatchStep ==
    ASSUME DistinctCacheKeys, TypeOK, UniqueIds, ReservedIdsAreFresh,
           IssuedBelowCounter, NEW p \in Procs, NEW s \in Scopes,
           AllocateFromBatch(p, s)
    PROVE  UniqueIds' /\ ReservedIdsAreFresh' /\ IssuedBelowCounter'
<1> DEFINE B(q, t) == batch[q][CacheKey[t]]
           n == B(p, s).next
<1>0. \A q \in Procs, t \in Scopes : B(q, t) \in Batches
  BY BatchTypes
<1>1. \A q \in Procs, t \in Scopes : B(q, t).next \in U64 /\ B(q, t).end \in U64
  BY BatchTypes
<1>2. n \in U64 /\ n < B(p, s).end /\ WrappingAdd(n, 1) = n + 1
  BY <1>1 DEF AllocateFromBatch, WrappingAdd, U64
<1>3. counter' = counter
  BY DEF AllocateFromBatch
<1>4. \A q \in Procs, t \in Scopes :
         /\ B(q, t)'.end = B(q, t).end
         /\ B(q, t)'.next = IF q = p /\ t = s THEN n + 1 ELSE B(q, t).next
  <2> SUFFICES ASSUME NEW q \in Procs, NEW t \in Scopes
               PROVE  /\ B(q, t)'.end = B(q, t).end
                      /\ B(q, t)'.next = IF q = p /\ t = s THEN n + 1
                                                          ELSE B(q, t).next
    OBVIOUS
  <2>1. CacheKey[t] \in Keys /\ CacheKey[s] \in Keys
    BY DEF Keys
  <2>2. batch' = [batch EXCEPT ![p][CacheKey[s]].next = n + 1]
    BY <1>2, Zenon DEF AllocateFromBatch
  <2>3. CASE q = p /\ t = s
    BY <2>1, <2>2, <2>3, <1>0 DEF TypeOK, Batches
  <2>4. CASE ~ (q = p /\ t = s)
    BY <2>1, <2>2, <2>4 DEF TypeOK, DistinctCacheKeys
  <2> QED
    BY <2>3, <2>4
<1>5. \A t \in Scopes, id \in U64 :
         issued'[t][id] = IF t = s /\ id = n
                          THEN (IF issued[s][n] = 0 THEN 1 ELSE 2)
                          ELSE issued[t][id]
  BY <1>2 DEF AllocateFromBatch, HandOut, TypeOK
<1>6. counter[s] < MaxU64 => issued[s][n] = 0 /\ n < counter[s]
  BY <1>1, <1>2 DEF ReservedIdsAreFresh, U64
<1>7. UniqueIds'
  BY <1>3, <1>5, <1>6 DEF UniqueIds
<1>8. IssuedBelowCounter'
  BY <1>3, <1>5, <1>6 DEF IssuedBelowCounter
<1>9. ReservedIdsAreFresh'
  <2> SUFFICES ASSUME NEW q \in Procs, NEW t \in Scopes, counter[t] < MaxU64,
                      NEW id \in U64,
                      B(q, t)'.next <= id, id < B(q, t)'.end
               PROVE  /\ issued'[t][id] = 0
                      /\ id < counter[t]
                      /\ \A o \in Procs \ {q} :
                            ~ (B(o, t)'.next <= id /\ id < B(o, t)'.end)
    BY <1>3 DEF ReservedIdsAreFresh
  <2>1. B(q, t).next <= id /\ id < B(q, t).end
    BY <1>1, <1>2, <1>4 DEF U64
  <2>2. /\ issued[t][id] = 0
        /\ id < counter[t]
        /\ \A o \in Procs \ {q} : ~ (B(o, t).next <= id /\ id < B(o, t).end)
    BY <2>1 DEF ReservedIdsAreFresh
  <2>3. ~ (t = s /\ id = n)
    <3> SUFFICES ASSUME t = s, id = n PROVE FALSE
      OBVIOUS
    <3>1. CASE q = p
      BY <3>1, <1>2, <1>4 DEF U64
    <3>2. CASE q # p
      BY <3>2, <1>1, <1>2, <2>2, SMTT(30) DEF U64
    <3> QED
      BY <3>1, <3>2
  <2>4. \A o \in Procs \ {q} : ~ (B(o, t)'.next <= id /\ id < B(o, t)'.end)
    BY <1>1, <1>2, <1>4, <2>2 DEF U64
  <2> QED
    BY <1>5, <2>2, <2>3, <2>4
<1> QED
  BY <1>7, <1>8, <1>9

(***************************************************************************)
(* A reservation that completes: the new batch lies between the old and    *)
(* the new value of the counter, above everything handed out or reserved.  *)
(***************************************************************************)
LEMMA ReservationStep ==
    ASSUME DistinctCacheKeys, TypeOK, UniqueIds, ReservedIdsAreFresh,
           IssuedBelowCounter, NEW p \in Procs, FinishReservation(p)
    PROVE  UniqueIds' /\ ReservedIdsAreFresh' /\ IssuedBelowCounter'
<1> DEFINE B(q, t) == batch[q][CacheKey[t]]
           s == filling[p].scope
           r == filling[p].read
<1>0. CommitCounter(p)
  BY DEF FinishReservation
<1>1. /\ s \in Scopes
      /\ r = counter[s]
      /\ \A t \in Scopes :
            /\ counter[t] \in U64
            /\ counter'[t] \in U64
            /\ counter[t] <= counter'[t]
            /\ t # s => counter'[t] = counter[t]
            /\ t = s /\ counter'[t] < MaxU64 => counter'[t] = counter[t] + BatchSize
  BY <1>0, CommitAdvances
<1>2. r \in U64
  BY <1>1
<1>3. \A q \in Procs, t \in Scopes : B(q, t).next \in U64 /\ B(q, t).end \in U64
  BY BatchTypes
<1>4. \A t \in Scopes, id \in U64 :
         issued'[t][id] = IF t = s /\ id = r
                          THEN (IF issued[s][r] = 0 THEN 1 ELSE 2)
                          ELSE issued[t][id]
  BY <1>1, <1>2 DEF FinishReservation, HandOut, TypeOK
<1>5. \A q \in Procs, t \in Scopes :
         B(q, t)' = IF q = p /\ t = s
                    THEN [next |-> WrappingAdd(r, 1),
                          end |-> WrappingAdd(r, BatchSize)]
                    ELSE B(q, t)
  <2> SUFFICES ASSUME NEW q \in Procs, NEW t \in Scopes
               PROVE  B(q, t)' = IF q = p /\ t = s
                                 THEN [next |-> WrappingAdd(r, 1),
                                       end |-> WrappingAdd(r, BatchSize)]
                                 ELSE B(q, t)
    OBVIOUS
  <2>1. CacheKey[t] \in Keys /\ CacheKey[s] \in Keys
    BY <1>1 DEF Keys
  <2>2. batch' = [batch EXCEPT ![p][CacheKey[s]] =
                     [next |-> WrappingAdd(r, 1),
                      end |-> WrappingAdd(r, BatchSize)]]
    BY DEF FinishReservation
  <2> QED
    BY <1>1, <2>1, <2>2 DEF TypeOK, DistinctCacheKeys
<1>6. counter'[s] < MaxU64 => issued[s][r] = 0 /\ counter[s] < MaxU64
  <2>1. counter'[s] < MaxU64 => counter[s] < MaxU64
    BY <1>1 DEF U64
  <2>2. ~ (r < counter[s])
    BY <1>1, <1>2 DEF U64
  <2>3. counter[s] < MaxU64 => issued[s][r] = 0
    BY <1>1, <1>2, <2>2 DEF IssuedBelowCounter
  <2> QED
    BY <2>1, <2>3
<1> HIDE DEF s, r
<1>7. UniqueIds'
  BY <1>1, <1>4, <1>6 DEF UniqueIds
<1>8. IssuedBelowCounter'
  <2> SUFFICES ASSUME NEW t \in Scopes, counter'[t] < MaxU64,
                      NEW id \in U64, issued'[t][id] # 0
               PROVE  id < counter'[t]
    BY DEF IssuedBelowCounter
  <2>1. CASE t = s /\ id = r
    BY <2>1, <1>1, <1>2 DEF U64
  <2>2. CASE ~ (t = s /\ id = r)
    BY <2>2, <1>1, <1>4, <1>6 DEF IssuedBelowCounter, U64
  <2> QED
    BY <2>1, <2>2
<1>9. ReservedIdsAreFresh'
  <2> SUFFICES ASSUME NEW q \in Procs, NEW t \in Scopes, counter'[t] < MaxU64,
                      NEW id \in U64,
                      B(q, t)'.next <= id, id < B(q, t)'.end
               PROVE  /\ issued'[t][id] = 0
                      /\ id < counter'[t]
                      /\ \A o \in Procs \ {q} :
                            ~ (B(o, t)'.next <= id /\ id < B(o, t)'.end)
    BY DEF ReservedIdsAreFresh
  <2>0. counter[t] < MaxU64
    BY <1>1, <1>6
  <2>a. \A o \in Procs : B(o, t).next <= id /\ id < B(o, t).end
                          => id < counter[t] /\ issued[t][id] = 0
    BY <2>0 DEF ReservedIdsAreFresh
  <2>b. t = s => counter'[t] = r + BatchSize /\ r + BatchSize < MaxU64 /\ counter[t] = r
    BY <1>1
  <2>c. t = s => /\ WrappingAdd(r, 1) = r + 1
                 /\ WrappingAdd(r, BatchSize) = r + BatchSize
    BY <2>b, <1>2 DEF WrappingAdd, U64
  <2>1. CASE q = p /\ t = s
    <3>1. r + 1 <= id /\ id < r + BatchSize
      BY <2>1, <2>c, <1>5
    <3>2. ~ (id < counter[t])
      BY <3>1, <2>1, <2>b, <1>2 DEF U64
    <3>3. issued[t][id] = 0
      BY <3>2, <2>0 DEF IssuedBelowCounter, TypeOK
    <3>4. issued'[t][id] = 0
      BY <3>1, <3>3, <1>2, <1>4 DEF U64
    <3>5. \A o \in Procs \ {q} : ~ (B(o, t)'.next <= id /\ id < B(o, t)'.end)
      BY <3>2, <2>1, <2>a, <1>5
    <3> QED
      BY <3>1, <3>4, <3>5, <2>1, <2>b
  <2>2. CASE ~ (q = p /\ t = s)
    <3>1. B(q, t).next <= id /\ id < B(q, t).end
      BY <2>2, <1>5
    <3>2. id < counter[t] /\ issued[t][id] = 0
      BY <3>1, <2>a
    <3>3. ~ (t = s /\ id = r)
      BY <3>2, <1>1, <1>2, <2>b DEF U64
    <3>4. issued'[t][id] = 0
      BY <3>2, <3>3, <1>4
    <3>5. id < counter'[t]
      BY <3>2, <1>1 DEF U64
    <3>6. ASSUME NEW o \in Procs \ {q},
                 B(o, t)'.next <= id, id < B(o, t)'.end
          PROVE  FALSE
      <4>1. CASE o = p /\ t = s
        <5>1. r + 1 <= id
          BY <3>6, <4>1, <2>c, <1>5
        <5> QED
          BY <5>1, <3>2, <4>1, <2>b, <1>2 DEF U64
      <4>2. CASE ~ (o = p /\ t = s)
        BY <3>1, <3>6, <4>2, <2>0, <1>5 DEF ReservedIdsAreFresh
      <4> QED
        BY <4>1, <4>2
    <3> QED
      BY <3>4, <3>5, <3>6
  <2> QED
    BY <2>1, <2>2
<1> QED
  BY <1>7, <1>8, <1>9

(***************************************************************************)
(* ids.rs: as long as two scopes are not formatted to one cache key, no    *)
(* id is handed out twice and every id kept in memory is fresh, whatever   *)
(* the number of processes, restarts, conflicts and lost answers, until    *)
(* the counter reaches the end of u64.                                     *)
(***************************************************************************)
THEOREM IdsAreUnique ==
    ASSUME DistinctCacheKeys
    PROVE  Spec => [](UniqueIds /\ ReservedIdsAreFresh)
<1>1. Init => IInv
  <2> SUFFICES ASSUME Init PROVE IInv
    OBVIOUS
  <2>1. TypeOK
    BY BatchSizeIsU64 DEF Init, TypeOK, Batches, EmptyBatch, NoReservation, Keys
  <2>2. UniqueIds /\ IssuedBelowCounter
    BY DEF Init, UniqueIds, IssuedBelowCounter
  <2>3. \A q \in Procs, t \in Scopes : batch[q][CacheKey[t]] = EmptyBatch
    BY DEF Init, Keys
  <2>4. ReservedIdsAreFresh
    BY <2>3 DEF ReservedIdsAreFresh, EmptyBatch, U64
  <2> QED
    BY <2>1, <2>2, <2>4 DEF IInv
<1>2. IInv /\ TypeOK' /\ [Next]_vars => IInv'
  <2> SUFFICES ASSUME IInv, TypeOK', [Next]_vars
               PROVE  UniqueIds' /\ ReservedIdsAreFresh' /\ IssuedBelowCounter'
    BY DEF IInv
  <2> USE DEF IInv
  <2>1. ASSUME NEW p \in Procs, NEW s \in Scopes, AllocateFromBatch(p, s)
        PROVE  UniqueIds' /\ ReservedIdsAreFresh' /\ IssuedBelowCounter'
    BY <2>1, FromBatchStep
  <2>2. ASSUME NEW p \in Procs, NEW s \in Scopes, StartReservation(p, s)
        PROVE  UniqueIds' /\ ReservedIdsAreFresh' /\ IssuedBelowCounter'
    BY <2>2, FrameStep DEF StartReservation
  <2>3. ASSUME NEW p \in Procs, FinishReservation(p)
        PROVE  UniqueIds' /\ ReservedIdsAreFresh' /\ IssuedBelowCounter'
    BY <2>3, ReservationStep
  <2>4. ASSUME NEW p \in Procs, CommitUnknownResult(p) \/ CommitAbandoned(p)
        PROVE  UniqueIds' /\ ReservedIdsAreFresh' /\ IssuedBelowCounter'
    BY <2>4, WastedBatch DEF CommitUnknownResult, CommitAbandoned
  <2>5. ASSUME NEW p \in Procs, RetryReservation(p) \/ FailReservation(p)
        PROVE  UniqueIds' /\ ReservedIdsAreFresh' /\ IssuedBelowCounter'
    BY <2>5, FrameStep DEF RetryReservation, FailReservation
  <2>6. ASSUME NEW p \in Procs, Restart(p)
        PROVE  UniqueIds' /\ ReservedIdsAreFresh' /\ IssuedBelowCounter'
    <3>1. \A q \in Procs, t \in Scopes :
             batch'[q][CacheKey[t]] = IF q = p THEN EmptyBatch
                                               ELSE batch[q][CacheKey[t]]
      BY <2>6 DEF Restart, TypeOK, Keys
    <3>2. ReservedIdsAreFresh'
      BY <2>6, <3>1 DEF Restart, ReservedIdsAreFresh, EmptyBatch, U64
    <3> QED
      BY <2>6, <3>2 DEF Restart, UniqueIds, IssuedBelowCounter
  <2>7. CASE UNCHANGED vars
    BY <2>7, FrameStep DEF vars
  <2> QED
    BY <2>1, <2>2, <2>3, <2>4, <2>5, <2>6, <2>7 DEF Next, Step
<1>3. IInv => UniqueIds /\ ReservedIdsAreFresh
  BY DEF IInv
<1> QED
  BY <1>1, <1>2, <1>3, TypeCorrect, PTL DEF Spec

(* ids.rs: an id still in the memory of a process was handed out by none,  *)
(* and is in no other batch, however many processes reserve and restart.   *)
THEOREM ReservationsAreFresh ==
    ASSUME DistinctCacheKeys
    PROVE  Spec => []ReservedIdsAreFresh
BY IdsAreUnique, PTL
=============================================================================
