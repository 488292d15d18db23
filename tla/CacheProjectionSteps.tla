------------------------ MODULE CacheProjectionSteps ------------------------
(***************************************************************************)
(* What every step of CacheProjection preserves, for any number of         *)
(* namespaces, keys, readers and restarts and any batch size.              *)
(*                                                                         *)
(* The argument rests on two facts.  What a projector has polled is a      *)
(* prefix of what is pending after its consumer (PolledIsPrefix), so when  *)
(* it is applied no entry of the namespace up to its last one is left out. *)
(* And the content of the cache covers the consumer's position             *)
(* (HitsCoverConsumer), which a restart can only move backwards.  The      *)
(* theorems that follow are in CacheProjectionProofs.                      *)
(***************************************************************************)
EXTENDS CacheProjection, TLAPS

PolledIsPrefix ==
    \A ns \in Namespaces :
        /\ \A i \in polled[ns] : i > consumer[ns] /\ log[i].ns = ns
        /\ \A i \in polled[ns], j \in consumer[ns] + 1 .. Len(log) :
              (j <= i /\ log[j].ns = ns) => j \in polled[ns]

IInv == TypeOK /\ PolledIsPrefix /\ HitsCoverConsumer

----------------------------------------------------------------------------
(* Facts about sets of positions that the library's theorems give.  They   *)
(* are an assumption of the lemmas that need them and are proved where the *)
(* theorems are, so that the library is not part of every obligation.      *)

HasLast == \A n \in Nat : \A S \in SUBSET (1 .. n) :
              S # {} => LastOf(S) \in S /\ \A j \in S : j <= LastOf(S)

SubsetIsSmaller == \A n \in Nat : \A S \in SUBSET (1 .. n) : \A T \in SUBSET S :
                      /\ Cardinality(S) \in Nat
                      /\ Cardinality(T) \in Nat
                      /\ Cardinality(T) <= Cardinality(S)

PositionFacts == HasLast /\ SubsetIsSmaller

(* A non-empty set of positions has a last one.                            *)
LEMMA LastOfIsLast ==
    ASSUME PositionFacts, NEW n \in Nat, NEW S \in SUBSET (1 .. n), S # {}
    PROVE  LastOf(S) \in S /\ \A j \in S : j <= LastOf(S)
BY Zenon DEF PositionFacts, HasLast

\* A sequence is a function from its positions.
LEMMA LengthOfSeq ==
    ASSUME NEW E, NEW s \in Seq(E)
    PROVE  Len(s) \in Nat /\ s \in [1 .. Len(s) -> E]
OBVIOUS

\* What a sequence holds at its positions.
LEMMA ElementInSeq ==
    ASSUME NEW E, NEW s \in Seq(E), NEW i \in 1 .. Len(s)
    PROVE  s[i] \in E
OBVIOUS

\* Only the empty sequence has length 0.
LEMMA EmptyHasNoLength ==
    ASSUME NEW E
    PROVE  /\ << >> \in Seq(E)
           /\ Len(<< >>) = 0
           /\ \A s \in Seq(E) : s # << >> => Len(s) \in Nat \ {0}
OBVIOUS

\* What a concatenation holds.
LEMMA Concatenated ==
    ASSUME NEW E, NEW s \in Seq(E), NEW t \in Seq(E)
    PROVE  /\ s \o t \in Seq(E)
           /\ Len(s \o t) = Len(s) + Len(t)
           /\ \A i \in 1 .. Len(s) + Len(t) :
                 (s \o t)[i] = IF i <= Len(s) THEN s[i] ELSE t[i - Len(s)]
OBVIOUS

(* A commit appends to the log and leaves what is there alone.             *)
LEMMA CommitAppends ==
    ASSUME log \in Seq(EntryAt(Nat)), CommitGroup
    PROVE  /\ log' \in Seq(EntryAt(Nat))
           /\ Len(log) \in Nat
           /\ Len(log') \in Nat
           /\ Len(log) < Len(log')
           /\ \A i \in 1 .. Len(log) : log'[i] = log[i]
           /\ \A i \in Len(log) + 1 .. Len(log') : log'[i].ver = LastVersion + 1
           /\ Len(log') <= Len(log) + GroupSize
<1>0. PICK n \in 1 .. GroupSize :
         \E es \in [1 .. n -> EntryAt({LastVersion + 1})] : log' = log \o es
  BY Zenon DEF CommitGroup
<1>1. PICK es \in [1 .. n -> EntryAt({LastVersion + 1})] : log' = log \o es
  BY <1>0, Zenon
<1>2. Len(log) \in Nat /\ LastVersion \in Nat
  <2>1. Len(log) \in Nat
    BY LengthOfSeq
  <2>2. CASE log = <<>>
    BY <2>1, <2>2 DEF LastVersion
  <2>3. CASE log # <<>>
    <3>1. Len(log) \in 1 .. Len(log)
      BY <2>1, <2>3, EmptyHasNoLength
    <3>2. log[Len(log)] \in EntryAt(Nat)
      BY <3>1, ElementInSeq
    <3> QED BY <2>1, <2>3, <3>2 DEF LastVersion, EntryAt
  <2> QED BY <2>2, <2>3
<1>3. EntryAt({LastVersion + 1}) \subseteq EntryAt(Nat)
  <2>1. {LastVersion + 1} \subseteq Nat
    BY <1>2
  <2>2. ASSUME NEW V, V \subseteq Nat
        PROVE  EntryAt(V) \subseteq EntryAt(Nat)
    BY <2>2, Zenon DEF EntryAt
  <2> QED BY <2>1, <2>2
<1>4. n \in Nat /\ n <= GroupSize
  BY CacheConstants
<1>5. es \in Seq(EntryAt(Nat)) /\ Len(es) = n
  <2>1. ASSUME NEW E, NEW m \in Nat, NEW f \in [1 .. m -> E]
        PROVE  f \in Seq(E) /\ Len(f) = m
    OBVIOUS
  <2>2. es \in [1 .. n -> EntryAt(Nat)]
    BY <1>3, Zenon
  <2> QED BY <1>4, <2>1, <2>2
<1>6. \A i \in 1 .. n : es[i].ver = LastVersion + 1
  BY DEF EntryAt
<1>7. /\ log \o es \in Seq(EntryAt(Nat))
      /\ Len(log \o es) = Len(log) + n
      /\ \A i \in 1 .. Len(log) + n :
            (log \o es)[i] = IF i <= Len(log) THEN log[i] ELSE es[i - Len(log)]
  BY <1>5, Concatenated, Zenon
<1> QED
  <2>1. \A i \in 1 .. Len(log) : log'[i] = log[i]
    BY <1>1, <1>2, <1>4, <1>7
  <2>2. ASSUME NEW i \in Len(log) + 1 .. Len(log')
        PROVE  log'[i].ver = LastVersion + 1
    <3>1. i - Len(log) \in 1 .. n /\ log'[i] = es[i - Len(log)]
      BY <1>1, <1>2, <1>4, <1>7
    <3> QED BY <3>1, <1>6
  <2> QED BY <1>1, <1>2, <1>4, <1>7, <2>1, <2>2, CacheConstants

(* read_cdc_entries returns a prefix of what is pending.                   *)
LEMMA ReadIsPrefix ==
    ASSUME PositionFacts,
           NEW ns, NEW after \in Nat, NEW limit \in Nat, Len(log) \in Nat,
           NEW i \in ReadCdcEntries(ns, after, limit),
           NEW j \in Pending(ns, after), j <= i
    PROVE  j \in ReadCdcEntries(ns, after, limit)
<1> DEFINE P == Pending(ns, after)
           Below(x) == {m \in P : m < x}
<1>1. P \subseteq 1 .. Len(log)
  BY DEF Pending
<1>2. Below(j) \subseteq Below(i)
  <2>1. i \in P /\ i \in Int /\ j \in Int
    BY <1>1 DEF ReadCdcEntries
  <2> QED BY <1>1, <2>1
<1>3. Below(i) \in SUBSET (1 .. Len(log))
  BY <1>1
<1>4. /\ Cardinality(Below(i)) \in Nat
      /\ Cardinality(Below(j)) \in Nat
      /\ Cardinality(Below(j)) <= Cardinality(Below(i))
  <2> HIDE DEF Below
  <2> QED BY <1>2, <1>3, Zenon DEF PositionFacts, SubsetIsSmaller
<1>5. Cardinality(Below(i)) < limit
  BY DEF ReadCdcEntries
<1>6. Cardinality(Below(j)) < limit
  <2> HIDE DEF Below
  <2> QED BY <1>4, <1>5
<1> QED BY <1>6 DEF ReadCdcEntries

(* Applying a batch leaves an untouched key alone; a touched key ends at   *)
(* the last entry that touches it, or empty.                               *)
LEMMA AfterOpsShape ==
    ASSUME PositionFacts, Len(log) \in Nat, NEW es \in SUBSET (1 .. Len(log)),
           NEW before \in Positions, NEW k
    PROVE  LET r == AfterOps(before, k, es)
               touching == {i \in es : log[i].key = k}
           IN  /\ r \in Positions
               /\ touching = {} => r = before
               /\ touching # {} => r = 0 \/ r = LastOf(touching)
<1> DEFINE touching == {i \in es : log[i].key = k}
<1>1. CASE touching = {}
  BY <1>1 DEF AfterOps
<1>2. CASE touching # {}
  <2>1. LastOf(touching) \in touching
    BY <1>2, LastOfIsLast, Zenon
  <2>2. AfterOps(before, k, es) = 0 \/ AfterOps(before, k, es) = LastOf(touching)
    BY <1>2 DEF AfterOps
  <2>3. LastOf(touching) \in Positions /\ 0 \in Positions
    <3>1. touching \in SUBSET (1 .. Len(log))
      BY Zenon
    <3>2. LastOf(touching) \in 1 .. Len(log)
      BY <2>1, <3>1, Zenon
    <3> HIDE DEF touching
    <3> QED BY <3>2 DEF Positions
  <2> HIDE DEF touching
  <2> QED BY <1>2, <2>2, <2>3 DEF touching
<1> QED BY <1>1, <1>2

(* A drain that polls the same entries several times before it applies     *)
(* them (project_batch) leaves what applying them once leaves.             *)
LEMMA DrainIsHarmless ==
    ASSUME PositionFacts, Len(log) \in Nat, NEW es \in SUBSET (1 .. Len(log)),
           NEW before \in Positions, NEW k, NEW again \in BOOLEAN
    PROVE  AfterDrain(before, k, es, again) = AfterOps(before, k, es)
<1> DEFINE touching == {i \in es : log[i].key = k}
           resets == {i \in touching : log[i].op # "update"}
<1>1. CASE touching = {}
  BY <1>1 DEF AfterOps, AfterDrain
<1>2. CASE touching # {}
  <2>1. LastOf(touching) # 0
    <3>1. touching \in SUBSET (1 .. Len(log))
      BY Zenon
    <3>2. LastOf(touching) \in touching
      <4> HIDE DEF touching
      <4> QED BY <1>2, <3>1, LastOfIsLast, Zenon
    <3> HIDE DEF touching
    <3> QED BY <3>1, <3>2
  <2>2. CASE resets = {}
    <3>1. \A b : AfterOps(b, k, es) = IF b = 0 THEN 0 ELSE LastOf(touching)
      BY <1>2, <2>2 DEF AfterOps
    <3> HIDE DEF touching
    <3> QED BY <2>1, <3>1 DEF AfterDrain
  <2>3. CASE resets # {}
    <3>1. \A b, c : AfterOps(b, k, es) = AfterOps(c, k, es)
      BY <1>2, <2>3 DEF AfterOps
    <3> QED BY <3>1 DEF AfterDrain
  <2> QED BY <2>2, <2>3
<1> QED BY <1>1, <1>2

----------------------------------------------------------------------------
(* The invariant, action by action.                                        *)

\* The empty cache and log satisfy the invariant.
LEMMA InitOK == Init => IInv
<1> SUFFICES ASSUME Init PROVE IInv
  OBVIOUS
<1>1. Len(log) = 0 /\ log \in Seq(EntryAt(Nat))
  BY EmptyHasNoLength DEF Init
<1>2. TypeOK
  BY <1>1 DEF Init, TypeOK, Positions, EmptyCache, ReadState
<1>3. PolledIsPrefix
  BY DEF Init, PolledIsPrefix
<1>4. HitsCoverConsumer
  BY DEF Init, HitsCoverConsumer, EmptyCache
<1> QED BY <1>2, <1>3, <1>4 DEF IInv

(* A commit: positions stay positions and old entries stay as they are.    *)
LEMMA CommitStep ==
    ASSUME IInv, CommitGroup
    PROVE  IInv'
<1>1. /\ log' \in Seq(EntryAt(Nat))
      /\ Len(log) \in Nat /\ Len(log') \in Nat /\ Len(log) <= Len(log')
      /\ \A i \in 1 .. Len(log) : log'[i] = log[i]
  BY CommitAppends DEF IInv, TypeOK
<1>2. UNCHANGED <<cache, hwm, consumer, checkpoint, polled, saving, reads, restarts>>
  BY DEF CommitGroup
<1>3. Positions \subseteq Positions' /\ 1 .. Len(log) \subseteq 1 .. Len(log')
  BY <1>1 DEF Positions
<1>4. TypeOK'
  BY <1>1, <1>2, <1>3 DEF IInv, TypeOK
<1>5. PolledIsPrefix'
  <2> SUFFICES ASSUME NEW ns \in Namespaces
               PROVE  /\ \A i \in polled[ns] : i > consumer[ns] /\ log'[i].ns = ns
                      /\ \A i \in polled[ns], j \in consumer[ns] + 1 .. Len(log') :
                            (j <= i /\ log'[j].ns = ns) => j \in polled[ns]
    BY <1>2 DEF PolledIsPrefix
  <2>1. polled[ns] \subseteq 1 .. Len(log) /\ consumer[ns] \in 0 .. Len(log)
    BY DEF IInv, TypeOK, Positions
  <2>2. /\ \A i \in polled[ns] : i > consumer[ns] /\ log[i].ns = ns
        /\ \A i \in polled[ns], j \in consumer[ns] + 1 .. Len(log) :
              (j <= i /\ log[j].ns = ns) => j \in polled[ns]
    BY DEF IInv, PolledIsPrefix
  <2>3. \A i \in polled[ns] : i > consumer[ns] /\ log'[i].ns = ns
    BY <1>1, <2>1, <2>2
  <2>4. ASSUME NEW i \in polled[ns], NEW j \in consumer[ns] + 1 .. Len(log'),
               j <= i, log'[j].ns = ns
        PROVE  j \in polled[ns]
    <3>1. j \in consumer[ns] + 1 .. Len(log) /\ j \in 1 .. Len(log)
      BY <1>1, <2>1, <2>4
    <3> QED BY <1>1, <2>2, <2>4, <3>1
  <2> QED BY <2>3, <2>4
<1>6. HitsCoverConsumer'
  <2> SUFFICES ASSUME NEW ns \in Namespaces, NEW k \in Keys, cache[ns][k] # 0,
                      NEW j \in cache[ns][k] + 1 .. consumer[ns],
                      log'[j].ns = ns, log'[j].key = k
               PROVE  FALSE
    BY <1>2 DEF HitsCoverConsumer, WrittenIn
  <2>1. cache[ns][k] \in 0 .. Len(log) /\ consumer[ns] \in 0 .. Len(log)
    BY DEF IInv, TypeOK, Positions
  <2>2. j \in 1 .. Len(log)
    BY <1>1, <2>1
  <2>3. ~ WrittenIn(ns, k, cache[ns][k], consumer[ns])
    BY DEF IInv, HitsCoverConsumer
  <2> QED BY <1>1, <2>2, <2>3 DEF WrittenIn
<1> QED BY <1>4, <1>5, <1>6 DEF IInv

(* A poll returns a prefix of what is pending.                             *)
LEMMA PollStep ==
    ASSUME PositionFacts, IInv, NEW ns \in Namespaces, Poll(ns)
    PROVE  IInv'
<1> DEFINE R == ReadCdcEntries(ns, consumer[ns], PollLimit)
<1>1. /\ polled' = [polled EXCEPT ![ns] = R]
      /\ UNCHANGED <<log, cache, hwm, consumer, checkpoint, saving, reads, restarts>>
  BY DEF Poll
<1>2. Len(log) \in Nat /\ consumer[ns] \in 0 .. Len(log)
  BY LengthOfSeq DEF IInv, TypeOK, Positions
<1>3. R \subseteq Pending(ns, consumer[ns])
  BY DEF ReadCdcEntries
<1>4. \A i \in R : i \in 1 .. Len(log) /\ i > consumer[ns] /\ log[i].ns = ns
  BY <1>2, <1>3 DEF Pending
<1>5. ASSUME NEW i \in R, NEW j \in consumer[ns] + 1 .. Len(log), j <= i, log[j].ns = ns
      PROVE  j \in R
  <2>1. j \in Pending(ns, consumer[ns])
    BY <1>5 DEF Pending
  <2> QED BY <1>2, <1>5, <2>1, ReadIsPrefix, CacheConstants
<1> HIDE DEF R
<1>6. TypeOK'
  BY <1>1, <1>2, <1>4 DEF IInv, TypeOK, Positions
<1>7. PolledIsPrefix'
  <2> SUFFICES ASSUME NEW m \in Namespaces
               PROVE  /\ \A i \in polled'[m] : i > consumer[m] /\ log[i].ns = m
                      /\ \A i \in polled'[m], j \in consumer[m] + 1 .. Len(log) :
                            (j <= i /\ log[j].ns = m) => j \in polled'[m]
    BY <1>1 DEF PolledIsPrefix
  <2>1. CASE m = ns
    <3>1. polled'[m] = R
      BY <1>1, <2>1 DEF IInv, TypeOK
    <3> QED BY <1>4, <1>5, <2>1, <3>1
  <2>2. CASE m # ns
    <3>1. polled'[m] = polled[m]
      BY <1>1, <2>2 DEF IInv, TypeOK
    <3> QED BY <3>1 DEF IInv, PolledIsPrefix
  <2> QED BY <2>1, <2>2
<1>8. HitsCoverConsumer'
  BY <1>1 DEF IInv, HitsCoverConsumer, WrittenIn
<1> QED BY <1>6, <1>7, <1>8 DEF IInv

(* Facts about an applied batch: the consumer moves to its last entry, and *)
(* every key is left as AfterOps says.                                     *)
LEMMA ApplyFacts ==
    ASSUME PositionFacts, IInv, NEW ns \in Namespaces, ApplyAndAck(ns)
    PROVE  /\ Len(log) \in Nat
           /\ polled[ns] \in SUBSET (1 .. Len(log))
           /\ LastOf(polled[ns]) \in polled[ns]
           /\ \A j \in polled[ns] : j <= LastOf(polled[ns])
           /\ LastOf(polled[ns]) > consumer[ns]
           /\ hwm' = LastOf(polled[ns])
           /\ consumer' = [consumer EXCEPT ![ns] = LastOf(polled[ns])]
           /\ polled' = [polled EXCEPT ![ns] = {}]
           /\ saving' = [saving EXCEPT ![ns] = TRUE]
           /\ cache' = [cache EXCEPT ![ns] =
                           [k \in Keys |-> AfterOps(cache[ns][k], k, polled[ns])]]
           /\ UNCHANGED <<log, checkpoint, reads, restarts>>
<1>1. Len(log) \in Nat /\ polled[ns] \in SUBSET (1 .. Len(log)) /\ polled[ns] # {}
  BY LengthOfSeq DEF IInv, TypeOK, ApplyAndAck
<1>2. /\ LastOf(polled[ns]) \in polled[ns]
      /\ \A j \in polled[ns] : j <= LastOf(polled[ns])
  BY <1>1, LastOfIsLast, Zenon
<1>3. LastOf(polled[ns]) > consumer[ns]
  BY <1>2 DEF IInv, PolledIsPrefix
<1>4. PICK again \in BOOLEAN :
         cache' = [cache EXCEPT ![ns] =
                     [k \in Keys |-> AfterDrain(cache[ns][k], k, polled[ns], again)]]
  BY Zenon DEF ApplyAndAck
<1>5. \A k \in Keys : AfterDrain(cache[ns][k], k, polled[ns], again)
                      = AfterOps(cache[ns][k], k, polled[ns])
  <2> TAKE k \in Keys
  <2>1. cache[ns][k] \in Positions
    BY DEF IInv, TypeOK
  <2> QED BY <1>1, <2>1, DrainIsHarmless
<1>6. [k \in Keys |-> AfterDrain(cache[ns][k], k, polled[ns], again)]
      = [k \in Keys |-> AfterOps(cache[ns][k], k, polled[ns])]
  BY <1>5
<1> QED BY <1>1, <1>2, <1>3, <1>4, <1>6, Zenon DEF ApplyAndAck

(* An applied batch: every entry of the namespace up to its last one is in *)
(* the batch or was covered before.                                        *)
LEMMA ApplyStep ==
    ASSUME PositionFacts, IInv, NEW ns \in Namespaces, ApplyAndAck(ns)
    PROVE  IInv'
<1> DEFINE es == polled[ns]
           last == LastOf(polled[ns])
           After(k) == AfterOps(cache[ns][k], k, polled[ns])
<1>1. /\ Len(log) \in Nat
      /\ es \in SUBSET (1 .. Len(log))
      /\ last \in es
      /\ \A j \in es : j <= last
      /\ last > consumer[ns]
      /\ hwm' = last
      /\ consumer' = [consumer EXCEPT ![ns] = last]
      /\ polled' = [polled EXCEPT ![ns] = {}]
      /\ saving' = [saving EXCEPT ![ns] = TRUE]
      /\ cache' = [cache EXCEPT ![ns] = [k \in Keys |-> After(k)]]
      /\ UNCHANGED <<log, checkpoint, reads, restarts>>
  BY ApplyFacts
<1>2. ASSUME NEW k \in Keys
      PROVE  /\ After(k) \in Positions
             /\ {i \in es : log[i].key = k} = {} => After(k) = cache[ns][k]
             /\ {i \in es : log[i].key = k} # {} =>
                   After(k) = 0 \/ After(k) = LastOf({i \in es : log[i].key = k})
  <2>1. cache[ns][k] \in Positions
    BY DEF IInv, TypeOK
  <2> QED BY <1>1, <2>1, AfterOpsShape, ZenonT(30)
<1>3. \A j \in consumer[ns] + 1 .. last : log[j].ns = ns => j \in es
  <2>1. last \in 1 .. Len(log) /\ consumer[ns] \in 0 .. Len(log)
    BY <1>1 DEF IInv, TypeOK, Positions
  <2> QED BY <1>1, <2>1 DEF IInv, PolledIsPrefix
<1>4. last \in 1 .. Len(log) /\ consumer[ns] \in 0 .. Len(log)
  BY <1>1 DEF IInv, TypeOK, Positions
<1> HIDE DEF last, After
<1>5. TypeOK'
  <2>1. Positions' = Positions /\ last \in Positions
    BY <1>1, <1>4 DEF Positions
  <2>2. [k \in Keys |-> After(k)] \in [Keys -> Positions]
    BY <1>2, Zenon
  <2>3. cache' \in [Namespaces -> [Keys -> Positions]]
    BY <1>1, <2>2 DEF IInv, TypeOK
  <2>4. consumer' \in [Namespaces -> Positions] /\ checkpoint' \in [Namespaces -> Positions]
    BY <1>1, <2>1 DEF IInv, TypeOK
  <2>5. polled' \in [Namespaces -> SUBSET (1 .. Len(log))] /\ saving' \in [Namespaces -> BOOLEAN]
    BY <1>1 DEF IInv, TypeOK
  <2> QED BY <1>1, <2>1, <2>3, <2>4, <2>5 DEF IInv, TypeOK
<1>6. PolledIsPrefix'
  <2> SUFFICES ASSUME NEW m \in Namespaces
               PROVE  /\ \A i \in polled'[m] : i > consumer'[m] /\ log[i].ns = m
                      /\ \A i \in polled'[m], j \in consumer'[m] + 1 .. Len(log) :
                            (j <= i /\ log[j].ns = m) => j \in polled'[m]
    BY <1>1 DEF PolledIsPrefix
  <2>1. CASE m = ns
    BY <1>1, <2>1 DEF IInv, TypeOK
  <2>2. CASE m # ns
    <3>1. polled'[m] = polled[m] /\ consumer'[m] = consumer[m]
      BY <1>1, <2>2 DEF IInv, TypeOK
    <3> QED BY <3>1 DEF IInv, PolledIsPrefix
  <2> QED BY <2>1, <2>2
<1>7. HitsCoverConsumer'
  <2> SUFFICES ASSUME NEW m \in Namespaces, NEW k \in Keys, cache'[m][k] # 0,
                      NEW j \in cache'[m][k] + 1 .. consumer'[m],
                      log[j].ns = m, log[j].key = k
               PROVE  FALSE
    BY <1>1 DEF HitsCoverConsumer, WrittenIn
  <2>1. CASE m # ns
    <3>1. cache'[m] = cache[m] /\ consumer'[m] = consumer[m]
      BY <1>1, <2>1 DEF IInv, TypeOK
    <3>2. ~ WrittenIn(m, k, cache[m][k], consumer[m])
      BY <3>1 DEF IInv, HitsCoverConsumer
    <3>3. consumer[m] \in 0 .. Len(log)
      BY DEF IInv, TypeOK, Positions
    <3>4. j \in cache[m][k] + 1 .. consumer[m] /\ j <= Len(log)
      BY <1>1, <3>1, <3>3
    <3> QED BY <3>2, <3>4 DEF WrittenIn
  <2>2. CASE m = ns
    <3>1. cache'[ns][k] = After(k) /\ consumer'[ns] = last
      BY <1>1 DEF IInv, TypeOK
    <3>2. After(k) \in 0 .. Len(log) /\ cache[ns][k] \in 0 .. Len(log)
      BY <1>2, ZenonT(30) DEF IInv, TypeOK, Positions
    <3>3. j \in 1 .. Len(log) /\ j > After(k) /\ j <= last
      BY <1>1, <1>4, <2>2, <3>1, <3>2
    <3> DEFINE touching == {i \in es : log[i].key = k}
    <3>4. CASE touching = {}
      <4>1. j \notin es
        BY <3>4
      <4>2. j <= consumer[ns]
        BY <1>3, <1>4, <2>2, <3>3, <4>1
      <4>3. After(k) = cache[ns][k]
        BY <1>2, <3>4, Zenon
      <4>4. WrittenIn(ns, k, cache[ns][k], consumer[ns])
        BY <1>4, <2>2, <3>2, <3>3, <4>2, <4>3 DEF WrittenIn
      <4>5. cache[ns][k] # 0
        BY <2>2, <3>1, <4>3
      <4> QED BY <4>4, <4>5 DEF IInv, HitsCoverConsumer
    <3>5. CASE touching # {}
      <4>1. After(k) = LastOf(touching)
        BY <1>2, <2>2, <3>1, <3>5
      <4>2. touching \in SUBSET (1 .. Len(log))
        BY <1>1
      <4>3. \A i \in touching : i <= LastOf(touching)
        <5> HIDE DEF touching
        <5> QED BY <1>1, <3>5, <4>2, LastOfIsLast, Zenon
      <4>4. j \notin touching
        <5> HIDE DEF touching
        <5> QED BY <3>2, <3>3, <4>1, <4>3
      <4>5. j \notin es
        BY <4>4
      <4>6. j <= consumer[ns]
        BY <1>3, <1>4, <2>2, <3>3, <4>5
      <4>7. After(k) \in touching
        <5> HIDE DEF touching
        <5> QED BY <1>1, <3>5, <4>1, <4>2, LastOfIsLast, Zenon
      <4>8. After(k) > consumer[ns]
        <5>1. After(k) \in polled[ns]
          BY <4>7
        <5> QED BY <5>1 DEF IInv, PolledIsPrefix
      <4> QED BY <1>4, <3>2, <3>3, <4>6, <4>8
    <3> QED BY <3>4, <3>5
  <2> QED BY <2>1, <2>2
<1> QED BY <1>5, <1>6, <1>7 DEF IInv

(* Saving a position moves nothing the invariant speaks of.                *)
LEMMA SaveStep ==
    ASSUME IInv, NEW ns \in Namespaces, SaveCheckpoint(ns) \/ SkipCheckpoint(ns)
    PROVE  IInv'
<1>1. UNCHANGED <<log, cache, hwm, consumer, polled, reads, restarts>>
  BY DEF SaveCheckpoint, SkipCheckpoint
<1>2. checkpoint' \in [Namespaces -> Positions] /\ saving' \in [Namespaces -> BOOLEAN]
  BY Zenon DEF IInv, TypeOK, SaveCheckpoint, SkipCheckpoint
<1>3. TypeOK'
  BY <1>1, <1>2 DEF IInv, TypeOK, Positions
<1>4. PolledIsPrefix' /\ HitsCoverConsumer'
  BY <1>1, SMTT(30) DEF IInv, PolledIsPrefix, HitsCoverConsumer, WrittenIn
<1> QED BY <1>3, <1>4 DEF IInv

(* Dropping a polled batch leaves nothing to be a prefix.                   *)
LEMMA FailStep ==
    ASSUME IInv, NEW ns \in Namespaces, FailBatch(ns)
    PROVE  IInv'
<1>1. UNCHANGED <<log, cache, hwm, consumer, checkpoint, saving, reads, restarts>>
  BY DEF FailBatch
<1>2. polled \in [Namespaces -> SUBSET (1 .. Len(log))]
  BY DEF IInv, TypeOK
<1>3. polled' \in [Namespaces -> SUBSET (1 .. Len(log))]
  BY <1>2 DEF FailBatch
<1>4. \A m \in Namespaces : polled'[m] = polled[m] \/ polled'[m] = {}
  BY <1>2 DEF FailBatch
<1>5. TypeOK'
  BY <1>1, <1>3 DEF IInv, TypeOK, Positions
<1>6. PolledIsPrefix'
  BY <1>1, <1>4 DEF IInv, PolledIsPrefix
<1>7. HitsCoverConsumer'
  BY <1>1 DEF IInv, HitsCoverConsumer, WrittenIn
<1> QED BY <1>5, <1>6, <1>7 DEF IInv

(* The saved position is not ahead of the consumer's.                      *)
CheckpointBehindConsumer == \A ns \in Namespaces : checkpoint[ns] <= consumer[ns]

(* A restart moves the consumers backwards, which asks less of the cache.  *)
LEMMA RestartStep ==
    ASSUME IInv, CheckpointBehindConsumer, NEW lost \in BOOLEAN,
           NEW graceful \in SUBSET Namespaces, Restart(lost, graceful)
    PROVE  IInv'
<1>1. /\ consumer' = checkpoint'
      /\ checkpoint' \in {SavedPositions(graceful), NoPositions}
      /\ polled' = [ns \in Namespaces |-> {}]
      /\ saving' = [ns \in Namespaces |-> FALSE]
      /\ reads' = [r \in Readers |-> IdleRead]
      /\ cache' = EmptyCache \/ cache' = cache
      /\ hwm' = 0 \/ hwm' = hwm
      /\ restarts' = restarts + 1
      /\ log' = log
  BY DEF Restart
<1>2. Len(log) \in Nat /\ Positions' = Positions /\ 0 \in Positions
  BY <1>1, LengthOfSeq DEF IInv, TypeOK, Positions
<1>3. checkpoint' \in [Namespaces -> Positions]
  BY <1>1, <1>2 DEF IInv, TypeOK, SavedPositions, NoPositions
<1>4. TypeOK'
  BY <1>1, <1>2, <1>3 DEF IInv, TypeOK, EmptyCache, ReadState
<1>5. PolledIsPrefix'
  BY <1>1 DEF PolledIsPrefix
<1>6. \A ns \in Namespaces :
         consumer'[ns] <= consumer[ns] /\ consumer[ns] \in 0 .. Len(log)
         /\ consumer'[ns] \in 0 .. Len(log)
  <2> TAKE ns \in Namespaces
  <2>1. /\ consumer[ns] \in 0 .. Len(log) /\ checkpoint[ns] \in 0 .. Len(log)
        /\ checkpoint[ns] <= consumer[ns]
    BY DEF IInv, TypeOK, CheckpointBehindConsumer, Positions
  <2>2. consumer'[ns] \in {consumer[ns], checkpoint[ns], 0}
    BY <1>1 DEF SavedPositions, NoPositions
  <2> QED BY <1>2, <2>1, <2>2
<1>7. HitsCoverConsumer'
  <2> SUFFICES ASSUME NEW ns \in Namespaces, NEW k \in Keys, cache'[ns][k] # 0,
                      NEW j \in cache'[ns][k] + 1 .. consumer'[ns],
                      log[j].ns = ns, log[j].key = k
               PROVE  FALSE
    BY <1>1, SMTT(30) DEF HitsCoverConsumer, WrittenIn
  <2>1. cache'[ns][k] = cache[ns][k]
    BY <1>1, SMTT(30) DEF EmptyCache
  <2>2. cache[ns][k] \in 0 .. Len(log)
    BY DEF IInv, TypeOK, Positions
  <2>3. j \in cache[ns][k] + 1 .. consumer[ns] /\ j <= Len(log)
    BY <1>2, <1>6, <2>1, <2>2
  <2> QED BY <2>1, <2>3, SMTT(30) DEF IInv, HitsCoverConsumer, WrittenIn
<1> QED BY <1>4, <1>5, <1>7 DEF IInv

(* A read touches nothing but itself.                                      *)
LEMMA ReadsTouchNothing ==
    ASSUME NEW r, StartRead(r) \/ CheckFresh(r) \/ FallBack(r) \/ Lookup(r)
    PROVE  /\ UNCHANGED <<log, cache, hwm, consumer, checkpoint, polled, saving, restarts>>
           /\ \E s : reads' = [reads EXCEPT ![r] = s]
<1>1. CASE StartRead(r)
  BY <1>1, Zenon DEF StartRead
<1>2. CASE CheckFresh(r)
  BY <1>2, Zenon DEF CheckFresh
<1>3. CASE FallBack(r)
  BY <1>3, Zenon DEF FallBack
<1>4. CASE Lookup(r)
  BY <1>4, Zenon DEF Lookup
<1> QED BY <1>1, <1>2, <1>3, <1>4, Zenon

(* Only the projector's write batch touches the cache and the consumer.    *)
LEMMA OnlyApplyWrites ==
    ASSUME NEW ns, Poll(ns) \/ FailBatch(ns) \/ SaveCheckpoint(ns) \/ SkipCheckpoint(ns)
    PROVE  UNCHANGED <<log, cache, hwm, consumer, reads, restarts>>
<1>1. CASE Poll(ns)
  BY <1>1, Zenon DEF Poll
<1>2. CASE FailBatch(ns)
  BY <1>2, Zenon DEF FailBatch
<1>3. CASE SaveCheckpoint(ns)
  BY <1>3, Zenon DEF SaveCheckpoint
<1>4. CASE SkipCheckpoint(ns)
  BY <1>4, Zenon DEF SkipCheckpoint
<1> QED BY <1>1, <1>2, <1>3, <1>4, Zenon

(* A read that has started and not ended has a target and a read version.  *)
LEMMA ActiveRead ==
    ASSUME reads \in [Readers -> ReadState], NEW r \in Readers,
           reads[r].st \in {"started", "fresh"}
    PROVE  /\ reads[r] \in [st : {"started", "fresh"}, target : Target, rv : Nat]
           /\ reads[r].target \in Target
           /\ reads[r].target.ns \in Namespaces
           /\ reads[r].rv \in Nat
<1>1. reads[r] \in ReadState
  OBVIOUS
<1>2. reads[r] \in [st : {"started", "fresh"}, target : Target, rv : Nat]
  BY <1>1 DEF ReadState, IdleRead
<1>3. reads[r].target \in Target /\ reads[r].rv \in Nat
  BY <1>2
<1> QED BY <1>2, <1>3 DEF Target

(* What a lookup that hits returns.                                        *)
LEMMA LookupFacts ==
    ASSUME reads \in [Readers -> ReadState], cache \in [Namespaces -> [Keys -> Positions]],
           Len(log) \in Nat, NEW r \in Readers, Lookup(r)
    PROVE  LET t == reads[r].target IN
           /\ reads[r].st = "fresh"
           /\ reads' \in [Readers -> ReadState]
           /\ reads'[r].st = "hit" /\ reads'[r].target = t /\ reads'[r].rv = reads[r].rv
           /\ \A k \in Keys : reads'[r].found[k] = IF k \in t.keys THEN cache[t.ns][k] ELSE 0
<1> DEFINE t == reads[r].target
           v == reads[r].rv
           found == [k \in Keys |-> IF k \in t.keys THEN cache[t.ns][k] ELSE 0]
           hit == [st |-> "hit", target |-> t, rv |-> v, found |-> found]
<1>1. reads[r].st = "fresh" /\ reads' = [reads EXCEPT ![r] = hit]
  BY Zenon DEF Lookup
<1>2. t \in Target /\ t.ns \in Namespaces /\ v \in Nat
  BY <1>1, ActiveRead
<1>3. \A k \in Keys : found[k] = IF k \in t.keys THEN cache[t.ns][k] ELSE 0
  OBVIOUS
<1>4. found \in [Keys -> Nat]
  <2> HIDE DEF t
  <2> QED BY <1>2 DEF Positions
<1> HIDE DEF t, v, found
<1>5. hit \in ReadState
  BY <1>2, <1>4 DEF ReadState
<1>6. hit.st = "hit" /\ hit.target = t /\ hit.rv = v /\ hit.found = found
  OBVIOUS
<1> HIDE DEF hit
<1>7. reads' \in [Readers -> ReadState] /\ reads'[r] = hit
  BY <1>1, <1>5
<1> QED BY <1>1, <1>3, <1>6, <1>7 DEF t, v

(* A session read writes nothing but its own state.                        *)
LEMMA ReadStep ==
    ASSUME IInv, NEW r \in Readers,
           StartRead(r) \/ CheckFresh(r) \/ FallBack(r) \/ Lookup(r)
    PROVE  IInv' /\ reads' \in [Readers -> ReadState]
<1>1. UNCHANGED <<log, cache, hwm, consumer, checkpoint, polled, saving, restarts>>
  BY ReadsTouchNothing
<1>2. reads \in [Readers -> ReadState] /\ IdleRead \in ReadState
  BY DEF IInv, TypeOK, ReadState
<1>3. reads' \in [Readers -> ReadState]
  <2>1. CASE StartRead(r)
    <3>1. LastVersion \in Nat
      <4>1. Len(log) \in Nat /\ (log # <<>> => Len(log) \in 1 .. Len(log))
        BY LengthOfSeq, EmptyHasNoLength DEF IInv, TypeOK
      <4>2. log # <<>> => log[Len(log)] \in EntryAt(Nat)
        BY <4>1, ElementInSeq DEF IInv, TypeOK
      <4> QED BY <4>2 DEF LastVersion, EntryAt
    <3>2. PICK t \in Target :
             reads' = [reads EXCEPT ![r] = [st |-> "started", target |-> t, rv |-> LastVersion]]
      BY <2>1, Zenon DEF StartRead
    <3>3. [st |-> "started", target |-> t, rv |-> LastVersion] \in ReadState
      BY <3>1 DEF ReadState
    <3> QED BY <1>2, <3>2, <3>3
  <2>2. CASE CheckFresh(r)
    <3>1. reads[r] \in [st : {"started", "fresh"}, target : Target, rv : Nat]
      BY <1>2, <2>2, ActiveRead DEF CheckFresh
    <3>2. [reads[r] EXCEPT !.st = "fresh"] \in ReadState
      BY <3>1 DEF ReadState
    <3>3. reads' = [reads EXCEPT ![r] = [reads[r] EXCEPT !.st = "fresh"]]
      BY <1>2, <2>2 DEF CheckFresh
    <3> QED BY <1>2, <3>2, <3>3
  <2>3. CASE FallBack(r)
    BY <1>2, <2>3 DEF FallBack
  <2>4. CASE Lookup(r)
    <3>1. Len(log) \in Nat /\ cache \in [Namespaces -> [Keys -> Positions]]
      BY LengthOfSeq DEF IInv, TypeOK
    <3> QED BY <1>2, <2>4, <3>1, LookupFacts
  <2> QED BY <2>1, <2>2, <2>3, <2>4
<1>4. TypeOK'
  BY <1>1, <1>3 DEF IInv, TypeOK, Positions
<1>5. PolledIsPrefix' /\ HitsCoverConsumer'
  BY <1>1, SMTT(30) DEF IInv, PolledIsPrefix, HitsCoverConsumer, WrittenIn
<1> QED BY <1>3, <1>4, <1>5 DEF IInv

FullInv == IInv /\ CheckpointBehindConsumer

\* So does the order of saved position and consumer.
LEMMA FullInvInit == Init => FullInv
<1>1. Init => CheckpointBehindConsumer
  BY DEF Init, CheckpointBehindConsumer
<1> QED BY <1>1, InitOK DEF FullInv

(* Every step keeps the invariant.                                         *)
LEMMA FullInvStep ==
    ASSUME PositionFacts, FullInv, [Next]_vars
    PROVE  FullInv'
<1> USE DEF FullInv
<1>1. CASE CommitGroup
  <2>1. CheckpointBehindConsumer'
    BY <1>1 DEF CommitGroup, CheckpointBehindConsumer
  <2> QED BY <1>1, <2>1, CommitStep
<1>2. ASSUME NEW ns \in Namespaces, Poll(ns)
      PROVE  FullInv'
  <2>1. CheckpointBehindConsumer'
    BY <1>2 DEF Poll, CheckpointBehindConsumer
  <2> QED BY <1>2, <2>1, PollStep
<1>3. ASSUME NEW ns \in Namespaces, ApplyAndAck(ns)
      PROVE  FullInv'
  <2>1. /\ LastOf(polled[ns]) > consumer[ns] /\ LastOf(polled[ns]) \in 1 .. Len(log)
        /\ consumer' = [consumer EXCEPT ![ns] = LastOf(polled[ns])]
        /\ checkpoint' = checkpoint
        /\ Len(log) \in Nat
    BY <1>3, ApplyFacts
  <2>2. \A m \in Namespaces : checkpoint[m] \in 0 .. Len(log) /\ consumer[m] \in 0 .. Len(log)
    BY DEF IInv, TypeOK, Positions
  <2>3. consumer \in [Namespaces -> Positions]
    BY DEF IInv, TypeOK
  <2>4. \A m \in Namespaces :
           consumer'[m] = IF m = ns THEN LastOf(polled[ns]) ELSE consumer[m]
    BY <2>1, <2>3
  <2>5. CheckpointBehindConsumer'
    BY <2>1, <2>2, <2>4 DEF CheckpointBehindConsumer
  <2> QED BY <1>3, <2>5, ApplyStep
<1>4. ASSUME NEW ns \in Namespaces, SaveCheckpoint(ns) \/ SkipCheckpoint(ns)
      PROVE  FullInv'
  <2>1. \A m \in Namespaces : checkpoint[m] \in 0 .. Len(log) /\ consumer[m] \in 0 .. Len(log)
    BY DEF IInv, TypeOK, Positions
  <2>2. checkpoint \in [Namespaces -> Positions]
    BY DEF IInv, TypeOK
  <2>3. Len(log) \in Nat
    BY LengthOfSeq DEF IInv, TypeOK
  <2>4. CheckpointBehindConsumer'
    BY <1>4, <2>1, <2>2, <2>3 DEF SaveCheckpoint, SkipCheckpoint, CheckpointBehindConsumer
  <2> QED BY <1>4, <2>4, SaveStep
<1>5. ASSUME NEW lost \in BOOLEAN, NEW graceful \in SUBSET Namespaces,
             Restart(lost, graceful)
      PROVE  FullInv'
  <2>1. consumer' = checkpoint' /\ checkpoint' \in {SavedPositions(graceful), NoPositions}
    BY <1>5 DEF Restart
  <2>2. \A m \in Namespaces : checkpoint[m] \in Int /\ consumer[m] \in Int
    <3>1. Len(log) \in Nat
      BY LengthOfSeq DEF IInv, TypeOK
    <3> QED BY <3>1 DEF IInv, TypeOK, Positions
  <2>3. CheckpointBehindConsumer'
    BY <2>1, <2>2 DEF CheckpointBehindConsumer, SavedPositions, NoPositions
  <2> QED BY <1>5, <2>3, RestartStep
<1>6. ASSUME NEW r \in Readers,
             StartRead(r) \/ CheckFresh(r) \/ FallBack(r) \/ Lookup(r)
      PROVE  FullInv'
  <2>1. CheckpointBehindConsumer'
    BY <1>6, ReadsTouchNothing DEF CheckpointBehindConsumer
  <2> QED BY <1>6, <2>1, ReadStep
<1>7. ASSUME NEW ns \in Namespaces, FailBatch(ns)
      PROVE  FullInv'
  <2>1. CheckpointBehindConsumer'
    BY <1>7 DEF FailBatch, CheckpointBehindConsumer
  <2> QED BY <1>7, <2>1, FailStep
<1>8. CASE UNCHANGED vars
  BY <1>8 DEF vars, IInv, TypeOK, PolledIsPrefix, HitsCoverConsumer, WrittenIn,
              CheckpointBehindConsumer, Positions
<1> QED BY <1>1, <1>2, <1>3, <1>4, <1>5, <1>6, <1>7, <1>8, Zenon DEF Next, Project

----------------------------------------------------------------------------
(* One namespace in the store.                                             *)

OneNamespaceInStore == \A m, n \in Namespaces : m = n

HwmInv == FullInv /\ HitsCoverHwm /\ CheckpointBehindCache

\* The invariant about the high-water mark holds of the empty cache.
LEMMA HwmInvInit == Init => HwmInv
<1>1. Init => HitsCoverHwm /\ CheckpointBehindCache
  BY DEF Init, HitsCoverHwm, CheckpointBehindCache, EmptyCache
<1> QED BY <1>1, FullInvInit DEF HwmInv

(* Nothing but an applied batch or a restart touches the cache, its mark   *)
(* or the consumers; the log only grows.                                   *)
LogGrows ==
    /\ Len(log) \in Nat /\ Len(log') \in Nat /\ Len(log) <= Len(log')
    /\ \A i \in 1 .. Len(log) : log'[i] = log[i]

Frame == UNCHANGED <<cache, hwm, consumer, restarts>> /\ LogGrows

\* Which steps leave the cache, the mark and the consumers alone.
LEMMA FrameSteps ==
    ASSUME FullInv, [Next]_vars
    PROVE  \/ \E ns \in Namespaces : ApplyAndAck(ns)
           \/ \E lost \in BOOLEAN, graceful \in SUBSET Namespaces : Restart(lost, graceful)
           \/ Frame
<1>1. Len(log) \in Nat
  BY LengthOfSeq DEF FullInv, IInv, TypeOK
<1>2. CASE CommitGroup
  BY <1>2, CommitAppends, SMTT(30) DEF CommitGroup, FullInv, IInv, TypeOK, Frame, LogGrows
<1>3. ASSUME NEW ns \in Namespaces, Poll(ns) \/ FailBatch(ns) \/ SaveCheckpoint(ns) \/ SkipCheckpoint(ns)
      PROVE  Frame
  BY <1>1, <1>3, OnlyApplyWrites DEF Frame, LogGrows
<1>4. ASSUME NEW r \in Readers,
             StartRead(r) \/ CheckFresh(r) \/ FallBack(r) \/ Lookup(r)
      PROVE  Frame
  BY <1>1, <1>4, ReadsTouchNothing DEF Frame, LogGrows
<1>5. CASE UNCHANGED vars
  BY <1>1, <1>5 DEF vars, Frame, LogGrows
<1>6. CASE \E graceful \in SUBSET Namespaces :
              Restart(FALSE, graceful) \/ (DiskLoss /\ Restart(TRUE, graceful))
  BY <1>6, Zenon
<1>7. CASE Next
  BY <1>2, <1>3, <1>4, <1>6, <1>7, Zenon DEF Next, Project
<1> QED BY <1>5, <1>7

\* Every step keeps the invariant about the high-water mark.
LEMMA HwmInvStep ==
    ASSUME PositionFacts, OneNamespaceInStore, HwmInv, [Next]_vars
    PROVE  HwmInv'
<1>1. FullInv /\ FullInv'
  BY FullInvStep DEF HwmInv
<1>2. Len(log) \in Nat /\ Len(log') \in Nat
  BY <1>1, LengthOfSeq DEF FullInv, IInv, TypeOK
<1>3. ASSUME NEW ns \in Namespaces, ApplyAndAck(ns)
      PROVE  HitsCoverHwm' /\ CheckpointBehindCache'
  <2>1. hwm' = LastOf(polled[ns]) /\ consumer' = [consumer EXCEPT ![ns] = LastOf(polled[ns])]
    BY <1>1, <1>3, ApplyFacts DEF FullInv
  <2>2. \A m \in Namespaces : consumer'[m] = hwm'
    BY <1>1, <2>1 DEF OneNamespaceInStore, FullInv, IInv, TypeOK
  <2>3. HitsCoverHwm'
    BY <1>1, <2>2, SMTT(30) DEF FullInv, IInv, HitsCoverConsumer, HitsCoverHwm, WrittenIn
  <2>4. \A m \in Namespaces : consumer'[m] \in Int
    BY <1>1, <1>2 DEF FullInv, IInv, TypeOK, Positions
  <2>5. CheckpointBehindCache'
    BY <1>1, <2>2, <2>4 DEF CheckpointBehindCache, FullInv, CheckpointBehindConsumer
  <2> QED BY <2>3, <2>5
<1>4. ASSUME NEW lost \in BOOLEAN, NEW graceful \in SUBSET Namespaces,
             Restart(lost, graceful)
      PROVE  HitsCoverHwm' /\ CheckpointBehindCache'
  <2>1. /\ lost => cache' = EmptyCache /\ hwm' = 0
        /\ ~lost => cache' = cache /\ hwm' = hwm
        /\ consumer' = checkpoint'
        /\ checkpoint' \in {SavedPositions(graceful), NoPositions}
        /\ log' = log
    BY <1>4, SMTT(30) DEF Restart
  <2>2. HitsCoverHwm'
    BY <2>1 DEF HwmInv, HitsCoverHwm, WrittenIn, EmptyCache
  <2>3. \A m \in Namespaces :
           checkpoint[m] \in Int /\ consumer[m] \in Int /\ hwm \in Int
    BY <1>1, <1>2 DEF FullInv, IInv, TypeOK, Positions
  <2>4. CheckpointBehindCache'
    <3>1. hwm # 0 => hwm > 0
      BY <1>1, <1>2 DEF FullInv, IInv, TypeOK, Positions
    <3> QED BY <2>1, <2>3, <3>1 DEF HwmInv, CheckpointBehindCache, SavedPositions, NoPositions
  <2> QED BY <2>2, <2>4
<1>5. ASSUME UNCHANGED <<cache, hwm, consumer, restarts>>,
             Len(log) <= Len(log'),
             \A i \in 1 .. Len(log) : log'[i] = log[i]
      PROVE  HitsCoverHwm' /\ CheckpointBehindCache'
  <2>1. HitsCoverHwm'
    <3> SUFFICES ASSUME NEW ns \in Namespaces, NEW k \in Keys, cache[ns][k] # 0,
                        NEW j \in cache[ns][k] + 1 .. hwm,
                        log'[j].ns = ns, log'[j].key = k
                 PROVE  FALSE
      BY <1>5 DEF HitsCoverHwm, WrittenIn
    <3>1. cache[ns][k] \in 0 .. Len(log) /\ hwm \in 0 .. Len(log)
      BY <1>1 DEF FullInv, IInv, TypeOK, Positions
    <3>2. j \in 1 .. Len(log)
      BY <1>2, <3>1, SMTT(30)
    <3>3. ~ WrittenIn(ns, k, cache[ns][k], hwm)
      BY DEF HwmInv, HitsCoverHwm
    <3> QED BY <1>2, <1>5, <3>2, <3>3 DEF WrittenIn
  <2>2. CheckpointBehindCache'
    BY <1>1, <1>5 DEF HwmInv, CheckpointBehindCache, FullInv, CheckpointBehindConsumer
  <2> QED BY <2>1, <2>2
<1>6. ASSUME Frame PROVE HitsCoverHwm' /\ CheckpointBehindCache'
  BY <1>5, <1>6 DEF Frame, LogGrows
<1>7. HitsCoverHwm' /\ CheckpointBehindCache'
  BY <1>1, <1>3, <1>4, <1>6, FrameSteps
<1> QED BY <1>1, <1>7 DEF HwmInv
=============================================================================
