----------------------- MODULE CacheProjectionProofs -----------------------
(***************************************************************************)
(* Session reads of CacheProjection, and the theorems that rest on the     *)
(* step lemmas of CacheProjectionSteps and of this module.                 *)
(***************************************************************************)
EXTENDS CacheProjectionSteps

----------------------------------------------------------------------------
(* Sessions: one namespace in the store and a process that has not         *)
(* restarted.                                                              *)

VersionsIncrease ==
    \A i, j \in 1 .. Len(log) : i < j => log[i].ver <= log[j].ver

\* The read version of a read is one the database has reached.
ReadsBounded == \A r \in Readers : reads[r].st # "idle" => reads[r].rv <= LastVersion

\* An edge or node whose last write up to the consumer is a put is cached.
PutsAreCached ==
    \A ns \in Namespaces, i \in 1 .. Len(log) :
        (/\ i <= consumer[ns]
         /\ log[i].ns = ns
         /\ log[i].op = "put"
         /\ ~ WrittenIn(ns, log[i].key, i, consumer[ns]))
        => cache[ns][log[i].key] # 0

HwmIsConsumer == \A ns \in Namespaces : hwm = consumer[ns]

FreshReadsStayFresh == \A r \in Readers : reads[r].st = "fresh" => SessionFresh(reads[r].rv)

Undisturbed ==
    /\ PutsAreCached
    /\ HwmIsConsumer
    /\ FreshReadsStayFresh
    /\ SessionHitFresh
    /\ SessionListComplete

SInv ==
    /\ HwmInv
    /\ VersionsIncrease
    /\ ReadsBounded
    /\ restarts = 0 => Undisturbed

\* The invariant about session reads holds initially.
LEMMA SInvInit == Init => SInv
<1> SUFFICES ASSUME Init PROVE SInv
  OBVIOUS
<1>1. log = <<>> /\ Len(log) = 0
  BY EmptyHasNoLength DEF Init
<1>2. VersionsIncrease /\ PutsAreCached
  BY <1>1 DEF VersionsIncrease, PutsAreCached
<1>3. \A r \in Readers : reads[r].st = "idle"
  BY DEF Init, IdleRead
<1>4. ReadsBounded /\ FreshReadsStayFresh /\ SessionHitFresh /\ SessionListComplete
  BY <1>3, SMTT(30) DEF ReadsBounded, FreshReadsStayFresh, SessionHitFresh, SessionListComplete
<1>5. HwmIsConsumer
  BY DEF Init, HwmIsConsumer
<1> QED BY <1>2, <1>4, <1>5, HwmInvInit DEF SInv, Undisturbed

(* Versions are numbers and the last one is the greatest.                  *)
LEMMA VersionFacts ==
    ASSUME log \in Seq(EntryAt(Nat)), VersionsIncrease
    PROVE  /\ Len(log) \in Nat
           /\ LastVersion \in Nat
           /\ \A i \in 1 .. Len(log) : log[i].ver \in Nat /\ log[i].ver <= LastVersion
<1>1. Len(log) \in Nat
  BY LengthOfSeq
<1>2. \A i \in 1 .. Len(log) : log[i] \in EntryAt(Nat)
  BY <1>1, ElementInSeq
<1>3. \A i \in 1 .. Len(log) : log[i].ver \in Nat
  BY <1>2 DEF EntryAt
<1>4. CASE log = <<>>
  BY <1>4, <1>1, EmptyHasNoLength DEF LastVersion
<1>5. CASE log # <<>>
  <2>1. Len(log) \in 1 .. Len(log) /\ LastVersion = log[Len(log)].ver
    BY <1>1, <1>5, EmptyHasNoLength DEF LastVersion
  <2>2. \A i \in 1 .. Len(log) : log[i].ver <= LastVersion
    <3> TAKE i \in 1 .. Len(log)
    <3>1. CASE i = Len(log)
      BY <1>3, <2>1, <3>1
    <3>2. CASE i < Len(log)
      BY <1>3, <2>1, <3>2 DEF VersionsIncrease
    <3> QED BY <1>1, <3>1, <3>2
  <2> QED BY <1>1, <1>3, <2>1, <2>2
<1> QED BY <1>4, <1>5

SessionParts == VersionsIncrease /\ ReadsBounded /\ (restarts = 0 => Undisturbed)

(* A commit version after every read version taken so far.                 *)
LEMMA SessionCommit ==
    ASSUME SInv, CommitGroup
    PROVE  SessionParts'
<1>1. /\ log \in Seq(EntryAt(Nat)) /\ VersionsIncrease
      /\ cache \in [Namespaces -> [Keys -> Positions]] /\ hwm \in Positions
      /\ consumer \in [Namespaces -> Positions] /\ reads \in [Readers -> ReadState]
  BY DEF SInv, HwmInv, FullInv, IInv, TypeOK
<1>2. UNCHANGED <<cache, hwm, consumer, checkpoint, polled, saving, reads, restarts>>
  BY DEF CommitGroup
<1> DEFINE n == Len(log)
<1>3. /\ n \in Nat /\ Len(log') \in Nat /\ n < Len(log')
      /\ log' \in Seq(EntryAt(Nat))
      /\ \A i \in 1 .. n : log'[i] = log[i]
      /\ \A i \in n + 1 .. Len(log') : log'[i].ver = LastVersion + 1
  BY <1>1, CommitAppends
<1>4. /\ LastVersion \in Nat
      /\ \A i \in 1 .. n : log[i].ver \in Nat /\ log[i].ver <= LastVersion
  BY <1>1, VersionFacts
<1>5. \A i \in 1 .. Len(log') : i \in 1 .. n \/ i \in n + 1 .. Len(log')
  BY <1>3
<1>6. VersionsIncrease'
  <2> SUFFICES ASSUME NEW i \in 1 .. Len(log'), NEW j \in 1 .. Len(log'), i < j
               PROVE  log'[i].ver <= log'[j].ver
    BY DEF VersionsIncrease
  <2>1. CASE j \in 1 .. n
    <3>1. i \in 1 .. n
      BY <1>3, <2>1
    <3> QED BY <1>1, <1>3, <2>1, <3>1, SMTT(30) DEF VersionsIncrease
  <2>2. CASE i \in 1 .. n /\ j \in n + 1 .. Len(log')
    BY <1>3, <1>4, <2>2
  <2>3. CASE i \in n + 1 .. Len(log') /\ j \in n + 1 .. Len(log')
    BY <1>3, <1>4, <2>3
  <2>4. j \in n + 1 .. Len(log') => i \in 1 .. n \/ i \in n + 1 .. Len(log')
    BY <1>5
  <2> QED BY <1>5, <2>1, <2>2, <2>3, <2>4
<1>7. LastVersion' \in Nat /\ LastVersion <= LastVersion'
  <2>1. log' # <<>>
    BY <1>3, EmptyHasNoLength
  <2>2. LastVersion' = log'[Len(log')].ver /\ Len(log') \in n + 1 .. Len(log')
    BY <1>3, <2>1 DEF LastVersion
  <2> QED BY <1>3, <1>4, <2>2
<1>8. ReadsBounded'
  <2> SUFFICES ASSUME NEW r \in Readers, reads[r].st # "idle"
               PROVE  reads[r].rv <= LastVersion'
    BY <1>2 DEF ReadsBounded
  <2>1. reads[r].rv \in Nat /\ reads[r].rv <= LastVersion
    BY <1>1, SMTT(30) DEF SInv, ReadsBounded, ReadState, IdleRead
  <2> QED BY <1>4, <1>7, <2>1
<1>9. ASSUME NEW i \in 1 .. Len(log'), NEW rv \in Nat, rv <= LastVersion,
             log'[i].ver <= rv, \A h \in 1 .. i - 1 : log'[h].ver < rv
      PROVE  i \in 1 .. n /\ Due(i, rv)
  <2>2. i \in 1 .. n
    <3> SUFFICES ASSUME i \in n + 1 .. Len(log') PROVE FALSE
      BY <1>5
    <3>1. log'[i].ver = LastVersion + 1
      BY <1>3
    <3> QED BY <1>4, <1>9, <3>1
  <2>3. log'[i] = log[i] /\ \A h \in 1 .. i - 1 : h \in 1 .. n /\ log'[h] = log[h]
    BY <1>3, <2>2
  <2> QED BY <1>9, <2>2, <2>3 DEF Due
<1>10. ASSUME restarts = 0 PROVE Undisturbed'
  <2>1. Undisturbed
    BY <1>10 DEF SInv
  <2>2. PutsAreCached'
    <3> SUFFICES ASSUME NEW ns \in Namespaces, NEW i \in 1 .. Len(log'),
                        i <= consumer[ns], log'[i].ns = ns, log'[i].op = "put",
                        ~ WrittenIn(ns, log[i].key, i, consumer[ns])'
                 PROVE  cache[ns][log'[i].key] # 0
      BY <1>2, SMTT(30) DEF PutsAreCached
    <3>1. consumer[ns] \in 0 .. n
      BY <1>1 DEF Positions
    <3>2. i \in 1 .. n /\ log'[i] = log[i]
      BY <1>3, <3>1, SMTT(30)
    <3>3. ~ WrittenIn(ns, log[i].key, i, consumer[ns])
      <4> SUFFICES ASSUME NEW j \in i + 1 .. consumer[ns], log[j].ns = ns,
                          log[j].key = log[i].key
                   PROVE  FALSE
        BY DEF WrittenIn
      <4>1. j \in 1 .. n
        BY <1>3, <3>1, <3>2, SMTT(30)
      <4> QED BY <1>2, <1>3, <3>2, <4>1, SMTT(30) DEF WrittenIn
    <3> QED BY <2>1, <3>2, <3>3, SMTT(30) DEF Undisturbed, PutsAreCached
  <2>3. HwmIsConsumer'
    BY <1>2, <2>1 DEF Undisturbed, HwmIsConsumer
  <2>4. FreshReadsStayFresh'
    <3>1. VersionOf(hwm)' = VersionOf(hwm)
      BY <1>1, <1>2, <1>3 DEF VersionOf, Positions
    <3> QED BY <1>2, <2>1, <3>1 DEF Undisturbed, FreshReadsStayFresh, SessionFresh
  <2>5. SessionHitFresh'
    <3> SUFFICES ASSUME NEW r \in Readers, reads[r].st = "hit", NEW k \in Keys,
                        reads[r].found[k] # 0,
                        NEW j \in reads[r].found[k] + 1 .. Len(log'),
                        log'[j].ns = reads[r].target.ns, log'[j].key = k,
                        log'[j].ver <= reads[r].rv,
                        \A h \in 1 .. j - 1 : log'[h].ver < reads[r].rv
                 PROVE  FALSE
      BY <1>2, SMTT(30) DEF SessionHitFresh, Due
    <3>1. reads[r].rv \in Nat /\ reads[r].found[k] \in Nat
      BY <1>1, SMTT(30) DEF ReadState, IdleRead
    <3>2. reads[r].rv <= LastVersion
      BY SMTT(30) DEF SInv, ReadsBounded
    <3>3. j \in 1 .. n /\ Due(j, reads[r].rv)
      <4>1. j \in 1 .. Len(log')
        BY <1>3, <3>1, SMTT(30)
      <4> QED BY <1>9, <3>1, <3>2, <4>1
    <3>4. j \in reads[r].found[k] + 1 .. n
      BY <1>3, <3>1, <3>3
    <3> QED BY <1>3, <2>1, <3>3, <3>4, SMTT(30) DEF Undisturbed, SessionHitFresh
  <2>6. SessionListComplete'
    <3> SUFFICES ASSUME NEW r \in Readers, reads[r].st = "hit",
                        reads[r].target.kind = "list", NEW i \in 1 .. Len(log'),
                        log'[i].ns = reads[r].target.ns, log'[i].key \in EdgeKeys,
                        log'[i].op = "put", log'[i].ver <= reads[r].rv,
                        \A h \in 1 .. i - 1 : log'[h].ver < reads[r].rv,
                        ~ WrittenIn(log[i].ns, log[i].key, i, Len(log))'
                 PROVE  reads[r].found[log'[i].key] # 0
      BY <1>2, SMTT(30) DEF SessionListComplete, Due
    <3>1. reads[r].rv \in Nat /\ reads[r].rv <= LastVersion
      BY <1>1, SMTT(30) DEF ReadState, IdleRead, SInv, ReadsBounded
    <3>2. i \in 1 .. n /\ log'[i] = log[i] /\ Due(i, reads[r].rv)
      BY <1>3, <1>9, <3>1
    <3>3. ~ WrittenIn(log[i].ns, log[i].key, i, Len(log))
      <4> SUFFICES ASSUME NEW j \in i + 1 .. n, log[j].ns = log[i].ns,
                          log[j].key = log[i].key
                   PROVE  FALSE
        BY SMTT(30) DEF WrittenIn
      <4>1. j \in 1 .. n /\ j \in i + 1 .. Len(log') /\ j <= Len(log')
        BY <1>3, <3>2, SMTT(30)
      <4> QED BY <1>3, <3>2, <4>1, SMTT(30) DEF WrittenIn
    <3> QED BY <2>1, <3>2, <3>3, SMTT(30) DEF Undisturbed, SessionListComplete
  <2> QED BY <2>2, <2>3, <2>4, <2>5, <2>6 DEF Undisturbed
<1> QED BY <1>2, <1>6, <1>8, <1>10 DEF SessionParts

(* An applied batch: nothing pending up to the new mark is left out.       *)
LEMMA SessionApply ==
    ASSUME PositionFacts, OneNamespaceInStore, SInv, NEW ns \in Namespaces, ApplyAndAck(ns)
    PROVE  SessionParts'
<1> DEFINE es == polled[ns]
           last == LastOf(polled[ns])
           After(k) == AfterOps(cache[ns][k], k, polled[ns])
<1>0. IInv
  BY DEF SInv, HwmInv, FullInv
<1>1. /\ Len(log) \in Nat
      /\ es \in SUBSET (1 .. Len(log))
      /\ last \in es
      /\ \A j \in es : j <= last
      /\ last > consumer[ns]
      /\ hwm' = last
      /\ consumer' = [consumer EXCEPT ![ns] = last]
      /\ cache' = [cache EXCEPT ![ns] = [k \in Keys |-> After(k)]]
      /\ UNCHANGED <<log, checkpoint, reads, restarts>>
  BY <1>0, ApplyFacts, SMTT(30)
<1>2. \A j \in consumer[ns] + 1 .. last : log[j].ns = ns => j \in es
  <2>1. last \in 1 .. Len(log) /\ consumer[ns] \in 0 .. Len(log)
    BY <1>0, <1>1, SMTT(30) DEF IInv, TypeOK, Positions
  <2> QED BY <1>0, <1>1, <2>1, SMTT(30) DEF IInv, PolledIsPrefix
<1>3. last \in 1 .. Len(log) /\ consumer[ns] \in 0 .. Len(log) /\ hwm \in 0 .. Len(log)
  BY <1>0, <1>1 DEF IInv, TypeOK, Positions
<1>4. \A m \in Namespaces : m = ns
  BY DEF OneNamespaceInStore
<1>5. /\ consumer'[ns] = last
      /\ \A k \in Keys : cache'[ns][k] = After(k)
  BY <1>0, <1>1 DEF IInv, TypeOK
<1>6. VersionsIncrease' /\ ReadsBounded'
  BY <1>1, SMTT(30) DEF SInv, VersionsIncrease, ReadsBounded, LastVersion
<1>7. ASSUME restarts = 0 PROVE Undisturbed'
  <2>1. Undisturbed
    BY <1>7 DEF SInv
  <2>2. PutsAreCached'
    <3> SUFFICES ASSUME NEW i \in 1 .. Len(log), i <= last,
                        log[i].ns = ns, log[i].op = "put",
                        ~ WrittenIn(ns, log[i].key, i, last)
                 PROVE  cache'[ns][log[i].key] # 0
      <4> HIDE DEF last
      <4>1. \A i \in Nat : WrittenIn(ns, log[i].key, i, consumer[ns])'
                          <=> WrittenIn(ns, log[i].key, i, last)
        BY <1>1, <1>5, SMTT(30) DEF WrittenIn
      <4>0. log' = log
        BY <1>1, Zenon
      <4> SUFFICES ASSUME NEW m \in Namespaces, NEW i \in 1 .. Len(log),
                          i <= consumer'[m], log[i].ns = m, log[i].op = "put",
                          ~ WrittenIn(m, log[i].key, i, consumer[m])'
                   PROVE  cache'[m][log[i].key] # 0
        BY <4>0, Zenon DEF PutsAreCached
      <4>2. m = ns /\ i \in Nat
        BY <1>4, SMTT(30)
      <4>3. i <= last /\ log[i].ns = ns
        BY <1>5, <4>2, SMTT(30)
      <4>4. ~ WrittenIn(ns, log[i].key, i, last)
        BY <4>1, <4>2, SMTT(30)
      <4> QED BY <4>2, <4>3, <4>4, SMTT(30)
    <3> DEFINE k == log[i].key
               touching == {j \in es : log[j].key = k}
               resets == {j \in touching : log[j].op # "update"}
    <3>1. k \in Keys
      <4>1. log[i] \in EntryAt(Nat)
        BY <1>0, ElementInSeq, SMTT(30) DEF IInv, TypeOK
      <4> QED BY <4>1, SMTT(30) DEF EntryAt, Keys
    <3>2. \A j \in 1 .. Len(log) : (j > i /\ j <= last /\ log[j].ns = ns) => log[j].key # k
      <4> HIDE DEF last
      <4> QED BY <1>1, <1>3, SMTT(30) DEF WrittenIn
    <3>3. \A j \in touching : j \in 1 .. Len(log) /\ j <= i /\ j > consumer[ns]
      <4> SUFFICES ASSUME NEW j \in touching
                   PROVE  j \in 1 .. Len(log) /\ j <= i /\ j > consumer[ns]
        BY SMTT(30)
      <4>1. j \in 1 .. Len(log) /\ j <= last /\ log[j].key = k
        BY <1>1, SMTT(30)
      <4>2. log[j].ns = ns /\ j > consumer[ns]
        BY <1>0, SMTT(30) DEF IInv, PolledIsPrefix
      <4> QED BY <3>2, <4>1, <4>2, SMTT(30)
    <3>4. CASE i > consumer[ns]
      <4>1. i \in resets
        <5> HIDE DEF last
        <5> QED BY <1>2, <1>3, <3>4, SMTT(30)
      <4>2. LastOf(resets) = i /\ LastOf(touching) = i
        <5>1. resets \in SUBSET (1 .. Len(log)) /\ touching \in SUBSET (1 .. Len(log))
          BY <1>1, SMTT(30)
        <5>2. \A j \in touching : j <= i
          BY <3>3, SMTT(30)
        <5>3. i \in touching /\ resets \subseteq touching
          BY <4>1, SMTT(30)
        <5> HIDE DEF touching, resets
        <5>4. LastOf(resets) \in resets /\ LastOf(resets) >= i
          BY <1>1, <4>1, <5>1, LastOfIsLast, Zenon
        <5>5. LastOf(touching) \in touching /\ LastOf(touching) >= i
          BY <1>1, <5>1, <5>3, LastOfIsLast, Zenon
        <5>6. LastOf(resets) <= i /\ LastOf(touching) <= i
          BY <5>2, <5>3, <5>4, <5>5, SMTT(30)
        <5>7. LastOf(resets) \in Int /\ LastOf(touching) \in Int
          <6>1. LastOf(resets) \in 1 .. Len(log) /\ LastOf(touching) \in 1 .. Len(log)
            BY <5>1, <5>4, <5>5, Zenon
          <6> QED BY <6>1
        <5> QED BY <5>4, <5>5, <5>6, <5>7, SMTT(30)
      <4>3. After(k) = i
        BY <4>1, <4>2, SMTT(30) DEF AfterOps
      <4> QED BY <1>5, <3>1, <4>3, SMTT(30)
    <3>5. CASE i <= consumer[ns]
      <4>1. touching = {}
        <5> HIDE DEF touching, last
        <5> QED BY <1>1, <1>3, <3>3, <3>5
      <4>2. After(k) = cache[ns][k]
        BY <4>1, SMTT(30) DEF AfterOps
      <4>3. ~ WrittenIn(ns, k, i, consumer[ns])
        <5> HIDE DEF last
        <5> QED BY <1>1, <1>3, <3>2, SMTT(30) DEF WrittenIn
      <4>4. cache[ns][k] # 0
        BY <2>1, <3>5, <4>3, SMTT(30) DEF Undisturbed, PutsAreCached
      <4> QED BY <1>5, <3>1, <4>2, <4>4, SMTT(30)
    <3> QED BY <1>3, <3>4, <3>5, SMTT(30)
  <2>3. HwmIsConsumer'
    BY <1>1, <1>4, <1>5, SMTT(30) DEF HwmIsConsumer
  <2>4. FreshReadsStayFresh'
    <3> SUFFICES ASSUME NEW r \in Readers, reads[r].st = "fresh"
                 PROVE  SessionFresh(reads[r].rv)'
      BY <1>1, SMTT(30) DEF FreshReadsStayFresh
    <3>1. reads[r].rv \in Nat
      BY <1>0, SMTT(30) DEF IInv, TypeOK, ReadState, IdleRead
    <3>2. hwm # 0 /\ VersionOf(hwm) >= reads[r].rv
      BY <2>1, SMTT(30) DEF Undisturbed, FreshReadsStayFresh, SessionFresh
    <3>3. hwm < last
      BY <1>1, <2>1, SMTT(30) DEF Undisturbed, HwmIsConsumer
    <3>4. hwm \in 1 .. Len(log) /\ log[hwm].ver <= log[last].ver
      <4> HIDE DEF last
      <4> QED BY <1>1, <1>3, <3>2, <3>3, SMTT(30) DEF SInv, VersionsIncrease
    <3>5. log[hwm].ver \in Nat /\ log[last].ver \in Nat
      BY <1>0, <1>3, <3>4, VersionFacts, SMTT(30) DEF SInv, IInv, TypeOK
    <3>6. last # 0
      BY <1>3, SMTT(30)
    <3> HIDE DEF last
    <3> QED BY <1>1, <3>1, <3>2, <3>4, <3>5, <3>6, SMTT(30) DEF SessionFresh, VersionOf
  <2>5. SessionHitFresh' /\ SessionListComplete'
    BY <1>1, <2>1, SMTT(30) DEF Undisturbed, SessionHitFresh, SessionListComplete, WrittenIn, Due
  <2> QED BY <2>2, <2>3, <2>4, <2>5 DEF Undisturbed
<1> QED BY <1>1, <1>6, <1>7, SMTT(30) DEF SessionParts

(* Polling, saving and doing nothing leave sessions alone.                 *)
LEMMA SessionQuiet ==
    ASSUME SInv, UNCHANGED <<log, cache, hwm, consumer, reads, restarts>>
    PROVE  SessionParts'
<1>1. VersionsIncrease' /\ ReadsBounded'
  BY DEF SInv, VersionsIncrease, ReadsBounded, LastVersion
<1>2. ASSUME restarts = 0 PROVE Undisturbed'
  <2>1. Undisturbed
    BY <1>2 DEF SInv
  <2>2. PutsAreCached' /\ HwmIsConsumer' /\ FreshReadsStayFresh'
    BY <2>1, SMTT(30) DEF Undisturbed, PutsAreCached, HwmIsConsumer, FreshReadsStayFresh,
                SessionFresh, VersionOf, WrittenIn
  <2>3. SessionHitFresh' /\ SessionListComplete'
    BY <2>1, SMTT(30) DEF Undisturbed, SessionHitFresh, SessionListComplete, WrittenIn, Due
  <2> QED BY <2>2, <2>3 DEF Undisturbed
<1> QED BY <1>1, <1>2 DEF SessionParts

(* After a restart nothing is claimed but that reads start afresh.         *)
LEMMA SessionRestart ==
    ASSUME SInv, NEW lost, NEW graceful, Restart(lost, graceful)
    PROVE  SessionParts'
<1>1. log' = log /\ reads' = [r \in Readers |-> IdleRead] /\ restarts' = restarts + 1
  BY SMTT(30) DEF Restart
<1>2. restarts \in Nat
  BY DEF SInv, HwmInv, FullInv, IInv, TypeOK
<1>3. VersionsIncrease' /\ ReadsBounded'
  BY <1>1, SMTT(30) DEF SInv, VersionsIncrease, ReadsBounded, IdleRead
<1> QED BY <1>1, <1>2, <1>3 DEF SessionParts

(* A read: what the lookup finds covers the mark, which has reached the    *)
(* read version.                                                           *)
LEMMA SessionRead ==
    ASSUME OneNamespaceInStore, SInv, NEW r \in Readers,
           StartRead(r) \/ CheckFresh(r) \/ FallBack(r) \/ Lookup(r)
    PROVE  SessionParts'
<1>0. IInv /\ HitsCoverHwm /\ VersionsIncrease
  BY DEF SInv, HwmInv, FullInv
<1>1. UNCHANGED <<log, cache, hwm, consumer, restarts>>
  BY ReadsTouchNothing
<1>2. /\ Len(log) \in Nat /\ LastVersion \in Nat
      /\ \A i \in 1 .. Len(log) : log[i].ver \in Nat /\ log[i].ver <= LastVersion
  BY <1>0, VersionFacts, SMTT(30) DEF IInv, TypeOK
<1>3. reads \in [Readers -> ReadState] /\ reads' \in [Readers -> ReadState]
  BY <1>0, ReadStep, SMTT(30) DEF IInv, TypeOK
<1>4. \A q \in Readers : q # r => reads'[q] = reads[q]
  BY <1>3, ReadsTouchNothing
<1>5. /\ StartRead(r) => reads'[r].st = "started" /\ reads'[r].rv = LastVersion
      /\ CheckFresh(r) => /\ reads'[r].st = "fresh" /\ reads'[r].rv = reads[r].rv
                          /\ reads[r].st = "started" /\ SessionFresh(reads[r].rv)
      /\ FallBack(r) => reads'[r].st = "idle"
  <2>1. StartRead(r) => reads'[r].st = "started" /\ reads'[r].rv = LastVersion
    BY <1>3, SMTT(30) DEF StartRead
  <2>2. ASSUME CheckFresh(r)
        PROVE  /\ reads'[r].st = "fresh" /\ reads'[r].rv = reads[r].rv
               /\ reads[r].st = "started" /\ SessionFresh(reads[r].rv)
    <3>1. reads[r] \in [st : {"started", "fresh"}, target : Target, rv : Nat]
      BY <1>3, <2>2, ActiveRead DEF CheckFresh
    <3> QED BY <1>3, <2>2, <3>1 DEF CheckFresh
  <2>3. FallBack(r) => reads'[r].st = "idle"
    BY <1>3, SMTT(30) DEF FallBack, IdleRead
  <2> QED BY <2>1, <2>2, <2>3, SMTT(30)
<1> DEFINE t == reads[r].target
<1>6. ASSUME Lookup(r)
      PROVE  /\ reads[r].st = "fresh"
             /\ reads'[r].st = "hit" /\ reads'[r].target = t /\ reads'[r].rv = reads[r].rv
             /\ \A k \in Keys : reads'[r].found[k] = IF k \in t.keys THEN cache[t.ns][k] ELSE 0
  <2>1. cache \in [Namespaces -> [Keys -> Positions]]
    BY <1>0 DEF IInv, TypeOK
  <2> QED BY <1>2, <1>3, <1>6, <2>1, LookupFacts
<1> HIDE DEF t
<1>7. VersionsIncrease'
  BY <1>0, <1>1, SMTT(30) DEF VersionsIncrease
<1>8. ReadsBounded'
  <2> SUFFICES ASSUME NEW q \in Readers, reads'[q].st # "idle"
               PROVE  reads'[q].rv <= LastVersion
    BY <1>1, SMTT(30) DEF ReadsBounded, LastVersion
  <2>1. CASE q # r
    BY <1>4, <2>1 DEF SInv, ReadsBounded
  <2>2. CASE q = r
    <3>1. reads[r].st # "idle" => reads[r].rv <= LastVersion
      BY SMTT(30) DEF SInv, ReadsBounded
    <3> QED BY <1>2, <1>5, <1>6, <2>2, <3>1
  <2> QED BY <2>1, <2>2, SMTT(30)
<1>9. ASSUME restarts = 0 PROVE Undisturbed'
  <2>1. Undisturbed
    BY <1>9 DEF SInv
  <2>2. PutsAreCached' /\ HwmIsConsumer'
    BY <1>1, <2>1, SMTT(30) DEF Undisturbed, PutsAreCached, HwmIsConsumer, WrittenIn
  <2>3. FreshReadsStayFresh'
    <3> SUFFICES ASSUME NEW q \in Readers, reads'[q].st = "fresh"
                 PROVE  SessionFresh(reads'[q].rv)
      BY <1>1, SMTT(30) DEF FreshReadsStayFresh, SessionFresh, VersionOf
    <3>1. CASE q # r
      BY <1>4, <2>1, <3>1, SMTT(30) DEF Undisturbed, FreshReadsStayFresh
    <3>2. CASE q = r
      BY <1>5, <1>6, <3>2
    <3> QED BY <3>1, <3>2, SMTT(30)
  <2>4. ASSUME Lookup(r)
        PROVE  /\ reads[r].rv \in Nat /\ t \in Target /\ t.ns \in Namespaces
               /\ hwm \in 1 .. Len(log) /\ log[hwm].ver >= reads[r].rv
               /\ hwm = consumer[t.ns]
               /\ \A j \in 1 .. Len(log) : Due(j, reads[r].rv) => j <= hwm
    <3>2. reads[r].rv \in Nat /\ t \in Target /\ t.ns \in Namespaces
      BY <1>3, <1>6, <2>4, ActiveRead DEF t
    <3>3. SessionFresh(reads[r].rv)
      BY <1>6, <2>1, <2>4, SMTT(30) DEF Undisturbed, FreshReadsStayFresh
    <3>4. hwm \in 0 .. Len(log)
      BY <1>0 DEF IInv, TypeOK, Positions
    <3>5. hwm \in 1 .. Len(log) /\ log[hwm].ver >= reads[r].rv
      BY <1>2, <3>3, <3>4 DEF SessionFresh, VersionOf
    <3>6. ASSUME NEW j \in 1 .. Len(log), Due(j, reads[r].rv)
          PROVE  j <= hwm
      <4>1. ASSUME hwm < j PROVE FALSE
        <5>1. hwm \in 1 .. j - 1
          BY <1>2, <3>5, <4>1
        <5>2. log[hwm].ver < reads[r].rv /\ log[hwm].ver \in Nat
          BY <1>2, <3>5, <3>6, <5>1 DEF Due
        <5> QED BY <3>2, <3>5, <5>2
      <4> QED BY <1>2, <3>5, <4>1, SMTT(30)
    <3> QED BY <2>1, <3>2, <3>5, <3>6, Zenon DEF Undisturbed, HwmIsConsumer
  <2>5. SessionHitFresh'
    <3> SUFFICES ASSUME NEW q \in Readers, reads'[q].st = "hit", NEW k \in Keys,
                        reads'[q].found[k] # 0,
                        NEW j \in reads'[q].found[k] + 1 .. Len(log),
                        log[j].ns = reads'[q].target.ns, log[j].key = k,
                        Due(j, reads'[q].rv)
                 PROVE  FALSE
      BY <1>1, SMTT(30) DEF SessionHitFresh, Due
    <3>1. CASE q # r
      BY <1>4, <2>1, <3>1, SMTT(30) DEF Undisturbed, SessionHitFresh
    <3>2. CASE q = r
      <4>1. Lookup(r)
        BY <1>5, <3>2, Zenon
      <4>2. /\ reads'[q].found[k] = cache[t.ns][k] /\ reads'[q].rv = reads[r].rv
            /\ reads'[q].target = t
        BY <1>6, <3>2, <4>1
      <4>3. cache[t.ns][k] \in 0 .. Len(log)
        BY <1>0, <2>4, <4>1, Zenon DEF IInv, TypeOK, Positions
      <4>4. j \in 1 .. Len(log) /\ j <= hwm
        BY <1>2, <2>4, <4>1, <4>2, <4>3, SMTT(30)
      <4>5. WrittenIn(t.ns, k, cache[t.ns][k], hwm)
        BY <1>2, <2>4, <4>1, <4>2, <4>3, <4>4, SMTT(30) DEF WrittenIn
      <4> QED BY <1>0, <2>4, <4>1, <4>2, <4>5, Zenon DEF HitsCoverHwm
    <3> QED BY <3>1, <3>2, SMTT(30)
  <2>6. SessionListComplete'
    <3> SUFFICES ASSUME NEW q \in Readers, reads'[q].st = "hit",
                        reads'[q].target.kind = "list", NEW i \in 1 .. Len(log),
                        log[i].ns = reads'[q].target.ns, log[i].key \in EdgeKeys,
                        log[i].op = "put", Due(i, reads'[q].rv),
                        ~ WrittenIn(log[i].ns, log[i].key, i, Len(log))
                 PROVE  reads'[q].found[log[i].key] # 0
      BY <1>1, Zenon DEF SessionListComplete, WrittenIn, Due
    <3>1. CASE q # r
      <4>1. reads'[q] = reads[q]
        BY <1>4, <3>1, Zenon
      <4> QED BY <2>1, <4>1, Zenon DEF Undisturbed, SessionListComplete
    <3>2. CASE q = r
      <4>1. Lookup(r)
        BY <1>5, <3>2, Zenon
      <4>2. reads'[q].rv = reads[r].rv /\ reads'[q].target = t
        BY <1>6, <3>2, <4>1
      <4>3. log[i].key \in t.keys /\ log[i].key \in Keys
        BY <2>4, <4>1, <4>2, Zenon DEF Target, Keys
      <4>4. i <= consumer[t.ns] /\ log[i].ns = t.ns
        BY <2>4, <4>1, <4>2, SMTT(30)
      <4>5. ~ WrittenIn(t.ns, log[i].key, i, consumer[t.ns])
        BY <1>2, <2>4, <4>1, <4>4, SMTT(30) DEF WrittenIn
      <4>6. cache[t.ns][log[i].key] # 0
        BY <2>1, <2>4, <4>1, <4>4, <4>5, SMTT(30) DEF Undisturbed, PutsAreCached
      <4> QED BY <1>6, <3>2, <4>1, <4>3, <4>6
    <3> QED BY <3>1, <3>2, SMTT(30)
  <2> QED BY <2>2, <2>3, <2>5, <2>6 DEF Undisturbed
<1> QED BY <1>1, <1>7, <1>8, <1>9 DEF SessionParts

\* Every step keeps the invariant about session reads.
LEMMA SInvStep ==
    ASSUME PositionFacts, OneNamespaceInStore, SInv, [Next]_vars
    PROVE  SInv'
<1>1. HwmInv'
  BY HwmInvStep DEF SInv
<1>2. CASE CommitGroup
  BY <1>1, <1>2, SessionCommit DEF SInv, SessionParts
<1>3. ASSUME NEW ns \in Namespaces, Poll(ns) \/ FailBatch(ns) \/ SaveCheckpoint(ns) \/ SkipCheckpoint(ns)
      PROVE  SInv'
  <2>1. UNCHANGED <<log, cache, hwm, consumer, reads, restarts>>
    BY <1>3, OnlyApplyWrites
  <2> QED BY <1>1, <2>1, SessionQuiet DEF SInv, SessionParts
<1>4. ASSUME NEW ns \in Namespaces, ApplyAndAck(ns)
      PROVE  SInv'
  BY <1>1, <1>4, SessionApply DEF SInv, SessionParts
<1>5. ASSUME NEW lost, NEW graceful, Restart(lost, graceful)
      PROVE  SInv'
  BY <1>1, <1>5, SessionRestart DEF SInv, SessionParts
<1>6. ASSUME NEW r \in Readers,
             StartRead(r) \/ CheckFresh(r) \/ FallBack(r) \/ Lookup(r)
      PROVE  SInv'
  BY <1>1, <1>6, SessionRead DEF SInv, SessionParts
<1>7. CASE UNCHANGED vars
  <2>1. UNCHANGED <<log, cache, hwm, consumer, reads, restarts>>
    BY <1>7 DEF vars
  <2> QED BY <1>1, <2>1, SessionQuiet DEF SInv, SessionParts
<1>8. CASE Next
  BY <1>2, <1>3, <1>4, <1>5, <1>6, <1>8, Zenon DEF Next, Project
<1> QED BY <1>7, <1>8

----------------------------------------------------------------------------
(* The facts about sets of positions.                                      *)

INSTANCE FiniteSetTheorems
INSTANCE WellFoundedInduction

\* A non-empty set of positions has a last one.
LEMMA HasLastHolds == HasLast
<1> SUFFICES ASSUME NEW n \in Nat, NEW S \in SUBSET (1 .. n), S # {}
             PROVE  LastOf(S) \in S /\ \A j \in S : j <= LastOf(S)
  BY Zenon DEF HasLast
<1> DEFINE T == {n - i : i \in S}
<1>1. T \subseteq Nat /\ T # {}
  <2>1. \A i \in S : n - i \in Nat
    OBVIOUS
  <2>2. PICK i \in S : TRUE
    BY Zenon
  <2>3. n - i \in T
    OBVIOUS
  <2> QED BY <2>1, <2>3
<1>2. \E x \in T : \A y \in T : ~ (<<y, x>> \in OpToRel(<, Nat))
  <2> HIDE DEF T
  <2> QED BY <1>1, WFMin, NatLessThanWellFounded, Zenon
<1>3. PICK x \in T : \A y \in T : ~ (y < x)
  <2>1. \A x, y \in T : y < x => <<y, x>> \in OpToRel(<, Nat)
    <3> HIDE DEF T
    <3> QED BY <1>1 DEF OpToRel
  <2> HIDE DEF T
  <2> QED BY <1>2, <2>1, Zenon
<1>4. PICK i \in S : x = n - i
  BY <1>3
<1>5. \A j \in S : j <= i
  <2> TAKE j \in S
  <2>1. n - j \in T
    OBVIOUS
  <2> HIDE DEF T
  <2>2. ~ (n - j < n - i)
    BY <1>3, <1>4, <2>1
  <2>3. i \in Int /\ j \in Int
    OBVIOUS
  <2> QED BY <2>2, <2>3
<1> QED BY <1>5, Zenon DEF LastOf

\* A subset of a set of positions has no more elements than the set.
LEMMA SubsetIsSmallerHolds == SubsetIsSmaller
<1> SUFFICES ASSUME NEW n \in Nat, NEW S \in SUBSET (1 .. n), NEW T \in SUBSET S
             PROVE  /\ Cardinality(S) \in Nat
                    /\ Cardinality(T) \in Nat
                    /\ Cardinality(T) <= Cardinality(S)
  BY Zenon DEF SubsetIsSmaller
<1>1. IsFiniteSet(1 .. n)
  BY FS_Interval
<1>2. IsFiniteSet(S)
  BY <1>1, FS_Subset
<1>3. IsFiniteSet(T) /\ Cardinality(T) <= Cardinality(S)
  BY <1>2, FS_Subset, Zenon
<1> QED BY <1>2, <1>3, FS_CardinalityType

\* Both facts, as the lemmas above assume them.
LEMMA PositionFactsHold == PositionFacts
BY HasLastHolds, SubsetIsSmallerHolds DEF PositionFacts

----------------------------------------------------------------------------
(* The theorems.                                                           *)

\* The inductive invariant behind CacheCoversConsumer holds in every state.
THEOREM AlwaysFullInv == Spec => []FullInv
<1>1. FullInv /\ [Next]_vars => FullInv'
  BY FullInvStep, PositionFactsHold
<1> QED BY <1>1, FullInvInit, PTL DEF Spec

(* The state of the cache is well typed and, for every number of           *)
(* namespaces sharing the store and whatever restarts and losses of the    *)
(* cache directory happen, a key found in the cache is current up to the   *)
(* position its projector has acknowledged.                                *)
THEOREM CacheCoversConsumer == Spec => [](TypeOK /\ HitsCoverConsumer)
<1>1. FullInv => TypeOK /\ HitsCoverConsumer
  BY DEF FullInv, IInv
<1> QED BY <1>1, AlwaysFullInv, PTL

\* With one namespace in the store, that invariant holds in every state.
THEOREM AlwaysHwmInv == ASSUME OneNamespaceInStore PROVE Spec => []HwmInv
<1>1. HwmInv /\ [Next]_vars => HwmInv'
  BY HwmInvStep, PositionFactsHold
<1> QED BY <1>1, HwmInvInit, PTL DEF Spec

(* With one namespace in the store, what is found in the cache is current  *)
(* up to the cache's own high-water mark, and the position a restart       *)
(* resumes from is never ahead of a non-empty cache.                       *)
THEOREM CacheCoversHwm ==
    ASSUME OneNamespaceInStore
    PROVE  Spec => [](HitsCoverHwm /\ CheckpointBehindCache)
<1>1. HwmInv => HitsCoverHwm /\ CheckpointBehindCache
  BY DEF HwmInv
<1> QED BY <1>1, AlwaysHwmInv, PTL

(* With one namespace in the store, every session read a process serves    *)
(* from its cache before it restarts includes every write of a commit      *)
(* version before its read version and the first write of the read version *)
(* itself, and every listing has the edges put by them.  That holds for    *)
(* any number of transactions in a commit version and whatever the         *)
(* interleaving of commits, polls, write batches and the two lookups of a  *)
(* read.                                                                   *)
THEOREM SessionsAreConsistent ==
    ASSUME OneNamespaceInStore
    PROVE  Spec => []SessionGuarantee
<1>1. SInv /\ [Next]_vars => SInv'
  BY SInvStep, PositionFactsHold
<1>2. SInv => SessionGuarantee
  BY DEF SInv, Undisturbed, SessionGuarantee
<1> QED BY <1>1, <1>2, SInvInit, PTL DEF Spec

(* consumer.rs: the checkpoint a restarted consumer resumes from is never  *)
(* ahead of a cache that holds anything, with one namespace in the store.  *)
THEOREM CheckpointsAreBehind ==
    ASSUME OneNamespaceInStore
    PROVE  Spec => []CheckpointBehindCache
BY CacheCoversHwm, PTL

(* The cache, the consumer and the reads keep their types.                 *)
THEOREM TypeCorrect == Spec => []TypeOK
BY CacheCoversConsumer, PTL
=============================================================================
