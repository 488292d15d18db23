-------------------------- MODULE CacheProjection --------------------------
(***************************************************************************)
(* The RocksDB read cache of one server process                            *)
(* (crates/pelago-storage: cdc.rs, consumer.rs, rocks_cache/projector.rs,  *)
(* rocks_cache/store.rs, rocks_cache/read_path.rs; wired up in             *)
(* crates/pelago-server/src/main.rs).                                      *)
(*                                                                         *)
(* Mutations commit to FoundationDB together with an entry of the change   *)
(* log (CDC).  One CdcProjector task per namespace polls the log after the *)
(* position of its consumer, applies the entries to the cache in one       *)
(* RocksDB write batch that also sets the cache's high-water mark, then    *)
(* acknowledges them; the consumer's position is saved to FoundationDB     *)
(* only now and then.  All namespaces of a process share one store and so  *)
(* one high-water mark.  A session read takes an FDB read version, and     *)
(* uses the cache if the high-water mark has reached that version.         *)
(*                                                                         *)
(* Data is abstracted to positions: the cache holds, for every key, the    *)
(* position of the log entry its content comes from (0: not cached).       *)
(***************************************************************************)
EXTENDS Integers, Sequences, FiniteSets

CONSTANTS
    Namespaces, \* scopes the process projects
    NodeKeys,   \* nodes of a namespace
    EdgeKeys,   \* outgoing edges of one source node of a namespace
    Readers,    \* session reads in flight
    PollLimit,  \* projector_batch_size
    GroupSize,  \* most transactions FoundationDB puts into one commit version
    MaxLog,     \* bound: entries in the log
    MaxRestarts,\* bound: restarts of the process
    DiskLoss    \* may a restart come up with an empty cache directory?

ASSUME CacheConstants ==
    /\ PollLimit \in Nat \ {0}
    /\ GroupSize \in Nat \ {0}
    /\ MaxLog \in Nat
    /\ MaxRestarts \in Nat
    /\ DiskLoss \in BOOLEAN

VARIABLES
    log,        \* the CDC entries in versionstamp order
    cache,      \* cache[ns][k]: the position cached for key k, 0 if none
    hwm,        \* META_HWM_KEY of the store, as a position in the log
    consumer,   \* consumer[ns]: CdcConsumer.hwm, in memory
    checkpoint, \* checkpoint[ns]: the position saved in FoundationDB
    polled,     \* polled[ns]: positions returned by poll_batch, not yet applied
    saving,     \* saving[ns]: ack_through has just run and may save
    reads,      \* reads[r]: the state of a session read
    restarts    \* how often the process has restarted

vars == <<log, cache, hwm, consumer, checkpoint, polled, saving, reads, restarts>>

Keys == NodeKeys \cup EdgeKeys
Positions == 0 .. Len(log)

(***************************************************************************)
(* Log entries.  "put" is NodeCreate or EdgeCreate, "update" NodeUpdate or *)
(* OwnershipTransfer, "delete" NodeDelete or EdgeDelete.  `ver` is the     *)
(* commit version, the first eight bytes of the versionstamp: entries of   *)
(* transactions committed in one batch share it.  Any sequence of entries  *)
(* is allowed: besides the local mutations the log holds the operations a  *)
(* replicator mirrors from other sites, repeated if it replays them.       *)
(***************************************************************************)
EntryAt(versions) ==
    [ns : Namespaces, key : NodeKeys, op : {"put", "update", "delete"}, ver : versions]
    \cup [ns : Namespaces, key : EdgeKeys, op : {"put", "delete"}, ver : versions]

LastVersion == IF log = <<>> THEN 0 ELSE log[Len(log)].ver
VersionOf(pos) == IF pos = 0 THEN 0 ELSE log[pos].ver

EmptyCache == [ns \in Namespaces |-> [k \in Keys |-> 0]]
IdleRead == [st |-> "idle"]

Init ==
    /\ log = <<>>
    /\ cache = EmptyCache
    /\ hwm = 0
    /\ consumer = [ns \in Namespaces |-> 0]
    /\ checkpoint = [ns \in Namespaces |-> 0]
    /\ polled = [ns \in Namespaces |-> {}]
    /\ saving = [ns \in Namespaces |-> FALSE]
    /\ reads = [r \in Readers |-> IdleRead]
    /\ restarts = 0

----------------------------------------------------------------------------
(* FoundationDB: a commit version becomes visible with all its entries.    *)

CommitGroup ==
    \E n \in 1 .. GroupSize :
        /\ Len(log) + n <= MaxLog
        /\ \E es \in [1 .. n -> EntryAt({LastVersion + 1})] :
              log' = log \o es
        /\ UNCHANGED <<cache, hwm, consumer, checkpoint, polled, saving,
                       reads, restarts>>

----------------------------------------------------------------------------
(* The projector of a namespace.                                           *)

Pending(ns, after) == {i \in after + 1 .. Len(log) : log[i].ns = ns}

\* read_cdc_entries: positions of the namespace after `after`, at most
\* `limit` of them, the oldest first.
ReadCdcEntries(ns, after, limit) ==
    {i \in Pending(ns, after) :
        Cardinality({j \in Pending(ns, after) : j < i}) < limit}

LastOf(S) == CHOOSE i \in S : \A j \in S : j <= i

\* Mutant: the consumer moves when entries are polled, not when they are applied.
PollAndAck(ns) ==
    /\ polled[ns] = {}
    /\ ~saving[ns]
    /\ Pending(ns, consumer[ns]) # {}
    /\ polled' = [polled EXCEPT ![ns] = ReadCdcEntries(ns, consumer[ns], PollLimit)]
    /\ consumer' = [consumer EXCEPT ![ns] = LastOf(polled'[ns])]
    /\ UNCHANGED <<log, cache, hwm, checkpoint, saving, reads, restarts>>

\* poll_batch, non-empty answer.
Poll(ns) ==
    /\ polled[ns] = {}
    /\ ~saving[ns]
    /\ Pending(ns, consumer[ns]) # {}
    /\ polled' = [polled EXCEPT ![ns] = ReadCdcEntries(ns, consumer[ns], PollLimit)]
    /\ UNCHANGED <<log, cache, hwm, consumer, checkpoint, saving, reads, restarts>>

\* Mutant: an update is dropped although the node is cached.
AfterOpsWithoutUpdates(before, k, es) ==
    LET resets == {i \in es : log[i].key = k /\ log[i].op # "update"}
    IN  IF resets = {} THEN before
        ELSE IF log[LastOf(resets)].op = "put" THEN LastOf(resets) ELSE 0

\* What applying the entries `es` leaves under key k where `before` was
\* cached: a put stores, a delete removes, an update changes what is cached
\* (or staged earlier in the batch) and is dropped when nothing is.
AfterOps(before, k, es) ==
    LET touching == {i \in es : log[i].key = k}
        resets == {i \in touching : log[i].op # "update"}
        base == IF resets = {} THEN before
                ELSE IF log[LastOf(resets)].op = "put" THEN LastOf(resets) ELSE 0
    IN  IF touching = {} THEN before
        ELSE IF base = 0 THEN 0 ELSE LastOf(touching)

\* While a full batch comes back and its drain window allows, the projector
\* polls again before it applies.  poll_batch does not move the consumer, so
\* every further poll returns the same entries and the batch holds them
\* several times over.
AfterDrain(before, k, es, again) ==
    IF again THEN AfterOps(AfterOps(before, k, es), k, es) ELSE AfterOps(before, k, es)

\* Mutant: a projector that never acknowledges what it applied.
ApplyOnly(ns) ==
    LET es == polled[ns] IN
    /\ es # {}
    /\ cache' = [cache EXCEPT ![ns] =
                    [k \in Keys |-> AfterDrain(cache[ns][k], k, es, FALSE)]]
    /\ hwm' = LastOf(es)
    /\ polled' = [polled EXCEPT ![ns] = {}]
    /\ saving' = [saving EXCEPT ![ns] = TRUE]
    /\ UNCHANGED <<log, consumer, checkpoint, reads, restarts>>

\* Mutant: the batch sets the high-water mark to the end of the log.
ApplyAndMarkLatest(ns) ==
    LET es == polled[ns] IN
    /\ es # {}
    /\ cache' = [cache EXCEPT ![ns] =
                    [k \in Keys |-> AfterDrain(cache[ns][k], k, es, FALSE)]]
    /\ hwm' = Len(log)
    /\ consumer' = [consumer EXCEPT ![ns] = LastOf(es)]
    /\ polled' = [polled EXCEPT ![ns] = {}]
    /\ saving' = [saving EXCEPT ![ns] = TRUE]
    /\ UNCHANGED <<log, checkpoint, reads, restarts>>

\* apply_cdc_operations: one write batch for the entries and the high-water
\* mark; ack_through then moves the consumer, in memory.
ApplyAndAck(ns) ==
    LET es == polled[ns] IN
    /\ es # {}
    /\ \E again \in {FALSE, Cardinality(es) = PollLimit} :
          cache' = [cache EXCEPT ![ns] =
                       [k \in Keys |-> AfterDrain(cache[ns][k], k, es, again)]]
    /\ hwm' = LastOf(es)
    /\ consumer' = [consumer EXCEPT ![ns] = IF LastOf(es) > @ THEN LastOf(es) ELSE @]
    /\ polled' = [polled EXCEPT ![ns] = {}]
    /\ saving' = [saving EXCEPT ![ns] = TRUE]
    /\ UNCHANGED <<log, checkpoint, reads, restarts>>

\* Mutant: saves the position to read next instead of the last one applied.
SaveNextPosition(ns) ==
    /\ saving[ns]
    /\ checkpoint' = [checkpoint EXCEPT ![ns] = consumer[ns] + 1]
    /\ saving' = [saving EXCEPT ![ns] = FALSE]
    /\ UNCHANGED <<log, cache, hwm, consumer, polled, reads, restarts>>

\* ack_through, the checkpoint interval has elapsed: save_hwm.
SaveCheckpoint(ns) ==
    /\ saving[ns]
    /\ checkpoint' = [checkpoint EXCEPT ![ns] = consumer[ns]]
    /\ saving' = [saving EXCEPT ![ns] = FALSE]
    /\ UNCHANGED <<log, cache, hwm, consumer, polled, reads, restarts>>

\* ... it has not, or the write failed.
SkipCheckpoint(ns) ==
    /\ saving[ns]
    /\ saving' = [saving EXCEPT ![ns] = FALSE]
    /\ UNCHANGED <<log, cache, hwm, consumer, checkpoint, polled, reads, restarts>>

\* A poll of the drain or the write batch fails: what was polled is dropped and
\* the loop polls again.
FailBatch(ns) ==
    /\ polled[ns] # {}
    /\ polled' = [polled EXCEPT ![ns] = {}]
    /\ UNCHANGED <<log, cache, hwm, consumer, checkpoint, saving, reads, restarts>>

SavedPositions(graceful) ==
    [ns \in Namespaces |-> IF ns \in graceful THEN consumer[ns] ELSE checkpoint[ns]]
NoPositions == [ns \in Namespaces |-> 0]

\* The process stops at any point and starts again: the projectors in
\* `graceful` still save their position when told to shut down (run), then
\* CdcConsumer::new loads the positions saved under the consumer's name, of
\* which there are none when projector_instance_id falls back to the number of
\* the process.  The store is reopened, or is empty if its directory did not
\* survive.
Restart(lost, graceful) ==
    \E loaded \in {SavedPositions(graceful), NoPositions} :
        /\ restarts < MaxRestarts
        /\ restarts' = restarts + 1
        /\ checkpoint' = loaded
        /\ consumer' = loaded
        /\ polled' = [ns \in Namespaces |-> {}]
        /\ saving' = [ns \in Namespaces |-> FALSE]
        /\ reads' = [r \in Readers |-> IdleRead]
        /\ cache' = IF lost THEN EmptyCache ELSE cache
        /\ hwm' = IF lost THEN 0 ELSE hwm
        /\ UNCHANGED log

----------------------------------------------------------------------------
(* Session reads.  kind "node": get_node of one key; kind "list": the      *)
(* outgoing edges of one source, all of EdgeKeys.                          *)

Target == [kind : {"node"}, ns : Namespaces, keys : {{k} : k \in NodeKeys}]
          \cup [kind : {"list"}, ns : Namespaces, keys : {EdgeKeys}]

\* get_read_version: no commit made before the call is missing from it.
StartRead(r) ==
    /\ reads[r].st \in {"idle", "hit"}
    /\ \E t \in Target :
          reads' = [reads EXCEPT ![r] = [st |-> "started", target |-> t, rv |-> LastVersion]]
    /\ UNCHANGED <<log, cache, hwm, consumer, checkpoint, polled, saving, restarts>>

\* Mutant: any non-empty cache counts as fresh.
SessionWarm(rv) == hwm # 0

\* session_cache_state_for_read_version == Fresh.
SessionFresh(rv) == hwm # 0 /\ VersionOf(hwm) >= rv

CheckFresh(r) ==
    /\ reads[r].st = "started"
    /\ SessionFresh(reads[r].rv)
    /\ reads' = [reads EXCEPT ![r].st = "fresh"]
    /\ UNCHANGED <<log, cache, hwm, consumer, checkpoint, polled, saving, restarts>>

\* Cold or stale cache, freshness budget exceeded, or an undecodable value:
\* the caller reads FoundationDB.
FallBack(r) ==
    /\ \/ reads[r].st = "started" /\ ~ SessionFresh(reads[r].rv)
       \/ reads[r].st = "fresh"
    /\ reads' = [reads EXCEPT ![r] = IdleRead]
    /\ UNCHANGED <<log, cache, hwm, consumer, checkpoint, polled, saving, restarts>>

\* The lookup is a second read of the store.  It hits if it finds anything;
\* an absent node or an empty listing is a miss, and FoundationDB is read.
Lookup(r) ==
    LET t == reads[r].target
        found == [k \in Keys |-> IF k \in t.keys THEN cache[t.ns][k] ELSE 0]
    IN  /\ reads[r].st = "fresh"
        /\ \E k \in t.keys : found[k] # 0
        /\ reads' = [reads EXCEPT ![r] =
                        [st |-> "hit", target |-> t, rv |-> @.rv, found |-> found]]
        /\ UNCHANGED <<log, cache, hwm, consumer, checkpoint, polled, saving, restarts>>

----------------------------------------------------------------------------
Project(ns) == Poll(ns) \/ ApplyAndAck(ns) \/ SaveCheckpoint(ns) \/ SkipCheckpoint(ns)

Next ==
    \/ CommitGroup
    \/ \E ns \in Namespaces : Project(ns) \/ FailBatch(ns)
    \/ \E graceful \in SUBSET Namespaces : Restart(FALSE, graceful)
    \/ \E graceful \in SUBSET Namespaces : DiskLoss /\ Restart(TRUE, graceful)
    \/ \E r \in Readers : StartRead(r) \/ CheckFresh(r) \/ FallBack(r) \/ Lookup(r)

Spec == Init /\ [][Next]_vars

\* The projector task loops for ever: its steps are taken when they can be, and
\* a batch that is polled again and again is applied in the end (run warns of an
\* error, sleeps a second and tries again).
FairSpec ==
    Spec /\ \A ns \in Namespaces : WF_vars(Project(ns)) /\ SF_vars(ApplyAndAck(ns))

----------------------------------------------------------------------------
ReadState ==
    {IdleRead}
    \cup [st : {"started", "fresh"}, target : Target, rv : Nat]
    \cup [st : {"hit"}, target : Target, rv : Nat,
          found : [Keys -> Nat]]

\* The type invariant.  Every position that is cached, marked, consumed or
\* saved (set_hwm, save_hwm) is a position of the log.
TypeOK ==
    /\ log \in Seq(EntryAt(Nat))
    /\ cache \in [Namespaces -> [Keys -> Positions]]
    /\ hwm \in Positions
    /\ consumer \in [Namespaces -> Positions]
    /\ checkpoint \in [Namespaces -> Positions]
    /\ polled \in [Namespaces -> SUBSET (1 .. Len(log))]
    /\ saving \in [Namespaces -> BOOLEAN]
    /\ restarts \in Nat
    /\ reads \in [Readers -> ReadState]

\* Does an entry after position `pos` and up to position `upto` write key k?
WrittenIn(ns, k, pos, upto) ==
    \E j \in pos + 1 .. upto : j <= Len(log) /\ log[j].ns = ns /\ log[j].key = k

\* What is cached for a key is never older than the position of the
\* namespace's consumer: every write up to that position is in it.  Holds
\* across restarts that replay entries, lost cache directories and any number
\* of namespaces in the store, so a key that is found is current up to there.
HitsCoverConsumer ==
    \A ns \in Namespaces, k \in Keys :
        cache[ns][k] # 0 => ~ WrittenIn(ns, k, cache[ns][k], consumer[ns])

\* With one namespace in the store, what is cached is never older than the
\* cache's high-water mark either, although a restart replays entries and
\* moves the mark backwards, and a lost directory resets it.
HitsCoverHwm ==
    \A ns \in Namespaces, k \in Keys :
        cache[ns][k] # 0 => ~ WrittenIn(ns, k, cache[ns][k], hwm)

\* With one namespace in the store, the saved position never runs ahead of
\* what a non-empty cache has absorbed, so a restart that finds the cache
\* repeats entries and never skips one.
CheckpointBehindCache ==
    \A ns \in Namespaces :
        /\ checkpoint[ns] <= consumer[ns]
        /\ hwm # 0 => consumer[ns] <= hwm

\* What a session read must include: every write of a commit version before its
\* read version, and the first one of the read version itself.  FoundationDB
\* gives the transactions it commits together one version; the mark has that
\* version as soon as the first of them is applied, and the comparison of
\* versions (read_path.rs) cannot tell whether a batch ended among them.
Due(i, rv) == log[i].ver <= rv /\ \A h \in 1 .. i - 1 : log[h].ver < rv

\* A session read answered from the cache returns, for every key it returns,
\* content that includes every write due at the read version taken when the
\* read began.  (read_path.rs, get_node: "Session consistency requires the cache
\* to be at least as fresh as the current FDB read version.")
SessionHitFresh ==
    \A r \in Readers : reads[r].st = "hit" =>
        \A k \in Keys : reads[r].found[k] # 0 =>
            ~ \E j \in reads[r].found[k] + 1 .. Len(log) :
                /\ log[j].ns = reads[r].target.ns
                /\ log[j].key = k
                /\ Due(j, reads[r].rv)

\* A session listing answered from the cache contains every edge whose put was
\* due at the read version and that has not been written since.
SessionListComplete ==
    \A r \in Readers :
        (reads[r].st = "hit" /\ reads[r].target.kind = "list") =>
            \A i \in 1 .. Len(log) :
                (/\ log[i].ns = reads[r].target.ns
                 /\ log[i].key \in EdgeKeys
                 /\ log[i].op = "put"
                 /\ Due(i, reads[r].rv)
                 /\ ~ WrittenIn(log[i].ns, log[i].key, i, Len(log)))
                => reads[r].found[log[i].key] # 0

\* What sessions are promised, as far as it goes: with one namespace in the
\* store, session reads served by a process that has not restarted on an old
\* cache are fresh and complete but for the later transactions of the very
\* version they read at.  Where every transaction has a version of its own that
\* is all writes up to the read version.
SessionGuarantee == restarts = 0 => (SessionHitFresh /\ SessionListComplete)

\* If commits stop, every projector catches up with the log, restarts
\* included: the loop of project_batch never gets stuck on a batch.
EventuallyProjected ==
    \A ns \in Namespaces :
        (Len(log) = MaxLog) ~> (\A i \in 1 .. Len(log) : log[i].ns = ns => i <= consumer[ns])

=============================================================================
