-------------------------------- MODULE Jobs --------------------------------
(***************************************************************************)
(* Background jobs and the administration requests that need them          *)
(* (crates/pelago-storage/src/jobs.rs, job_worker.rs, job_executor.rs and  *)
(* crates/pelago-api/src/admin_service.rs), composed with Records.         *)
(*                                                                         *)
(* Every server process runs a worker over one job table.  A worker lists  *)
(* the jobs that are pending or running, and executes its copies of them   *)
(* one after the other, batch by batch: a batch is read in one transaction *)
(* and written in another.  Nothing claims a job, so that several workers  *)
(* execute it at once, and each writes its own copy back.                  *)
(*                                                                         *)
(* Edge keys are modelled for one label: forward, metadata and reverse     *)
(* keys, with their mirrors when the label is bidirectional.  The schema   *)
(* and index keys of a type fit into one batch.                            *)
(***************************************************************************)
EXTENDS Records

CONSTANTS
    Type,          \* the entity type that Records is about
    Edges,         \* the edges stored at the beginning, no two opposite
    KeyOrder,      \* all pairs of nodes, in the order of the keys
    Bidirectional, \* is the label bidirectional?
    BatchSize,     \* the worker's batch size
    ScanLimit,     \* rows of the job table that find_actionable_jobs reads
    SaveEvery,     \* progress is saved when this divides the processed items, which
                   \* are counted modulo it
    InlineEdges,   \* C4_INLINE_CASCADE_MAX_EDGES
    TxKeys,        \* C4_TX_MAX_MUTATED_KEYS
    Consumers,     \* consumers of the CDC log
    Scenarios,     \* what the store holds at the beginning, and what is asked of it
    MaxFaults      \* bound: crashes, abandoned and failed jobs

ASSUME JobConstants ==
    /\ BatchSize \in Nat \ {0}
    /\ ScanLimit \in Nat \ {0}
    /\ SaveEvery \in Nat \ {0}
    /\ InlineEdges \in Nat
    /\ TxKeys \in Nat
    /\ MaxFaults \in Nat
    /\ Bidirectional \in BOOLEAN

VARIABLES
    fwd, meta, rev, \* edge keys, each as the pair of its first and second node
    log,            \* positions of the CDC log that are still stored
    aged,           \* entries up to this position are older than the retention time
    checkpoint,     \* checkpoint[c]: the position that consumer c has saved, or -1
    stocked,        \* history: stocked[c], the entries there were when consumer c saved
                    \* its first checkpoint, less those about to be deleted then
    worker,         \* worker[s]: what the worker of process s is doing
    faults,         \* faults so far
    dropping,       \* history: has the type been dropped, how, and written since?
    misled          \* history: backfills that went by a schema without their index

edges == <<fwd, meta, rev>>
history == <<dropping, misled>>
cdc == <<log, aged, checkpoint, stocked>>
vars == <<latest, versions, cache, settings, data, index, terms, df, docs, jobs, todo, task,
          owed, by, raced, fwd, meta, rev, log, aged, checkpoint, stocked, worker, faults,
          dropping, misled>>

Mirror(e) == [src |-> e.tgt, tgt |-> e.src]

\* compute_edge_keys.  A reverse key is filed under the target.
KeysOf(e) == IF Bidirectional THEN {e, Mirror(e)} ELSE {e}

\* What the drop of a type and the cleanup of orphans clear for the metadata rows es.
Clear(forward, metadata, reverse) ==
    /\ fwd' = fwd \ forward
    /\ meta' = meta \ metadata
    /\ rev' = rev \ reverse

Of(n) == [type |-> Type, id |-> n]
FromType(S) == {e \in S : e.src.type = Type}
ToType(S) == {e \in S : e.tgt.type = Type}

----------------------------------------------------------------------------
(* Administration (admin_service.rs) and node_service's delete.            *)

\* estimate_delete_scope: the edges listed from both sides, each once, and the keys
\* of each; too much for one request makes a job of it, or an error.
Original(e) == IF e \in Edges THEN e ELSE Mirror(e)
Incident(n) ==
    {Original(e) : e \in {f \in fwd : f.src = Of(n)}}
    \cup {Original(e) : e \in {r \in rev : r.tgt = Of(n) /\ r \in Edges}}
DeleteTooLarge(n) ==
    LET es == Incident(n)
    IN  \/ Cardinality(es) > InlineEdges
        \/ 2 + Cardinality(es) * (IF Bidirectional THEN 5 ELSE 3) > TxKeys

RequestDelete(t) ==
    /\ Accept(t, "delete")
    /\ LET r == Head(todo[t])
       IN  \/ /\ DeleteTooLarge(r.id)
              /\ r.async
              /\ CreateJobs(<<NewJob("cascade", r.id)>>)
              /\ UNCHANGED task
           \/ /\ DeleteTooLarge(r.id)
              /\ ~r.async
              /\ UNCHANGED <<table, task>>
           \/ /\ ~DeleteTooLarge(r.id)
              /\ AskSchema(t, r)
              /\ UNCHANGED table
    /\ UNCHANGED <<registry, record, edges, cdc, worker, faults, history>>

\* delete_node: the record, then its edges (GraphStore has the steps of that).
ClearIncident(n) ==
    LET es == UNION {KeysOf(e) : e \in Incident(n)}
    IN  Clear(es, Incident(n), es)

WriteDelete(t) ==
    /\ task[t].pc = "write"
    /\ task[t].req.op = "delete"
    /\ Delete(task[t].req.id, task[t].schema.def, task[t].old)
    /\ Goto(t, [task[t] EXCEPT !.pc = "edges"])
    /\ UNCHANGED <<registry, jobs, todo, edges, cdc, worker, faults, history>>

DeleteEdges(t) ==
    /\ task[t].pc = "edges"
    /\ ClearIncident(task[t].req.id)
    /\ Finish(t)
    /\ UNCHANGED <<registry, record, table, todo, cdc, worker, faults, history>>

\* strip_property
RequestStrip(t) ==
    /\ Accept(t, "strip")
    /\ CreateJobs(<<NewJob("strip", Head(todo[t]).prop)>>)
    /\ UNCHANGED <<registry, record, task, edges, cdc, worker, faults, history>>

\* drop_index: the entries of one property.  Term postings have another prefix.
DropIndex(t) ==
    /\ Accept(t, "dropIndex")
    /\ index' = {e \in index : e.prop # Head(todo[t]).prop}
    /\ by' = [n \in Ids |-> NoDef]
    /\ owed' = [j \in DOMAIN owed |-> {}]
    /\ UNCHANGED <<registry, data, terms, df, docs, raced, jobs, task, edges, cdc,
                   worker, faults, history>>

\* drop_entity_type counts the keys it would clear, and makes a job of too many.
SchemaKeys == (IF latest = 0 THEN {} ELSE {0}) \cup {v \in DOMAIN versions : versions[v] # NoDef}
DropSize ==
    Cardinality(SchemaKeys) + Cardinality(Live)
    + Cardinality(index) + Cardinality(terms) + Cardinality(DOMAIN df) + (IF docs > 0 THEN 1 ELSE 0)
    + Cardinality(FromType(fwd)) + Cardinality(FromType(meta)) + Cardinality(ToType(rev))
    + 2 * Cardinality(ToType(meta))

RequestDrop(t) ==
    /\ Accept(t, "dropType")
    /\ \/ /\ DropSize > TxKeys
          /\ Head(todo[t]).async
          /\ CreateJobs(<<NewJob("drop", Type)>>)
          /\ UNCHANGED task
       \/ /\ DropSize > TxKeys
          /\ ~Head(todo[t]).async
          /\ UNCHANGED <<table, task>>
       \/ /\ DropSize <= TxKeys
          /\ Goto(t, [pc |-> "drop", step |-> 0])
          /\ UNCHANGED table
    /\ dropping' = IF dropping = "no" THEN "begun" ELSE dropping
    /\ UNCHANGED <<registry, record, edges, cdc, worker, faults, misled>>

\* What the steps of a drop clear: schema, data, index, forward keys.  The caches
\* keep their schema.
DropSchema(vs) ==
    /\ latest' = IF 0 \in vs THEN 0 ELSE latest
    /\ versions' = [v \in DOMAIN versions |-> IF v \in vs THEN NoDef ELSE versions[v]]
    /\ UNCHANGED <<cache, settings>>

DropData(ns) ==
    /\ data' = [n \in Ids |-> IF n \in ns THEN NoRecord ELSE data[n]]
    /\ owed' = [j \in DOMAIN owed |-> owed[j] \ ns]
    /\ by' = [n \in Ids |-> IF n \in ns THEN NoDef ELSE by[n]]
    /\ raced' = raced \cup ns

DropEntries ==
    /\ index' = {}
    /\ terms' = {}
    /\ df' = <<>>
    /\ docs' = 0
    /\ by' = [n \in Ids |-> NoDef]
    /\ owed' = [j \in DOMAIN owed |-> {}]
    /\ raced' = Ids

Dropped(how) == dropping' = IF dropping = "begun" THEN how ELSE dropping

\* The edges of drop_entity_type, in the order of the code: forward keys by source,
\* reverse keys by source (found through the metadata), everything by target (found
\* through the metadata; not the mirrored forward keys), metadata by source, reverse
\* keys by target.
DropEdges(step) ==
    \/ step = 3 /\ Clear(FromType(fwd), {}, {})
    \/ step = 4 /\ Clear({}, {}, FromType(meta))
    \/ /\ step = 5
       /\ LET es == ToType(meta)
          IN  Clear(es, es, es \cup {Mirror(e) : e \in es})
    \/ step = 6 /\ Clear({}, FromType(meta), {})
    \/ step = 7 /\ Clear({}, {}, ToType(rev))

DropStep(t) ==
    /\ task[t].pc = "drop"
    /\ \/ task[t].step = 0 /\ DropSchema(SchemaKeys) /\ UNCHANGED <<record, owed, edges>>
       \/ /\ task[t].step = 1
          /\ DropData(Live)
          /\ UNCHANGED <<registry, index, terms, df, docs, edges>>
       \/ task[t].step = 2 /\ DropEntries /\ UNCHANGED <<registry, data, edges>>
       \/ DropEdges(task[t].step) /\ UNCHANGED <<registry, record, owed>>
    /\ IF task[t].step = 7 THEN Finish(t) /\ Dropped("inline")
       ELSE Goto(t, [task[t] EXCEPT !.step = @ + 1]) /\ UNCHANGED dropping
    /\ UNCHANGED <<jobs, todo, cdc, worker, faults, misled>>

\* drop_namespace clears every key of the namespace, the job table, the log and the
\* checkpoints among them.  A worker in the middle of a job writes its copy back later.
DropNamespace(t) ==
    /\ Accept(t, "dropNamespace")
    /\ latest' = 0
    /\ versions' = [v \in DOMAIN versions |-> NoDef]
    /\ settings' = [owner |-> NoSite, epoch |-> 0]
    /\ data' = [n \in Ids |-> IF n \in Live THEN NoRecord ELSE data[n]]
    /\ DropEntries
    /\ jobs' = [j \in DOMAIN jobs |-> [jobs[j] EXCEPT !.status = "gone"]]
    /\ Clear(fwd, meta, rev)
    /\ log' = {}
    /\ checkpoint' = [c \in Consumers |-> -1]
    /\ stocked' = [c \in Consumers |-> {}]
    /\ UNCHANGED <<cache, task, aged, worker, faults, history>>

----------------------------------------------------------------------------
(* The worker loop (job_worker.rs).                                        *)

Polling == [pc |-> "poll"]
At(s, pc) == worker[s].pc = pc
Become(s, w) == worker' = [worker EXCEPT ![s] = w]
\* Mutant: only new jobs are looked for.
OnlyPending(j) == j.status = "pending"

Actionable(j) == j.status \in {"pending", "running"}
outside == <<registry, record, todo, task, edges, cdc>>

\* find_actionable_jobs: copies of the jobs among the first rows of the table, in the
\* order of their identifiers.  Jobs that are over stay in the table.
Stored(j) == jobs[j].status # "gone"
Listed(j) == Stored(j) /\ Cardinality({i \in 1..(j - 1) : Stored(i)}) < ScanLimit

FindJobs(s) ==
    /\ At(s, "poll")
    /\ LET found == SelectSeq([i \in DOMAIN jobs |-> [id |-> i, job |-> jobs[i]]],
                              LAMBDA x : Listed(x.id) /\ Actionable(x.job))
       IN  /\ found # <<>>
           /\ Become(s, [pc |-> "next", queue |-> found])
    /\ UNCHANGED <<outside, table, faults, history>>

Save(s, w) == jobs' = [jobs EXCEPT ![w.queue[1].id] = w.queue[1].job]
Job(s) == worker[s].queue[1].job
With(s, pc, j) == [pc |-> pc, queue |-> <<[worker[s].queue[1] EXCEPT !.job = j]>>
                                         \o Tail(worker[s].queue)]
Drop1(s) == [pc |-> "next", queue |-> Tail(worker[s].queue)]

TakeJob(s) ==
    /\ At(s, "next")
    /\ IF worker[s].queue = <<>>
       THEN Become(s, Polling) /\ UNCHANGED jobs
       ELSE LET w == With(s, "batch", [Job(s) EXCEPT !.status = "running"])
            IN  Become(s, w) /\ Save(s, w)
    /\ UNCHANGED <<outside, owed, faults, history>>

CompleteJob(s) ==
    /\ At(s, "done")
    /\ jobs' = [jobs EXCEPT ![worker[s].queue[1].id] = [Job(s) EXCEPT !.status = "completed"]]
    /\ Become(s, Drop1(s))
    /\ IF Job(s).kind = "drop" THEN Dropped("job") ELSE UNCHANGED dropping
    /\ UNCHANGED <<outside, owed, faults, misled>>

\* A batch that fails makes the job fail, wherever it is.
InBatch(s) == worker[s].pc \in {"batch", "schema", "write", "edges"}

FailJob(s) ==
    /\ InBatch(s)
    /\ faults < MaxFaults
    /\ faults' = faults + 1
    /\ jobs' = [jobs EXCEPT ![worker[s].queue[1].id] = [Job(s) EXCEPT !.status = "failed"]]
    /\ Become(s, Drop1(s))
    /\ UNCHANGED <<outside, owed, history>>

\* update_job fails, also after a batch that failed (before its write it has changed
\* nothing): the worker turns to its next copy, the stored job is as it was.
AbandonJob(s) ==
    /\ \/ worker[s].pc \in {"batch", "edges", "save", "done"}
       \/ At(s, "next") /\ worker[s].queue # <<>>
    /\ faults < MaxFaults
    /\ faults' = faults + 1
    /\ Become(s, Drop1(s))
    /\ UNCHANGED <<outside, table, history>>

\* find_actionable_jobs fails: run returns, and only a new process has a worker again.
EndWorker(s) ==
    /\ At(s, "poll")
    /\ faults < MaxFaults
    /\ faults' = faults + 1
    /\ Become(s, [pc |-> "ended"])
    /\ UNCHANGED <<outside, table, history>>

\* The process stops: its worker, its requests and its cache are gone.
Crash(s) ==
    /\ faults < MaxFaults
    /\ faults' = faults + 1
    /\ Become(s, Polling)
    /\ cache' = [cache EXCEPT ![s] = NoSchema]
    /\ task' = [t \in Tasks |-> IF ServerOf[t] = s THEN Idle ELSE task[t]]
    /\ UNCHANGED <<latest, versions, settings, record, todo, edges, cdc, table, history>>

----------------------------------------------------------------------------
(* The executors (job_executor.rs).  Rows are known by their rank in the   *)
(* order of the keys.                                                      *)

RanksOf(S) == {i \in DOMAIN KeyOrder : KeyOrder[i] \in S}
EdgesAt(is) == {KeyOrder[i] : i \in is}

\* The phases of DropEntityTypeCleanup.
PhaseKeys(phase) ==
    CASE phase = 0 -> SchemaKeys
      [] phase = 1 -> Live
      [] phase = 2 -> IF index = {} /\ terms = {} /\ df = <<>> /\ docs = 0 THEN {} ELSE {1}
      [] phase = 3 -> RanksOf(FromType(fwd))
      [] phase \in {4, 5} -> RanksOf(FromType(meta))
      [] phase = 6 -> RanksOf(ToType(rev))
LastPhase == 6

KeysOfJob(j) ==
    CASE j.kind \in {"backfill", "strip"} -> Live
      [] j.kind = "orphans" -> RanksOf(meta)
      [] j.kind = "retention" -> log
      [] j.kind = "drop" -> IF j.phase > LastPhase THEN {} ELSE PhaseKeys(j.phase)

\* Mutant: the cursor is taken for the last row that is done.
BatchAfterCursor(j) ==
    LET left == {r \in KeysOfJob(j) : r > j.next}
    IN  {r \in left : Cardinality({q \in left : q < r}) < BatchSize}

\* get_range from the cursor, with the batch size as the limit.
Batch(j) ==
    LET left == {r \in KeysOfJob(j) : r >= j.next}
    IN  {r \in left : Cardinality({q \in left : q < r}) < BatchSize}

\* The oldest checkpoint of the consumers that have saved one.
Saved == {checkpoint[c] : c \in Consumers} \ {-1}
\* Mutant: the newest checkpoint decides.
ExpiredByNewest(rows) ==
    {v \in rows : v <= aged /\ (Saved # {} => \E k \in Saved : v < k)}

Expired(rows) ==
    {v \in rows : v <= aged /\ \A k \in Saved : v < k}

ReadBatch(s) ==
    /\ At(s, "batch")
    /\ Job(s).kind # "cascade"
    /\ LET j == Job(s)
           rows == Batch(j)
           w == [pc |-> IF j.kind = "backfill" /\ cache[s] = NoSchema THEN "schema" ELSE "write",
                 queue |-> worker[s].queue,
                 rows |-> rows,
                 found |-> IF j.kind \in {"backfill", "strip"} THEN [n \in rows |-> data[n]]
                           ELSE IF j.kind = "retention" THEN Expired(rows) ELSE {},
                 def |-> cache[s].def]
       IN  \/ rows # {} /\ Become(s, w)
           \/ /\ rows = {} /\ j.kind = "drop" /\ j.phase <= LastPhase
              /\ Become(s, With(s, "batch", [j EXCEPT !.phase = @ + 1, !.next = 0]))
           \/ /\ rows = {} /\ (j.kind = "drop" => j.phase > LastPhase)
              /\ Become(s, With(s, "done", j))
    /\ UNCHANGED <<outside, table, faults, history>>

\* DeleteNodeCascade calls delete_node in this process.
ReadCascade(s) ==
    /\ At(s, "batch")
    /\ Job(s).kind = "cascade"
    /\ Become(s, IF cache[s] = NoSchema
                 THEN [worker[s] EXCEPT !.pc = "schema"]
                 ELSE IF Job(s).arg \notin Live THEN With(s, "done", Job(s))
                 ELSE [pc |-> "write", queue |-> worker[s].queue, rows |-> {},
                       found |-> data[Job(s).arg], def |-> cache[s].def])
    /\ UNCHANGED <<outside, table, faults, history>>

\* The executor's get_schema when nothing is cached, in one step (Records has its
\* reads apart).  Without a schema the job fails.
LoadSchema(s) ==
    /\ At(s, "schema")
    /\ LET d == IF latest = 0 THEN NoDef ELSE versions[latest]
       IN  IF d = NoDef
           THEN /\ jobs' = [jobs EXCEPT ![worker[s].queue[1].id] =
                               [Job(s) EXCEPT !.status = "failed"]]
                /\ Become(s, Drop1(s))
                /\ UNCHANGED cache
           ELSE /\ cache' = [cache EXCEPT ![s] = [version |-> latest, def |-> d]]
                /\ Become(s, IF Job(s).kind = "cascade" THEN With(s, "batch", Job(s))
                             ELSE [worker[s] EXCEPT !.pc = "write", !.def = d])
                /\ UNCHANGED jobs
    /\ UNCHANGED <<latest, versions, settings, record, todo, task, edges, cdc, owed, faults,
                   history>>

\* Of several records with the same unique value the last one keeps the key.
LastPerKey(es) == {e \in es : \A f \in es : SameKey(e, f) => f.id <= e.id}

Backfill(d, found) ==
    /\ index' = IndexAfter({}, LastPerKey(UNION {Entries(d, n, found[n]) : n \in DOMAIN found}))
    /\ UNCHANGED <<registry, data, terms, df, docs, by, raced, owed, edges, cdc>>

\* The property leaves the stored values, not the index and not the terms.
Strip(p, found) ==
    LET hit == {n \in DOMAIN found : p \in DOMAIN found[n]}
    IN  /\ data' = [n \in Ids |-> IF n \in hit
                       THEN [q \in DOMAIN found[n] \ {p} |-> found[n][q]]
                       ELSE data[n]]
        /\ by' = [n \in Ids |-> IF n \in hit /\ data[n] # found[n] THEN NoDef ELSE by[n]]
        /\ owed' = [j \in DOMAIN owed |-> owed[j] \ hit]
        /\ raced' = raced \cup hit
        /\ UNCHANGED <<registry, index, terms, df, docs, edges, cdc>>

\* Removes what belongs to an edge from or to the type, mirrored keys included.
CleanOrphans(rows) ==
    LET es == {e \in EdgesAt(rows) : Type \in {e.src.type, e.tgt.type}}
        both == es \cup {Mirror(e) : e \in es}
    IN  Clear(both, es, both)

\* Mutant: the metadata goes before the reverse keys that are found through it.
DropPhaseMetadataFirst(phase, rows) ==
    \/ phase = 0 /\ DropSchema(rows) /\ UNCHANGED <<record, owed, edges>>
    \/ phase = 1 /\ DropData(rows) /\ UNCHANGED <<registry, index, terms, df, docs, edges>>
    \/ phase = 2 /\ DropEntries /\ UNCHANGED <<registry, data, edges>>
    \/ /\ \/ phase = 3 /\ Clear(EdgesAt(rows), {}, {})
          \/ phase = 4 /\ Clear({}, EdgesAt(rows), {})
          \/ phase = 5 /\ Clear({}, {}, EdgesAt(rows))
          \/ phase = 6 /\ Clear({}, {}, EdgesAt(rows))
       /\ UNCHANGED <<registry, record, owed>>

DropPhase(phase, rows) ==
    \/ phase = 0 /\ DropSchema(rows) /\ UNCHANGED <<record, owed, edges>>
    \/ phase = 1 /\ DropData(rows) /\ UNCHANGED <<registry, index, terms, df, docs, edges>>
    \/ phase = 2 /\ DropEntries /\ UNCHANGED <<registry, data, edges>>
    \/ /\ \/ phase = 3 /\ Clear(EdgesAt(rows), {}, {})
          \/ phase = 4 /\ Clear({}, {}, EdgesAt(rows))
          \/ phase = 5 /\ Clear({}, EdgesAt(rows), {})
          \/ phase = 6 /\ Clear({}, {}, EdgesAt(rows))
       /\ UNCHANGED <<registry, record, owed>>

\* The write transaction of a batch.
Execute(j, w) ==
    \/ j.kind = "backfill" /\ Backfill(w.def, w.found)
    \/ j.kind = "strip" /\ Strip(j.arg, w.found)
    \/ j.kind = "orphans" /\ CleanOrphans(w.rows) /\ UNCHANGED <<registry, record, owed, cdc>>
    \/ /\ j.kind = "retention"
       /\ log' = log \ w.found
       /\ UNCHANGED <<registry, record, owed, edges, aged, checkpoint, stocked>>
    \/ j.kind = "drop" /\ DropPhase(j.phase, w.rows) /\ UNCHANGED cdc

\* The cursor after a batch: behind the last row, or at the next phase of a drop.
Advance(j, w) ==
    LET full == Cardinality(w.rows) >= BatchSize
        last == CHOOSE r \in w.rows : \A q \in w.rows : q <= r
        count == IF j.kind = "retention" THEN Cardinality(w.found) ELSE Cardinality(w.rows)
        moved == [j EXCEPT !.done = (@ + count) % SaveEvery, !.next = last + 1]
    IN  IF j.kind = "drop" /\ ~full
        THEN [moved EXCEPT !.phase = j.phase + 1, !.next = 0]
        ELSE moved

More(j, w) ==
    IF j.kind = "drop" THEN Advance(j, w).phase <= LastPhase
    ELSE Cardinality(w.rows) >= BatchSize

WriteBatch(s) ==
    /\ At(s, "write")
    /\ Job(s).kind # "cascade"
    /\ LET j == Job(s)
           next == Advance(j, worker[s])
       IN  /\ Execute(j, worker[s])
           /\ Become(s, With(s, IF ~More(j, worker[s]) THEN "done"
                                ELSE IF next.done = 0 THEN "save"
                                ELSE "batch", next))
           /\ misled' = IF j.kind = "backfill" /\ j.arg \notin IndexedProps(worker[s].def)
                        THEN misled \cup {worker[s].queue[1].id} ELSE misled
           /\ dropping' = IF j.kind \in {"backfill", "strip"} /\ dropping # "no"
                          THEN "late" ELSE dropping
    /\ UNCHANGED <<todo, task, jobs, faults>>

SaveProgress(s) ==
    /\ At(s, "save")
    /\ Save(s, worker[s])
    /\ Become(s, [worker[s] EXCEPT !.pc = "batch"])
    /\ UNCHANGED <<outside, owed, faults, history>>

WriteCascade(s) ==
    /\ At(s, "write")
    /\ Job(s).kind = "cascade"
    /\ Delete(Job(s).arg, worker[s].def, worker[s].found)
    /\ Become(s, [worker[s] EXCEPT !.pc = "edges"])
    /\ UNCHANGED <<registry, todo, task, jobs, edges, cdc, faults, history>>

CascadeEdges(s) ==
    /\ At(s, "edges")
    /\ ClearIncident(Job(s).arg)
    /\ Become(s, With(s, "done", Job(s)))
    /\ UNCHANGED <<registry, record, todo, task, table, cdc, faults, history>>

----------------------------------------------------------------------------
(* Around the jobs: entries grow old, consumers save their checkpoints.    *)

Age ==
    /\ \E v \in log : v > aged /\ aged' = v
    /\ UNCHANGED <<registry, record, table, todo, task, edges, log, checkpoint, stocked, worker,
                   faults, history>>

\* What the workers have read as expired and not deleted yet.
Doomed ==
    UNION {worker[s].found : s \in {r \in Servers : At(r, "write") /\ Job(r).kind = "retention"}}

\* A consumer saves the position of an entry it has read, which may be deleted by now.
SaveCheckpoint(c) ==
    /\ \E v \in log \cup 1 .. aged :
          /\ v > checkpoint[c]
          /\ checkpoint' = [checkpoint EXCEPT ![c] = v]
    /\ stocked' = IF checkpoint[c] = -1 THEN [stocked EXCEPT ![c] = log \ Doomed] ELSE stocked
    /\ UNCHANGED <<registry, record, table, todo, task, edges, log, aged, worker, faults,
                   history>>

----------------------------------------------------------------------------
\* A scenario: schema versions, records, requests, jobs, edges, log entries and
\* checkpoints at the beginning.
Init ==
    \E c \in Scenarios :
       /\ RecordInit(c.defs, c.records, c.requests, c.jobs, c.warm)
       /\ fwd = UNION {KeysOf(e) : e \in c.edges}
       /\ meta = c.edges
       /\ rev = UNION {KeysOf(e) : e \in c.edges}
       /\ log = c.log
       /\ aged = c.aged
       /\ checkpoint = c.checkpoint
       /\ stocked = [k \in Consumers |-> IF c.checkpoint[k] = -1 THEN {} ELSE c.log]
       /\ worker = [s \in Servers |-> Polling]
       /\ faults = 0
       /\ dropping = "no"
       /\ misled = {}

\* A write after a drop has begun may survive it.
RecordWrite(t) ==
    /\ RecordStep(t)
    /\ dropping' = IF dropping # "no" /\ <<latest, versions, data, index, terms>>'
                                         # <<latest, versions, data, index, terms>>
                   THEN "late" ELSE dropping
    /\ UNCHANGED <<edges, cdc, worker, faults, misled>>

Request(t) ==
    \/ RecordWrite(t) \/ RequestDelete(t) \/ WriteDelete(t) \/ DeleteEdges(t)
    \/ RequestStrip(t) \/ DropIndex(t) \/ RequestDrop(t) \/ DropStep(t) \/ DropNamespace(t)

Work(s) ==
    \/ FindJobs(s) \/ TakeJob(s) \/ ReadBatch(s) \/ ReadCascade(s) \/ LoadSchema(s)
    \/ WriteBatch(s) \/ SaveProgress(s) \/ WriteCascade(s) \/ CascadeEdges(s)
    \/ CompleteJob(s)

Next ==
    \/ \E t \in Tasks : Request(t)
    \/ \E s \in Servers : Work(s) \/ FailJob(s) \/ AbandonJob(s) \/ EndWorker(s) \/ Crash(s)
    \/ Age
    \/ \E c \in Consumers : SaveCheckpoint(c)

Spec == Init /\ [][Next]_vars

\* The worker task of every process keeps running.
FairSpec == Spec /\ \A s \in Servers : WF_vars(Work(s))

----------------------------------------------------------------------------
(* Properties.                                                             *)

(***************************************************************************)
(* A completed IndexBackfill has indexed every record that existed when    *)
(* the job was created and has not been written since, whatever crashes,   *)
(* repeated batches, other workers and concurrent writes do, provided that *)
(* no worker went by a cached schema without the index.                    *)
(***************************************************************************)
Indexed(j) ==
    \A n \in owed[j] :
       Has(data[n], jobs[j].arg) =>
          [kind |-> "equality", prop |-> jobs[j].arg, val |-> data[n][jobs[j].arg], id |-> n]
             \in index
Backfilled == {j \in DOMAIN jobs : jobs[j].kind = "backfill" /\ jobs[j].status = "completed"}

BackfillCovers == \A j \in Backfilled \ misled : Indexed(j)

(***************************************************************************)
(* Once a type has been dropped, inline or by a job, and nothing was       *)
(* written meanwhile, none of its keys is left: no schema, record or index *)
(* entry, and no forward, metadata or reverse key filed under one of its   *)
(* nodes.  Under nodes of other types the inline drop leaves only forward  *)
(* keys that mirror an edge from the type.  The job leaves more: all edges *)
(* into the type keep their forward and metadata key, and a bidirectional  *)
(* one also its mirrored reverse key.                                      *)
(***************************************************************************)
Mirrors(S) == {Mirror(e) : e \in S}

DropIsComplete ==
    dropping \in {"inline", "job"} =>
       /\ SchemaKeys = {}
       /\ Live = {}
       /\ index = {} /\ terms = {} /\ df = <<>> /\ docs = 0
       /\ FromType(fwd) = {} /\ FromType(meta) = {} /\ ToType(rev) = {}
       /\ IF dropping = "inline"
          THEN /\ ToType(fwd) \subseteq Mirrors(Edges) /\ ToType(meta) = {}
               /\ FromType(rev) = {}
          ELSE FromType(rev) \subseteq Mirrors(ToType(meta))

\* Retention deletes nothing that a consumer has still to read: what is stored when the
\* consumer saves its first checkpoint stays until the consumer has passed it, but for
\* entries that a worker read as expired before and deletes after it.
RetentionKeepsUnread ==
    \A c \in Consumers : \A v \in stocked[c] : v > checkpoint[c] => v \in log

(***************************************************************************)
(* Every job among the first ScanLimit rows of the table ends, completed   *)
(* or failed: the requests are finite, and there is always a later moment  *)
(* when no such job is left to do.  What a crashed or failing worker       *)
(* leaves behind is found again, by the same process or by another one,    *)
(* unless the workers of all processes have ended.  A job behind as many   *)
(* others, over or not, is never found.                                    *)
(***************************************************************************)
Over(j) == jobs[j].status \in {"completed", "failed"}

JobsFinish ==
    []<>(\/ \A j \in DOMAIN jobs : Listed(j) => Over(j)
         \/ \A s \in Servers : worker[s].pc = "ended")
=============================================================================
