# A formal model of PelagoDB

PelagoDB is a property-graph database over FoundationDB. Server processes are
stateless apart from caches: everything durable is a key in FoundationDB, and
almost everything that can go wrong is a matter of what happens between two
FoundationDB transactions. This directory holds TLA+ modules of the system's
parts, TLC configurations that check them on small instances, and TLAPS proofs
that hold for every instance. `PROJECT.json` is the index: components, runs, the
source lines behind every definition, findings, hazards and theorems.

    tlc -workers 2 -config MCIdAllocator.cfg MCIdAllocator
    tlapm IdAllocatorProofs.tla

## 1. The system

Paths are relative to `src/crates/`.

| part | where | durable state | state in memory |
|---|---|---|---|
| id allocator | `pelago-storage/src/ids.rs` | a counter per scope and site | a batch per formatted scope |
| nodes and edges | `node.rs`, `edge.rs`, `mutation.rs` | node data, forward, reverse and metadata keys of edges, delete guards | - |
| property, unique and term indexes | `index.rs`, `term_index.rs` | index entries, postings, document counters | - |
| CDC log | `cdc.rs`, `consumer.rs` | entries under versionstamps, a checkpoint per consumer | position of each consumer |
| read cache | `rocks_cache/*` | RocksDB: nodes, adjacency, a high-water mark | polled batches |
| replicator | `pelago-server/src/replicator.rs`, `replication.rs`, `pelago-api/src/replication_service.rs` | lease, position, site claims | position, lease timer |
| schema registry | `schema.rs`, `cache.rs`, `namespace.rs` | versions, latest pointer, namespace owner | schema cache |
| jobs | `jobs.rs`, `job_worker.rs`, `job_executor.rs`, `admin_service.rs` | job records with cursor | the job being run |
| watch | `pelago-api/src/watch_service*`, `watch_state.rs` | state of query watches | registry, queues |
| queries | `pelago-query/*`, `query_service.rs` | - | plans, traversal frontier |
| auth and audit | `auth_service.rs`, `authz.rs`, `security.rs`, `auth_identity.rs` | sessions, policies, audit records | sessions and refresh tokens |
| operator | `pelago-operator` | Kubernetes objects | leadership, a copy of the site |
| CLI, console | `pelago-cli`, `ui_server` | - | - |

How they meet: a mutation takes an id from the allocator, validates against the
schema cache, and commits node or edge keys, index entries and a CDC entry in
one transaction. The log is then read by the cache projectors, by the
replicators of other sites (which mirror what they apply into their own log) and
by watches. Jobs run the long mutations: index backfill, property removal,
drops, asynchronous deletes, log retention. Queries read what all of them leave.

Three facts about FoundationDB shape all modules.

- `db.get`, `db.get_range` and `db.set` are transactions of their own. A value
  read with one of them and used in a later write transaction may be stale.
- A key read inside a write transaction is checked at commit. A transaction that
  reads all it depends on is one atomic step. Blind sets and clears never conflict.
- Only `PelagoDb::transact` retries (used by the id allocator). Everywhere else a
  failed commit, or one of unknown result, is an error to the caller.

## 2. Modules

| module | models | kept | abstracted |
|---|---|---|---|
| `IdAllocator` | `ids.rs`, `PelagoDb::transact` | every step of `allocate`, conflicts, unknown commit results, dropped requests, restarts, both kinds of u64 addition | the counter's encoding; the site byte, which is constant in a site |
| `CacheProjection` | `cdc.rs`, `consumer.rs`, `projector.rs`, `store.rs`, `read_path.rs`, the wiring in `main.rs` | poll, drain, write batch with high-water mark, acknowledgement, checkpoint, failures, shutdown and restart with or without saved positions, session reads in their three steps | a cached value is the log position it stems from; versionstamps are positions plus commit versions |
| `GraphStore` | `node.rs`, `edge.rs` | the key layout of edges, guards, ownership, each read and write transaction of every mutation, the cascade's paging and transaction limit, the row limit of lookups by endpoints, requests that end anywhere | property values and indexes; one edge label |
| `Replication` | `replicator.rs`, `replication.rs`, `replication_service.rs`, the `apply_replica_*` operations | read and write of every local mutation, lease, pull, the reads and the write of every apply, owner-wins and last-writer-wins rules, mirroring, position, broken streams, crashes, takeovers | cascades of local deletes come to their end; clocks are synchronised |
| `OwnedCopies` | what replication promises | one history per node, copies that move forward along it | logs, tasks, leases |
| `Records` | `index.rs`, `term_index.rs`, `schema.rs`, `cache.rs`, `namespace.rs`, the mutations of `node.rs` with their handlers | reads and write transaction of each mutation, index keys, postings and counters, validation, registration and its backfills, the schema cache of every process, the namespace owner | ownership and edges (see `GraphStore`); one entity type |
| `Jobs` | `jobs.rs`, `job_worker.rs`, `job_executor.rs`, `admin_service.rs`, composed with `Records` | job table, a worker per process, each executor batch by batch, inline and asynchronous drops, the delete cascade, retention | one edge label; schema and index keys of a type fit into a batch |
| `Watch` | `watch_service*`, `watch_state.rs` | registry and limits, snapshot, loop, dispatch with back-pressure, saved states, resume, expiry, sweep | what a filter accepts is a set of values |
| `QueryPlans` | `predicate.rs`, `cel.rs`, `planner.rs`, `plan.rs`, key ranges of `executor.rs` | choice of index, residual filter, bounds of scans, postings, pages | values are numbers in the order of their encodings |
| `PqlBlocks` | `pql/*`, set operations of `query_service.rs` | blocks, variables, captures, dependency order, compilation | characters: it starts from the syntax tree |
| `Queries` | `query_service.rs`, `executor.rs`, `traversal.rs`, composed with the two above | each read of a call, strict and best-effort, chunks, cursors, continuation tokens, failures, writers in between | estimates of result sizes, metrics |
| `Access` | `auth_service.rs`, `authz.rs`, `security.rs`, `auth_identity.rs` | every database access of each handler, sessions in memory, policies with path patterns and the limit on their number, roles, audit retention, failed writes, restarts | tokens are numbers; one clock |
| `Operator` | `controller.rs`, `webhook.rs`, `resources/mod.rs`, leader election in `main.rs` | each request of a pass, defaults, validation, status, stale copies, two processes, the autoscaler | manifests are what the properties of the spec make of them |

An `MC` module per component gives the constants their values.
`IdAllocatorProofs`, `CacheProjectionProofs`, `GraphStoreProofs`,
`ReplicationProofs` and `AccessProofs` hold the theorems; three of them extend
`CacheProjectionSteps`, `GraphStoreTypes` and `ReplicationSteps`, which hold the
lemmas about single steps.

Correspondences worth knowing when reading them next to the code:

- **IdAllocator.** The mutex of `allocate` is held across the counter
  transaction, so a process has at most one reservation, `filling[p]`. `issued`
  is a history variable (0, 1, or more than one time handed out). The
  text key of the in-memory batch is the function `CacheKey`.
- **CacheProjection.** Any sequence of log entries is possible, because mirrored
  entries may repeat. `AfterOps` is the effect of a write batch including its
  staging: updates of an absent node are dropped. `AfterDrain` applies a batch
  twice when the drain loop has polled again, since `poll_batch` does not move the
  consumer. The log is never truncated: no code of the server
  creates a `CdcRetention` job. A process that comes back under another identity
  finds no saved positions, so `Restart` loads the old ones or none. `GroupSize` is
  how many transactions may share a commit version.
- **GraphStore.** `create_edge` reads both nodes and both guards in its write
  transaction, hence is one action; the other mutations have a read action and a
  commit action. `logNode` and `logEdges` are what a reader that
  applies the log in order has. `interrupted` is a history variable: the nodes
  whose delete was cut short.
- **Replication.** Every site has its own nodes, edges and log. A local mutation
  checks in one transaction and writes in another; a node's properties are a map,
  and an update carries the properties it sets. `handled`, `hist`, `raced` and
  `faults` are history variables: entries a site went through, states the
  owners gave a node, nodes written after a check that was out of date, faults so far. A lease may run out at any moment, which
  covers every TTL, heartbeat and pause. The refinement mapping takes `past` to
  `hist` and `copy` to the stored contents.
- **Records and Jobs.** `raced` holds the records that were written from contents
  they no longer had, `by` the schema that a record's last writer went by,
  `misled` the backfills whose worker had a schema without their index.
- **Watch.** `loop[s]` is the local state of a subscription's task. `whole` and
  `told` record that nothing kept entries or events from it. Writers read a node
  and write it later, so a stored value (`Stored`, which a snapshot reads) is not
  always the one the log leads to (`ValueAt`).
- **Queries.** `db` holds every committed snapshot, so a strict call names the one
  it reads. `Exact` and `PlainBlocks` name the expressions and queries the
  properties are about; what they leave out is in section 7.
- **Access.** `minted` is what a session was issued with; `moments` collects, for
  each request under way, the policies, good sessions and clock it has lived through.
- **Operator.** A pass keeps the generation it began with. `applied` records the
  generations each resource was set to. `takes` says whether the client library
  lets the status patches of `patch_status` through: they are forced merge patches,
  and `force` is only valid for server-side apply. As the library is external, a
  behaviour has either answer, and the resources converge in both.

## 3. Runs

| run | expectation | distinct states | shows |
|---|---|---|---|
| `ids` | pass | 11,747 | no id is handed out twice and ids in memory are fresh, up to the end of the counter |
| `cache` | pass | 739,653 | cached content against consumer and high-water mark, order of checkpoint, consumer and cache, session reads, catching up |
| `graph` | pass | 315,925 | deletes leave no edges behind; the log rebuilds the edges |
| `graph_node_log` | violation | - | a stale update restores a deleted node or an old owner, and the log does not |
| `replication` | pass | 98,807 | two sites that follow each other: one origin, one owner, equal copies once caught up, and the refinement to `OwnedCopies` |
| `failover` | pass | 622,688 | two processes compete for a lease, with crash, takeover and failed operation: no entry passed over, no invented data |
| `jobs` | pass | 272,448 | indexes, counters, backfills, drops and retention with several processes; every job within the workers' scan ends |
| `watch` | pass | 632,209 | what subscriptions are told, what the registry holds, and that expired subscriptions leave it |
| `queries` | pass | 549,416 | pages, traversals and PQL blocks against what the query means, with writers between any two reads |
| `lost_row` | violation | - | a paged query over an unchanged store ends without a matching row |
| `access` | pass | 1,802,812 | sessions on two servers, revocation, decisions justified while sessions and policies change |
| `operator` | pass | 359,435 | status is true and the cluster converges under two operator processes and an autoscaler |

Bounds, and why the cases of interest happen within them:

- `ids`: two processes, batches of two, `MaxU64` = 7. Four reservations fit
  before the counter saturates; conflict, loss and restart can
  occur in each, and the wrap-around is reached. `CommitUnknownResult` applies at
  most as often as the counter advances.
- `cache`: a node key and two edge keys, three log entries, batches of two, one
  restart, with or without the directory, up to two transactions per commit version
  (so a batch can end inside one). Three entries give put, update and
  delete of one key, a full batch followed by another, and an entry committed
  while a batch is applied.
- `graph`: two nodes (self-loops included), two requests, pages and transactions
  of one edge, so every cascade takes several rounds, and lookups of one row.
- `replication`: one node that exists, with two edges, or is created; two requests at a
  time and three local operations on two sites (create, change, transfer, link, delete in any order), batches of two.
  Three operations are enough for a transfer there and a change afterwards, in both
  directions at once.
- `failover`: one source and a site with two processes, two operations on
  a node of two properties, and at most two of: a crash, a takeover from a holder that
  goes on, a failed apply, a position that cannot be read, a failed append or save.
- `jobs`: sixteen scenarios, each a set of requests and jobs that meet: writers
  of one record, backfill against writers, property removal, inline and
  asynchronous drops of small and large types, cascades, retention with
  a consumer that comes late, a job behind the scan limit, registration and transfer
  of the schema owner. Batches of one record and a cursor saved every
  second batch, so every job has several batches, some of them unsaved. One fault
  per behaviour.
- `watch`: two subscriptions of two clients, queues of one event, three log
  entries, batches of two, two writers at a time; the registry's limits are two, two, one and
  one, so each of them is reached. No scenario has both a transfer and a snapshot
  (see section 4).
- `queries`: four nodes, or seven for lists and unions at `PostingCap` (6) and results
  at `MaxLimit` (5); two edges of a node per hop, blocks of three rows, chunks of two, pages smaller than the result, graphs with
  cycles, up to three versions of the store. Every scenario is a query of a kind
  (scan, index, term, traversal, PQL) with writers that touch its rows.
- `access`: two servers, up to three requests per scenario, two ticks of the clock,
  so that a session can expire between two steps of a request. A token scenario
  runs three of validate, introspect, refresh, revoke, issue and authenticate at
  once, most of them on one session; a policy scenario decides a request while a
  policy is replaced and deleted, in one case with more policies than are listed.
- `operator`: two processes, one or two specs per scenario, and one disturbance: a
  crash, a failed request or a lost lease. In the `scale` scenarios the autoscaler
  changes the replicas for ever. Scenarios in which both processes come to lead have
  no pods, which keeps rollouts out of their interleavings.

Scenarios take the place of a free environment where the operations are many: a
scenario fixes which requests exist, and TLC takes their steps, faults
and the clock in every order. `CHECK_DEADLOCK FALSE` stands where requests are
used up: after the last one nothing need happen. The id allocator always has a
step, so its run checks for deadlock.

Symmetry is used where only safety is checked and the permuted values are
interchangeable: the processes of `ids`, nodes and requests of `graph`, the two
standby processes of `failover`.

Fairness, where a run checks that something happens:

- `cache`: `Project(ns)` is weakly fair, as the projector is a task that loops for
  ever. `ApplyAndAck(ns)` is strongly fair: `run` logs an error, sleeps a second and
  polls again, so a batch may fail any number of times but not for ever.
- `replication`: the steps of a replicator are weakly fair for the same reason. The
  calls that reach out of the process (lease, pull, reading an entry) are strongly
  fair: they may fail, and are tried again after a pause.
- `jobs`: `Work(s)`, the loop of a worker, is weakly fair. A crash is not fair, and
  neither is any request.
- `watch`: the loop of a subscription and the client's reading are weakly fair. A
  subscription may wait for its client to take an event, and nothing is
  claimed for one whose client neither reads nor closes the stream.
- `operator`: the passes of the operators, their watch, lease renewal and the expiry
  of a lease whose holder is gone are weakly fair, and so is the rollout of a
  deployment by Kubernetes. Edits, faults and the autoscaler are not.

**Refinement.** `FollowsOneHistory` is the specification of `OwnedCopies` under the
mapping in `Replication`: every node has one history, only a site whose copy is the
latest adds to it, every other copy moves forward along it, and copies reach its
end once writes stop. The promise is given while no replicator is interrupted and no
mutation writes after its check is out of date; after a crash `failover` checks the weaker `CopiesAreHistoric` and
`CaughtUpMeansEqual`.

## 4. Findings

Two runs end in a counterexample, stated against a line of the repository that
`PROJECT.json` quotes.

1. `update_node` and `transfer_ownership` write back what they read earlier
   (`node.rs:748`, `node.rs:785`).
2. A page returns the cursor of the row it dropped, so the next page starts after
   it (`executor.rs:225`).

Other limits of the code appear as assumptions and exceptions of the properties.
Each was found as a counterexample to a stronger statement:

| what | where | in the model |
|---|---|---|
| scopes whose names contain colons can share a batch of ids | `ids.rs:62` | `DistinctCacheKeys` |
| one high-water mark serves all namespaces of a process | `main.rs:220` | `OneNamespaceInStore` |
| freshness compares commit versions, a batch can end inside one | `read_path.rs:266` | `Due`: of the transactions that share the read version, only the first is promised |
| a process under a new consumer identity replays the log into an old cache | `projector.rs:95` | `SessionGuarantee` is about reads before a restart |
| a lost cache directory is not rebuilt while the checkpoint is kept | `consumer.rs:90` | no claim that a cache is complete after a loss |
| the reverse key has no sort key, parallel edges share it | `edge.rs:1310` | `SingleSortKey` |
| an edge behind 2048 others of its source is not found by its endpoints | `edge.rs:864` | `LookupLimit`; a delete then fails, and nothing is claimed of its success |
| a transfer replayed after a crash can leave two owners | `node.rs:409` | `OneOwner` holds until a replicator is interrupted |
| an operation that fails to apply is skipped | `replicator.rs:479` | `CaughtUpMeansEqual` leaves failed operations out |
| concurrent mutations of a node overwrite each other, and sites apply them in another order | `node.rs:785` | `raced` nodes are left out of the copies' properties |
| unique values are checked before a blind write | `node.rs:446` | uniqueness is not claimed |
| overlapping writers of one record count its terms twice | `term_index.rs:150` | `TermsExact` leaves raced records out |
| a worker with an old schema completes a backfill without indexing | `schema.rs:319` | `BackfillCovers` leaves misled backfills out |
| a consumer without a checkpoint does not hold retention back, nor does one that saves its first while a batch is between read and delete | `job_executor.rs:545` | `RetentionKeepsUnread` is about what is stored, and not about to be deleted, at the first checkpoint |
| workers look at the first 1000 rows of the job table, finished jobs included | `jobs.rs:194` | `Listed` in `JobsFinish` |
| a drop by job leaves forward and metadata keys of edges into the type, the inline drop mirrored forward keys | `job_executor.rs`, `admin_service.rs` | `DropIsComplete` says which |
| a query watch resumed from an older set may not tell that a node left | `watch_service.rs:563` | `StreamIsExact` asks for a set saved at the resume position |
| a transfer writes back the value it read without logging it, so a snapshot can show a value the log does not lead to | `node.rs:1052` | no scenario has both; the same race as finding 1 |
| some filters lose their residual | `planner.rs` | `Exact` |
| posting lists are read up to 20 times `max_limit`, unions end there | `executor.rs:665` | `WithinLimits` |
| offset cursors end at `max_limit` rows; a scan looks at four times the page | `executor.rs`, `query_service.rs` | `WithinLimits`, `session.cut` |
| a hop lists at most 1000 edges of a node | `traversal.rs:575` | `EdgeCap` in `Reach` |
| a PQL block without a limit has 1000 rows, and captures what is left | `query_service.rs` | `FromCut` leaves out blocks computed from a cut one |
| a session in the memory of another server outlives its revocation | `auth_service.rs:318` | `RevocationIsFinal` is about servers that do not hold it |
| policies behind the first 10,000 do not count | `authz.rs:41` | `PolicyLimit` in `DecisionsAreJustified`: a denial may be due to it, an admission never |
| the operator resets the replicas that the autoscaler set | `controller.rs:108` | `AsDesired` takes either number, and readiness is only claimed without an autoscaler |

## 5. Proofs

All proofs are for arbitrary finite or infinite constants within the named
assumptions of the modules (`AllocatorConstants`, `CacheConstants`,
`GraphConstants`, `ReplicationConstants`, `ScenarioAssumption`), all of which TLC
evaluates for the constants of the runs.

- **`IdAllocatorProofs`.** `TypeCorrect`. `IdsAreUnique` and `ReservationsAreFresh`
  assume `DistinctCacheKeys`. The inductive invariant adds `IssuedBelowCounter`:
  ids handed out are below the
  counter. Without it a fresh reservation could overlap with ids issued and
  forgotten by a restarted process. All statements are conditional on
  `counter < MaxU64`, as a saturated counter reserves the same range again.
- **`CacheProjectionSteps`, `CacheProjectionProofs`.** `CacheCoversConsumer` and
  `TypeCorrect` hold with any number of
  namespaces. `HitsCoverConsumer` is not inductive alone: a batch must be exactly
  a prefix of what is pending (`PolledIsPrefix`), or applying it would skip a
  write. `CacheCoversHwm` and `CheckpointsAreBehind` assume one namespace in the
  store: the replay after a
  restart moves the mark backwards but never below what makes the statement false.
  `SessionsAreConsistent` assumes no more than that, for any number of transactions
  per commit version: a session read has every transaction below its read version,
  and the first at it (`Due`). A later one at the same version may be missing, since a
  batch can end between the two and the mark then names the version of both. Its
  invariant adds that commit versions never fall along the log, that a read's version
  is not in the future, and that until a restart the mark never moves backwards
  under a read.
- **`GraphStoreTypes`, `GraphStoreProofs`.** `TypeCorrect` includes the transaction limit of the
  cascade, which needs the plans to be finite sets. `DeletesLeaveNoEdges` and
  `LogRebuildsEdges` assume
  at most one sort key. The invariant says that forward and reverse keys describe
  the same edges (`EdgeInv`), and that whatever touches a missing node is still
  to be found by the listing that some cascade of that node has ahead of it, is
  among its candidates, or belongs to an interrupted delete (`Answered`).
- **`ReplicationSteps`, `ReplicationProofs`.** Any number of sites, processes,
  nodes and faults. `PositionsCover`: the invariant `Places` says that saved positions and the
  position in the memory of every task are covered, that is, entries up to
  them have been handled, and that the stream a task works on has no gap after its
  position. The position in memory matters because a
  standby starts from one it read long ago, and a slow holder saves one that is
  behind. `OperationsHaveOneOrigin`: the invariant adds that timestamps in the logs are
  not ahead of the clock, so a new local operation is told apart from all others.
- **`AccessProofs`.** Any number of servers, requests, sessions and faults.
  `SessionCopiesAgree` and `RevocationsAreFinal` share the invariant `Inv`, which
  follows a session through the hands of the requests: what was read and not yet put into
  memory, what was read and will be written back as revoked, and what was
  issued and not yet stored. It adds that no two requests store the same new session
  and that a session about to be stored is not stored yet; otherwise a late write
  could bring a revoked session back.

The step lemmas take the few facts they need about finite sets as assumptions
(`PositionFacts`, `CountingFacts`, `Counting`). The modules with the theorems prove these facts
from the library and discharge the assumptions, so no theorem depends on them.

Only model-checked: everything under fairness (`EventuallyProjected`, `JobsFinish`,
`ExpiredLeave`, `Converges`, and `FollowsOneHistory`, whose abstract specification
has fairness), as liveness is out of the prover's reach; what recursive functions
compute (`BlocksMean`, `PagesAreOneTraversal`, `DecisionsAreJustified`); the other
properties of `replication`, `failover`, `jobs`, `watch`, `queries` and `operator`;
and the two counterexamples.

## 6. Plan

1. Proofs for `Jobs` and `Watch`: retention against checkpoints first, then the
   registry.
2. The safety part of the refinement to `OwnedCopies` as a theorem.
3. A run for parallel edges with sort keys, which `GraphStore` models and its
   theorem excludes.
4. Composition of `CacheProjection` with retention: no code creates a retention
   job today.

## 7. Not modelled

- The gRPC layer translates messages; what changes state is in the stores.
- In the query engine: the lexers and parsers of PQL and CEL (the models start from the
  syntax tree), CEL expressions other than comparisons and string calls, explain,
  the streaming variants, aggregates. `Exact` leaves out of the row properties the
  expressions that the scan does not answer by their meaning; `PlainBlocks` leaves
  out of `BlocksMean` names captured twice, filters on
  properties the captured rows no longer have, and `!=` on absent ones.
- The CLI, the console and the documentation server: input and output.
- The site registry: `claim_site` is one read and one write when a server starts.
- Replicated schema registration.
- In the operator: the index of secrets, which only brings a pass forward, the
  deletion of a site, which Kubernetes does by owner references, and running with
  leader election switched off.
- `pelago-storage/src/watch/`: not part of the build.
- Eventual reads of the cache, which promise nothing, and `CdcProjector::rebuild`,
  which the server does not call.
- Key packing, CBOR and the order-preserving encodings: taken as injective and
  order-preserving. The exception is the formatted scope of the allocator,
  which is not injective. The bounds of an index scan are therefore exact in
  `QueryPlans`; string values that reach the 0xFF bytes the code appends to a bound
  are outside the model.
