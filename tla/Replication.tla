---------------------------- MODULE Replication -----------------------------
(***************************************************************************)
(* Replication between sites: the pull replicator                          *)
(* (crates/pelago-server/src/replicator.rs), its lease and its position    *)
(* (crates/pelago-storage/src/replication.rs), the service it pulls from   *)
(* (crates/pelago-api/src/replication_service.rs) and the apply_replica_*  *)
(* operations with their owner-wins and last-writer-wins rules             *)
(* (crates/pelago-storage/src/node.rs and edge.rs).                        *)
(*                                                                         *)
(* Every site has its own FoundationDB cluster, hence its own nodes, edges *)
(* and CDC log.  A replicator task of a site follows the log of one peer:  *)
(* it pulls a batch of the peer's own entries, applies each operation in a *)
(* transaction of its own, appends what it applied to the local log, and   *)
(* after the batch saves its position.  Tasks of several processes of a    *)
(* site compete for one lease.                                             *)
(*                                                                         *)
(* A local mutation reads and checks in one transaction and writes what it *)
(* computed from that in another, without looking again (update_node,      *)
(* transfer_ownership, delete_node, delete_edge); creations are one        *)
(* transaction.  A cascade of a local delete always comes to its end here: *)
(* its interruption is GraphStore's subject.  Timestamps are taken at the  *)
(* write, and clocks are synchronised: every mutation has a later          *)
(* timestamp than the ones before it.  Edges have SourceSite ownership.    *)
(* That a lease runs out is possible at any time, which covers every       *)
(* heartbeat, TTL and pause of a process.                                  *)
(***************************************************************************)
EXTENDS Integers, Sequences, FiniteSets

CONSTANTS
    Sites,        \* site identifiers
    Tasks,        \* replicator tasks, one per process and peer
    SiteOf,       \* SiteOf[t]: the site of task t
    PeerOf,       \* PeerOf[t]: the remote site that task t follows
    Handlers,     \* requests that are handled at the same time, at any site
    Nodes,        \* node identifiers
    HomeOf,       \* HomeOf[n]: the site that allocates n
    Starts,       \* possible nodes and edges that were created and replicated
                  \* before the logs begin
    Maps,         \* property maps of nodes
    Changes,      \* properties that an update sets
    Links,        \* edges that requests create and delete: source, target, label
    BatchSize,    \* replication_batch_size
    LeasedSites,  \* sites that run with replication_lease_enabled
    MaxClock,     \* bound: local mutations
    MaxFaults     \* bound: faults, one of each kind at most

\* A process stops; another task takes over the lease; an operation is not
\* applied; a saved position is not read; an append to the log or the save of
\* a position fails.
FaultKinds == {"crash", "takeover", "apply", "position", "save"}
NoHolder == "none"

ASSUME ReplicationConstants ==
    /\ SiteOf \in [Tasks -> Sites]
    /\ PeerOf \in [Tasks -> Sites]
    /\ \A t \in Tasks : SiteOf[t] # PeerOf[t]
    /\ NoHolder \notin Tasks
    /\ HomeOf \in [Nodes -> Sites]
    /\ \A e \in Links : e.src \in Nodes /\ e.tgt \in Nodes
    /\ \A old \in Starts :
          /\ DOMAIN old.val \subseteq Nodes
          /\ \A n \in DOMAIN old.val : old.val[n] \in Maps
          /\ \A e \in old.edges : {e.src, e.tgt} \subseteq DOMAIN old.val
    /\ BatchSize \in Nat \ {0}
    /\ LeasedSites \subseteq Sites
    /\ MaxClock \in Nat
    /\ MaxFaults \in Nat

VARIABLES
    node,    \* node[s][n]: site s's data of n, or Absent
    edges,   \* edges[s]: the edges stored at site s
    log,     \* log[s]: the CDC log of site s
    clock,   \* timestamp of the latest mutation
    request, \* request[h]: the mutation that handler h is in
    pos,     \* pos[s][r]: saved position of site s in the log of r
    lease,   \* lease[s]: the replicator lease of site s
    task,    \* task[t]: local state of a replicator task
    handled, \* history: handled[s][r], entries of r's log that s went through
    hist,    \* history: hist[n], the states the owners of n gave it
    raced,   \* history: nodes that a mutation wrote after its check was out of date
    faults   \* history: the kinds of faults that happened

data == <<node, edges>>
local == <<clock, request, hist, raced>>
history == <<handled, hist, raced, faults>>
vars == <<node, edges, log, clock, request, pos, lease, task, handled, hist, raced, faults>>

Absent == [owner |-> "none"]
Content(d) == IF d = Absent THEN Absent ELSE [val |-> d.val, owner |-> d.owner]
Larger(i, j) == IF i >= j THEN i ELSE j

\* The properties that an update sets replace the ones stored.
Merge(val, changed) ==
    [p \in DOMAIN val \cup DOMAIN changed |->
        IF p \in DOMAIN changed THEN changed[p] ELSE val[p]]

Incident(es, n) == {e \in es : n \in {e.src, e.tgt}}

(***************************************************************************)
(* Local mutations: NodeStore and EdgeStore at a site.  A write stores the *)
(* data and its log entry in one transaction.                              *)
(***************************************************************************)
Idle == [pc |-> "idle"]
Finish(h) == request' = [request EXCEPT ![h] = Idle]

Entry(s, ops) == [site |-> s, ts |-> clock + 1, ops |-> ops]

Log(s, ops) ==
    /\ clock < MaxClock
    /\ clock' = clock + 1
    /\ log' = [log EXCEPT ![s] = Append(@, Entry(s, ops))]
    /\ UNCHANGED <<pos, lease, task, handled, faults>>

Store(s, n, d) ==
    /\ node' = [node EXCEPT ![s][n] = d]
    /\ hist' = [hist EXCEPT ![n] = Append(@, Content(d))]

\* enforce_local_ownership and enforce_source_ownership
Owns(s, n) == node[s][n] # Absent /\ node[s][n].owner = s

\* An identifier is allocated once, by its home site.
CreateNode(s, n, v) ==
    /\ HomeOf[n] = s
    /\ hist[n] = <<Absent>>
    /\ Store(s, n, [val |-> v, owner |-> s, upd |-> clock + 1])
    /\ Log(s, <<[kind |-> "create", n |-> n, val |-> v, home |-> s]>>)
    /\ UNCHANGED <<edges, request, raced>>

\* create_edge reads both nodes and the delete guards in its transaction.
Deleting(s, n) ==
    \E h \in Handlers : request[h].pc = "cascade" /\ request[h].site = s /\ request[h].op.n = n

CreateEdge(s, e) ==
    /\ ~Deleting(s, e.src) /\ ~Deleting(s, e.tgt)
    /\ Owns(s, e.src)
    /\ node[s][e.tgt] # Absent
    /\ edges' = [edges EXCEPT ![s] = @ \cup {e}]
    /\ Log(s, <<[kind |-> "link", e |-> e]>>)
    /\ UNCHANGED <<node, request, hist, raced>>

\* A request that overlaps with another leaves two mutations to the bound.
InTime == clock + 2 * Cardinality({h \in Handlers : request[h] # Idle}) < MaxClock

\* The read transaction of the other mutations, and its early returns.
Read(h, s, n, op) ==
    /\ request[h] = Idle
    /\ InTime
    /\ Owns(s, n)
    /\ request' = [request EXCEPT ![h] =
                      [pc |-> "write", site |-> s, op |-> op, seen |-> node[s][n]]]
    /\ UNCHANGED <<node, edges, log, clock, pos, lease, task, history>>

ReadNode(h, s, n) ==
    \/ \E c \in Changes :
          Read(h, s, n, [kind |-> "update", n |-> n, changed |-> c, old |-> node[s][n].val])
    \/ \E to \in Sites \ {s} :
          Read(h, s, n, [kind |-> "transfer", n |-> n, prev |-> s, cur |-> to])
    \/ Read(h, s, n, [kind |-> "delete", n |-> n])

ReadEdge(h, s, e) == e \in edges[s] /\ Read(h, s, e.src, [kind |-> "unlink", e |-> e])

\* The write transaction does not look at the node again.
Writing(h, kind) == request[h].pc = "write" /\ request[h].op.kind = kind

WriteNode(h, d) ==
    LET q == request[h]
    IN  /\ Store(q.site, q.op.n, d)
        /\ raced' = IF node[q.site][q.op.n] = q.seen THEN raced ELSE raced \cup {q.op.n}
        /\ Log(q.site, <<q.op>>)
        /\ UNCHANGED edges

UpdateNode(h) ==
    /\ Writing(h, "update")
    /\ WriteNode(h, [request[h].seen EXCEPT
                        !.val = Merge(@, request[h].op.changed), !.upd = clock + 1])
    /\ Finish(h)

\* Mutant: the new owner is logged but not stored.
TransferWithoutStore(h) ==
    /\ Writing(h, "transfer")
    /\ WriteNode(h, [request[h].seen EXCEPT !.upd = clock + 1])
    /\ Finish(h)

TransferOwnership(h) ==
    /\ Writing(h, "transfer")
    /\ WriteNode(h, [request[h].seen EXCEPT !.owner = request[h].op.cur, !.upd = clock + 1])
    /\ Finish(h)

DeleteNode(h) ==
    /\ Writing(h, "delete")
    /\ WriteNode(h, Absent)
    /\ request' = [request EXCEPT ![h].pc = "cascade"]

Orders(S) == {o \in [1..Cardinality(S) -> S] : \A e \in S : \E i \in DOMAIN o : o[i] = e}

\* delete_edges_for_node: the listed edges in one transaction and one entry,
\* until none is left; then the guard is cleared.
DeleteEdges(h) ==
    LET s == request[h].site
        gone == Incident(edges[s], request[h].op.n)
    IN  /\ request[h].pc = "cascade"
        /\ \/ /\ gone = {}
              /\ Finish(h)
              /\ UNCHANGED <<edges, log, clock, pos, lease, task, handled, faults>>
           \/ /\ gone # {}
              /\ edges' = [edges EXCEPT ![s] = @ \ gone]
              /\ \E order \in Orders(gone) :
                    Log(s, [i \in DOMAIN order |-> [kind |-> "unlink", e |-> order[i]]])
              /\ UNCHANGED request
        /\ UNCHANGED <<node, hist, raced>>

DeleteEdge(h) ==
    LET q == request[h]
    IN  /\ Writing(h, "unlink")
        /\ edges' = [edges EXCEPT ![q.site] = @ \ {q.op.e}]
        /\ raced' = IF Owns(q.site, q.op.e.src) THEN raced ELSE raced \cup {q.op.e.src}
        /\ Log(q.site, <<q.op>>)
        /\ Finish(h)
        /\ UNCHANGED <<node, hist>>

\* The write transaction fails, and the request with it.
Refused(h) ==
    /\ request[h].pc = "write"
    /\ Finish(h)
    /\ UNCHANGED <<node, edges, log, clock, pos, lease, task, history>>

Local ==
    \/ \E s \in Sites :
          \/ \E n \in Nodes, v \in Maps : CreateNode(s, n, v)
          \/ \E e \in Links : CreateEdge(s, e)
          \/ \E h \in Handlers :
                \/ \E n \in Nodes : ReadNode(h, s, n)
                \/ \E e \in Links : ReadEdge(h, s, e)
    \/ \E h \in Handlers :
          UpdateNode(h) \/ TransferOwnership(h) \/ DeleteNode(h) \/ DeleteEdges(h)
          \/ DeleteEdge(h) \/ Refused(h)

(***************************************************************************)
(* What an operation of site r with timestamp ts does at a site whose data *)
(* was read as seen.node, seen.tgt and seen.linked.  Applied: Ok(true).    *)
(* Everything else (an error, or skipped by the ownership and last writer  *)
(* wins rules) is recorded as a conflict and has no effect.                *)
(***************************************************************************)
Reads(s, op) ==
    IF op.kind \in {"link", "unlink"}
    THEN [node |-> node[s][op.e.src], tgt |-> node[s][op.e.tgt],
          linked |-> op.e \in edges[s]]
    ELSE [node |-> node[s][op.n], tgt |-> Absent, linked |-> FALSE]

\* The actor owns the node, or its operation is newer than the stored data.
Prevails(d, r, ts) == d.owner = r \/ ts > d.upd

CreateApplies(op, ts, r, seen) ==
    /\ op.home = r
    /\ seen.node # Absent => seen.node.owner = r /\ seen.node.val = op.val

UpdateApplies(op, ts, r, seen) ==
    /\ seen.node # Absent
    /\ Prevails(seen.node, r, ts)
    /\ seen.node.val = op.old \/ ts > seen.node.upd

DeleteApplies(op, ts, r, seen) ==
    /\ seen.node # Absent
    /\ Prevails(seen.node, r, ts)

TransferApplies(op, ts, r, seen) ==
    /\ r = op.prev
    /\ seen.node # Absent
    /\ seen.node.owner = op.prev \/ seen.node.upd <= ts

LinkApplies(op, ts, r, seen) ==
    /\ seen.node # Absent
    /\ seen.tgt # Absent
    /\ Prevails(seen.node, r, ts)
    /\ ~seen.linked

UnlinkApplies(op, ts, r, seen) ==
    /\ seen.node # Absent
    /\ Prevails(seen.node, r, ts)
    /\ seen.linked

Applies(op, ts, r, seen) ==
    CASE op.kind = "create"   -> CreateApplies(op, ts, r, seen)
      [] op.kind = "update"   -> UpdateApplies(op, ts, r, seen)
      [] op.kind = "delete"   -> DeleteApplies(op, ts, r, seen)
      [] op.kind = "transfer" -> TransferApplies(op, ts, r, seen)
      [] op.kind = "link"     -> LinkApplies(op, ts, r, seen)
      [] op.kind = "unlink"   -> UnlinkApplies(op, ts, r, seen)

\* Mutant: a transfer is applied without its new owner.
WrittenWithoutOwner(op, ts, r, d) ==
    CASE op.kind = "create" -> [val |-> op.val, owner |-> op.home, upd |-> ts]
      [] op.kind = "update" ->
            [val |-> Merge(d.val, op.changed), owner |-> r, upd |-> Larger(d.upd, ts)]
      [] op.kind = "transfer" -> [d EXCEPT !.upd = ts]
      [] op.kind = "delete" -> Absent

\* Mutant: the properties that an update sets are all that is kept.
WrittenWithoutMerge(op, ts, r, d) ==
    CASE op.kind = "create" -> [val |-> op.val, owner |-> op.home, upd |-> ts]
      [] op.kind = "update" ->
            [val |-> op.changed, owner |-> r, upd |-> Larger(d.upd, ts)]
      [] op.kind = "transfer" -> [d EXCEPT !.owner = op.cur, !.upd = ts]
      [] op.kind = "delete" -> Absent

\* The node data an applied operation writes, from the data it read.
Written(op, ts, r, d) ==
    CASE op.kind = "create" -> [val |-> op.val, owner |-> op.home, upd |-> ts]
      [] op.kind = "update" ->
            [val |-> Merge(d.val, op.changed), owner |-> r, upd |-> Larger(d.upd, ts)]
      [] op.kind = "transfer" -> [d EXCEPT !.owner = op.cur, !.upd = ts]
      [] op.kind = "delete" -> Absent

\* A create that finds the same node is applied without writing.
Write(s, op, ts, r, seen) ==
    CASE op.kind = "link" ->
            edges' = [edges EXCEPT ![s] = @ \cup {op.e}] /\ UNCHANGED node
      [] op.kind = "unlink" ->
            edges' = [edges EXCEPT ![s] = @ \ {op.e}] /\ UNCHANGED node
      [] op.kind = "create" /\ seen.node # Absent -> UNCHANGED data
      [] OTHER ->
            /\ node' = [node EXCEPT ![s][op.n] = Written(op, ts, r, seen.node)]
            /\ UNCHANGED edges

(***************************************************************************)
(* The replicator task (run_peer_replicator).                              *)
(***************************************************************************)
Fault(k) ==
    /\ k \notin faults
    /\ Cardinality(faults) < MaxFaults
    /\ faults' = faults \cup {k}

Unread == [node |-> Absent, tgt |-> Absent, linked |-> FALSE]
Stopped ==
    [pc |-> "stopped", after |-> 0, holds |-> FALSE, stream |-> {}, i |-> 1,
     done |-> <<>>, seen |-> Unread]

Begin(t, after) ==
    /\ task[t].pc = "stopped"
    /\ task' = [task EXCEPT ![t] = [Stopped EXCEPT
                    !.pc = "top", !.after = after, !.holds = SiteOf[t] \notin LeasedSites]]
    /\ UNCHANGED <<node, edges, log, clock, request, pos, lease, handled, hist, raced>>

\* Mutant: a task starts at the end of its peer's log.
StartAtEnd(t) == Begin(t, Len(log[PeerOf[t]])) /\ UNCHANGED faults

\* load_checkpoint, once, before the task waits for the lease.  A position
\* that cannot be read is taken for none.
Start(t) ==
    LET saved == pos[SiteOf[t]][PeerOf[t]]
    IN  \/ Begin(t, saved) /\ UNCHANGED faults
        \/ saved # 0 /\ Begin(t, 0) /\ Fault("position")

\* try_acquire_replicator_lease, its three answers, and the second look at
\* the lease after an error.  An error may come after the lease was written.
CanHold(s, t) == lease[s].holder = t \/ ~lease[s].live

Acquired(s, t) ==
    /\ CanHold(s, t)
    /\ lease' = [lease EXCEPT ![s] = [holder |-> t, live |-> TRUE]]
    /\ IF lease[s].holder \in {t, NoHolder} THEN UNCHANGED faults ELSE Fault("takeover")

RefreshLease(t) ==
    LET s == SiteOf[t]
        Holds(b) == task' = [task EXCEPT ![t].holds = b]
    IN  /\ s \in LeasedSites
        /\ task[t].pc = "top"
        /\ \/ Acquired(s, t) /\ Holds(TRUE)
           \/ ~CanHold(s, t) /\ Holds(FALSE) /\ UNCHANGED <<lease, faults>>
        /\ UNCHANGED <<node, edges, log, clock, request, pos, handled, hist, raced>>

RefreshFails(t) ==
    LET s == SiteOf[t]
    IN  /\ s \in LeasedSites
        /\ task[t].pc = "top"
        /\ \/ Acquired(s, t)
           \/ UNCHANGED <<lease, faults>>
        /\ \E b \in {FALSE, lease'[s].holder = t /\ lease'[s].live} :
              task' = [task EXCEPT ![t].holds = b]
        /\ UNCHANGED <<node, edges, log, clock, request, pos, handled, hist, raced>>

ExpireLease(s) ==
    /\ lease[s].live
    /\ lease' = [lease EXCEPT ![s].live = FALSE]
    /\ UNCHANGED <<node, edges, log, clock, request, pos, task, history>>

\* Mutant: the entry right after the position is left out.
CollectEntriesSkippingOne(r, after) ==
    LET own == {i \in DOMAIN log[r] : i > after + 1 /\ log[r][i].site = r}
    IN  {i \in own : Cardinality({j \in own : j < i}) < BatchSize}

\* collect_cdc_entries: positions of the first BatchSize entries of site r
\* after a position.
CollectEntries(r, after) ==
    LET own == {i \in DOMAIN log[r] : i > after /\ log[r][i].site = r}
    IN  {i \in own : Cardinality({j \in own : j < i}) < BatchSize}

\* pull_cdc_events.  A failed connection or call leaves the task at the top.
Pull(t) ==
    /\ task[t].pc = "top"
    /\ task[t].holds
    /\ task' = [task EXCEPT ![t].pc = "stream",
                            ![t].stream = CollectEntries(PeerOf[t], task[t].after)]
    /\ UNCHANGED <<node, edges, log, clock, request, pos, lease, history>>

\* The entries of a stream come in the order of the log.
First(S) == CHOOSE i \in S : \A j \in S : i <= j
At(t) == First(task[t].stream)
Current(t) == log[PeerOf[t]][At(t)]
Op(t) == Current(t).ops[task[t].i]

\* The operation is done: what was applied is kept for the local log,
\* everything else is a conflict.
NextOp(t, applied) ==
    task' = [task EXCEPT ![t].pc = "stream", ![t].i = @ + 1, ![t].done = @ \o applied,
                         ![t].seen = Unread]

\* The reads of an apply_replica_* operation, and its early returns.
ReadOp(t) ==
    LET e == Current(t)
        seen == Reads(SiteOf[t], Op(t))
        accepted == e.site = PeerOf[t] /\ Applies(Op(t), e.ts, PeerOf[t], seen)
    IN  /\ task[t].pc = "stream"
        /\ task[t].stream # {}
        /\ task[t].i \in DOMAIN e.ops
        /\ \/ accepted /\ task' = [task EXCEPT ![t].pc = "write", ![t].seen = seen]
           \/ ~accepted /\ NextOp(t, <<>>)
        /\ UNCHANGED <<node, edges, log, clock, request, pos, lease, history>>

\* Its write transaction, which may fail.
WriteOp(t) ==
    /\ task[t].pc = "write"
    /\ Write(SiteOf[t], Op(t), Current(t).ts, PeerOf[t], task[t].seen)
    /\ IF Op(t).kind = "delete"
       THEN task' = [task EXCEPT ![t].pc = "cascade"]
       ELSE NextOp(t, <<Op(t)>>)
    /\ UNCHANGED <<log, clock, request, pos, lease, history>>

WriteFails(t) ==
    /\ task[t].pc = "write"
    /\ NextOp(t, <<>>)
    /\ Fault("apply")
    /\ UNCHANGED <<node, edges, log, clock, request, pos, lease, handled, hist, raced>>

\* delete_edges_for_node_replica, in transactions of its own.  If one fails,
\* the node is gone and some of its edges are not.
Cascade(t) ==
    /\ task[t].pc = "cascade"
    /\ edges' = [edges EXCEPT ![SiteOf[t]] = @ \ Incident(@, Op(t).n)]
    /\ NextOp(t, <<Op(t)>>)
    /\ UNCHANGED <<node, log, clock, request, pos, lease, history>>

CascadeFails(t) ==
    /\ task[t].pc = "cascade"
    /\ \E gone \in SUBSET Incident(edges[SiteOf[t]], Op(t).n) :
          edges' = [edges EXCEPT ![SiteOf[t]] = @ \ gone]
    /\ NextOp(t, <<>>)
    /\ Fault("apply")
    /\ UNCHANGED <<node, log, clock, request, pos, lease, handled, hist, raced>>

\* The entry is done and is not looked at again.
Advance(t) ==
    /\ task[t].pc = "stream"
    /\ task[t].stream # {}
    /\ task[t].i \notin DOMAIN Current(t).ops
    /\ task' = [task EXCEPT ![t].stream = @ \ {At(t)}, ![t].after = At(t),
                            ![t].i = 1, ![t].done = <<>>]
    /\ handled' = [handled EXCEPT ![SiteOf[t]][PeerOf[t]] = @ \cup {At(t)}]
    /\ UNCHANGED <<node, edges, clock, request, pos, lease, hist, raced>>

\* Mutant: the applied operations are logged as ones of the local site.
EndEntryAsOwn(t) ==
    LET s == SiteOf[t]
        mirror == [site |-> s, ts |-> Current(t).ts, ops |-> task[t].done]
    IN  /\ Advance(t)
        /\ log' = IF task[t].done = <<>> THEN log ELSE [log EXCEPT ![s] = Append(@, mirror)]
        /\ UNCHANGED faults

\* append_cdc_entry: the applied operations enter the local log under the
\* name of their own site.  If that fails it is a conflict, and nothing more.
EndEntry(t) ==
    LET s == SiteOf[t]
        mirror == [site |-> PeerOf[t], ts |-> Current(t).ts, ops |-> task[t].done]
    IN  /\ Advance(t)
        /\ log' = IF task[t].done = <<>> THEN log ELSE [log EXCEPT ![s] = Append(@, mirror)]
        /\ UNCHANGED faults

AppendFails(t) ==
    /\ task[t].done # <<>>
    /\ Advance(t)
    /\ Fault("save")
    /\ UNCHANGED log

\* Mutant: the end of the pulled batch is saved even if the stream broke.
SaveEndOfBatch(t) ==
    LET batch == task[t].stream
    IN  /\ task[t].pc = "stream"
        /\ task[t].i = 1
        /\ task' = [task EXCEPT ![t].pc = "top", ![t].stream = {}]
        /\ pos' = [pos EXCEPT ![SiteOf[t]][PeerOf[t]] =
                      IF batch = {} THEN task[t].after
                      ELSE CHOOSE i \in batch : \A j \in batch : j <= i]
        /\ UNCHANGED <<node, edges, log, clock, request, lease, history>>

\* update_replication_position_scoped after the stream ended or broke; the
\* write is blind and its failure is only logged.
SavePosition(t) ==
    /\ task[t].pc = "stream"
    /\ task[t].i = 1
    /\ task' = [task EXCEPT ![t].pc = "top", ![t].stream = {}]
    /\ pos' = [pos EXCEPT ![SiteOf[t]][PeerOf[t]] = task[t].after]
    /\ UNCHANGED <<node, edges, log, clock, request, lease, history>>

SaveFails(t) ==
    /\ task[t].pc = "stream"
    /\ task[t].i = 1
    /\ task' = [task EXCEPT ![t].pc = "top", ![t].stream = {}]
    /\ Fault("save")
    /\ UNCHANGED <<node, edges, log, clock, request, pos, lease, handled, hist, raced>>

Crash(t) ==
    /\ task[t].pc # "stopped"
    /\ task' = [task EXCEPT ![t] = Stopped]
    /\ Fault("crash")
    /\ UNCHANGED <<node, edges, log, clock, request, pos, lease, handled, hist, raced>>

Init ==
    /\ \E old \in Starts :
          /\ node = [s \in Sites |-> [n \in Nodes |->
                       IF n \in DOMAIN old.val
                       THEN [val |-> old.val[n], owner |-> HomeOf[n], upd |-> 0]
                       ELSE Absent]]
          /\ edges = [s \in Sites |-> old.edges]
    /\ log = [s \in Sites |-> <<>>]
    /\ clock = 0
    /\ request = [h \in Handlers |-> Idle]
    /\ pos = [s \in Sites |-> [r \in Sites |-> 0]]
    /\ lease = [s \in Sites |-> [holder |-> NoHolder, live |-> FALSE]]
    /\ task = [t \in Tasks |-> Stopped]
    /\ handled = [s \in Sites |-> [r \in Sites |-> {}]]
    /\ hist = [n \in Nodes |-> <<Content(node[HomeOf[n]][n])>>]
    /\ raced = {}
    /\ faults = {}

Step(t) ==
    \/ Pull(t) \/ ReadOp(t) \/ WriteOp(t) \/ Cascade(t) \/ EndEntry(t)
    \/ SavePosition(t)

Next ==
    \/ Local
    \/ \E s \in Sites : ExpireLease(s)
    \/ \E t \in Tasks :
          \/ Start(t) \/ RefreshLease(t) \/ RefreshFails(t)
          \/ Step(t) \/ WriteFails(t) \/ CascadeFails(t) \/ AppendFails(t)
          \/ SaveFails(t) \/ Crash(t)

Spec == Init /\ [][Next]_vars

\* A running task comes back to its loop; connections and streams may break,
\* but not for ever.
FairSpec ==
    /\ Spec
    /\ \A t \in Tasks :
          /\ WF_vars(Start(t) \/ Step(t))
          /\ SF_vars(RefreshLease(t)) /\ SF_vars(Pull(t)) /\ SF_vars(ReadOp(t))
          /\ WF_vars(WriteOp(t)) /\ WF_vars(Cascade(t)) /\ WF_vars(EndEntry(t))

(***************************************************************************)
(* Properties.                                                             *)
(***************************************************************************)

\* Entry x holds operations of entry y only.
PartOf(x, y) ==
    /\ x.site = y.site
    /\ x.ts = y.ts
    /\ \A k \in DOMAIN x.ops : \E l \in DOMAIN y.ops : y.ops[l] = x.ops[k]

\* No operation of a site comes back to it or is claimed by two sites: the
\* operations a log holds for another site are operations of one entry of
\* that site's log, and no two sites log the same entry as their own.
OneOrigin ==
    \A s, r \in Sites : s # r => \A i \in DOMAIN log[s] :
        /\ log[s][i].site = r => \E j \in DOMAIN log[r] : PartOf(log[s][i], log[r][j])
        /\ log[s][i].site = s =>
              ~\E j \in DOMAIN log[r] : /\ log[r][j].site = r
                                        /\ log[r][j].ts = log[s][i].ts

\* Whatever crashes, fails or is taken over, a saved position never passes an
\* entry that no task of the site has gone through.
PositionCovers ==
    \A s, r \in Sites : \A i \in 1..pos[s][r] :
        log[r][i].site = r => i \in handled[s][r]

Interrupted == faults \ {"save"} # {}
Transferred ==
    \E s \in Sites : \E i \in DOMAIN log[s] : log[s][i].ops[1].kind = "transfer"

\* Unless a replicator was interrupted, no two sites both take themselves for
\* the owner of a node; but for nodes that a mutation wrote back from a record
\* that was no longer the stored one.
OneOwner ==
    ~Interrupted => \A n \in Nodes \ raced : \A s, r \in Sites :
        Owns(s, n) /\ Owns(r, n) => s = r

\* Some task of s has read the log of r to its end and none is under way.
CaughtUp(s, r) ==
    LET following == {t \in Tasks : SiteOf[t] = s /\ PeerOf[t] = r}
    IN  /\ \A t \in following : task[t].pc \in {"stopped", "top"}
        /\ \E t \in following :
              /\ task[t].pc = "top"
              /\ CollectEntries(r, task[t].after) = {}

\* Site r decides about n: it owns it, or it deleted it.
Decides(r, n) ==
    \/ Owns(r, n)
    \/ \E i \in DOMAIN log[r] :
          log[r][i].site = r /\ log[r][i].ops = <<[kind |-> "delete", n |-> n]>>

\* A site that has read its peer's log to the end has the peer's nodes and
\* edges, but for nodes that a mutation wrote after its check was out of date
\* and edges that the peer is still deleting with a node.  Replaying entries
\* after a crash does not change that, as long as no node changed owner (and
\* but for edges: the crash may have been between the deletion of a node and
\* that of its edges).
CaughtUpMeansEqual ==
    /\ "takeover" \notin faults
    /\ "apply" \notin faults
    /\ "position" \notin faults
    /\ "crash" \in faults => ~Transferred
    => \A s, r \in Sites : s # r /\ CaughtUp(s, r) =>
          /\ \A n \in Nodes \ raced :
                Decides(r, n) => Content(node[s][n]) = Content(node[r][n])
          /\ \A e \in edges[s] \cup edges[r] :
                /\ "crash" \notin faults
                /\ \A n \in {e.src, e.tgt} :
                      n \notin raced /\ Decides(r, n) /\ ~Deleting(r, n)
                => (e \in edges[s] <=> e \in edges[r])

\* Replays, stale lease holders and failed operations never invent data: a
\* property of a copy has a value that the property once had at an owner.  The
\* copy as a whole is a state its owner gave it, unless an operation was not
\* applied, two tasks applied at once, or a mutation raced with another.
CopiesAreHistoric ==
    \A s \in Sites, n \in Nodes : node[s][n] # Absent =>
        /\ \A p \in DOMAIN node[s][n].val : \E i \in DOMAIN hist[n] :
              /\ hist[n][i] # Absent
              /\ p \in DOMAIN hist[n][i].val
              /\ hist[n][i].val[p] = node[s][n].val[p]
        /\ n \in raced \/ "takeover" \in faults \/ "apply" \in faults
           \/ \E i \in DOMAIN hist[n] : hist[n][i] = Content(node[s][n])

\* Replication implements one history per node with copies that follow it,
\* until a replicator is interrupted or mutations of a node race.
Copies ==
    INSTANCE OwnedCopies WITH
        States <- [val : Maps, owner : Sites] \cup {Absent},
        past <- hist,
        copy <- [s \in Sites |-> [n \in Nodes |-> Content(node[s][n])]],
        calm <- ~Interrupted /\ raced = {}
FollowsOneHistory == Copies!Spec
=============================================================================
