----------------------------- MODULE GraphStore -----------------------------
(***************************************************************************)
(* The life of nodes and edges in one namespace of FoundationDB            *)
(* (crates/pelago-storage/src/node.rs and edge.rs).                        *)
(*                                                                         *)
(* Requests run concurrently.  A mutation first reads what it works on     *)
(* with read-only transactions and then commits one write transaction; the *)
(* writes are blind unless the transaction itself reads.  create_edge      *)
(* reads everything it depends on inside its write transaction, so it is   *)
(* one atomic step here.  delete_node is several transactions: it removes  *)
(* the node and sets a delete guard, then removes the node's edges batch   *)
(* by batch, then clears the guard.  A request can end at any point: its   *)
(* process dies, or one of its transactions fails.                         *)
(*                                                                         *)
(* One edge label is modelled: keys of different labels never meet.        *)
(* Whether the label is bidirectional is part of the schema and fixed.     *)
(* Node identifiers are never reused (IdAllocator).                        *)
(***************************************************************************)
EXTENDS Integers, FiniteSets

CONSTANTS
    Nodes,      \* node identifiers
    Procs,      \* concurrent requests
    SortKeys,   \* encoded sort keys of the label's edges, as integers
    Directions, \* is the label bidirectional? a set of possible answers
    FetchLimit, \* CASCADE_FETCH_LIMIT
    TxLimit,    \* CASCADE_TX_EDGE_LIMIT
    LookupLimit \* rows find_edge_data_by_endpoints reads, 2048 in the code

ASSUME GraphConstants ==
    /\ SortKeys \subseteq Int
    /\ Directions \subseteq BOOLEAN
    /\ FetchLimit \in Nat \ {0}
    /\ TxLimit \in Nat \ {0}
    /\ LookupLimit \in Nat \ {0}

VARIABLES
    bidirectional, \* the label's direction
    node,        \* node[n]: not created, deleted, or the owner of the node data
    guard,       \* nodes whose delete guard is set
    fwd,         \* forward edge keys, with the source in the edge data
    rev,         \* reverse edge keys, with source and sort key in the edge data
    job,         \* job[p]: what request p is in the middle of
    interrupted, \* nodes whose last delete ended before its edges were gone
    logNode,     \* logNode[n]: the node as a reader of the CDC log sees it
    logEdges     \* the edges as a reader of the CDC log sees them

store == <<node, guard, fwd, rev>>
cdc == <<logNode, logEdges>>
vars == <<bidirectional, node, guard, fwd, rev, job, interrupted, logNode, logEdges>>

Live == {"local", "remote"}    \* the node is owned by this site or by another
Edges == [src : Nodes, tgt : Nodes, sk : SortKeys]

(***************************************************************************)
(* compute_edge_keys.  An entry of fwd is stored under (at, sk, to), one   *)
(* of rev under (at, from): the reverse key has no sort key.  `src` is the *)
(* source in the stored edge data; its target is the other end.  The       *)
(* metadata key always goes with the forward key and is left out.          *)
(***************************************************************************)
FwdKeys == [at : Nodes, sk : SortKeys, to : Nodes, src : Nodes]
RevKeys == [at : Nodes, from : Nodes, src : Nodes, sk : SortKeys]

FwdEntries(e) ==
    {[at |-> e.src, sk |-> e.sk, to |-> e.tgt, src |-> e.src]}
    \cup IF bidirectional THEN {[at |-> e.tgt, sk |-> e.sk, to |-> e.src, src |-> e.src]}
         ELSE {}
RevEntries(e) ==
    {[at |-> e.tgt, from |-> e.src, src |-> e.src, sk |-> e.sk]}
    \cup IF bidirectional THEN {[at |-> e.src, from |-> e.tgt, src |-> e.src, sk |-> e.sk]}
         ELSE {}

FwdWithout(e) ==
    {f \in fwd : \A g \in FwdEntries(e) : <<f.at, f.sk, f.to>> # <<g.at, g.sk, g.to>>}
RevWithout(e) ==
    {r \in rev : \A g \in RevEntries(e) : <<r.at, r.from>> # <<g.at, g.from>>}

WriteEdge(e) ==
    /\ fwd' = FwdWithout(e) \cup FwdEntries(e)
    /\ rev' = RevWithout(e) \cup RevEntries(e)

ClearEdges(es) ==
    /\ fwd' = {f \in fwd : \A e \in es : f \in FwdWithout(e)}
    /\ rev' = {r \in rev : \A e \in es : r \in RevWithout(e)}

(***************************************************************************)
(* find_edge_data_by_endpoints reads the first LookupLimit forward keys of *)
(* the source.  Keys are ordered by sort key and then by target; the order *)
(* of the targets is left open.                                            *)
(***************************************************************************)
LookupRows(s) ==
    LET all == {f \in fwd : f.at = s}
    IN  IF Cardinality(all) <= LookupLimit THEN {all}
        ELSE {T \in SUBSET all : /\ Cardinality(T) = LookupLimit
                                 /\ \A f \in T, g \in all \ T : f.sk <= g.sk}

\* The first of the rows whose data has these endpoints: empty or a singleton.
FindByEndpoints(s, t, rows) ==
    LET found == {f.sk : f \in {g \in rows : g.to = t /\ g.src = s}}
    IN  {[src |-> s, tgt |-> t, sk |-> k] : k \in {k \in found : \A l \in found : k <= l}}

DataOfFwd(f) == [src |-> f.src, tgt |-> IF f.src = f.at THEN f.to ELSE f.at, sk |-> f.sk]
DataOfRev(r) == [src |-> r.src, tgt |-> IF r.src = r.from THEN r.at ELSE r.from, sk |-> r.sk]

\* What a range read with a limit may return of a set of keys.
Page(S) ==
    IF Cardinality(S) <= FetchLimit THEN {S}
    ELSE {T \in SUBSET S : Cardinality(T) = FetchLimit}

\* list_edges and list_incoming_edges.  The latter drops the entries whose data
\* has another target (the mirror keys of a bidirectional edge) after the limit
\* has been applied.
OutPages(n) == {{DataOfFwd(f) : f \in T} : T \in Page({f \in fwd : f.at = n})}
InPages(n) ==
    {{e \in {DataOfRev(r) : r \in T} : e.tgt = n} : T \in Page({r \in rev : r.at = n})}

----------------------------------------------------------------------------
Idle == [op |-> "idle"]
Begin(p, r) == job' = [job EXCEPT ![p] = r]
Finish(p) == job' = [job EXCEPT ![p] = Idle]

Init ==
    /\ bidirectional \in Directions
    /\ node = [n \in Nodes |-> "unborn"]
    /\ guard = {}
    /\ fwd = {}
    /\ rev = {}
    /\ job = [p \in Procs |-> Idle]
    /\ interrupted = {}
    /\ logNode = [n \in Nodes |-> "unborn"]
    /\ logEdges = {}

(***************************************************************************)
(* How a reader of the log (the cache projector, a replica) applies the    *)
(* operations: a change to a node it does not have is dropped, and edges   *)
(* are known by their endpoints.                                           *)
(***************************************************************************)
LogChange(n, owner) ==
    logNode' = [logNode EXCEPT ![n] = IF @ \in Live THEN owner ELSE @]
Pairs(es) == {<<e.src, e.tgt>> : e \in es}

----------------------------------------------------------------------------
(* create_node, create_edge.                                               *)

CreateNode(n) ==
    /\ node[n] = "unborn"
    /\ node' = [node EXCEPT ![n] = "local"]
    /\ logNode' = [logNode EXCEPT ![n] = "local"]
    /\ UNCHANGED <<bidirectional, guard, fwd, rev, job, interrupted, logEdges>>

\* Mutant: the target's existence is not checked.
CreateEdgeToAnyTarget(e) ==
    /\ e.src \notin guard
    /\ e.tgt \notin guard
    /\ node[e.src] = "local"
    /\ WriteEdge(e)
    /\ logEdges' = logEdges \cup Pairs({e})
    /\ UNCHANGED <<bidirectional, node, guard, job, interrupted, logNode>>

CreateEdge(e) ==
    /\ e.src \notin guard
    /\ e.tgt \notin guard
    /\ node[e.src] = "local"
    /\ node[e.tgt] \in Live
    /\ WriteEdge(e)
    /\ logEdges' = logEdges \cup Pairs({e})
    /\ UNCHANGED <<bidirectional, node, guard, job, interrupted, logNode>>

----------------------------------------------------------------------------
(* update_node and transfer_ownership: read the node, check the owner,     *)
(* then write it back blindly.                                             *)

ReadForUpdate(p, n) ==
    /\ job[p] = Idle
    /\ node[n] = "local"
    /\ Begin(p, [op |-> "update", node |-> n])
    /\ UNCHANGED <<bidirectional, store, interrupted, cdc>>

CommitUpdate(p) ==
    /\ job[p].op = "update"
    /\ node' = [node EXCEPT ![job[p].node] = "local"]
    /\ LogChange(job[p].node, logNode[job[p].node])
    /\ Finish(p)
    /\ UNCHANGED <<bidirectional, guard, fwd, rev, interrupted, logEdges>>

ReadForTransfer(p, n) ==
    /\ job[p] = Idle
    /\ node[n] = "local"
    /\ Begin(p, [op |-> "transfer", node |-> n])
    /\ UNCHANGED <<bidirectional, store, interrupted, cdc>>

CommitTransfer(p) ==
    /\ job[p].op = "transfer"
    /\ node' = [node EXCEPT ![job[p].node] = "remote"]
    /\ LogChange(job[p].node, "remote")
    /\ Finish(p)
    /\ UNCHANGED <<bidirectional, guard, fwd, rev, interrupted, logEdges>>

----------------------------------------------------------------------------
(* delete_edge.                                                            *)

ReadForDeleteEdge(p, s, t) ==
    /\ job[p] = Idle
    /\ node[s] = "local"
    /\ Begin(p, [op |-> "findEdge", src |-> s, tgt |-> t])
    /\ UNCHANGED <<bidirectional, store, interrupted, cdc>>

\* If nothing is found the request ends, as in Abort.
FindEdge(p) ==
    /\ job[p].op = "findEdge"
    /\ \E rows \in LookupRows(job[p].src) :
          LET found == FindByEndpoints(job[p].src, job[p].tgt, rows) IN
          /\ found # {}
          /\ Begin(p, [op |-> "deleteEdge", plan |-> found])
    /\ UNCHANGED <<bidirectional, store, interrupted, cdc>>

CommitDeleteEdge(p) ==
    /\ job[p].op = "deleteEdge"
    /\ ClearEdges(job[p].plan)
    /\ logEdges' = logEdges \ Pairs(job[p].plan)
    /\ Finish(p)
    /\ UNCHANGED <<bidirectional, node, guard, interrupted, logNode>>

----------------------------------------------------------------------------
(* delete_node.                                                            *)

ReadForDelete(p, n) ==
    /\ job[p] = Idle
    /\ node[n] = "local"
    /\ Begin(p, [op |-> "delete", node |-> n])
    /\ UNCHANGED <<bidirectional, store, interrupted, cdc>>

\* The first transaction: data removed, guard set, NodeDelete logged.
CommitDelete(p) ==
    LET n == job[p].node IN
    /\ job[p].op = "delete"
    /\ node' = [node EXCEPT ![n] = "deleted"]
    /\ guard' = guard \cup {n}
    /\ logNode' = [logNode EXCEPT ![n] = "deleted"]
    /\ interrupted' = interrupted \ {n}
    /\ Begin(p, [op |-> "listOut", node |-> n])
    /\ UNCHANGED <<bidirectional, fwd, rev, logEdges>>

\* delete_edges_for_node_internal, one turn of its loop: list the outgoing
\* edges, then the incoming ones, look each one up again, and remove those
\* found, at most TxLimit of them.
ListOut(p) ==
    /\ job[p].op = "listOut"
    /\ \E T \in OutPages(job[p].node) :
          Begin(p, [op |-> "listIn", node |-> job[p].node, todo |-> T])
    /\ UNCHANGED <<bidirectional, store, interrupted, cdc>>

ListIn(p) ==
    /\ job[p].op = "listIn"
    /\ \E T \in InPages(job[p].node) :
          LET candidates == job[p].todo \cup T IN
          Begin(p, IF candidates = {}
                   THEN [op |-> "clearGuard", node |-> job[p].node]
                   ELSE [op |-> "resolve", node |-> job[p].node,
                         todo |-> candidates, plan |-> {}])
    /\ UNCHANGED <<bidirectional, store, interrupted, cdc>>

\* Mutant: the batch is not cut at the transaction's limit.
ResolveAll(p) ==
    LET j == job[p] IN
    /\ j.op = "resolve"
    /\ j.todo # {}
    /\ \E e \in j.todo : \E rows \in LookupRows(e.src) :
          Begin(p, [j EXCEPT !.todo = @ \ {e},
                             !.plan = @ \cup FindByEndpoints(e.src, e.tgt, rows)])
    /\ UNCHANGED <<bidirectional, store, interrupted, cdc>>

Resolve(p) ==
    LET j == job[p] IN
    /\ j.op = "resolve"
    /\ j.todo # {}
    /\ Cardinality(j.plan) < TxLimit
    /\ \E e \in j.todo : \E rows \in LookupRows(e.src) :
          Begin(p, [j EXCEPT !.todo = @ \ {e},
                             !.plan = @ \cup FindByEndpoints(e.src, e.tgt, rows)])
    /\ UNCHANGED <<bidirectional, store, interrupted, cdc>>

Resolved(j) == j.op = "resolve" /\ (j.todo = {} \/ Cardinality(j.plan) >= TxLimit)

\* Mutant: the cascade removes edges without logging it.
CommitCascadeSilently(p) ==
    LET j == job[p] IN
    /\ Resolved(j)
    /\ j.plan # {}
    /\ ClearEdges(j.plan)
    /\ Begin(p, [op |-> "listOut", node |-> j.node])
    /\ UNCHANGED <<bidirectional, node, guard, interrupted, cdc>>

CommitCascade(p) ==
    LET j == job[p] IN
    /\ Resolved(j)
    /\ j.plan # {}
    /\ ClearEdges(j.plan)
    /\ logEdges' = logEdges \ Pairs(j.plan)
    /\ Begin(p, [op |-> "listOut", node |-> j.node])
    /\ UNCHANGED <<bidirectional, node, guard, interrupted, logNode>>

\* "Unable to resolve edge keys during node cascade delete".
FailCascade(p) ==
    LET j == job[p] IN
    /\ Resolved(j)
    /\ j.plan = {}
    /\ interrupted' = interrupted \cup {j.node}
    /\ Finish(p)
    /\ UNCHANGED <<bidirectional, store, cdc>>

ClearGuard(p) ==
    /\ job[p].op = "clearGuard"
    /\ guard' = guard \ {job[p].node}
    /\ Finish(p)
    /\ UNCHANGED <<bidirectional, node, fwd, rev, interrupted, cdc>>

----------------------------------------------------------------------------
(* The request ends early: a failed read or commit, a dropped request, a   *)
(* crash.                                                                  *)

Cascading == {"listOut", "listIn", "resolve"}

Abort(p) ==
    /\ job[p] # Idle
    /\ interrupted' = IF job[p].op \in Cascading
                      THEN interrupted \cup {job[p].node} ELSE interrupted
    /\ Finish(p)
    /\ UNCHANGED <<bidirectional, store, cdc>>

DeleteStep(p) ==
    \/ CommitDelete(p)
    \/ ListOut(p)
    \/ ListIn(p)
    \/ Resolve(p)
    \/ CommitCascade(p)
    \/ FailCascade(p)
    \/ ClearGuard(p)

Next ==
    \/ \E n \in Nodes : CreateNode(n)
    \/ \E e \in Edges : CreateEdge(e)
    \/ \E p \in Procs :
          \/ \E n \in Nodes : ReadForUpdate(p, n) \/ ReadForTransfer(p, n) \/ ReadForDelete(p, n)
          \/ \E s, t \in Nodes : ReadForDeleteEdge(p, s, t)
          \/ CommitUpdate(p)
          \/ CommitTransfer(p)
          \/ FindEdge(p)
          \/ CommitDeleteEdge(p)
          \/ DeleteStep(p)
          \/ Abort(p)

Spec == Init /\ [][Next]_vars

----------------------------------------------------------------------------
Jobs ==
    {Idle}
    \cup [op : {"update", "transfer", "delete", "listOut", "clearGuard"}, node : Nodes]
    \cup [op : {"findEdge"}, src : Nodes, tgt : Nodes]
    \cup [op : {"deleteEdge"}, plan : SUBSET Edges]
    \cup [op : {"listIn"}, node : Nodes, todo : SUBSET Edges]
    \cup [op : {"resolve"}, node : Nodes, todo : SUBSET Edges, plan : SUBSET Edges]

\* The type invariant, with the bound that the cascade keeps on the size of its
\* transactions (CASCADE_TX_EDGE_LIMIT).
TypeOK ==
    /\ bidirectional \in Directions
    /\ node \in [Nodes -> Live \cup {"unborn", "deleted"}]
    /\ guard \subseteq Nodes
    /\ fwd \subseteq FwdKeys
    /\ rev \subseteq RevKeys
    /\ job \in [Procs -> Jobs]
    /\ \A p \in Procs : job[p].op = "resolve" => Cardinality(job[p].plan) <= TxLimit
    /\ interrupted \subseteq Nodes
    /\ logNode \in [Nodes -> Live \cup {"unborn", "deleted"}]
    /\ logEdges \subseteq Nodes \X Nodes

Touches(n) == (\E f \in fwd : n \in {f.at, f.to}) \/ (\E r \in rev : n \in {r.at, r.from})

BeingCleaned(n) == \E p \in Procs : job[p].op \in Cascading /\ job[p].node = n

\* Without sort keys, an edge key with a missing endpoint is only ever there
\* while the delete of that endpoint is still removing its edges, or because
\* that delete ended early: concurrent creates, updates, transfers and other
\* deletes leave no edge behind (delete_node, create_edge).
NoDanglingEdges ==
    \A n \in Nodes :
        (node[n] \notin Live /\ Touches(n)) => BeingCleaned(n) \/ n \in interrupted

\* Without sort keys and for one-way labels, a reader of the CDC log has
\* exactly the edges that are stored.
CdcRebuildsEdges ==
    ~bidirectional => logEdges = {<<f.src, f.to>> : f \in fwd}

\* A reader of the CDC log has exactly the nodes that are stored, with their
\* owners.  (docs/operations/backup-and-recovery.md: the cache "is derivative
\* and can be rebuilt from CDC".)
CdcRebuildsNodes == logNode = node
=============================================================================
