------------------------------- MODULE Watch --------------------------------
(***************************************************************************)
(* Watch subscriptions (crates/pelago-api/src/watch_service.rs with its    *)
(* submodules dispatch, filter, snapshot and state, and                    *)
(* crates/pelago-storage/src/watch_state.rs).                              *)
(*                                                                         *)
(* A subscription is a task that reads the CDC log of one namespace from a *)
(* position on, turns operations into events, and puts them into a bounded *)
(* queue that the client's stream takes them from.  An event that finds    *)
(* the queue full is dropped; enough of them in a row end the              *)
(* subscription.  A query watch tracks the set of matching nodes, which it *)
(* saves after every batch under a name computed from the filter.          *)
(*                                                                         *)
(* Every log entry here has one operation: only the removal of edges puts  *)
(* several into one, and none of them changes what is tracked.  The        *)
(* evaluation of a filter on a node is given by the set of its matching    *)
(* values.                                                                 *)
(***************************************************************************)
EXTENDS Integers, FiniteSets, Sequences

CONSTANTS
    Nodes,          \* nodes, an initial segment of 1, 2, ...
    TypeOf,         \* TypeOf[n]: the entity type of n
    Types,          \* entity types, in the order in which a snapshot scans them
    Vals,           \* values of the property that queries are about
    Gone,           \* the value of a node that does not exist
    Clients,        \* clients, each with one watch that it may resume
    Principal,      \* Principal[c]: who client c is, NoPrincipal if the server does not ask
    NoPrincipal,
    Scenarios,      \* initial states and environments, see Init and Next
    Subs,           \* subscription identifiers, an initial segment of 1, 2, ...
    QueueSize,      \* max_queue_size
    MaxDropped,     \* max_dropped_events
    SnapshotLimit,  \* initial_snapshot_limit
    BatchSize,      \* entries of one read of the log
    MaxTotal, MaxNamespace, MaxQuery, MaxPrincipal, \* limits on subscriptions
    NoState,        \* no state is saved
    MaxLog,         \* bound: log entries
    MaxWriters,     \* bound: requests that have read their node
    MaxBeats        \* bound: heartbeats of one subscription

ASSUME WatchConstants ==
    /\ Nodes = 1..Cardinality(Nodes)
    /\ Subs = 1..Cardinality(Subs)
    /\ QueueSize \in Nat \ {0}
    /\ MaxDropped \in Nat \ {0}
    /\ SnapshotLimit \in Nat \ {0}
    /\ BatchSize \in Nat \ {0}

VARIABLES
    log,         \* the CDC log, with the entries that retention has removed
    oldest,      \* the first position that is still stored
    reading,     \* requests that have read their node, with the node and its value
    filterOf,    \* the filter that each client watches with
    may,         \* what happens besides the server's and the clients' work
    registered,  \* identifiers in the registry
    loop,        \* loop[s]: the task of subscription s
    queue,       \* queue[s]: events on their way to the client
    open,        \* open[s]: does the client still have the stream?
    stopped,     \* subscriptions that were told to stop
    expired,     \* subscriptions whose time is over
    conn,        \* conn[c]: the client's subscription, 0 when it has none
    view,        \* view[c]: nodes that the events so far say are there
    seen,        \* seen[c]: position of the last event
    good,        \* history: good[c]: view[c] was right at seen[c] when c lost its stream
    saved        \* saved[f]: state saved for query filter f

store == <<log, oldest, reading>>
env == <<filterOf, may>>
client == <<conn, view, seen, good>>
vars == <<log, oldest, reading, filterOf, may, registered, loop, queue, open, stopped, expired,
          conn, view, seen, good, saved>>

----------------------------------------------------------------------------
(* The log.                                                                *)

\* The value that the first k entries leave node n with, looking at some operations.
ValueBy(n, k, ops) ==
    LET touching == {i \in 1..k : log[i].op \in ops /\ log[i].node = n}
    IN  IF touching = {} THEN Gone
        ELSE log[CHOOSE i \in touching : \A j \in touching : j <= i].value
End == Len(log)

\* What a reader of the log takes node n to be after k entries, and what is stored: a
\* transfer writes a value that it does not log.
ValueAt(n, k) == ValueBy(n, k, {"create", "update", "delete"})
Live(k) == {n \in Nodes : ValueAt(n, k) # Gone}
Stored(n) == ValueBy(n, End, {"create", "update", "delete", "transfer"})
Present == {n \in Nodes : Stored(n) # Gone}

Append1(e) == log' = Append(log, e) /\ End < MaxLog

CreateNode ==
    /\ \E n \in Nodes, v \in Vals :
          /\ \A i \in 1..End : log[i].node # n
          /\ Append1([op |-> "create", node |-> n, value |-> v])
    /\ UNCHANGED <<oldest, reading>>

\* update_node, delete_node and transfer_ownership read the node in a transaction of
\* its own, and write without looking again.
ReadNode(request) ==
    /\ Len(reading) < MaxWriters
    /\ \E n \in Present : reading' = Append(reading, <<request, n, Stored(n)>>)
    /\ UNCHANGED <<log, oldest>>

\* The request's transaction, given the entry it logs.
Write(request, Entries(_, _)) ==
    /\ \E i \in DOMAIN reading :
          /\ reading[i][1] = request
          /\ \E e \in Entries(reading[i][2], reading[i][3]) : Append1(e)
          /\ reading' = SubSeq(reading, 1, i - 1) \o SubSeq(reading, i + 1, Len(reading))
    /\ UNCHANGED oldest

UpdateNode ==
    LET Entries(n, old) ==
            {[op |-> "update", node |-> n, prop |-> p, old |-> old, value |-> v] :
                <<p, v>> \in {<<"other", old>>} \cup {<<"watched", w>> : w \in Vals}}
    IN  Write("update", Entries)

DeleteNode ==
    LET Entries(n, old) == {[op |-> "delete", node |-> n, value |-> Gone]}
    IN  Write("delete", Entries)

\* All of the node is written back, and only the owner logged.
TransferOwnership ==
    LET Entries(n, old) == {[op |-> "transfer", node |-> n, value |-> old]}
    IN  Write("transfer", Entries)

ChangeEdge ==
    /\ \E m, n \in Present, op \in {"link", "unlink"} :
          Append1([op |-> op, node |-> m, target |-> n])
    /\ UNCHANGED <<oldest, reading>>

\* The log's retention knows nothing of watches.
Retain ==
    /\ oldest <= End
    /\ oldest' = oldest + 1
    /\ UNCHANGED <<log, reading>>

----------------------------------------------------------------------------
(* What a filter lets through (filter.rs), and what an operation tells a   *)
(* subscription (cdc_op_to_watch_events).                                  *)

\* A filter is [kind |-> "namespace"], or [kind |-> "point", nodes, edges] with the
\* watched properties of each node (none for all) and a set of edge targets, or
\* [kind |-> "query", type, match] with a type or "*", and the set of the matching values.
NodeScope(f, n) ==
    CASE f.kind = "namespace" -> TRUE
      [] f.kind = "point" -> n \in DOMAIN f.nodes
      [] f.kind = "query" -> f.type \in {TypeOf[n], "*"}

UpdateScope(f, n, p) ==
    /\ NodeScope(f, n)
    /\ f.kind = "point" => f.nodes[n] = {} \/ p \in f.nodes[n]

\* An edge target: a node, the direction it is looked at from, and the other end or 0.
EdgeTarget(t, m, n) ==
    LET out == t.node = m /\ t.other \in {0, n}
        in == t.node = n /\ t.other \in {0, m}
    IN  CASE t.dir = "incoming" -> in
          [] t.dir = "both" -> out \/ in
          [] OTHER -> out

EdgeScope(f, m, n) ==
    CASE f.kind = "namespace" -> TRUE
      [] f.kind = "point" -> {m, n} \cap DOMAIN f.nodes # {} \/ \E t \in f.edges : EdgeTarget(t, m, n)
      [] f.kind = "query" -> NodeScope(f, m) \/ NodeScope(f, n)

Matches(f, n, v) == NodeScope(f, n) /\ (f.kind = "query" => v \in f.match)

\* The kinds of the events for the operations on nodes and edges, "none" when there is
\* no event; m is the set of tracked nodes.
Tracked(f, m, n) == NodeScope(f, n) /\ (f.kind = "query" => n \in m)

CreateKind(f, e) == IF Matches(f, e.node, e.value) THEN "enter" ELSE "none"

UpdateKindByLoggedValues(f, m, e) ==
    LET was == Matches(f, e.node, e.old)
        is == Matches(f, e.node, e.value)
    IN  IF is THEN IF was THEN "update" ELSE "enter" ELSE IF was THEN "exit" ELSE "none"

UpdateKind(f, m, e) ==
    LET was == e.node \in m \/ Matches(f, e.node, e.old)
        is == Matches(f, e.node, e.value)
    IN  IF f.kind # "query" THEN IF UpdateScope(f, e.node, e.prop) THEN "update" ELSE "none"
        ELSE IF is THEN IF was THEN "update" ELSE "enter"
        ELSE IF was THEN "exit" ELSE "none"

DeleteKind(f, m, e) == IF Tracked(f, m, e.node) THEN "delete" ELSE "none"

EdgeKind(f, m, e) ==
    IF EdgeScope(f, e.node, e.target) /\ (f.kind = "query" => {e.node, e.target} \cap m # {})
    THEN "edge" ELSE "none"

TransferKind(f, m, e) == IF Tracked(f, m, e.node) THEN "update" ELSE "none"

EventKind(f, m, e) ==
    CASE e.op = "create" -> CreateKind(f, e)
      [] e.op = "update" -> UpdateKind(f, m, e)
      [] e.op = "delete" -> DeleteKind(f, m, e)
      [] e.op = "transfer" -> TransferKind(f, m, e)
      [] e.op \in {"link", "unlink"} -> EdgeKind(f, m, e)

TrackKeepingExits(f, m, e) ==
    IF f.kind = "query" /\ EventKind(f, m, e) \in {"enter", "update"} THEN m \cup {e.node} ELSE m

Track(f, m, e) ==
    LET k == EventKind(f, m, e)
    IN  IF f.kind # "query" \/ e.op \notin {"create", "update", "delete"} THEN m
        ELSE IF k \in {"enter", "update"} THEN m \cup {e.node}
        ELSE IF k \in {"exit", "delete"} THEN m \ {e.node}
        ELSE m

----------------------------------------------------------------------------
(* Subscribing (watch_point, watch_query, watch_namespace).                *)

NoLoop == [pc |-> "none"]
Set(s, r) == loop' = [loop EXCEPT ![s] = r]
At(s, pc) == loop[s].pc = pc
Underway(s) == loop[s].pc \in {"top", "dispatch", "error", "ending", "ended"}
FilterFor(s) == filterOf[loop[s].client]

OfType(t) == {n \in Nodes : TypeOf[n] = t}
InOrder(S) == [i \in 1..Cardinality(S) |-> CHOOSE n \in S : Cardinality({m \in S : m < n}) = i - 1]

\* validate_resume_position: the position, or -1 for OUT_OF_RANGE.
ResumePosition(pos) ==
    IF pos = 0 \/ pos >= oldest THEN pos
    ELSE IF oldest <= End THEN -1
    ELSE 0

WithinLimitsInclusive(c) ==
    LET Of(P(_)) == Cardinality({s \in registered : P(loop[s].client)})
    IN  /\ Cardinality(registered) <= MaxTotal
        /\ filterOf[c].kind = "query" => Of(LAMBDA d : filterOf[d].kind = "query") <= MaxQuery

\* WatchRegistry::try_insert, under the registry's lock; all is in one namespace.
WithinLimits(c) ==
    LET Of(P(_)) == Cardinality({s \in registered : P(loop[s].client)})
    IN  /\ Cardinality(registered) < MaxTotal
        /\ Cardinality(registered) < MaxNamespace
        /\ filterOf[c].kind = "query" => Of(LAMBDA d : filterOf[d].kind = "query") < MaxQuery
        /\ \/ Principal[c] = NoPrincipal
           \/ Of(LAMBDA d : Principal[d] = Principal[c]) < MaxPrincipal

\* What a snapshot reads in one go: the nodes of one type, or one node of a point watch.
Units(f) ==
    CASE f.kind = "point" -> [i \in 1..Cardinality(DOMAIN f.nodes) |-> {InOrder(DOMAIN f.nodes)[i]}]
      [] f.kind = "query" /\ f.type # "*" -> <<OfType(f.type)>>
      [] OTHER -> [i \in 1..Len(Types) |-> OfType(Types[i])]

\* A client that asks for a snapshot, or for all events, starts with an empty view.
Subscribe(c) ==
    /\ conn[c] = 0
    /\ \E s \in Subs, resume, snapshot \in BOOLEAN :
          LET pos == ResumePosition(IF resume THEN seen[c] ELSE 0)
              again == resume /\ ~snapshot
          IN  /\ At(s, "none")
              /\ \A r \in Subs : r < s => ~At(r, "none")
              /\ resume => "resume" \in may /\ seen[c] > 0
              /\ snapshot => "snapshot" \in may
              /\ pos # -1
              /\ WithinLimits(c)
              /\ registered' = registered \cup {s}
              /\ conn' = [conn EXCEPT ![c] = s]
              /\ open' = [open EXCEPT ![s] = TRUE]
              /\ view' = IF again THEN view ELSE [view EXCEPT ![c] = {}]
              /\ seen' = IF resume THEN seen ELSE [seen EXCEPT ![c] = 0]
              /\ Set(s, [pc |-> "restore", client |-> c, after |-> pos, matched |-> {},
                         dropped |-> 0, snapshot |-> snapshot, todo |-> <<>>, beats |-> 0,
                         units |-> IF snapshot THEN Units(filterOf[c]) ELSE <<>>,
                         left |-> SnapshotLimit, cut |-> FALSE, base |-> -1, snapAt |-> 0,
                         whole |-> TRUE, told |-> again => good[c] /\ pos = seen[c]])
    /\ UNCHANGED <<store, env, queue, stopped, expired, good, saved>>

\* should_restore_query_watch_state and get_query_watch_state
Restore(s) ==
    /\ At(s, "restore")
    /\ LET l == loop[s]
           f == FilterFor(s)
           look == f.kind = "query" /\ ~l.snapshot /\ l.after > 0
           use == look /\ saved[f] # NoState /\ saved[f].position <= l.after
       IN  Set(s, [l EXCEPT !.pc = IF l.snapshot THEN "scan" ELSE "top",
                            !.matched = IF use THEN saved[f].matched ELSE {},
                            !.whole = look => /\ use
                                              /\ saved[f].whole
                                              /\ saved[f].position = l.after])
    /\ UNCHANGED <<store, env, registered, queue, open, stopped, expired, client, saved>>

\* emit_initial_snapshot reads at most the limit, and then looks at what matches.
FirstOf(S, k) == {n \in S : Cardinality({m \in S : m < n}) < k}

Scan(s) ==
    /\ At(s, "scan")
    /\ LET l == loop[s]
           f == FilterFor(s)
           there == Head(l.units) \cap Present
           rows == FirstOf(there, l.left)
       IN  IF l.units = <<>> \/ l.left = 0
           THEN LET short == l.cut \/ l.units # <<>>
                IN  Set(s, [l EXCEPT !.pc = "top",
                                     !.base = IF short THEN -1 ELSE @,
                                     !.whole = short => l.after = 0,
                                     !.told = short => l.after = 0])
           ELSE Set(s, [l EXCEPT !.pc = "send",
                                 !.units = Tail(@),
                                 !.todo = InOrder({n \in rows : Matches(f, n, Stored(n))}),
                                 !.cut = @ \/ rows # there,
                                 !.base = IF @ = -1 THEN End ELSE @,
                                 !.snapAt = End])
    /\ UNCHANGED <<store, env, registered, queue, open, stopped, expired, client, saved>>

----------------------------------------------------------------------------
(* The task of a subscription (spawn_watch_loop, try_dispatch_watch_event).*)

Message(kind, n, pos) == [kind |-> kind, node |-> n, pos |-> pos]
Room(s) == Len(queue[s]) < QueueSize
Put(s, e) == queue' = [queue EXCEPT ![s] = Append(@, e)]
rest == <<store, env, stopped, expired, conn, view, seen, good>>

\* The snapshot waits for room in the queue.
SendSnapshot(s) ==
    /\ At(s, "send")
    /\ LET l == loop[s]
           n == Head(l.todo)
           m == IF FilterFor(s).kind = "query" THEN l.matched \cup {n} ELSE l.matched
       IN  \/ /\ l.todo = <<>>
              /\ Set(s, [l EXCEPT !.pc = "scan"])
              /\ UNCHANGED queue
           \/ /\ l.todo # <<>> /\ open[s] /\ Room(s)
              /\ Put(s, Message("enter", n, l.after))
              /\ Set(s, [l EXCEPT !.todo = Tail(@), !.matched = m, !.left = @ - 1])
           \/ /\ l.todo # <<>> /\ ~open[s]
              /\ Set(s, [l EXCEPT !.pc = "ending", !.matched = m, !.whole = FALSE])
              /\ UNCHANGED queue
    /\ UNCHANGED <<rest, registered, open, saved>>

\* A heartbeat that finds no room, or no client, is forgotten.
Heartbeat(s) ==
    /\ At(s, "top")
    /\ s \notin stopped \cup expired
    /\ loop[s].beats < MaxBeats
    /\ Set(s, [loop[s] EXCEPT !.beats = @ + 1])
    /\ IF open[s] /\ Room(s) THEN Put(s, Message("beat", 0, loop[s].after)) ELSE UNCHANGED queue
    /\ UNCHANGED <<rest, registered, open, saved>>

CheckEnd(s) ==
    /\ At(s, "top")
    /\ s \in stopped \cup expired
    /\ Set(s, [loop[s] EXCEPT !.pc = "ending"])
    /\ UNCHANGED <<rest, registered, queue, open, saved>>

\* read_cdc_entries, after the position; gaps are not noticed.
ReadEntries(s) ==
    /\ At(s, "top")
    /\ s \notin stopped \cup expired
    /\ LET l == loop[s]
           first == IF l.after + 1 < oldest THEN oldest ELSE l.after + 1
           last == IF End < first + BatchSize - 1 THEN End ELSE first + BatchSize - 1
       IN  /\ first <= last
           /\ Set(s, [l EXCEPT !.pc = "dispatch",
                               !.todo = [i \in 1..(last - first + 1) |-> first + i - 1],
                               !.whole = @ /\ (l.after + 1 = first \/ first - 1 <= l.base),
                               !.told = @ /\ (l.after + 1 = first \/ first - 1 <= l.base)])
    /\ UNCHANGED <<rest, registered, queue, open, saved>>

\* An error on the way is sent to the client, which waits for room.
FailRead(s) ==
    /\ At(s, "top") \/ At(s, "scan")
    /\ At(s, "top") => s \notin stopped \cup expired
    /\ Set(s, [loop[s] EXCEPT !.pc = "error", !.whole = @ /\ At(s, "top")])
    /\ UNCHANGED <<rest, registered, queue, open, saved>>

Dispatch(s) ==
    /\ At(s, "dispatch")
    /\ loop[s].todo # <<>>
    /\ LET f == FilterFor(s)
           vs == Head(loop[s].todo)
           e == log[vs]
           kind == EventKind(f, loop[s].matched, e)
           l == [loop[s] EXCEPT !.after = vs, !.todo = Tail(@),
                                !.matched = Track(f, @, e)]
       IN  \/ /\ kind = "none"
              /\ Set(s, l)
              /\ UNCHANGED queue
           \/ /\ kind # "none" /\ open[s] /\ Room(s)
              /\ Put(s, Message(kind, e.node, vs))
              /\ Set(s, [l EXCEPT !.dropped = 0])
           \/ /\ kind # "none" /\ open[s] /\ ~Room(s)
              /\ Set(s, [l EXCEPT !.dropped = @ + 1, !.told = FALSE,
                                  !.pc = IF l.dropped + 1 >= MaxDropped THEN "error" ELSE "dispatch"])
              /\ UNCHANGED queue
           \/ /\ kind # "none" /\ ~open[s]
              /\ Set(s, [l EXCEPT !.pc = "ending"])
              /\ UNCHANGED queue
    /\ UNCHANGED <<rest, registered, open, saved>>

SendError(s) ==
    /\ At(s, "error")
    /\ Room(s) \/ ~open[s]
    /\ IF open[s] THEN Put(s, Message("error", 0, 0)) ELSE UNCHANGED queue
    /\ Set(s, [loop[s] EXCEPT !.pc = "ending"])
    /\ UNCHANGED <<rest, registered, open, saved>>

\* persist_query_watch_state; its errors are ignored.
Saving(s) ==
    LET f == FilterFor(s)
    IN  IF f.kind # "query" THEN {saved}
        ELSE {saved, [saved EXCEPT ![f] = [position |-> loop[s].after, matched |-> loop[s].matched,
                                          whole |-> loop[s].whole /\ loop[s].after >= loop[s].snapAt]]}

FinishBatch(s) ==
    /\ At(s, "dispatch")
    /\ loop[s].todo = <<>>
    /\ saved' \in Saving(s)
    /\ Set(s, [loop[s] EXCEPT !.pc = "top"])
    /\ UNCHANGED <<rest, registered, queue, open>>

EndLoopKeepingPlace(s) ==
    /\ At(s, "ending")
    /\ saved' \in Saving(s)
    /\ Set(s, [loop[s] EXCEPT !.pc = "ended"])
    /\ UNCHANGED <<rest, registered, queue, open>>

EndLoop(s) ==
    /\ At(s, "ending")
    /\ saved' \in Saving(s)
    /\ registered' = registered \ {s}
    /\ Set(s, [loop[s] EXCEPT !.pc = "ended"])
    /\ UNCHANGED <<rest, queue, open>>

----------------------------------------------------------------------------
(* Around it: cancellation, time, clients, and the sweep of saved states.  *)

Cancel(s) ==
    /\ s \in registered
    /\ registered' = registered \ {s}
    /\ stopped' = stopped \cup {s}
    /\ UNCHANGED <<store, env, loop, queue, open, expired, client, saved>>

Expire(s) ==
    /\ s \in registered
    /\ expired' = expired \cup {s}
    /\ UNCHANGED <<store, env, registered, loop, queue, open, stopped, client, saved>>

\* What the client makes of an event.
Apply(v, e) ==
    IF e.kind \in {"enter", "update"} THEN v \cup {e.node}
    ELSE IF e.kind \in {"exit", "delete"} THEN v \ {e.node}
    ELSE v

Receive(c) ==
    /\ conn[c] # 0
    /\ queue[conn[c]] # <<>>
    /\ LET s == conn[c]
           e == Head(queue[s])
       IN  /\ queue' = [queue EXCEPT ![s] = Tail(@)]
           /\ view' = [view EXCEPT ![c] = Apply(@, e)]
           /\ seen' = IF e.kind = "error" THEN seen ELSE [seen EXCEPT ![c] = e.pos]
    /\ UNCHANGED <<store, env, registered, loop, open, stopped, expired, conn, good, saved>>

ViewIsRight(c) ==
    LET l == loop[conn[c]]
    IN  Underway(conn[c]) /\ l.told /\ l.whole /\ seen[c] >= l.snapAt

\* The stream ends, or the client goes away.
Disconnect(c) ==
    /\ conn[c] # 0
    /\ open' = [open EXCEPT ![conn[c]] = FALSE]
    /\ queue' = [queue EXCEPT ![conn[c]] = <<>>]
    /\ conn' = [conn EXCEPT ![c] = 0]
    /\ good' = [good EXCEPT ![c] = ViewIsRight(c)]
    /\ UNCHANGED <<store, env, registered, loop, stopped, expired, view, seen, saved>>

\* cleanup_query_watch_states
SweepStates ==
    /\ \E f \in DOMAIN saved :
          /\ saved[f] # NoState
          /\ saved' = [saved EXCEPT ![f] = NoState]
    /\ UNCHANGED <<store, env, registered, loop, queue, open, stopped, expired, client>>

----------------------------------------------------------------------------
\* A scenario has the clients' filters, a log with which it begins, and the set "may" of
\* the operations, requests and disturbances that happen in it.
Init ==
    /\ \E sc \in Scenarios :
          /\ log = sc.log
          /\ filterOf = sc.filters
          /\ may = sc.may
    /\ oldest = 1
    /\ reading = <<>>
    /\ registered = {}
    /\ loop = [s \in Subs |-> NoLoop]
    /\ queue = [s \in Subs |-> <<>>]
    /\ open = [s \in Subs |-> FALSE]
    /\ stopped = {}
    /\ expired = {}
    /\ conn = [c \in Clients |-> 0]
    /\ view = [c \in Clients |-> {}]
    /\ seen = [c \in Clients |-> 0]
    /\ good = [c \in Clients |-> FALSE]
    /\ saved = [f \in {filterOf[c] : c \in DOMAIN filterOf} |-> NoState]

Store ==
    /\ \/ "create" \in may /\ CreateNode
       \/ \E request \in may \cap {"update", "delete", "transfer"} : ReadNode(request)
       \/ UpdateNode
       \/ DeleteNode
       \/ TransferOwnership
       \/ "edges" \in may /\ ChangeEdge
       \/ "retention" \in may /\ Retain
    /\ UNCHANGED <<env, registered, loop, queue, open, stopped, expired, client, saved>>

Loop(s) ==
    \/ Restore(s) \/ Scan(s) \/ SendSnapshot(s) \/ CheckEnd(s) \/ ReadEntries(s)
    \/ Dispatch(s) \/ SendError(s) \/ FinishBatch(s) \/ EndLoop(s)

Next ==
    \/ Store
    \/ "sweep" \in may /\ SweepStates
    \/ \E s \in Subs :
          \/ Loop(s)
          \/ "beats" \in may /\ Heartbeat(s)
          \/ "errors" \in may /\ FailRead(s)
          \/ "cancel" \in may /\ Cancel(s)
          \/ "expiry" \in may /\ Expire(s)
    \/ \E c \in DOMAIN filterOf :
          \/ Subscribe(c)
          \/ Receive(c)
          \/ "leave" \in may /\ Disconnect(c)

Spec == Init /\ [][Next]_vars

\* The tasks run, and a client reads what it is sent, or goes away.  The server
\* requires no more of a client: one that keeps its stream and does not read it keeps
\* the task waiting in a snapshot or with an error, and its place in the registry.
FairSpec ==
    /\ Spec
    /\ \A s \in Subs : WF_vars(Loop(s))
    /\ \A c \in Clients : WF_vars(Receive(c))

----------------------------------------------------------------------------
(* Properties.                                                             *)

\* The nodes that watch f is about, as the log has them after k entries.
Expected(f, k) == {n \in Live(k) : Matches(f, n, ValueAt(n, k))}

\* A query watch tracks exactly the nodes that match at the position it has come to,
\* unless it started from a set saved for another position, or retention or a
\* snapshot's limit kept entries from it.  In particular a snapshot followed by the
\* replay of entries that the snapshot already shows, and updates that log the values
\* of a stale read, leave it right (emit_initial_snapshot, cdc_op_to_watch_events).
TrackedIsExact ==
    \A s \in Subs :
       LET l == loop[s]
       IN  (Underway(s) /\ FilterFor(s).kind = "query" /\ l.whole /\ l.after >= l.snapAt)
              => l.matched = Expected(FilterFor(s), l.after)

\* What client c will know once it has received all that is in its queue.
ToldView(c) ==
    LET q == queue[conn[c]]
        About(n) == {i \in 1..Len(q) : q[i].node = n /\ q[i].kind # "edge"}
        Last(n) == q[CHOOSE i \in About(n) : \A j \in About(n) : j <= i]
    IN  {n \in Nodes : IF About(n) = {} THEN n \in view[c] ELSE n \in Apply({}, Last(n))}

\* Watches of some properties of a node are not told when another one is written, even
\* if that brings the node back.
ToldAll(f) == f.kind = "point" => \A n \in DOMAIN f.nodes : f.nodes[n] = {}

StreamRight(c) ==
    LET l == loop[conn[c]]
        f == filterOf[c]
    IN  (Underway(conn[c]) /\ l.told /\ l.after >= l.snapAt /\ ToldAll(f))
           => ToldView(c) = Expected(f, l.after)

\* The events that a client has been sent, one after the other, tell it exactly which
\* nodes its watch is about at the position the task has come to, if no event of its
\* subscription was dropped, no entry was lost to retention, and a query watch that
\* resumes found the set saved for that very position (spawn_watch_loop).
StreamIsExact ==
    \A c \in Clients : conn[c] # 0 /\ loop[conn[c]].whole => StreamRight(c)

\* Only subscriptions whose task still runs hold a place in the registry, and no more
\* of them than the limits allow, whatever way the tasks end (WatchRegistry).
RegistryHoldsRunning ==
    /\ \A s \in registered : loop[s].pc \notin {"none", "ended"}
    /\ Cardinality(registered) <= MaxTotal
    /\ Cardinality({s \in registered : FilterFor(s).kind = "query"}) <= MaxQuery
    /\ \A p \in {Principal[c] : c \in Clients} \ {NoPrincipal} :
          Cardinality({s \in registered : Principal[loop[s].client] = p}) <= MaxPrincipal

\* A subscription whose time is over leaves the registry (the checks at the top of
\* spawn_watch_loop, and every way out of it).
ExpiredLeave == \A s \in Subs : s \in expired ~> s \notin registered
=============================================================================
