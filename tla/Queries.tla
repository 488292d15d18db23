------------------------------- MODULE Queries -------------------------------
(***************************************************************************)
(* QueryService: FindNodes with its cursors, Traverse with its             *)
(* continuation tokens and ExecutePQL with its blocks                      *)
(* (query_service.rs, executor.rs, traversal.rs), over a store that other  *)
(* requests change meanwhile.                                              *)
(*                                                                         *)
(* db holds every committed snapshot.  A strict call reads all it needs at *)
(* one version; a best-effort call reads the newest version at every read. *)
(* Each read of the database is a step, and so is the answer.  The client  *)
(* asks for page after page until an answer has no cursor, and repeats a   *)
(* call that fails.                                                        *)
(***************************************************************************)
EXTENDS PqlBlocks

CONSTANTS
    Ids,            \* node identifiers, 1 and up
    Scenarios,      \* records [nodes, edges, query, may, data]
    ChunkSize,      \* NODE_BATCH_FETCH_SIZE, 256 in the code
    EdgeCap,        \* edges listed per node and direction, 1000 in the code
    DefaultLimit,   \* default_limit, 1000 in the code
    MaxVersions     \* bound on the snapshots of a behaviour

VARIABLES
    db,        \* sequence of snapshots [nodes, edges]; an edge is <<src, label, dst, value>>
    query,     \* the client's query, fixed
    may,       \* what the environment does in this behaviour, fixed
    data,      \* what writers store, records [id, props], fixed
    call,      \* the operation in progress
    blocks,    \* of ExecutePQL: the blocks left, captured variables, rows so far, and
               \* for the properties the blocks that were cut
    session,   \* the client: open, cursor, and for the properties from, to, pages, cut
    got        \* rows the client has received

vars == <<db, query, may, data, call, blocks, session, got>>
fixed == <<query, may, data>>

Idle == [pc |-> "idle"]
NoBlocks == [left |-> <<>>, captured |-> <<>>, out |-> <<>>, cut |-> {}]
NoToken == [queue |-> <<>>, visited |-> {}]
Newest == db[Len(db)]
Seen == IF call.rv = 0 THEN Newest ELSE db[call.rv]

-----------------------------------------------------------------------------
(* Other requests.  Each commits one snapshot.                             *)

Commit(nodes, edges) ==
    /\ Len(db) < MaxVersions
    /\ session.open
    /\ db' = Append(db, [nodes |-> nodes, edges |-> edges])
    /\ UNCHANGED <<fixed, call, blocks, session, got>>

Unused(n, props) ==
    \A p \in Props : IndexOf[p] = "unique" /\ props[p] # Absent =>
        \A m \in DOMAIN Newest.nodes \ {n} : Newest.nodes[m][p] # props[p]

WriteNode(n, props) ==
    /\ "write" \in may
    /\ Unused(n, props)
    /\ n \in DOMAIN Newest.nodes => Newest.nodes[n] # props
    /\ Commit([m \in DOMAIN Newest.nodes \cup {n} |->
                  IF m = n THEN props ELSE Newest.nodes[m]], Newest.edges)

\* A node is deleted in one transaction and its edges in a later one.
DeleteNode(n) ==
    /\ "delete" \in may
    /\ n \in DOMAIN Newest.nodes
    /\ Commit([m \in DOMAIN Newest.nodes \ {n} |-> Newest.nodes[m]], Newest.edges)

DeleteEdges(n) ==
    /\ n \notin DOMAIN Newest.nodes
    /\ \E e \in Newest.edges : n \in {e[1], e[3]}
    /\ Commit(Newest.nodes, {e \in Newest.edges : n \notin {e[1], e[3]}})

RemoveEdge(e) ==
    /\ "unlink" \in may
    /\ Commit(Newest.nodes, Newest.edges \ {e})

-----------------------------------------------------------------------------
(* Calls begin, fail and are answered.                                     *)

Goto(c) == call' = c /\ UNCHANGED <<db, fixed, blocks, session, got>>

\* get_read_version of a strict call
ReadVersion == IF query.strict THEN Len(db) ELSE 0

Find(expr, limit, fields, after) ==
    [expr |-> expr, limit |-> limit, fields |-> fields, after |-> after]

\* The offset path asks for all rows up to the page's end and one more.
FindOf ==
    IF query.paging = "offset"
    THEN Find(query.expr, session.cursor[1] + query.limit + 1, query.fields, <<>>)
    ELSE Find(query.expr, query.limit, query.fields, session.cursor)

\* execute_term_expression where it applies, otherwise plan and scan; ExecutePQL
\* never takes the term path.
StartFind(f, rv, terms) ==
    IF terms
    THEN [pc |-> "group", rv |-> rv, find |-> f, groups |-> f.expr, union |-> {}]
    ELSE [pc |-> "scan", rv |-> rv, find |-> f]

StartTraversal(start, hops, depth, max, token, rv) ==
    [pc |-> "start", rv |-> rv, start |-> start, hops |-> hops, depth |-> depth, max |-> max,
     token |-> token]

BeginFind ==
    /\ call = Idle /\ session.open /\ query.kind = "find"
    /\ Goto(StartFind(FindOf, ReadVersion, UsesTerms(query.expr)))

BeginTraverse ==
    /\ call = Idle /\ session.open /\ query.kind = "traverse"
    /\ Goto(StartTraversal(query.start, query.hops, query.depth, query.max, session.cursor,
                           ReadVersion))

\* The client gets an error that repeating the call would not change.
Refuse ==
    /\ session' = [session EXCEPT !.open = FALSE, !.refused = TRUE]
    /\ call' = Idle
    /\ blocks' = NoBlocks
    /\ UNCHANGED <<db, fixed, got>>

\* A query that does not resolve or compile is refused.
BeginPql ==
    /\ call = Idle /\ session.open /\ query.kind = "pql"
    /\ IF Resolvable(query.blocks) /\ Orderable(query.blocks) /\ Compilable(query.blocks)
       THEN /\ call' = [pc |-> "block", rv |-> ReadVersion]
            /\ blocks' = [NoBlocks EXCEPT !.left = Execution(query.blocks)]
            /\ UNCHANGED <<db, fixed, session, got>>
       ELSE Refuse

\* A read fails, a strict version is too old, a traversal takes too long, or
\* validate_snapshot_guardrail finds a strict call over its budget.  The
\* client keeps its rows and its cursor.
Fail ==
    /\ "fail" \in may
    /\ call # Idle
    /\ call' = Idle
    /\ blocks' = NoBlocks
    /\ UNCHANGED <<db, fixed, session, got>>

Labelled(rows, version) == [i \in DOMAIN rows |-> rows[i] @@ [at |-> version]]

\* validate_snapshot_guardrail: over its budget, a strict call may be answered
\* as best effort where the client allows it.
Answer(rows, next, more, cut) ==
    /\ \/ got' = got \o Labelled(rows, call.rv)
       \/ /\ "degrade" \in may /\ query.strict
          /\ got' = got \o Labelled(rows, 0)
    /\ session' = [session EXCEPT !.open = more, !.cursor = IF more THEN next ELSE @,
                                  !.from = IF session.pages = 0 THEN call.rv ELSE @,
                                  !.to = call.rv, !.pages = @ + 1, !.cut = @ \cup cut]
    /\ call' = Idle
    /\ blocks' = NoBlocks
    /\ UNCHANGED <<db, fixed>>

-----------------------------------------------------------------------------
(* FindNodes, and the find blocks of ExecutePQL.                           *)

\* execute_term_groups takes the next group and execute_term_group reads the
\* counters of its terms; in the end the union is sorted.
NextGroup ==
    /\ call.pc = "group"
    /\ IF call.groups # <<>>
       THEN LET lookups == Lookups(Head(call.groups))
            IN  Goto([pc |-> "postings", rv |-> call.rv, find |-> call.find,
                      groups |-> Tail(call.groups), union |-> call.union,
                      lookups |-> lookups, running |-> Ids,
                      counts |-> [l \in lookups |-> Cardinality(Posted(Seen.nodes, l))]])
       ELSE LET ids == TermIds(call.union, call.find.limit)
            IN  Goto([pc |-> "fetch", rv |-> call.rv, find |-> call.find, terms |-> TRUE,
                      cut |-> FALSE, rows |-> <<>>,
                      keys |-> [i \in DOMAIN ids |-> [key |-> <<ids[i]>>, id |-> ids[i]]]])

\* The union grows in no order of its own up to PostingCap; then the other
\* groups are not read.
Unite(union, ids, groups) ==
    LET all == union \cup ids
    IN  \E kept \in SUBSET all :
           /\ union \subseteq kept
           /\ Cardinality(kept) = Least({PostingCap, Cardinality(all)})
           /\ Goto([pc |-> "group", rv |-> call.rv, find |-> call.find, union |-> kept,
                    groups |-> IF Cardinality(kept) = PostingCap THEN <<>> ELSE groups])

\* execute_term_group reads one posting list, and stops when nothing is left.
\* The counters also order the lists, which changes no result.
ReadPostings(l) ==
    /\ call.pc = "postings"
    /\ l \in call.lookups
    /\ LET after == IF call.find.after = <<>> THEN 0 ELSE call.find.after[1]
           running == call.running \cap Postings(Seen.nodes, l, after, call.counts[l])
           rest == call.lookups \ {l}
       IN  IF running # {} /\ rest # {}
           THEN Goto([call EXCEPT !.lookups = rest, !.running = running])
           ELSE Unite(call.union, running, call.groups)

Scan ==
    /\ call.pc = "scan"
    /\ LET f == call.find
           keys == ScanKeys(Seen.nodes, f.expr, f.after, f.limit)
       IN  Goto([pc |-> "fetch", rv |-> call.rv, find |-> f, terms |-> FALSE,
                 cut |-> Len(keys) = ScanLimit(f.limit), rows |-> <<>>, keys |-> keys])

RowsOf(nodes, keys) ==
    LET Stored(e) == e.id \in DOMAIN nodes
        kept == SelectSeq(keys, Stored)
    IN  [i \in DOMAIN kept |-> [id |-> kept[i].id, key |-> kept[i].key,
                                props |-> nodes[kept[i].id]]]

\* Mutant: nodes are fetched at the newest version.
FetchNewest ==
    /\ call.pc = "fetch" /\ call.keys # <<>>
    /\ Goto([call EXCEPT !.rows = @ \o RowsOf(Newest.nodes, FirstFew(call.keys, ChunkSize)),
                         !.keys = FromOffset(@, ChunkSize)])

\* fetch_nodes_in_order, fetch_scan_candidates_in_order: one chunk; a node
\* that is gone is skipped.
Fetch ==
    /\ call.pc = "fetch" /\ call.keys # <<>>
    /\ Goto([call EXCEPT !.rows = @ \o RowsOf(Seen.nodes, FirstFew(call.keys, ChunkSize)),
                         !.keys = FromOffset(@, ChunkSize)])

Found ==
    LET page == IF call.terms THEN TermPage(call.rows, call.find.limit)
                ELSE ScanPage(call.rows, Plan(call.find.expr), call.find.limit)
    IN  [page EXCEPT !.rows = Project(@, call.find.fields)]

\* find_nodes: the page of an offset cursor is cut out of all rows found.
PageOf(result) ==
    IF query.paging = "keyset" THEN result
    ELSE LET start == Least({session.cursor[1], Len(result.rows)})
             end == Least({start + query.limit, Len(result.rows)})
         IN  [rows |-> SubSeq(result.rows, start + 1, end),
              next |-> IF Len(result.rows) > end THEN <<end>> ELSE <<>>]

AnswerFind ==
    /\ call.pc = "fetch" /\ call.keys = <<>> /\ query.kind = "find"
    /\ LET page == PageOf(Found)
       IN  Answer(page.rows, page.next, page.next # <<>>, IF call.cut THEN {1} ELSE {})

-----------------------------------------------------------------------------
(* Traverse, and the traversal blocks of ExecutePQL.  An entry of the      *)
(* queue is a path: the nodes on it as identifiers, its last node as a row *)
(* and the number of hops.  A hop has dir, label (0 for any), accepts (the *)
(* edge values its edge filter lets through) and filter.                   *)

\* The start node must exist even when a token is resumed.
StartNode ==
    /\ call.pc = "start"
    /\ LET first == [path |-> <<call.start>>, hop |-> 0,
                     row |-> [id |-> call.start, props |-> Seen.nodes[call.start]]]
       IN  IF call.start \notin DOMAIN Seen.nodes THEN Refuse
           ELSE Goto([pc |-> "pop", rv |-> call.rv, hops |-> call.hops, depth |-> call.depth,
                      max |-> call.max, results |-> <<>>, listed |-> <<>>, pending |-> <<>>,
                      fetched |-> <<>>]
                     @@ IF call.token = NoToken
                        THEN [queue |-> <<first>>, visited |-> {call.start}]
                        ELSE call.token)

Full == Len(call.results) >= call.max
Complete(entry) == entry.hop >= Len(call.hops) \/ entry.hop >= call.depth

\* The loop takes a path that is complete.
TakeResult ==
    /\ call.pc = "pop" /\ call.queue # <<>> /\ ~Full
    /\ Complete(Head(call.queue))
    /\ Goto([call EXCEPT !.queue = Tail(@), !.results = Append(@, Head(call.queue))])

\* The edges that get_edges_for_hop and filter_edges leave, in key order
Outgoing(edges, n, hop) ==
    LET Before(e, f) == KeyLess(<<e[2], e[3]>>, <<f[2], f[3]>>)
    IN  FirstFew(SortBy({e \in edges : e[1] = n /\ hop.label \in {0, e[2]}}, Before), EdgeCap)
Incoming(edges, n, hop) ==
    LET Before(e, f) == KeyLess(<<e[2], e[1]>>, <<f[2], f[1]>>)
    IN  FirstFew(SortBy({e \in edges : e[3] = n /\ hop.label \in {0, e[2]}}, Before), EdgeCap)

OtherEnd(e, n, hop) ==
    CASE hop.dir = "outgoing" -> e[3]
      [] hop.dir = "incoming" -> e[1]
      [] hop.dir = "both" -> IF e[1] = n THEN e[3] ELSE e[1]

\* Edges to visited nodes are left out, and so are those the filter rejects;
\* both directions list an edge once.
TargetsOf(edges, n, hop) ==
    LET Keep(i) == /\ edges[i][4] \in hop.accepts
                   /\ OtherEnd(edges[i], n, hop) \notin call.visited
                   /\ \A j \in 1..(i - 1) : edges[j] # edges[i]
        kept == SortBy({i \in DOMAIN edges : Keep(i)}, NumberLess)
    IN  [k \in DOMAIN kept |-> OtherEnd(edges[kept[k]], n, hop)]

\* The loop expands a path: one listing, or two for both directions.
ListEdges ==
    /\ call.pc = "pop" /\ call.queue # <<>> /\ ~Full
    /\ LET entry == Head(call.queue)
           hop == call.hops[entry.hop + 1]
           n == entry.row.id
           listed == IF hop.dir = "incoming" THEN Incoming(Seen.edges, n, hop)
                     ELSE Outgoing(Seen.edges, n, hop)
       IN  /\ ~Complete(entry)
           /\ IF hop.dir = "both"
              THEN Goto([call EXCEPT !.pc = "incoming", !.listed = listed])
              ELSE Goto([call EXCEPT !.pc = "targets", !.fetched = <<>>,
                                     !.pending = TargetsOf(listed, n, hop)])

ListIncoming ==
    /\ call.pc = "incoming"
    /\ LET entry == Head(call.queue)
           hop == call.hops[entry.hop + 1]
           n == entry.row.id
       IN  Goto([call EXCEPT !.pc = "targets", !.fetched = <<>>,
                             !.pending = TargetsOf(call.listed \o Incoming(Seen.edges, n, hop),
                                                   n, hop)])

\* The fetches of a batch finish in any order; a target that is gone leaves
\* an empty row.
FetchTarget(k) ==
    /\ call.pc = "targets"
    /\ k \in DOMAIN call.pending \ DOMAIN call.fetched
    /\ LET n == call.pending[k]
           row == IF n \in DOMAIN Seen.nodes THEN <<[id |-> n, props |-> Seen.nodes[n]]>> ELSE <<>>
       IN  Goto([call EXCEPT !.fetched = (k :> row) @@ @])

\* Targets that pass the node filter are queued in the order of their edges.
Enqueue ==
    /\ call.pc = "targets"
    /\ DOMAIN call.fetched = DOMAIN call.pending
    /\ LET entry == Head(call.queue)
           Keep(r) == PassesBare(ToSet(call.hops[entry.hop + 1].filter), r.props)
           rows == Distinct(SelectSeq(FlattenSeq([k \in DOMAIN call.pending |-> call.fetched[k]]),
                                      Keep))
       IN  Goto([call EXCEPT !.pc = "pop", !.visited = @ \cup IdsOf(rows),
                             !.queue = Tail(@) \o
                                 [k \in DOMAIN rows |-> [path |-> Append(entry.path, rows[k].id),
                                                         hop |-> entry.hop + 1, row |-> rows[k]]]])

\* Mutant: the path taken when the page was full is not put back.
TokenWithoutHead == [queue |-> Tail(call.queue), visited |-> call.visited]

Token == [queue |-> call.queue, visited |-> call.visited]

Exhausted == call.pc = "pop" /\ (call.queue = <<>> \/ Full)
Ends == [i \in DOMAIN call.results |-> call.results[i].row]

\* What is left of the queue is the token.
AnswerTraverse ==
    /\ Exhausted /\ query.kind = "traverse"
    /\ Answer(Ends, Token, call.queue # <<>>, {})

-----------------------------------------------------------------------------
(* ExecutePQL.                                                             *)

Block == query.blocks[Head(blocks.left)]

\* A block's rows are captured and put out; the last block ends the call.  A
\* block is cut when a limit or an offset left rows out.
FinishBlock(rows, isCut) ==
    LET cut == IF isCut THEN blocks.cut \cup {Head(blocks.left)} ELSE blocks.cut
        out == Append(blocks.out, [block |-> Head(blocks.left), rows |-> rows])
        captured == IF CaptureOf(Block) = "" THEN blocks.captured
                    ELSE (CaptureOf(Block) :> rows) @@ blocks.captured
    IN  IF Len(blocks.left) = 1
        THEN Answer(FlattenSeq([i \in DOMAIN out |->
                        [k \in DOMAIN out[i].rows |-> out[i].rows[k] @@ [block |-> out[i].block]]]),
                    <<>>, FALSE, cut)
        ELSE /\ call' = [pc |-> "block", rv |-> call.rv]
             /\ blocks' = [left |-> Tail(blocks.left), captured |-> captured, out |-> out,
                           cut |-> cut]
             /\ UNCHANGED <<db, fixed, session, got>>

BeginBlock ==
    /\ call.pc = "block"
    /\ \/ /\ KindOf(Block) = "find"
          /\ Goto(StartFind(Find(FilterOf(Block), LimitOf(Block, DefaultLimit), Block.fields, <<>>),
                            call.rv, FALSE))
       \/ /\ KindOf(Block) = "traverse"
          /\ Goto(StartTraversal(Block.root.node, Block.hops, DepthOf(Block),
                                 LimitOf(Block, DefaultLimit), NoToken, call.rv))

LookupBlock ==
    /\ call.pc = "block" /\ KindOf(Block) = "lookup"
    /\ LET n == Block.root.node
       IN  FinishBlock(IF n \notin DOMAIN Seen.nodes THEN <<>>
                       ELSE Project(<<[id |-> n, props |-> Seen.nodes[n]]>>, Block.fields), FALSE)

VariableBlock ==
    /\ call.pc = "block" /\ KindOf(Block) = "variables"
    /\ LET rows == FromVariables(blocks.captured, Block)
       IN  FinishBlock(FirstFew(FromOffset(rows, OffsetOf(Block)), LimitOf(Block, Len(rows))),
                       OffsetOf(Block) > 0 \/ Len(rows) > LimitOf(Block, Len(rows)))

\* The offset is taken out of the rows that the limit left.
FindBlock ==
    /\ call.pc = "fetch" /\ call.keys = <<>> /\ query.kind = "pql"
    /\ FinishBlock(FromOffset(Found.rows, OffsetOf(Block)),
                   OffsetOf(Block) > 0 \/ call.cut \/ Found.next # <<>>)

TraverseBlock ==
    /\ Exhausted /\ query.kind = "pql"
    /\ FinishBlock(Ends, call.queue # <<>>)

-----------------------------------------------------------------------------

Init ==
    \E s \in Scenarios :
        /\ db = <<[nodes |-> s.nodes, edges |-> s.edges]>>
        /\ query = s.query
        /\ may = s.may
        /\ data = s.data
        /\ call = Idle
        /\ blocks = NoBlocks
        /\ session = [open |-> TRUE, refused |-> FALSE, from |-> 0, to |-> 0, pages |-> 0,
                      cut |-> {},
                      cursor |-> CASE s.query.kind = "traverse" -> NoToken
                                   [] s.query.kind = "pql" -> <<>>
                                   [] s.query.kind = "find" ->
                                        IF s.query.paging = "offset" THEN <<0>> ELSE <<>>]
        /\ got = <<>>

Next ==
    \/ \E w \in data : WriteNode(w.id, w.props)
    \/ \E n \in Ids : DeleteNode(n) \/ DeleteEdges(n)
    \/ \E e \in Newest.edges : RemoveEdge(e)
    \/ BeginFind \/ BeginTraverse \/ BeginPql \/ Fail
    \/ NextGroup
    \/ \E l \in UNION {Lookups(g) : g \in IF query.kind = "find" THEN ToSet(query.expr) ELSE {}} :
           ReadPostings(l)
    \/ Scan \/ Fetch \/ AnswerFind
    \/ StartNode \/ TakeResult \/ ListEdges \/ ListIncoming
    \/ \E k \in 1..Cardinality(db[1].edges) : FetchTarget(k)
    \/ Enqueue \/ AnswerTraverse
    \/ BeginBlock \/ LookupBlock \/ VariableBlock \/ FindBlock \/ TraverseBlock

Spec == Init /\ [][Next]_vars

-----------------------------------------------------------------------------
(* Properties.                                                             *)

\* The expressions that a scan answers by what they mean.  Left out are the
\* ones whose filter build_residual drops: several groups, and calls beside a
\* lone indexed comparison.
Exact(expr) ==
    \/ expr = <<>>
    \/ /\ Extracted(expr) # {}
       /\ BestIndex(expr) # 0 => Cardinality(Extracted(expr)) > 1 \/ Len(expr[1]) = 1

\* Every row of a strict answer of FindNodes is the node as it was stored at
\* the answer's version, projected, and the node met the filter then: the
\* choice of an index, the bounds of its scan, the residual filter and the
\* chunks fetched later agree on one snapshot (find_nodes,
\* execute_with_options, execute_term_expression_with_options).
RowsAreRight ==
    (query.kind = "find" /\ (UsesTerms(query.expr) \/ Exact(query.expr))) =>
        \A i \in DOMAIN got : got[i].at # 0 =>
            LET nodes == db[got[i].at].nodes
            IN  /\ got[i].id \in DOMAIN nodes
                /\ got[i].props = [p \in Props |-> IF query.fields = {} \/ p \in query.fields
                                                   THEN nodes[got[i].id][p] ELSE Absent]
                /\ Satisfies(query.expr, nodes[got[i].id])

\* The queries that the limits of the term path do not cut: one posting list,
\* which is read on behind the cursor; or lists no longer than PostingCap whose
\* union is smaller.  Offset cursors end at MaxLimit rows.
WithinLimits(nodes, expr) ==
    LET met == {n \in DOMAIN nodes : Satisfies(expr, nodes[n])}
        lists == UNION {Lookups(g) : g \in ToSet(expr)}
    IN  /\ query.paging = "offset" => Cardinality(met) <= MaxLimit
        /\ \/ Cardinality(lists) = 1
           \/ /\ \A l \in lists : Cardinality(Posted(nodes, l)) <= PostingCap
              /\ Len(expr) = 1 \/ Cardinality(met) < PostingCap

\* A finished strict query has returned every node that met the filter in all
\* versions from its first page to its last: on the term path, within its
\* limits, page by page and whatever was written between pages; on a scan that
\* was not cut, on one page, or with offset cursors over an unchanged store.
NothingMissed ==
    LET seen == session.from..session.to
    IN  (/\ query.kind = "find" /\ query.strict /\ ~session.open
         /\ \/ /\ UsesTerms(query.expr) /\ (query.paging = "keyset" \/ Len(db) = 1)
               /\ \A v \in seen : WithinLimits(db[v].nodes, query.expr)
            \/ /\ ~UsesTerms(query.expr) /\ Exact(query.expr) /\ session.cut = {}
               /\ session.pages = 1 \/ (query.paging = "offset" /\ Len(db) = 1))
        => \A n \in Ids :
               (\A v \in seen :
                    n \in DOMAIN db[v].nodes /\ Satisfies(query.expr, db[v].nodes[n]))
               => \E i \in DOMAIN got : got[i].id = n

\* Paging returns no node twice, whatever is written between two pages and
\* however often a call fails: keyset cursors over identifiers, and
\* continuation tokens (execute_full_scan, list_posting_node_ids_after,
\* ContinuationState).
NoNodeTwice ==
    (\/ query.kind = "traverse"
     \/ /\ query.kind = "find" /\ query.paging = "keyset"
        /\ UsesTerms(query.expr) \/ Plan(query.expr).used = 0)
    => \A i, j \in DOMAIN got : got[i].id = got[j].id => i = j

\* The nodes a traversal means: at distance k over the first k hops, for the
\* k that hops and depth allow.  A hop takes the first EdgeCap edges of a node
\* in a direction, by label and other end; a node with more loses the others.
Reach(snapshot, start, hops, depth) ==
    LET Among(e, from, to, hop) ==
            /\ hop.label \in {0, e[2]}
            /\ Cardinality({f \in snapshot.edges :
                               /\ f[from] = e[from] /\ hop.label \in {0, f[2]}
                               /\ KeyLess(<<f[2], f[to]>>, <<e[2], e[to]>>)}) < EdgeCap
        Step(m, n, hop) ==
            /\ n \in DOMAIN snapshot.nodes
            /\ PassesBare(ToSet(hop.filter), snapshot.nodes[n])
            /\ \E e \in snapshot.edges :
                   /\ e[4] \in hop.accepts
                   /\ \/ /\ hop.dir \in {"outgoing", "both"} /\ e[1] = m /\ e[3] = n
                         /\ Among(e, 1, 3, hop)
                      \/ /\ hop.dir \in {"incoming", "both"} /\ e[3] = m /\ e[1] = n
                         /\ Among(e, 3, 1, hop)
        within[k \in 0..Len(hops)] ==
            IF k = 0 THEN [last |-> {start}, all |-> {start}]
            ELSE LET new == {n \in Ids \ within[k - 1].all :
                                \E m \in within[k - 1].last : Step(m, n, hops[k])}
                 IN  [last |-> new, all |-> within[k - 1].all \cup new]
    IN  within[Least({depth, Len(hops)})].last

\* Over an unchanged store the pages of a traversal together end in exactly
\* the nodes a breadth-first search over its hops ends in, however
\* max_results cuts them (traverse_with_options); the search follows the
\* edges that a hop lists, all of them up to EdgeCap.
PagesAreOneTraversal ==
    (query.kind = "traverse" /\ ~session.open /\ ~session.refused /\ Len(db) = 1) =>
        IdsOf(got) = Reach(db[1], query.start, query.hops, query.depth)

\* What the blocks of a PQL query mean over one snapshot, in the order of the
\* query and without limits.
Meaning(snapshot, qs) ==
    LET Of(var, below) ==
            below[CHOOSE j \in Capturing(qs, var) : \A k \in Capturing(qs, var) : k <= j]
        Sets(b, below) == [i \in DOMAIN VarsOf(b.root) |-> Of(VarsOf(b.root)[i], below)]
        Combined(b, sets) ==
            CASE SetOpOf(b.root) = "union" -> UNION ToSet(sets)
              [] SetOpOf(b.root) = "intersect" -> {n \in sets[1] : \A S \in ToSet(sets) : n \in S}
              [] SetOpOf(b.root) = "difference" -> sets[1] \ UNION ToSet(Tail(sets))
        Kept(b, S) == {n \in S : n \in DOMAIN snapshot.nodes
                                 /\ Satisfies(FilterOf(b), snapshot.nodes[n])}
        rows[i \in 0..Len(qs)] ==
            IF i = 0 THEN {}
            ELSE CASE KindOf(qs[i]) = "lookup" -> Kept(qs[i], {qs[i].root.node})
                   [] KindOf(qs[i]) = "find" -> Kept(qs[i], Ids)
                   [] KindOf(qs[i]) = "traverse" ->
                        Reach(snapshot, qs[i].root.node, qs[i].hops, DepthOf(qs[i]))
                   [] OTHER -> Kept(qs[i], Combined(qs[i], Sets(qs[i], rows)))
    IN  rows

\* Left out of BlocksMean: names captured twice (a block depends on the last
\* block that captures one, wherever it stands), filters on properties that
\* the captured rows no longer have, and `!=` on absent ones.
PlainBlocks(qs) ==
    \A i \in DOMAIN qs :
        /\ CaptureOf(qs[i]) # "" =>
              /\ Cardinality(Capturing(qs, CaptureOf(qs[i]))) = 1
              /\ qs[i].fields = {}
        /\ KindOf(qs[i]) = "find" => Exact(FilterOf(qs[i]))
        /\ KindOf(qs[i]) = "variables" =>
              \A k \in DOMAIN FilterOf(qs[i]) : \A t \in ToSet(FilterOf(qs[i])[k]) : t.op # "!="

\* The blocks computed from a block that was cut, by its own limit or by the
\* default one: what they return says nothing.
FromCut(qs, cut) ==
    LET tainted[i \in 0..Len(qs)] ==
            IF i = 0 THEN {}
            ELSE tainted[i - 1] \cup
                 (IF DependsOn(qs, i) \cap (cut \cup tainted[i - 1]) # {} THEN {i} ELSE {})
    IN  tainted[Len(qs)]

\* An answered strict PQL query returned, block by block, the nodes the block
\* means over the one snapshot of the call, although blocks run in an order
\* of their own and read in many steps.  A block that was cut only leaves rows
\* out; blocks computed from it are excepted, as a difference then returns
\* rows it should not (execute_pql, topological_sort, merge_variable_sets).
BlocksMean ==
    (query.kind = "pql" /\ query.strict /\ ~session.open /\ ~session.refused
        /\ PlainBlocks(query.blocks)) =>
        \A i \in DOMAIN query.blocks \ FromCut(query.blocks, session.cut) :
            LET rows == {got[k].id : k \in {j \in DOMAIN got : got[j].block = i}}
                meant == Meaning(db[session.to], query.blocks)[i]
            IN  rows \subseteq meant /\ (i \in session.cut \/ rows = meant)

\* "No `next_cursor` means end-of-results": over an unchanged store, a
\* finished query has returned every node that meets its filter.
EndMeansEnd ==
    (query.kind = "find" /\ ~session.open /\ Len(db) = 1) =>
        \A n \in DOMAIN db[1].nodes :
            Satisfies(query.expr, db[1].nodes[n]) => \E i \in DOMAIN got : got[i].id = n
=============================================================================
