-------------------------- MODULE GraphStoreProofs --------------------------
(***************************************************************************)
(* Proofs about GraphStore, for any number of nodes and requests: the type *)
(* invariant, and, for labels without sort keys, that no edge dangles and  *)
(* that the CDC log rebuilds the edges.                                    *)
(*                                                                         *)
(* NoDanglingEdges is not inductive: that the last turn of the cascade     *)
(* finds no edge only means that there is none if the reverse keys mirror  *)
(* the forward keys (EdgeInv), and if nothing was added to the outgoing    *)
(* edges after they were listed (Responsible).                             *)
(***************************************************************************)
EXTENDS GraphStoreTypes

----------------------------------------------------------------------------
(* The forward and reverse keys of labels without sort keys.               *)

SingleSortKey == \A k, l \in SortKeys : k = l

\* The forward and reverse keys describe the same edges; the data of a one-way
\* edge agrees with its key; a bidirectional edge has its mirror image.
EdgeInv ==
    /\ \A f \in fwd : \E r \in rev : r.at = f.to /\ r.from = f.at
    /\ \A r \in rev : \E f \in fwd : f.at = r.from /\ f.to = r.at
    /\ bidirectional => \A f \in fwd : \E g \in fwd : g.at = f.to /\ g.to = f.at
    /\ ~bidirectional => /\ \A f \in fwd : f.src = f.at
                         /\ \A r \in rev : r.src = r.from

\* The keys from x to y belong to edge e.
Owns(e, x, y) == (x = e.src /\ y = e.tgt) \/ (bidirectional /\ x = e.tgt /\ y = e.src)

\* Which keys writing or clearing an edge takes away, and which it adds.
LEMMA KeysOfEdge ==
    ASSUME TypeOK, SingleSortKey, NEW e \in Edges
    PROVE  /\ \A f \in fwd : f \in FwdWithout(e) <=> ~Owns(e, f.at, f.to)
           /\ \A r \in rev : r \in RevWithout(e) <=> ~Owns(e, r.from, r.at)
           /\ \A f \in FwdEntries(e) : Owns(e, f.at, f.to) /\ f.src = e.src
           /\ \A r \in RevEntries(e) : Owns(e, r.from, r.at) /\ r.src = e.src
           /\ \A x, y : Owns(e, x, y) =>
                 /\ \E f \in FwdEntries(e) : f.at = x /\ f.to = y
                 /\ \E r \in RevEntries(e) : r.at = y /\ r.from = x
<1> DEFINE f1 == [at |-> e.src, sk |-> e.sk, to |-> e.tgt, src |-> e.src]
           f2 == [at |-> e.tgt, sk |-> e.sk, to |-> e.src, src |-> e.src]
           r1 == [at |-> e.tgt, from |-> e.src, src |-> e.src, sk |-> e.sk]
           r2 == [at |-> e.src, from |-> e.tgt, src |-> e.src, sk |-> e.sk]
<1>a. /\ \A f : f \in FwdEntries(e) <=> f = f1 \/ (bidirectional /\ f = f2)
      /\ \A r : r \in RevEntries(e) <=> r = r1 \/ (bidirectional /\ r = r2)
    BY SMTT(30) DEF FwdEntries, RevEntries
<1>b. /\ f1.at = e.src /\ f1.to = e.tgt /\ f1.sk = e.sk /\ f2.at = e.tgt /\ f2.to = e.src /\ f2.sk = e.sk
      /\ r1.at = e.tgt /\ r1.from = e.src /\ r2.at = e.src /\ r2.from = e.tgt
    OBVIOUS
<1> HIDE DEF f1, f2, r1, r2
<1>1. ASSUME NEW f \in fwd PROVE f \in FwdWithout(e) <=> ~Owns(e, f.at, f.to)
    <2>1. f.sk = e.sk
        BY DEF TypeOK, FwdKeys, Edges, SingleSortKey
    <2>2. f \in FwdWithout(e) <=>
              \A g \in FwdEntries(e) : ~(f.at = g.at /\ f.sk = g.sk /\ f.to = g.to)
        BY DEF FwdWithout
    <2>3. QED
        BY <1>a, <1>b, <2>1, <2>2 DEF Owns
<1>2. ASSUME NEW r \in rev PROVE r \in RevWithout(e) <=> ~Owns(e, r.from, r.at)
    <2>1. r \in RevWithout(e) <=>
              \A g \in RevEntries(e) : ~(r.at = g.at /\ r.from = g.from)
        BY DEF RevWithout
    <2>2. QED
        BY <1>a, <1>b, <2>1 DEF Owns
<1>3. \A f \in FwdEntries(e) : Owns(e, f.at, f.to) /\ f.src = e.src
    BY DEF FwdEntries, Owns
<1>4. \A r \in RevEntries(e) : Owns(e, r.from, r.at) /\ r.src = e.src
    BY DEF RevEntries, Owns
<1>5. ASSUME NEW x, NEW y, Owns(e, x, y)
      PROVE  /\ \E f \in FwdEntries(e) : f.at = x /\ f.to = y
             /\ \E r \in RevEntries(e) : r.at = y /\ r.from = x
    BY <1>5, <1>a, <1>b DEF Owns
<1>6. QED
    BY <1>1, <1>2, <1>3, <1>4, <1>5

\* create_edge keeps EdgeInv.
LEMMA WriteKeepsEdgeInv ==
    ASSUME TypeOK, SingleSortKey, EdgeInv, NEW e \in Edges, WriteEdge(e),
           bidirectional' = bidirectional
    PROVE  EdgeInv'
<1> DEFINE F == FwdEntries(e)
           R == RevEntries(e)
<1>1. /\ \A f : f \in fwd' <=> (f \in fwd /\ ~Owns(e, f.at, f.to)) \/ f \in F
      /\ \A r : r \in rev' <=> (r \in rev /\ ~Owns(e, r.from, r.at)) \/ r \in R
    <2>1. FwdWithout(e) \subseteq fwd /\ RevWithout(e) \subseteq rev
        BY DEF FwdWithout, RevWithout
    <2>2. fwd' = FwdWithout(e) \cup F /\ rev' = RevWithout(e) \cup R
        BY DEF WriteEdge
    <2>3. QED
        BY <2>1, <2>2, KeysOfEdge
<1>2. /\ \A f \in F : Owns(e, f.at, f.to) /\ f.src = e.src
      /\ \A r \in R : Owns(e, r.from, r.at) /\ r.src = e.src
      /\ \A x, y : Owns(e, x, y) => /\ \E f \in F : f.at = x /\ f.to = y
                                    /\ \E r \in R : r.at = y /\ r.from = x
    BY KeysOfEdge, SMTT(30)
<1>3. bidirectional => \A x, y : Owns(e, x, y) <=> Owns(e, y, x)
    BY DEF Owns
<1>4. ~bidirectional => \A x, y : Owns(e, x, y) => x = e.src
    BY DEF Owns
<1> HIDE DEF F, R
<1>5. \A f \in fwd' : \E r \in rev' : r.at = f.to /\ r.from = f.at
    BY <1>1, <1>2 DEF EdgeInv
<1>6. ASSUME NEW r \in rev' PROVE \E f \in fwd' : f.at = r.from /\ f.to = r.at
    <2>1. CASE Owns(e, r.from, r.at)
        BY <1>1, <1>2, <2>1
    <2>2. CASE ~Owns(e, r.from, r.at)
        <3>1. r \in rev
            BY <1>1, <1>2, <2>2
        <3>2. PICK f \in fwd : f.at = r.from /\ f.to = r.at
            BY <3>1 DEF EdgeInv
        <3>3. f \in fwd'
            BY <1>1, <2>2, <3>2
        <3>4. QED
            BY <3>2, <3>3
    <2>3. QED
        BY <2>1, <2>2
<1>7. ASSUME bidirectional, NEW f \in fwd' PROVE \E g \in fwd' : g.at = f.to /\ g.to = f.at
    <2>1. CASE Owns(e, f.at, f.to)
        <3>1. Owns(e, f.to, f.at)
            BY <1>3, <1>7, <2>1
        <3>2. \E g \in F : g.at = f.to /\ g.to = f.at
            BY <1>2, <3>1
        <3>3. QED
            BY <1>1, <3>2
    <2>2. CASE ~Owns(e, f.at, f.to)
        <3>1. f \in fwd
            BY <1>1, <1>2, <2>2
        <3>2. PICK g \in fwd : g.at = f.to /\ g.to = f.at
            BY <1>7, <3>1 DEF EdgeInv
        <3>3. g \in fwd'
            BY <1>1, <1>3, <1>7, <2>2, <3>2
        <3>4. QED
            BY <3>2, <3>3
    <2>3. QED
        BY <2>1, <2>2
<1>8. ~bidirectional => (\A f \in fwd' : f.src = f.at) /\ (\A r \in rev' : r.src = r.from)
    BY <1>1, <1>2, <1>4, SMTT(30) DEF EdgeInv
<1>9. QED
    BY <1>5, <1>6, <1>7, <1>8 DEF EdgeInv

\* delete_edge and the cascade keep EdgeInv, and only the planned edges go.
LEMMA ClearKeepsEdgeInv ==
    ASSUME TypeOK, SingleSortKey, EdgeInv, NEW es \in SUBSET Edges, ClearEdges(es),
           bidirectional' = bidirectional
    PROVE  /\ EdgeInv'
           /\ \A f : f \in fwd' <=> f \in fwd /\ \A e \in es : ~Owns(e, f.at, f.to)
<1> DEFINE Gone(x, y) == \E e \in es : Owns(e, x, y)
<1>1. /\ \A f : f \in fwd' <=> f \in fwd /\ ~Gone(f.at, f.to)
      /\ \A r : r \in rev' <=> r \in rev /\ ~Gone(r.from, r.at)
    BY KeysOfEdge DEF ClearEdges
<1>2. bidirectional => \A x, y : Gone(x, y) <=> Gone(y, x)
    BY DEF Owns
<1>3. \A f : f \in fwd' <=> f \in fwd /\ \A e \in es : ~Owns(e, f.at, f.to)
    BY <1>1
<1> HIDE DEF Gone
<1>4. \A f \in fwd' : \E r \in rev' : r.at = f.to /\ r.from = f.at
    BY <1>1 DEF EdgeInv
<1>5. \A r \in rev' : \E f \in fwd' : f.at = r.from /\ f.to = r.at
    BY <1>1 DEF EdgeInv
<1>6. bidirectional => \A f \in fwd' : \E g \in fwd' : g.at = f.to /\ g.to = f.at
    BY <1>1, <1>2 DEF EdgeInv
<1>7. ~bidirectional => (\A f \in fwd' : f.src = f.at) /\ (\A r \in rev' : r.src = r.from)
    BY <1>1 DEF EdgeInv
<1>8. QED
    BY <1>3, <1>4, <1>5, <1>6, <1>7 DEF EdgeInv

----------------------------------------------------------------------------
(* Who answers for the edges of a missing node.                            *)

NoOut(n) == \A f \in fwd : f.at # n

\* Request p is still going to see every edge of n: either it will list the
\* outgoing edges again, or it has found none and there is none.
Responsible(p, n) ==
    /\ job[p].op \in Cascading
    /\ job[p].node = n
    /\ (job[p].op = "listIn" /\ job[p].todo = {}) => NoOut(n)

Answered(n) == n \in interrupted \/ ~Touches(n) \/ \E p \in Procs : Responsible(p, n)

GInv ==
    /\ TInv
    /\ EdgeInv
    /\ \A n \in Nodes : node[n] \notin Live => Answered(n)
    /\ CdcRebuildsEdges

\* The invariant holds initially.
LEMMA GInvInit == Init => GInv
<1> SUFFICES ASSUME Init PROVE GInv
    OBVIOUS
<1>1. fwd = {} /\ rev = {} /\ logEdges = {}
    BY DEF Init
<1>2. EdgeInv
    BY <1>1 DEF EdgeInv
<1>3. \A n \in Nodes : ~Touches(n)
    BY <1>1 DEF Touches
<1>4. CdcRebuildsEdges
    BY <1>1 DEF CdcRebuildsEdges
<1>5. QED
    BY <1>2, <1>3, <1>4, TInvInit DEF GInv, Answered

\* Touches only depends on the forward keys.
LEMMA TouchesFwd ==
    ASSUME EdgeInv, NEW n
    PROVE  Touches(n) <=> \E f \in fwd : n \in {f.at, f.to}
BY DEF EdgeInv, Touches

\* A step that adds no key at n keeps n answered for, if the requests that answer
\* for it do not move or see to it.
LEMMA StillAnswered ==
    ASSUME NEW n \in Nodes, EdgeInv, EdgeInv', Answered(n),
           \A f \in fwd' : n \in {f.at, f.to} => f \in fwd,
           n \in interrupted => n \in interrupted',
           \A q \in Procs : Responsible(q, n) => (job'[q] = job[q] \/ Answered(n)')
    PROVE  Answered(n)'
<1>1. CASE n \in interrupted
    BY <1>1 DEF Answered
<1>2. CASE ~Touches(n)
    <2>1. ~Touches(n)'
        <3>1. Touches(n)' <=> \E f \in fwd' : n \in {f.at, f.to}
            BY SMTT(30) DEF EdgeInv, Touches
        <3>2. QED
            BY <1>2, <3>1, TouchesFwd
    <2>2. QED
        BY <2>1 DEF Answered
<1>3. ASSUME NEW q \in Procs, job'[q] = job[q], Responsible(q, n) PROVE Answered(n)'
    <2>1. NoOut(n) => NoOut(n)'
        BY DEF NoOut
    <2>2. Responsible(q, n)'
        BY <1>3, <2>1 DEF Responsible
    <2>3. QED
        BY <2>2 DEF Answered
<1>4. QED
    BY <1>1, <1>2, <1>3 DEF Answered

\* A commit that clears edges keeps the log of one-way edges accurate.
LEMMA ClearKeepsLog ==
    ASSUME TypeOK, SingleSortKey, EdgeInv, CdcRebuildsEdges, NEW es \in SUBSET Edges,
           ClearEdges(es), logEdges' = logEdges \ Pairs(es), bidirectional' = bidirectional
    PROVE  CdcRebuildsEdges'
<1> SUFFICES ASSUME ~bidirectional
             PROVE  logEdges' = {<<f.src, f.to>> : f \in fwd'}
    BY DEF CdcRebuildsEdges
<1>1. logEdges = {<<f.src, f.to>> : f \in fwd}
    BY DEF CdcRebuildsEdges
<1>2. \A f \in fwd : f.src = f.at
    BY DEF EdgeInv
<1>3. \A f : f \in fwd' <=> f \in fwd /\ \A e \in es : ~(f.at = e.src /\ f.to = e.tgt)
    BY ClearKeepsEdgeInv DEF Owns
<1>4. \A f \in fwd : f \in fwd' <=> <<f.src, f.to>> \notin Pairs(es)
    BY <1>2, <1>3 DEF Pairs
<1>5. fwd' \subseteq fwd
    BY <1>3
<1>6. QED
    BY <1>1, <1>4, <1>5

\* Every step keeps the keys and the log of edges in order, and no step adds a
\* key at a node that is missing.
LEMMA EdgeStep ==
    ASSUME GInv, SingleSortKey, Next
    PROVE  /\ EdgeInv'
           /\ CdcRebuildsEdges'
           /\ \A n \in Nodes : node[n] \notin Live => \A f \in fwd' : n \in {f.at, f.to} => f \in fwd
<1>0. TypeOK /\ EdgeInv /\ CdcRebuildsEdges /\ bidirectional' = bidirectional
    <2>1. bidirectional' = bidirectional
        BY ZenonT(30) DEF Next, DeleteStep, CreateNode, CreateEdge, ReadForUpdate, ReadForTransfer,
               ReadForDelete, ReadForDeleteEdge, FindEdge, CommitUpdate, CommitTransfer, CommitDeleteEdge,
               CommitDelete, ListOut, ListIn, Resolve, CommitCascade, FailCascade, ClearGuard, Abort
    <2>2. QED
        BY <2>1 DEF GInv, TInv
<1>1. ASSUME NEW e \in Edges, CreateEdge(e)
      PROVE  /\ EdgeInv'
             /\ CdcRebuildsEdges'
             /\ \A n \in Nodes : node[n] \notin Live => \A f \in fwd' : n \in {f.at, f.to} => f \in fwd
    <2>1. WriteEdge(e) /\ node[e.src] \in Live /\ node[e.tgt] \in Live
        BY <1>1 DEF CreateEdge, Live
    <2>2. EdgeInv'
        BY <1>0, <2>1, WriteKeepsEdgeInv
    <2>3. \A f : f \in fwd' <=> (f \in fwd /\ ~Owns(e, f.at, f.to)) \/ f \in FwdEntries(e)
        <3>1. FwdWithout(e) \subseteq fwd /\ fwd' = FwdWithout(e) \cup FwdEntries(e)
            BY <2>1, SMTT(30) DEF FwdWithout, WriteEdge
        <3>2. QED
            BY <1>0, <3>1, KeysOfEdge
    <2>4. \A f \in FwdEntries(e) : Owns(e, f.at, f.to) /\ f.src = e.src
        BY <1>0, KeysOfEdge
    <2>5. ASSUME NEW n \in Nodes, node[n] \notin Live, NEW f \in fwd', n \in {f.at, f.to}
          PROVE  f \in fwd
        BY <2>1, <2>3, <2>4, <2>5 DEF Owns
    <2>6. CdcRebuildsEdges'
        <3> SUFFICES ASSUME ~bidirectional PROVE logEdges' = {<<f.src, f.to>> : f \in fwd'}
            BY <1>0 DEF CdcRebuildsEdges
        <3>1. logEdges' = {<<f.src, f.to>> : f \in fwd} \cup {<<e.src, e.tgt>>}
            BY <1>0, <1>1 DEF CreateEdge, Pairs, CdcRebuildsEdges
        <3>2. \A f \in FwdEntries(e) : f.src = e.src /\ f.to = e.tgt
            BY DEF FwdEntries
        <3>3. \A f \in fwd : Owns(e, f.at, f.to) => f.src = e.src /\ f.to = e.tgt
            BY <1>0 DEF Owns, EdgeInv
        <3>4. \E f \in FwdEntries(e) : TRUE
            BY Zenon DEF FwdEntries
        <3>5. QED
            BY <2>3, <3>1, <3>2, <3>3, <3>4
    <2>7. QED
        BY <2>2, <2>5, <2>6
<1>2. ASSUME NEW p \in Procs, CommitDeleteEdge(p) \/ CommitCascade(p)
      PROVE  /\ EdgeInv'
             /\ CdcRebuildsEdges'
             /\ fwd' \subseteq fwd
    <2> DEFINE es == job[p].plan
    <2>1. ClearEdges(es) /\ logEdges' = logEdges \ Pairs(es)
        BY <1>2, SMTT(30) DEF CommitDeleteEdge, CommitCascade
    <2>2. es \in SUBSET Edges
        BY <1>0, <1>2, JobFields, SMTT(30) DEF CommitDeleteEdge, CommitCascade, Resolved
    <2> HIDE DEF es
    <2>3. EdgeInv'
        BY <1>0, <2>1, <2>2, ClearKeepsEdgeInv
    <2>4. CdcRebuildsEdges'
        BY <1>0, <2>1, <2>2, ClearKeepsLog
    <2>5. QED
        BY <2>1, <2>3, <2>4 DEF ClearEdges
<1>3. CASE UNCHANGED <<fwd, rev, logEdges>>
    BY <1>0, <1>3, SMTT(30) DEF EdgeInv, CdcRebuildsEdges
<1>4. QED
    <2>1. \/ UNCHANGED <<fwd, rev, logEdges>>
          \/ \E e \in Edges : CreateEdge(e)
          \/ \E p \in Procs : CommitDeleteEdge(p) \/ CommitCascade(p)
        BY ZenonT(30) DEF Next, DeleteStep, CreateNode, ReadForUpdate, ReadForTransfer, ReadForDelete,
               ReadForDeleteEdge, FindEdge, CommitUpdate, CommitTransfer, CommitDelete, ListOut, ListIn,
               Resolve, FailCascade, ClearGuard, Abort, store, cdc
    <2>2. QED
        BY <1>1, <1>2, <1>3, <2>1

\* The last turn of a cascade sees every edge there is: if it lists none, its
\* node has none.
LEMMA EmptyTurn ==
    ASSUME CountingFacts, TypeOK, EdgeInv, NEW n \in Nodes, NoOut(n), {} \in InPages(n)
    PROVE  ~Touches(n)
<1> DEFINE S == {r \in rev : r.at = n}
<1>1. PICK K \in Page(S) : {e \in {DataOfRev(r) : r \in K} : e.tgt = n} = {}
    BY SMTT(30) DEF InPages
<1>2. K \subseteq S
    BY PageIsSubset
<1>3. S = {}
    <2>1. CASE bidirectional
        BY <2>1, SMTT(30) DEF EdgeInv, NoOut
    <2>2. CASE ~bidirectional
        <3>1. \A r \in K : DataOfRev(r).tgt = n
            BY <1>2, <2>2 DEF EdgeInv, DataOfRev
        <3>2. K = {}
            BY <1>1, <3>1
        <3>3. QED
            BY <3>2, PageOfNonEmpty
    <2>3. QED
        BY <2>1, <2>2
<1>4. QED
    BY <1>3, TouchesFwd, SMTT(30) DEF EdgeInv, NoOut

\* Every step keeps missing nodes answered for.
LEMMA AnswerStep ==
    ASSUME CountingFacts, GInv, SingleSortKey, Next, NEW n \in Nodes, node'[n] \notin Live
    PROVE  Answered(n)'
<1>0. /\ TypeOK /\ EdgeInv /\ EdgeInv'
      /\ node[n] \notin Live => Answered(n) /\ \A f \in fwd' : n \in {f.at, f.to} => f \in fwd
    BY EdgeStep, SMTT(30) DEF GInv, TInv
<1>1. ASSUME node[n] \notin Live, n \in interrupted => n \in interrupted',
             \A q \in Procs : Responsible(q, n) => (job'[q] = job[q] \/ Answered(n)')
      PROVE  Answered(n)'
    BY <1>0, <1>1, StillAnswered, SMTT(30)
<1>2. CASE (\E m \in Nodes : CreateNode(m)) \/ (\E e \in Edges : CreateEdge(e))
    <2>1. job' = job /\ interrupted' = interrupted
        BY <1>2, Zenon DEF CreateNode, CreateEdge
    <2>2. node[n] \notin Live
        BY <1>0, <1>2, Zenon DEF CreateNode, CreateEdge, TypeOK, Live
    <2>3. QED
        BY <1>1, <2>1, <2>2, SMTT(30)
<1>3. ASSUME NEW p \in Procs,
             \/ \E m \in Nodes : ReadForUpdate(p, m) \/ ReadForTransfer(p, m) \/ ReadForDelete(p, m)
             \/ \E s, t \in Nodes : ReadForDeleteEdge(p, s, t)
             \/ FindEdge(p)
             \/ CommitUpdate(p) \/ CommitTransfer(p) \/ CommitDeleteEdge(p) \/ ClearGuard(p)
      PROVE  Answered(n)'
    <2>1. job[p].op \notin Cascading /\ interrupted' = interrupted
        <3>1. job[p] = Idle \/ job[p].op \in {"update", "transfer", "findEdge", "deleteEdge", "clearGuard"}
            BY <1>3, Zenon DEF ReadForUpdate, ReadForTransfer, ReadForDelete, ReadForDeleteEdge, FindEdge,
                        CommitUpdate, CommitTransfer, CommitDeleteEdge, ClearGuard
        <3>2. Idle.op = "idle"
            BY DEF Idle
        <3>3. job[p].op \notin Cascading
            BY <3>1, <3>2 DEF Cascading
        <3>4. interrupted' = interrupted
            BY <1>3, Zenon DEF ReadForUpdate, ReadForTransfer, ReadForDelete, ReadForDeleteEdge, FindEdge,
                        CommitUpdate, CommitTransfer, CommitDeleteEdge, ClearGuard
        <3>5. QED
            BY <3>3, <3>4
    <2>2. \A q \in Procs : q # p => job'[q] = job[q]
        BY <1>0, <1>3, Zenon DEF ReadForUpdate, ReadForTransfer, ReadForDelete, ReadForDeleteEdge, FindEdge, TypeOK,
                    CommitUpdate, CommitTransfer, CommitDeleteEdge, ClearGuard, Begin, Finish
    <2>3. node[n] \notin Live
        BY <1>0, <1>3, Zenon DEF ReadForUpdate, ReadForTransfer, ReadForDelete, ReadForDeleteEdge, FindEdge, TypeOK,
                    CommitUpdate, CommitTransfer, CommitDeleteEdge, ClearGuard, store, Live
    <2>4. QED
        BY <1>1, <2>1, <2>2, <2>3 DEF Responsible
<1>4. ASSUME NEW p \in Procs, CommitDelete(p) PROVE Answered(n)'
    <2>1. job' = [job EXCEPT ![p] = [op |-> "listOut", node |-> job[p].node]]
        BY <1>4 DEF CommitDelete, Begin
    <2>2. CASE n = job[p].node
        <3>1. job'[p] = [op |-> "listOut", node |-> n]
            BY <1>0, <2>1, <2>2 DEF TypeOK
        <3>2. Responsible(p, n)'
            BY <3>1, SMTT(30) DEF Responsible, Cascading
        <3>3. QED
            BY <3>2 DEF Answered
    <2>3. CASE n # job[p].node
        <3>1. node[n] \notin Live /\ (n \in interrupted => n \in interrupted')
            BY <1>0, <1>4, <2>3, SMTT(30) DEF CommitDelete, TypeOK
        <3>2. \A q \in Procs : q # p => job'[q] = job[q]
            BY <1>0, <2>1 DEF TypeOK
        <3>3. ~Responsible(p, n)
            BY <1>4, SMTT(30) DEF CommitDelete, Responsible, Cascading
        <3>4. QED
            BY <1>1, <3>1, <3>2, <3>3, SMTT(30)
    <2>4. QED
        BY <2>2, <2>3
<1>5. ASSUME NEW p \in Procs, ListOut(p) \/ ListIn(p) \/ Resolve(p) \/ CommitCascade(p)
      PROVE  Answered(n)'
    <2>1. node[n] \notin Live /\ interrupted' = interrupted
        BY <1>5, Zenon DEF ListOut, ListIn, Resolve, CommitCascade, store
    <2>2. \A q \in Procs : q # p => job'[q] = job[q]
        BY <1>0, <1>5, Zenon DEF ListOut, ListIn, Resolve, CommitCascade, Begin, TypeOK
    <2> SUFFICES ASSUME Responsible(p, n) PROVE Answered(n)'
        BY <1>1, <2>1, <2>2
    <2>3. job[p].node = n
        BY DEF Responsible
    <2> SUFFICES ASSUME Touches(n)' PROVE Responsible(p, n)'
        BY DEF Answered
    <2>4. CASE ListOut(p)
        <3>1. PICK T \in OutPages(n) : Begin(p, [op |-> "listIn", node |-> n, todo |-> T])
            BY <2>3, <2>4, SMTT(30) DEF ListOut
        <3>2. job'[p] = [op |-> "listIn", node |-> n, todo |-> T]
            BY <1>0, <3>1, SMTT(30) DEF Begin, TypeOK
        <3>3. PICK K \in Page({f \in fwd : f.at = n}) : T = {DataOfFwd(f) : f \in K}
            BY DEF OutPages
        <3>4. T = {} => K = {}
            BY <3>3
        <3>5. T = {} => NoOut(n)
            BY <3>3, <3>4, PageOfNonEmpty, Zenon DEF NoOut
        <3>6. NoOut(n)' = NoOut(n)
            BY <2>4, SMTT(30) DEF ListOut, store, NoOut
        <3>7. QED
            BY <3>2, <3>5, <3>6, SMTT(30) DEF Responsible, Cascading
    <2>5. CASE ListIn(p)
        <3> DEFINE all(T) == job[p].todo \cup T
        <3>1. PICK T \in InPages(n) :
                 Begin(p, IF all(T) = {} THEN [op |-> "clearGuard", node |-> n]
                          ELSE [op |-> "resolve", node |-> n, todo |-> all(T), plan |-> {}])
            BY <2>3, <2>5, Zenon DEF ListIn
        <3>2. all(T) # {}
            <4> SUFFICES ASSUME all(T) = {} PROVE FALSE
                BY SMTT(30)
            <4>1. job[p].todo = {} /\ T = {}
                OBVIOUS
            <4>2. NoOut(n)
                BY <2>5, <4>1, SMTT(30) DEF Responsible, ListIn
            <4>3. ~Touches(n)
                BY <1>0, <3>1, <4>1, <4>2, EmptyTurn, SMTT(30)
            <4>4. Touches(n)' = Touches(n)
                BY <2>5, SMTT(30) DEF ListIn, store, Touches
            <4>5. QED
                BY <4>3, <4>4, SMTT(30)
        <3>3. job'[p] = [op |-> "resolve", node |-> n, todo |-> all(T), plan |-> {}]
            BY <1>0, <3>1, <3>2, Zenon DEF Begin, TypeOK
        <3>4. job'[p].op = "resolve" /\ job'[p].node = n
            BY <3>3, SMTT(30)
        <3>5. QED
            BY <3>4 DEF Responsible, Cascading
    <2>6. CASE Resolve(p)
        <3>1. job[p] \in [op : {"resolve"}, node : Nodes, todo : SUBSET Edges, plan : SUBSET Edges]
            BY <1>0, <2>6, JobFields DEF Resolve
        <3>0. PICK e \in job[p].todo : \E rows \in LookupRows(e.src) :
                 Begin(p, [job[p] EXCEPT !.todo = @ \ {e},
                                         !.plan = @ \cup FindByEndpoints(e.src, e.tgt, rows)])
            BY <2>6, Zenon DEF Resolve
        <3>2. PICK rows \in LookupRows(e.src) :
                 Begin(p, [job[p] EXCEPT !.todo = @ \ {e},
                                         !.plan = @ \cup FindByEndpoints(e.src, e.tgt, rows)])
            BY <3>0, Zenon
        <3>a. job'[p] = [job[p] EXCEPT !.todo = @ \ {e},
                                       !.plan = @ \cup FindByEndpoints(e.src, e.tgt, rows)]
            BY <1>0, <3>2 DEF Begin, TypeOK
        <3>3. job'[p].op = "resolve" /\ job'[p].node = n
            BY <2>3, <3>1, <3>a
        <3>4. QED
            BY <3>3 DEF Responsible, Cascading
    <2>7. CASE CommitCascade(p)
        <3>1. job'[p] = [op |-> "listOut", node |-> n]
            BY <1>0, <2>3, <2>7, SMTT(30) DEF CommitCascade, Begin, TypeOK
        <3>2. QED
            BY <3>1, SMTT(30) DEF Responsible, Cascading
    <2>8. QED
        BY <1>5, <2>4, <2>5, <2>6, <2>7
<1>6. ASSUME NEW p \in Procs, FailCascade(p) \/ Abort(p) PROVE Answered(n)'
    <2>1. node[n] \notin Live /\ interrupted \subseteq interrupted'
        BY <1>6, SMTT(30) DEF FailCascade, Abort, store
    <2>2. \A q \in Procs : q # p => job'[q] = job[q]
        BY <1>0, <1>6, SMTT(30) DEF FailCascade, Abort, Finish, TypeOK
    <2>3. Responsible(p, n) => n \in interrupted'
        BY <1>6, SMTT(30) DEF FailCascade, Abort, Responsible
    <2>4. QED
        BY <1>1, <2>1, <2>2, <2>3, SMTT(30) DEF Answered
<1>7. QED
    BY <1>2, <1>3, <1>4, <1>5, <1>6 DEF Next, DeleteStep

\* Every step keeps the invariant.
LEMMA GInvStep ==
    ASSUME CountingFacts, GInv, SingleSortKey, [Next]_vars
    PROVE  GInv'
<1>1. CASE Next
    <2>1. TInv'
        BY <1>1, TInvStep DEF GInv
    <2>2. QED
        BY <1>1, <2>1, EdgeStep, AnswerStep, Zenon DEF GInv
<1>2. CASE UNCHANGED vars
    <2>1. TInv'
        BY TInvStep DEF GInv
    <2>2. EdgeInv' /\ CdcRebuildsEdges'
        BY <1>2, Zenon DEF vars, GInv, EdgeInv, CdcRebuildsEdges
    <2>3. \A n \in Nodes : Answered(n)' = Answered(n)
        BY <1>2 DEF vars, Answered, Responsible, NoOut, Touches
    <2>4. node' = node
        BY <1>2 DEF vars
    <2>5. QED
        BY <2>1, <2>2, <2>3, <2>4 DEF GInv
<1>3. QED
    BY <1>1, <1>2

----------------------------------------------------------------------------
(* The theorems.                                                           *)

INSTANCE FiniteSetTheorems

\* The facts about finite sets that the lemmas assume.
LEMMA CountingFactsHold == CountingFacts
<1>1. IsFiniteSet({}) /\ Cardinality({}) = 0
    BY FS_EmptySet
<1>2. ASSUME NEW S, IsFiniteSet(S)
      PROVE  Cardinality(S) \in Nat
    BY <1>2, FS_CardinalityType
<1>3. ASSUME NEW S, IsFiniteSet(S), NEW x
      PROVE  /\ IsFiniteSet(S \cup {x})
             /\ Cardinality(S \cup {x}) =
                   IF x \in S THEN Cardinality(S) ELSE Cardinality(S) + 1
    BY <1>3, FS_AddElement, Zenon
<1>4. QED
    BY <1>1, <1>2, <1>3, Zenon DEF CountingFacts

\* Every state is well typed, and no transaction of a cascade clears more edges
\* than CASCADE_TX_EDGE_LIMIT.
THEOREM TypeCorrect == Spec => []TypeOK
<1>1. Spec => []TInv
    <2>1. TInv /\ [Next]_vars => TInv'
        BY TInvStep, CountingFactsHold
    <2>2. QED
        BY <2>1, TInvInit, PTL DEF Spec
<1>2. TInv => TypeOK
    BY DEF TInv
<1>3. QED
    BY <1>1, <1>2, PTL

\* For labels without sort keys, whatever the interleaving of creates, updates,
\* transfers, deletes and failures: an edge at a missing node is being removed
\* by that node's delete, or that delete was cut short; and the CDC log rebuilds
\* exactly the stored one-way edges.
THEOREM DeletesLeaveNoEdges ==
    ASSUME SingleSortKey
    PROVE  Spec => [](NoDanglingEdges /\ CdcRebuildsEdges)
<1>1. GInv /\ [Next]_vars => GInv'
    BY GInvStep, CountingFactsHold
<1>2. Spec => []GInv
    BY <1>1, GInvInit, PTL DEF Spec
<1>3. GInv => NoDanglingEdges /\ CdcRebuildsEdges
    BY DEF GInv, NoDanglingEdges, Answered, Responsible, BeingCleaned
<1>4. QED
    BY <1>2, <1>3, PTL

\* edge.rs: the edge operations of the CDC log, applied in order, give exactly
\* the stored edges, for labels without sort keys.
THEOREM LogRebuildsEdges ==
    ASSUME SingleSortKey
    PROVE  Spec => []CdcRebuildsEdges
BY DeletesLeaveNoEdges, PTL
=============================================================================
