-------------------------- MODULE GraphStoreTypes --------------------------
(***************************************************************************)
(* Every step of GraphStore keeps the type invariant, which includes the   *)
(* transaction limit of the cascade.  It is inductive together with        *)
(* FinitePlans: only a finite plan has a size.  The theorem is in          *)
(* GraphStoreProofs.                                                       *)
(***************************************************************************)
EXTENDS GraphStore, TLAPS

----------------------------------------------------------------------------
(* Facts about finite sets that the library's theorems give.  They are an  *)
(* assumption of the lemmas that need them and are proved where the        *)
(* theorems are, so that the library is not part of every obligation.      *)

CountingFacts ==
    /\ IsFiniteSet({}) /\ Cardinality({}) = 0
    /\ \A S : IsFiniteSet(S) =>
          /\ Cardinality(S) \in Nat
          /\ \A x : /\ IsFiniteSet(S \cup {x})
                    /\ Cardinality(S \cup {x}) =
                          IF x \in S THEN Cardinality(S) ELSE Cardinality(S) + 1

----------------------------------------------------------------------------
(* The operators.                                                          *)

\* A range read with a limit returns nothing only if there is nothing.
LEMMA PageOfNonEmpty ==
    ASSUME CountingFacts, NEW S, {} \in Page(S)
    PROVE  S = {}
<1>1. CASE Cardinality(S) <= FetchLimit
    BY <1>1 DEF Page
<1>2. CASE ~(Cardinality(S) <= FetchLimit)
    <2>1. Cardinality({}) = FetchLimit
        BY <1>2 DEF Page
    <2>2. QED
        BY <2>1, GraphConstants DEF CountingFacts
<1>3. QED
    BY <1>1, <1>2

\* A range read returns some of the keys.
LEMMA PageIsSubset ==
    ASSUME NEW S, NEW T \in Page(S)
    PROVE  T \subseteq S
BY DEF Page

\* A lookup by endpoints returns at most one edge.
LEMMA FindIsSingle ==
    ASSUME TypeOK, NEW s \in Nodes, NEW t \in Nodes, NEW rows \in LookupRows(s)
    PROVE  /\ FindByEndpoints(s, t, rows) \subseteq Edges
           /\ \A d, e \in FindByEndpoints(s, t, rows) : d = e
<1> DEFINE found == {f.sk : f \in {g \in rows : g.to = t /\ g.src = s}}
<1>0. rows \subseteq fwd
    <2> DEFINE all == {f \in fwd : f.at = s}
    <2>1. rows \in {all} \/ rows \in SUBSET all
        BY DEF LookupRows
    <2>2. QED
        BY <2>1, Zenon
<1>1. found \subseteq SortKeys
    BY <1>0 DEF TypeOK, FwdKeys
<1>2. found \subseteq Int
    BY <1>1, GraphConstants, Zenon
<1> HIDE DEF found
<1> DEFINE least == {k \in found : \A l \in found : k <= l}
<1>3. \A k, l \in least : k = l
    BY <1>2
<1>4. least \subseteq SortKeys
    BY <1>1
<1>5. FindByEndpoints(s, t, rows) = {[src |-> s, tgt |-> t, sk |-> k] : k \in least}
    BY DEF FindByEndpoints, found
<1> HIDE DEF least
<1>6. QED
    BY <1>3, <1>4, <1>5 DEF Edges

\* Adding such a lookup to a finite plan adds at most one edge.
LEMMA PlanGrowsByOne ==
    ASSUME CountingFacts, NEW P, IsFiniteSet(P), NEW F, \A d, e \in F : d = e
    PROVE  IsFiniteSet(P \cup F) /\ Cardinality(P \cup F) <= Cardinality(P) + 1
<1>0. Cardinality(P) \in Nat
    BY Zenon DEF CountingFacts
<1>1. CASE F = {}
    <2>1. P \cup F = P
        BY <1>1
    <2>2. QED
        BY <1>0, <2>1
<1>2. CASE F # {}
    <2>1. PICK x : x \in F
        BY <1>2
    <2> DEFINE n == Cardinality(P)
               m == Cardinality(P \cup {x})
    <2>2. P \cup F = P \cup {x}
        BY <2>1
    <2>3. IsFiniteSet(P \cup {x}) /\ m = IF x \in P THEN n ELSE n + 1
        BY Zenon DEF CountingFacts
    <2>4. Cardinality(P \cup F) = m /\ IsFiniteSet(P \cup F)
        BY <2>2, <2>3, Zenon
    <2>5. n \in Nat
        BY <1>0
    <2> HIDE DEF n, m
    <2>6. m <= n + 1
        BY <2>3, <2>5
    <2>7. QED
        BY <2>4, <2>6 DEF n
<1>3. QED
    BY <1>1, <1>2

----------------------------------------------------------------------------
(* Types.                                                                  *)

FinitePlans == \A p \in Procs : job[p].op = "resolve" => IsFiniteSet(job[p].plan)

TInv == TypeOK /\ FinitePlans

\* The type invariant holds initially.
LEMMA TInvInit == Init => TInv
<1> SUFFICES ASSUME Init PROVE TInv
    OBVIOUS
<1>1. \A p \in Procs : job[p] = Idle
    BY DEF Init
<1>2. job \in [Procs -> Jobs]
    BY DEF Init, Jobs
<1>3. QED
    BY <1>1, <1>2 DEF Init, TInv, TypeOK, FinitePlans, Idle, Live

\* The fields that a job has, by its operation.
LEMMA JobFields ==
    ASSUME TypeOK, NEW p \in Procs
    PROVE  /\ job[p].op \in {"update", "transfer", "delete", "listOut", "clearGuard", "listIn", "resolve"}
              => job[p].node \in Nodes
           /\ job[p].op = "findEdge" => job[p].src \in Nodes /\ job[p].tgt \in Nodes
           /\ job[p].op = "deleteEdge" => job[p].plan \subseteq Edges
           /\ job[p].op = "listIn" => job[p].todo \subseteq Edges
           /\ job[p].op = "resolve" =>
                 /\ job[p] \in [op : {"resolve"}, node : Nodes, todo : SUBSET Edges, plan : SUBSET Edges]
                 /\ Cardinality(job[p].plan) <= TxLimit
<1>1. job[p] \in Jobs
    BY DEF TypeOK
<1>2. job[p].op = "resolve" => Cardinality(job[p].plan) <= TxLimit
    BY DEF TypeOK
<1>3. QED
    BY <1>1, <1>2 DEF Jobs, Idle

\* Replacing one job by a well-typed one keeps the jobs well typed.
LEMMA BeginTypes ==
    ASSUME TInv, NEW p \in Procs, NEW r \in Jobs, Begin(p, r),
           r.op = "resolve" => IsFiniteSet(r.plan) /\ Cardinality(r.plan) <= TxLimit
    PROVE  /\ job' \in [Procs -> Jobs]
           /\ \A q \in Procs : job'[q].op = "resolve" => Cardinality(job'[q].plan) <= TxLimit
           /\ FinitePlans'
<1>1. job' = [job EXCEPT ![p] = r] /\ job \in [Procs -> Jobs]
    BY DEF Begin, TInv, TypeOK
<1>2. \A q \in Procs : job'[q] = IF q = p THEN r ELSE job[q]
    BY <1>1
<1>3. \A q \in Procs : job'[q].op = "resolve" => IsFiniteSet(job'[q].plan) /\ Cardinality(job'[q].plan) <= TxLimit
    BY <1>2 DEF TInv, TypeOK, FinitePlans
<1>4. job' \in [Procs -> Jobs]
    BY <1>1
<1>5. QED
    BY <1>3, <1>4 DEF FinitePlans

\* So does finishing one.
LEMMA FinishTypes ==
    ASSUME TInv, NEW p \in Procs, Finish(p)
    PROVE  /\ job' \in [Procs -> Jobs]
           /\ \A q \in Procs : job'[q].op = "resolve" => Cardinality(job'[q].plan) <= TxLimit
           /\ FinitePlans'
<1>1. Idle \in Jobs /\ Idle.op # "resolve" /\ Begin(p, Idle)
    BY DEF Jobs, Idle, Finish, Begin
<1>2. QED
    BY <1>1, BeginTypes

\* Writing and clearing edges keep the key sets well typed.
LEMMA EdgeTypes ==
    ASSUME TypeOK
    PROVE  /\ \A e \in Edges : WriteEdge(e) => fwd' \subseteq FwdKeys /\ rev' \subseteq RevKeys
           /\ \A es : ClearEdges(es) => fwd' \subseteq fwd /\ rev' \subseteq rev
<1>1. ASSUME NEW e \in Edges, WriteEdge(e)
      PROVE  fwd' \subseteq FwdKeys /\ rev' \subseteq RevKeys
    <2>1. FwdEntries(e) \subseteq FwdKeys
        BY DEF FwdEntries, FwdKeys, Edges
    <2>2. RevEntries(e) \subseteq RevKeys
        BY DEF RevEntries, RevKeys, Edges
    <2>3. QED
        BY <1>1, <2>1, <2>2 DEF WriteEdge, FwdWithout, RevWithout, TypeOK
<1>2. ASSUME NEW es, ClearEdges(es)
      PROVE  fwd' \subseteq fwd /\ rev' \subseteq rev
    BY <1>2 DEF ClearEdges
<1>3. QED
    BY <1>1, <1>2

\* A create of a node or an edge keeps the type invariant.
LEMMA CreateTypes ==
    ASSUME TInv, (\E n \in Nodes : CreateNode(n)) \/ (\E e \in Edges : CreateEdge(e))
    PROVE  TInv'
<1>0. TypeOK
    BY DEF TInv
<1>1. job' = job
    BY Zenon DEF CreateNode, CreateEdge
<1>2. FinitePlans'
    BY <1>1 DEF TInv, FinitePlans
<1>3. ASSUME NEW n \in Nodes, CreateNode(n) PROVE TypeOK'
    BY <1>0, <1>3 DEF TypeOK, CreateNode, Live
<1>4. ASSUME NEW e \in Edges, CreateEdge(e) PROVE TypeOK'
    <2>1. fwd' \subseteq FwdKeys /\ rev' \subseteq RevKeys
        BY <1>0, <1>4, EdgeTypes DEF CreateEdge
    <2>2. logEdges' \subseteq Nodes \X Nodes
        BY <1>0, <1>4 DEF TypeOK, CreateEdge, Pairs, Edges
    <2>3. QED
        BY <1>0, <1>4, <2>1, <2>2, Zenon DEF TypeOK, CreateEdge
<1>5. QED
    BY <1>2, <1>3, <1>4 DEF TInv

\* A read that begins a request keeps the type invariant.
LEMMA ReadTypes ==
    ASSUME CountingFacts, TInv, NEW p \in Procs,
           \/ \E n \in Nodes : ReadForUpdate(p, n) \/ ReadForTransfer(p, n) \/ ReadForDelete(p, n)
           \/ \E s, t \in Nodes : ReadForDeleteEdge(p, s, t)
           \/ FindEdge(p) \/ ListOut(p) \/ ListIn(p) \/ Resolve(p)
    PROVE  TInv'
<1>0. TypeOK
    BY DEF TInv
<1>1. /\ UNCHANGED <<bidirectional, node, guard, fwd, rev, interrupted, logNode, logEdges>>
    BY Zenon DEF ReadForUpdate, ReadForTransfer, ReadForDelete, ReadForDeleteEdge, FindEdge,
           ListOut, ListIn, Resolve, store, cdc
<1> SUFFICES /\ job' \in [Procs -> Jobs]
             /\ \A q \in Procs : job'[q].op = "resolve" => Cardinality(job'[q].plan) <= TxLimit
             /\ FinitePlans'
    BY <1>0, <1>1 DEF TInv, TypeOK
<1> SUFFICES \E r \in Jobs :
        Begin(p, r) /\ (r.op = "resolve" => IsFiniteSet(r.plan) /\ Cardinality(r.plan) <= TxLimit)
    BY BeginTypes
<1>a. CASE \E n \in Nodes : ReadForUpdate(p, n) \/ ReadForTransfer(p, n) \/ ReadForDelete(p, n)
    BY <1>a DEF ReadForUpdate, ReadForTransfer, ReadForDelete, Jobs
<1>b. CASE \E s, t \in Nodes : ReadForDeleteEdge(p, s, t)
    <2>1. PICK s, t \in Nodes : ReadForDeleteEdge(p, s, t)
        BY <1>b
    <2> DEFINE r == [op |-> "findEdge", src |-> s, tgt |-> t]
    <2>2. r \in Jobs /\ r.op # "resolve"
        BY DEF Jobs
    <2>3. Begin(p, r)
        BY <2>1 DEF ReadForDeleteEdge
    <2>4. QED
        BY <2>2, <2>3
<1>3. CASE FindEdge(p)
    <2> DEFINE s == job[p].src
               t == job[p].tgt
    <2>0. s \in Nodes /\ t \in Nodes
        BY <1>0, <1>3, JobFields, SMTT(30) DEF FindEdge
    <2>3. PICK rows \in LookupRows(s) :
             Begin(p, [op |-> "deleteEdge", plan |-> FindByEndpoints(s, t, rows)])
        BY <1>3, Zenon DEF FindEdge
    <2> DEFINE r == [op |-> "deleteEdge", plan |-> FindByEndpoints(s, t, rows)]
    <2>1. r \in Jobs
        BY <1>0, <2>0, FindIsSingle DEF Jobs
    <2>2. Begin(p, r)
        BY <2>3
    <2>4. QED
        BY <2>1, <2>2
<1>4. CASE ListOut(p)
    <2> DEFINE n == job[p].node
    <2>1. n \in Nodes
        BY <1>0, <1>4, JobFields DEF ListOut
    <2>2. PICK T \in OutPages(n) : Begin(p, [op |-> "listIn", node |-> n, todo |-> T])
        BY <1>4 DEF ListOut
    <2>3. T \subseteq Edges
        <3>1. PICK K \in Page({f \in fwd : f.at = n}) : T = {DataOfFwd(f) : f \in K}
            BY SMTT(30) DEF OutPages
        <3>2. K \subseteq FwdKeys
            BY <1>0, PageIsSubset DEF TypeOK
        <3>3. QED
            BY <3>1, <3>2 DEF DataOfFwd, FwdKeys, Edges
    <2>4. [op |-> "listIn", node |-> n, todo |-> T] \in Jobs
        BY <2>1, <2>3 DEF Jobs
    <2>5. QED
        BY <2>2, <2>4
<1>5. CASE ListIn(p)
    <2> DEFINE n == job[p].node
               all(T) == job[p].todo \cup T
               r(T) == IF all(T) = {} THEN [op |-> "clearGuard", node |-> n]
                       ELSE [op |-> "resolve", node |-> n, todo |-> all(T), plan |-> {}]
    <2>1. n \in Nodes /\ job[p].todo \subseteq Edges
        BY <1>0, <1>5, JobFields, SMTT(30) DEF ListIn
    <2>2. PICK T \in InPages(n) : Begin(p, r(T))
        BY <1>5, Zenon DEF ListIn
    <2>3. T \subseteq Edges
        <3>1. PICK K \in Page({f \in rev : f.at = n}) : T \subseteq {DataOfRev(f) : f \in K}
            BY Zenon DEF InPages
        <3>2. K \subseteq RevKeys
            BY <1>0, PageIsSubset DEF TypeOK
        <3>3. QED
            BY <3>1, <3>2 DEF DataOfRev, RevKeys, Edges
    <2>4. IsFiniteSet({}) /\ Cardinality({}) <= TxLimit
        BY GraphConstants DEF CountingFacts
    <2>5. all(T) \subseteq Edges
        BY <2>1, <2>3
    <2>6. r(T) \in Jobs
        BY <2>1, <2>5 DEF Jobs
    <2>7. r(T).op = "resolve" => r(T).plan = {}
        OBVIOUS
    <2>8. QED
        BY <2>2, <2>4, <2>6, <2>7, SMTT(30)
<1>6. CASE Resolve(p)
    <2> DEFINE j == job[p]
    <2>1. /\ j \in [op : {"resolve"}, node : Nodes, todo : SUBSET Edges, plan : SUBSET Edges]
          /\ Cardinality(j.plan) < TxLimit /\ IsFiniteSet(j.plan)
        BY <1>0, <1>6, JobFields, Zenon DEF Resolve, TInv, FinitePlans
    <2>a. PICK e \in j.todo : \E rows \in LookupRows(e.src) :
             Begin(p, [j EXCEPT !.todo = @ \ {e},
                                !.plan = @ \cup FindByEndpoints(e.src, e.tgt, rows)])
        BY <1>6, Zenon DEF Resolve
    <2>2. PICK rows \in LookupRows(e.src) :
             Begin(p, [j EXCEPT !.todo = @ \ {e},
                                !.plan = @ \cup FindByEndpoints(e.src, e.tgt, rows)])
        BY <2>a, Zenon
    <2>3. e.src \in Nodes /\ e.tgt \in Nodes
        BY <2>1 DEF Edges
    <2> DEFINE F == FindByEndpoints(e.src, e.tgt, rows)
               r == [j EXCEPT !.todo = @ \ {e}, !.plan = @ \cup F]
    <2>4. F \subseteq Edges /\ \A c, d \in F : c = d
        BY <1>0, <2>3, FindIsSingle
    <2>5. IsFiniteSet(j.plan \cup F) /\ Cardinality(j.plan \cup F) <= Cardinality(j.plan) + 1
        BY <2>1, <2>4, PlanGrowsByOne, SMTT(30)
    <2>6. Cardinality(j.plan \cup F) <= TxLimit
        <3>1. Cardinality(j.plan) \in Nat /\ Cardinality(j.plan \cup F) \in Nat
            BY <2>1, <2>5, Zenon DEF CountingFacts
        <3>2. QED
            BY <2>1, <2>5, <3>1, GraphConstants
    <2> HIDE DEF F
    <2>7. r \in Jobs /\ r.plan = j.plan \cup F
        BY <2>1, <2>4, Zenon DEF Jobs
    <2>8. QED
        BY <2>2, <2>5, <2>6, <2>7, Zenon DEF F
<1>7. QED
    BY <1>a, <1>b, <1>3, <1>4, <1>5, <1>6

\* A commit, or the early end of a request, keeps the type invariant.
LEMMA WriteTypes ==
    ASSUME TInv, NEW p \in Procs,
           \/ CommitUpdate(p) \/ CommitTransfer(p) \/ CommitDeleteEdge(p) \/ CommitDelete(p)
           \/ CommitCascade(p) \/ FailCascade(p) \/ ClearGuard(p) \/ Abort(p)
    PROVE  TInv'
<1>0. TypeOK
    BY DEF TInv
<1>1. /\ job' \in [Procs -> Jobs]
      /\ \A q \in Procs : job'[q].op = "resolve" => Cardinality(job'[q].plan) <= TxLimit
      /\ FinitePlans'
    <2>1. CASE CommitDelete(p) \/ CommitCascade(p)
        <3> DEFINE r == [op |-> "listOut", node |-> job[p].node]
        <3>1. job[p].node \in Nodes
            <4>1. job[p].op \in {"delete", "resolve"}
                BY <2>1, Zenon DEF CommitDelete, CommitCascade, Resolved
            <4>2. QED
                BY <1>0, <4>1, JobFields
        <3>2. r \in Jobs /\ r.op # "resolve"
            BY <3>1, SMTT(30) DEF Jobs
        <3>3. Begin(p, r)
            BY <2>1, Zenon DEF CommitDelete, CommitCascade
        <3>4. QED
            BY <3>2, <3>3, BeginTypes
    <2>2. CASE ~(CommitDelete(p) \/ CommitCascade(p))
        <3>1. Finish(p)
            BY <2>2 DEF CommitUpdate, CommitTransfer, CommitDeleteEdge, FailCascade, ClearGuard, Abort
        <3>2. QED
            BY <3>1, FinishTypes
    <2>3. QED
        BY <2>1, <2>2
<1>2. CASE CommitUpdate(p) \/ CommitTransfer(p)
    <2>1. job[p].node \in Nodes
        <3>1. job[p].op \in {"update", "transfer"}
            BY <1>2, Zenon DEF CommitUpdate, CommitTransfer
        <3>2. QED
            BY <1>0, <3>1, JobFields
    <2>2. QED
        BY <1>0, <1>1, <1>2, <2>1, SMTT(30)
        DEF TInv, TypeOK, CommitUpdate, CommitTransfer, LogChange, Live
<1>3. CASE CommitDeleteEdge(p) \/ CommitCascade(p)
    <2>1. fwd' \subseteq fwd /\ rev' \subseteq rev /\ logEdges' \subseteq logEdges
        BY <1>0, <1>3, EdgeTypes DEF CommitDeleteEdge, CommitCascade
    <2>2. UNCHANGED <<bidirectional, node, guard, interrupted, logNode>>
        BY <1>3 DEF CommitDeleteEdge, CommitCascade
    <2>3. QED
        BY <1>0, <1>1, <2>1, <2>2 DEF TInv, TypeOK
<1>4. CASE CommitDelete(p)
    <2>1. job[p].node \in Nodes
        BY <1>0, <1>4, JobFields, SMTT(30) DEF CommitDelete
    <2>2. QED
        BY <1>0, <1>1, <1>4, <2>1 DEF TInv, TypeOK, CommitDelete
<1>5. CASE FailCascade(p) \/ ClearGuard(p) \/ Abort(p)
    <2>1. UNCHANGED <<bidirectional, node, fwd, rev, logNode, logEdges>>
        BY <1>5 DEF FailCascade, ClearGuard, Abort, store, cdc
    <2>2. guard' \subseteq guard
        BY <1>5, SMTT(30) DEF FailCascade, ClearGuard, Abort, store
    <2>3. interrupted' \subseteq Nodes
        <3>1. CASE FailCascade(p)
            BY <1>0, <3>1, JobFields, SMTT(30) DEF FailCascade, Resolved, TypeOK
        <3>2. CASE ClearGuard(p)
            BY <1>0, <3>2 DEF ClearGuard, TypeOK
        <3>3. CASE Abort(p)
            BY <1>0, <3>3, JobFields DEF Abort, Cascading, TypeOK
        <3>4. QED
            BY <1>5, <3>1, <3>2, <3>3
    <2>4. QED
        BY <1>0, <1>1, <2>1, <2>2, <2>3 DEF TInv, TypeOK
<1>6. QED
    BY <1>2, <1>3, <1>4, <1>5

\* Every step keeps the type invariant.
LEMMA TInvStep ==
    ASSUME CountingFacts, TInv, [Next]_vars
    PROVE  TInv'
<1>1. CASE Next
    BY <1>1, CreateTypes, ReadTypes, WriteTypes DEF Next, DeleteStep
<1>2. CASE UNCHANGED vars
    BY <1>2 DEF vars, TInv, TypeOK, FinitePlans
<1>3. QED
    BY <1>1, <1>2
=============================================================================
