-------------------------- MODULE ReplicationSteps ---------------------------
(***************************************************************************)
(* Lemmas about single steps of Replication: logs only grow, and a task    *)
(* goes through its peer's own entries in order and without a gap.         *)
(* ReplicationProofs combines them.                                        *)
(***************************************************************************)
EXTENDS Replication, TLAPS

\* A sequence of some elements.
IsLog(q) == \E E : q \in Seq(E)

\* What a concatenation holds.
LEMMA Joined ==
    ASSUME NEW p, NEW q, IsLog(p), IsLog(q)
    PROVE  /\ IsLog(p \o q)
           /\ Len(p) \in Nat /\ Len(q) \in Nat /\ Len(p \o q) = Len(p) + Len(q)
           /\ DOMAIN p = 1..Len(p) /\ DOMAIN q = 1..Len(q) /\ DOMAIN (p \o q) = 1..Len(p \o q)
           /\ \A i \in 1..Len(p) : (p \o q)[i] = p[i]
           /\ \A i \in 1..Len(p \o q) : i > Len(p) => (p \o q)[i] = q[i - Len(p)]
<1>1. PICK E : p \in Seq(E)
  BY DEF IsLog
<1>2. PICK F : q \in Seq(F)
  BY DEF IsLog
<1>3. p \in Seq(E \cup F) /\ q \in Seq(E \cup F)
  BY <1>1, <1>2
<1>4. p \o q \in Seq(E \cup F)
  BY <1>3
<1>5. IsLog(p \o q)
  BY <1>4 DEF IsLog
<1>6. /\ Len(p) \in Nat /\ Len(q) \in Nat /\ Len(p \o q) = Len(p) + Len(q)
      /\ DOMAIN p = 1..Len(p) /\ DOMAIN q = 1..Len(q) /\ DOMAIN (p \o q) = 1..Len(p \o q)
  BY <1>3, <1>4
<1>7. \A i \in 1..Len(p) : (p \o q)[i] = p[i]
  BY <1>3, <1>6
<1>8. \A i \in 1..Len(p \o q) : i > Len(p) => (p \o q)[i] = q[i - Len(p)]
  BY <1>3, <1>6
<1> QED BY <1>5, <1>6, <1>7, <1>8

----------------------------------------------------------------------------
(* The shape of the state, as far as the theorems need it.                 *)

TaskRec(r) ==
    r = [pc |-> r.pc, after |-> r.after, holds |-> r.holds, stream |-> r.stream, i |-> r.i,
         done |-> r.done, seen |-> r.seen]
TasksShaped == task = [t \in Tasks |-> task[t]] /\ \A t \in Tasks : TaskRec(task[t])

Shape ==
    /\ clock \in Nat
    /\ log = [s \in Sites |-> log[s]]
    /\ \A s \in Sites : IsLog(log[s])
    /\ TasksShaped

\* Facts about finite sets, proved from the library at the end.
CountingFacts ==
    /\ \A S \in SUBSET Nat : S # {} => First(S) \in S /\ \A j \in S : First(S) <= j
    /\ \A n \in Nat : \A S \in SUBSET (1..n) : \A T \in SUBSET S :
          Cardinality(T) \in Nat /\ Cardinality(S) \in Nat /\ Cardinality(T) <= Cardinality(S)

\* Appending one entry.
LEMMA OneMore ==
    ASSUME NEW q, NEW x, IsLog(q)
    PROVE  Append(q, x) = q \o <<x>> /\ IsLog(<<x>>) /\ Len(<<x>>) = 1 /\ <<x>>[1] = x
<1>1. PICK E : q \in Seq(E)
  BY DEF IsLog
<1>2. q \in Seq(E \cup {x}) /\ <<x>> \in Seq(E \cup {x})
  BY <1>1
<1>3. IsLog(<<x>>)
  BY <1>2 DEF IsLog
<1>4. Append(q, x) = q \o <<x>>
  BY <1>2
<1> QED BY <1>3, <1>4

\* What a local mutation does to the log of a site: it adds one entry.
Grows(s, x) ==
    /\ log' = [log EXCEPT ![s] = @ \o <<x>>]
    /\ x.site = s /\ x.ts = clock + 1

\* A write transaction, at a site or at none.
LEMMA LogGrows ==
    ASSUME Shape, NEW s, NEW ops, Log(s, ops)
    PROVE  /\ UNCHANGED log \/ \E r \in Sites : \E x : Grows(r, x)
           /\ clock' = clock + 1
           /\ UNCHANGED <<pos, task, handled>>
<1> DEFINE x == Entry(s, ops)
<1>1. log' = [log EXCEPT ![s] = Append(@, x)] /\ clock' = clock + 1
  BY DEF Log
<1>2. x.site = s /\ x.ts = clock + 1
  BY DEF Entry
<1> HIDE DEF x
<1>3. CASE s \in Sites
  <2>1. Append(log[s], x) = log[s] \o <<x>>
    BY <1>3, OneMore DEF Shape
  <2>2. log' = [log EXCEPT ![s] = @ \o <<x>>]
    BY <1>1, <2>1
  <2>3. Grows(s, x)
    BY <1>2, <2>2 DEF Grows
  <2> QED BY <1>1, <1>3, <2>3 DEF Log
<1>4. CASE s \notin Sites
  <2>1. log' = log
    BY <1>1, <1>4 DEF Shape
  <2> QED BY <1>1, <2>1 DEF Log
<1> QED BY <1>3, <1>4

\* What all steps of a request have in common.
LEMMA LocalStep ==
    ASSUME Shape, Local
    PROVE  /\ \/ UNCHANGED <<log, clock>>
              \/ /\ UNCHANGED log \/ \E r \in Sites : \E x : Grows(r, x)
                 /\ clock' = clock + 1
           /\ UNCHANGED <<pos, task, handled>>
<1> DEFINE Quiet == UNCHANGED <<log, clock, pos, task, handled>>
           Logged == \E s, ops : Log(s, ops)
<1>1. ASSUME NEW s \in Sites, NEW n \in Nodes, NEW v \in Maps, CreateNode(s, n, v)
      PROVE  Logged
  BY <1>1, Zenon DEF CreateNode
<1>2. ASSUME NEW s \in Sites, NEW e \in Links, CreateEdge(s, e)
      PROVE  Logged
  BY <1>2, Zenon DEF CreateEdge
<1>3. \A h, s, n, op : Read(h, s, n, op) => Quiet
  BY DEF Read, history
<1>4. ASSUME NEW h \in Handlers, NEW s \in Sites,
             (\E n \in Nodes : ReadNode(h, s, n)) \/ (\E e \in Links : ReadEdge(h, s, e))
      PROVE  Quiet
  BY <1>3, <1>4, Zenon DEF ReadNode, ReadEdge
<1>5. \A h, d : WriteNode(h, d) => Logged
  BY Zenon DEF WriteNode
<1>6. ASSUME NEW h \in Handlers, UpdateNode(h) \/ TransferOwnership(h) \/ DeleteNode(h)
      PROVE  Logged
  BY <1>5, <1>6, Zenon DEF UpdateNode, TransferOwnership, DeleteNode
<1>7. ASSUME NEW h \in Handlers, DeleteEdges(h)
      PROVE  Logged \/ Quiet
  BY <1>7, Zenon DEF DeleteEdges
<1>8. ASSUME NEW h \in Handlers, DeleteEdge(h)
      PROVE  Logged
  BY <1>8, Zenon DEF DeleteEdge
<1>9. ASSUME NEW h \in Handlers, Refused(h)
      PROVE  Quiet
  BY <1>9 DEF Refused, history
<1> HIDE DEF Quiet, Logged
<1>10. Quiet \/ Logged
  BY <1>1, <1>2, <1>4, <1>6, <1>7, <1>8, <1>9, Zenon DEF Local
<1>11. CASE Quiet
  BY <1>11 DEF Quiet
<1>12. CASE Logged
  BY <1>12, LogGrows DEF Logged
<1> QED BY <1>10, <1>11, <1>12

----------------------------------------------------------------------------
(* Logs only grow.                                                         *)

Extended ==
    \A s \in Sites : /\ IsLog(log'[s])
                     /\ Len(log[s]) \in Nat
                     /\ Len(log'[s]) \in Nat
                     /\ Len(log[s]) <= Len(log'[s])
                     /\ DOMAIN log[s] = 1..Len(log[s])
                     /\ DOMAIN log'[s] = 1..Len(log'[s])
                     /\ \A i \in 1..Len(log[s]) : log'[s][i] = log[s][i]

\* A log is a function from its positions.
LEMMA LengthOfLog ==
    ASSUME NEW q, IsLog(q)
    PROVE  Len(q) \in Nat /\ DOMAIN q = 1..Len(q)
<1>1. PICK E : q \in Seq(E)
  BY DEF IsLog
<1> QED BY <1>1

LEMMA SameLogExtended ==
    ASSUME Shape, UNCHANGED log
    PROVE  Extended
<1>1. \A s \in Sites : IsLog(log[s])
  BY DEF Shape
<1>2. \A s \in Sites : Len(log[s]) \in Nat /\ DOMAIN log[s] = 1..Len(log[s])
  BY <1>1, LengthOfLog
<1> QED BY <1>1, <1>2 DEF Extended

\* The log of one site grows by a sequence.
GrownBy(s, new) ==
    /\ \A r \in Sites : r # s => log'[r] = log[r]
    /\ Len(log'[s]) = Len(log[s]) + Len(new)
    /\ Len(new) \in Nat /\ DOMAIN new = 1..Len(new)
    /\ \A i \in 1..Len(log'[s]) : i > Len(log[s]) => log'[s][i] = new[i - Len(log[s])]

LEMMA AppendedExtended ==
    ASSUME Shape, NEW s \in Sites, NEW new, IsLog(new),
           log' = [log EXCEPT ![s] = @ \o new]
    PROVE  /\ Extended
           /\ log' = [r \in Sites |-> log'[r]]
           /\ GrownBy(s, new)
<1>1. \A r \in Sites : IsLog(log[r]) /\ Len(log[r]) \in Nat /\ DOMAIN log[r] = 1..Len(log[r])
  BY LengthOfLog DEF Shape
<1>2. /\ log'[s] = log[s] \o new
      /\ \A r \in Sites : r # s => log'[r] = log[r]
      /\ log' = [r \in Sites |-> log'[r]]
  BY DEF Shape
<1> DEFINE q == log[s] \o new
<1>3. /\ IsLog(q)
      /\ Len(new) \in Nat /\ DOMAIN new = 1..Len(new)
      /\ Len(q) = Len(log[s]) + Len(new) /\ DOMAIN q = 1..Len(q)
      /\ \A i \in 1..Len(log[s]) : q[i] = log[s][i]
      /\ \A i \in 1..Len(q) : i > Len(log[s]) => q[i] = new[i - Len(log[s])]
  BY <1>1, Joined
<1>4. log'[s] = q
  BY <1>2
<1> HIDE DEF q
<1> DEFINE Ok(r) == /\ IsLog(log'[r])
                    /\ Len(log[r]) \in Nat
                    /\ Len(log'[r]) \in Nat
                    /\ Len(log[r]) <= Len(log'[r])
                    /\ DOMAIN log[r] = 1..Len(log[r])
                    /\ DOMAIN log'[r] = 1..Len(log'[r])
                    /\ \A i \in 1..Len(log[r]) : log'[r][i] = log[r][i]
<1>5. \A r \in Sites : Ok(r)
  <2>1. Ok(s)
    <3>1. IsLog(log'[s]) /\ DOMAIN log'[s] = 1..Len(log'[s])
      BY <1>3, <1>4
    <3>2. /\ Len(log[s]) \in Nat /\ Len(log'[s]) \in Nat /\ Len(log[s]) <= Len(log'[s])
          /\ DOMAIN log[s] = 1..Len(log[s])
      BY <1>1, <1>3, <1>4
    <3>3. \A i \in 1..Len(log[s]) : log'[s][i] = log[s][i]
      BY <1>3, <1>4
    <3> QED BY <3>1, <3>2, <3>3
  <2>2. ASSUME NEW r \in Sites, r # s
        PROVE  Ok(r)
    BY <1>1, <1>2, <2>2
  <2> HIDE DEF Ok
  <2> QED BY <2>1, <2>2
<1>6. Extended
  BY <1>5 DEF Extended
<1>7. GrownBy(s, new)
  BY <1>2, <1>3, <1>4 DEF GrownBy
<1> QED BY <1>2, <1>6, <1>7

----------------------------------------------------------------------------
(* The entries of a log up to a position have been gone through, and a     *)
(* task's stream holds the next ones without a gap.                        *)

Covered(s, r, k) ==
    /\ k \in 0..Len(log[r])
    /\ \A i \in 1..k : log[r][i].site = r => i \in handled[s][r]

OwnAfter(r, k) == {i \in 1..Len(log[r]) : i > k /\ log[r][i].site = r}

Gapless(S, r, k) ==
    /\ S \subseteq OwnAfter(r, k)
    /\ \A i \in S : \A j \in OwnAfter(r, k) : j < i => j \in S

Following(t) ==
    /\ Covered(SiteOf[t], PeerOf[t], task[t].after)
    /\ Gapless(task[t].stream, PeerOf[t], task[t].after)
    /\ task[t].pc \in {"write", "cascade"} => task[t].stream # {}

PosShape ==
    /\ pos = [s \in Sites |-> [r \in Sites |-> pos[s][r]]]
    /\ handled = [s \in Sites |-> [r \in Sites |-> handled[s][r]]]

PosInv ==
    /\ PosShape
    /\ \A s, r \in Sites : Covered(s, r, pos[s][r])
    /\ \A t \in Tasks : Following(t)

HandledGrows == \A s, r \in Sites : handled[s][r] \subseteq handled'[s][r]

\* Neither a growing log nor more entries handled disturb what is covered.
LEMMA CoveredStays ==
    ASSUME Extended, HandledGrows, NEW s \in Sites, NEW r \in Sites, NEW k, Covered(s, r, k)
    PROVE  Covered(s, r, k)'
<1>1. /\ Len(log[r]) \in Nat /\ Len(log'[r]) \in Nat /\ Len(log[r]) <= Len(log'[r])
      /\ \A i \in 1..Len(log[r]) : log'[r][i] = log[r][i]
  BY DEF Extended
<1> QED BY <1>1 DEF Covered, HandledGrows

----------------------------------------------------------------------------
(* What the steps of a task do to its place in the peer's log.             *)

View(t, pc, after, stream, i, done) ==
    /\ TasksShaped'
    /\ \A u \in Tasks : u # t => task'[u] = task[u]
    /\ task'[t].pc = pc
    /\ task'[t].after = after
    /\ task'[t].stream = stream
    /\ task'[t].i = i
    /\ task'[t].done = done

\* A step of one task as a new record for it.
LEMMA Updated ==
    ASSUME TasksShaped, NEW t \in Tasks, NEW rec, TaskRec(rec), task' = [task EXCEPT ![t] = rec]
    PROVE  View(t, rec.pc, rec.after, rec.stream, rec.i, rec.done)
<1>1. /\ task'[t] = rec
      /\ task' = [u \in Tasks |-> task'[u]]
      /\ \A u \in Tasks : u # t => task'[u] = task[u]
  BY DEF TasksShaped
<1>2. \A u \in Tasks : TaskRec(task'[u])
  BY <1>1 DEF TasksShaped
<1>3. TasksShaped'
  BY <1>1, <1>2, Zenon DEF TasksShaped, TaskRec
<1> QED BY <1>1, <1>3 DEF View

LEMMA BeginView ==
    ASSUME TasksShaped, NEW t \in Tasks, NEW x, Begin(t, x)
    PROVE  View(t, "top", x, {}, 1, <<>>)
<1> DEFINE rec == [Stopped EXCEPT !.pc = "top", !.after = x, !.holds = SiteOf[t] \notin LeasedSites]
<1>0. TaskRec(Stopped) /\ Stopped.stream = {} /\ Stopped.i = 1 /\ Stopped.done = <<>>
  BY DEF TaskRec, Stopped
<1>1. TaskRec(rec) /\ rec.pc = "top" /\ rec.after = x /\ rec.stream = {} /\ rec.i = 1 /\ rec.done = <<>>
  <2> DEFINE b == SiteOf[t] \notin LeasedSites
  <2>1. rec = [Stopped EXCEPT !.pc = "top", !.after = x, !.holds = b]
    OBVIOUS
  <2>2. \E h : rec = [Stopped EXCEPT !.pc = "top", !.after = x, !.holds = h]
    BY <2>1, Zenon
  <2> HIDE DEF rec, b
  <2>3. PICK h : rec = [Stopped EXCEPT !.pc = "top", !.after = x, !.holds = h]
    BY <2>2
  <2> QED BY <1>0, <2>3 DEF TaskRec
<1>2. task' = [task EXCEPT ![t] = rec]
  BY DEF Begin
<1> HIDE DEF rec
<1>3. View(t, rec.pc, rec.after, rec.stream, rec.i, rec.done)
  BY <1>1, <1>2, Updated
<1> QED BY <1>1, <1>3

LEMMA CrashView ==
    ASSUME TasksShaped, NEW t \in Tasks, Crash(t)
    PROVE  View(t, "stopped", 0, {}, 1, <<>>)
<1>1. /\ TaskRec(Stopped) /\ Stopped.pc = "stopped" /\ Stopped.after = 0 /\ Stopped.stream = {}
      /\ Stopped.i = 1 /\ Stopped.done = <<>>
  BY DEF TaskRec, Stopped
<1>2. task' = [task EXCEPT ![t] = Stopped]
  BY DEF Crash
<1>3. View(t, Stopped.pc, Stopped.after, Stopped.stream, Stopped.i, Stopped.done)
  BY <1>1, <1>2, Updated
<1> QED BY <1>1, <1>3

\* The lease is refreshed, or an operation goes on: the place stays.
LEMMA HoldsView ==
    ASSUME TasksShaped, NEW t \in Tasks, NEW b, task' = [task EXCEPT ![t].holds = b]
    PROVE  View(t, task[t].pc, task[t].after, task[t].stream, task[t].i, task[t].done)
<1> DEFINE rec == [task[t] EXCEPT !.holds = b]
<1>1. TaskRec(task[t]) /\ task' = [task EXCEPT ![t] = rec]
  BY DEF TasksShaped
<1>2. /\ TaskRec(rec) /\ rec.pc = task[t].pc /\ rec.after = task[t].after
      /\ rec.stream = task[t].stream /\ rec.i = task[t].i /\ rec.done = task[t].done
  BY <1>1 DEF TaskRec
<1> HIDE DEF rec
<1>3. View(t, rec.pc, rec.after, rec.stream, rec.i, rec.done)
  BY <1>1, <1>2, Updated
<1> QED BY <1>2, <1>3

LEMMA PcView ==
    ASSUME TasksShaped, NEW t \in Tasks, NEW x, task' = [task EXCEPT ![t].pc = x]
    PROVE  View(t, x, task[t].after, task[t].stream, task[t].i, task[t].done)
<1> DEFINE rec == [task[t] EXCEPT !.pc = x]
<1>1. TaskRec(task[t]) /\ task' = [task EXCEPT ![t] = rec]
  BY DEF TasksShaped
<1>2. /\ TaskRec(rec) /\ rec.pc = x /\ rec.after = task[t].after
      /\ rec.stream = task[t].stream /\ rec.i = task[t].i /\ rec.done = task[t].done
  BY <1>1 DEF TaskRec
<1> HIDE DEF rec
<1>3. View(t, rec.pc, rec.after, rec.stream, rec.i, rec.done)
  BY <1>1, <1>2, Updated
<1> QED BY <1>2, <1>3

LEMMA ReadView ==
    ASSUME TasksShaped, NEW t \in Tasks, NEW x,
           task' = [task EXCEPT ![t].pc = "write", ![t].seen = x]
    PROVE  View(t, "write", task[t].after, task[t].stream, task[t].i, task[t].done)
<1> DEFINE rec == [task[t] EXCEPT !.pc = "write", !.seen = x]
<1>1. TaskRec(task[t]) /\ task' = [task EXCEPT ![t] = rec]
  BY DEF TasksShaped
<1>2. /\ TaskRec(rec) /\ rec.pc = "write" /\ rec.after = task[t].after
      /\ rec.stream = task[t].stream /\ rec.i = task[t].i /\ rec.done = task[t].done
  <2>1. rec = [task[t] EXCEPT !.pc = "write", !.seen = x]
    OBVIOUS
  <2> HIDE DEF rec
  <2> QED BY <1>1, <2>1 DEF TaskRec
<1> HIDE DEF rec
<1>3. View(t, rec.pc, rec.after, rec.stream, rec.i, rec.done)
  BY <1>1, <1>2, Updated
<1> QED BY <1>2, <1>3

LEMMA StreamView ==
    ASSUME TasksShaped, NEW t \in Tasks, NEW x, NEW S,
           task' = [task EXCEPT ![t].pc = x, ![t].stream = S]
    PROVE  View(t, x, task[t].after, S, task[t].i, task[t].done)
<1> DEFINE rec == [task[t] EXCEPT !.pc = x, !.stream = S]
<1>1. TaskRec(task[t]) /\ task' = [task EXCEPT ![t] = rec]
  BY DEF TasksShaped
<1>2. /\ TaskRec(rec) /\ rec.pc = x /\ rec.after = task[t].after
      /\ rec.stream = S /\ rec.i = task[t].i /\ rec.done = task[t].done
  <2>1. rec = [task[t] EXCEPT !.pc = x, !.stream = S]
    OBVIOUS
  <2> HIDE DEF rec
  <2> QED BY <1>1, <2>1 DEF TaskRec
<1> HIDE DEF rec
<1>3. View(t, rec.pc, rec.after, rec.stream, rec.i, rec.done)
  BY <1>1, <1>2, Updated
<1> QED BY <1>2, <1>3

LEMMA NextOpView ==
    ASSUME TasksShaped, NEW t \in Tasks, NEW x, NextOp(t, x)
    PROVE  View(t, "stream", task[t].after, task[t].stream, task[t].i + 1, task[t].done \o x)
<1> DEFINE n == task[t].i + 1
           d == task[t].done \o x
           rec == [task[t] EXCEPT !.pc = "stream", !.i = n, !.done = d, !.seen = Unread]
<1>1. TaskRec(task[t]) /\ task' = [task EXCEPT ![t] = rec]
  BY DEF TasksShaped, NextOp
<1> HIDE DEF n, d
<1>2. /\ TaskRec(rec) /\ rec.pc = "stream" /\ rec.after = task[t].after
      /\ rec.stream = task[t].stream /\ rec.i = n /\ rec.done = d
  <2>1. rec = [task[t] EXCEPT !.pc = "stream", !.i = n, !.done = d, !.seen = Unread]
    OBVIOUS
  <2> HIDE DEF rec
  <2> QED BY <1>1, <2>1 DEF TaskRec
<1> HIDE DEF rec
<1>3. View(t, rec.pc, rec.after, rec.stream, rec.i, rec.done)
  BY <1>1, <1>2, Updated
<1> QED BY <1>2, <1>3 DEF n, d

LEMMA AdvanceView ==
    ASSUME TasksShaped, NEW t \in Tasks, Advance(t)
    PROVE  View(t, "stream", At(t), task[t].stream \ {At(t)}, 1, <<>>)
<1> DEFINE a == At(t)
           S == task[t].stream \ {At(t)}
           rec == [task[t] EXCEPT !.stream = S, !.after = a, !.i = 1, !.done = <<>>]
<1>1. TaskRec(task[t]) /\ task[t].pc = "stream" /\ task' = [task EXCEPT ![t] = rec]
  BY DEF TasksShaped, Advance
<1> HIDE DEF a, S
<1>2. /\ TaskRec(rec) /\ rec.pc = "stream" /\ rec.after = a /\ rec.stream = S
      /\ rec.i = 1 /\ rec.done = <<>>
  <2>1. rec = [task[t] EXCEPT !.stream = S, !.after = a, !.i = 1, !.done = <<>>]
    OBVIOUS
  <2> HIDE DEF rec
  <2> QED BY <1>1, <2>1 DEF TaskRec
<1> HIDE DEF rec
<1>3. View(t, rec.pc, rec.after, rec.stream, rec.i, rec.done)
  BY <1>1, <1>2, Updated
<1> QED BY <1>2, <1>3 DEF a, S

----------------------------------------------------------------------------
(* Positions and streams.                                                  *)

\* What is pulled stays without a gap as the log grows.
LEMMA NextStays ==
    ASSUME Extended, NEW r \in Sites, NEW S, NEW k, k \in 0..Len(log[r]), Gapless(S, r, k)
    PROVE  Gapless(S, r, k)'
<1>1. /\ Len(log[r]) \in Nat /\ Len(log'[r]) \in Nat /\ Len(log[r]) <= Len(log'[r])
      /\ \A i \in 1..Len(log[r]) : log'[r][i] = log[r][i]
  BY DEF Extended
<1>2. S \subseteq OwnAfter(r, k)'
  BY <1>1 DEF Gapless, OwnAfter
<1>3. ASSUME NEW i \in S, NEW j \in OwnAfter(r, k)', j < i
      PROVE  j \in S
  <2>1. i \in 1..Len(log[r])
    BY DEF Gapless, OwnAfter
  <2>2. j \in OwnAfter(r, k)
    BY <1>1, <1>3, <2>1 DEF OwnAfter
  <2> QED BY <1>3, <2>2 DEF Gapless
<1> QED BY <1>2, <1>3 DEF Gapless

\* A task that keeps its place, while logs grow and others go on.
LEMMA FollowingStays ==
    ASSUME Extended, HandledGrows, NEW t \in Tasks, Following(t),
           task'[t].after = task[t].after, task'[t].stream = task[t].stream,
           task'[t].pc \in {"write", "cascade"} => task[t].stream # {}
    PROVE  Following(t)'
<1>1. SiteOf[t] \in Sites /\ PeerOf[t] \in Sites
  BY ReplicationConstants
<1>2. /\ Covered(SiteOf[t], PeerOf[t], task[t].after)
      /\ Gapless(task[t].stream, PeerOf[t], task[t].after)
      /\ task[t].after \in 0..Len(log[PeerOf[t]])
  BY DEF Following, Covered
<1> DEFINE k == task[t].after
           S == task[t].stream
           r == PeerOf[t]
           s == SiteOf[t]
<1> SUFFICES ASSUME NEW c, c = k, NEW Q, Q = S
             PROVE  Covered(s, r, c)' /\ Gapless(Q, r, c)'
  BY DEF Following
<1> HIDE DEF k, S, r, s
<1> QED BY <1>1, <1>2, CoveredStays, NextStays DEF k, S, r, s

\* What a pull returns follows the position without a gap.
LEMMA Collected ==
    ASSUME CountingFacts, NEW r, NEW k \in Nat, Len(log[r]) \in Nat, DOMAIN log[r] = 1..Len(log[r])
    PROVE  Gapless(CollectEntries(r, k), r, k)
<1> DEFINE own == {i \in DOMAIN log[r] : i > k /\ log[r][i].site = r}
           Below(i) == {j \in own : j < i}
<1>1. own = OwnAfter(r, k)
  BY DEF OwnAfter
<1>2. CollectEntries(r, k) = {i \in own : Cardinality(Below(i)) < BatchSize}
  BY DEF CollectEntries
<1>3. ASSUME NEW i \in CollectEntries(r, k), NEW j \in own, j < i
      PROVE  j \in CollectEntries(r, k)
  <2>1. i \in 1..Len(log[r]) /\ j \in 1..Len(log[r])
    BY <1>2
  <2>2. Below(i) \in SUBSET (1..Len(log[r])) /\ Below(j) \in SUBSET Below(i)
    BY <1>3, <2>1
  <2>3. Cardinality(Below(i)) < BatchSize
    BY <1>2
  <2>4. /\ Cardinality(Below(j)) \in Nat /\ Cardinality(Below(i)) \in Nat
        /\ Cardinality(Below(j)) <= Cardinality(Below(i))
    <3> HIDE DEF Below
    <3> QED BY <2>2, Zenon DEF CountingFacts
  <2>5. Cardinality(Below(j)) < BatchSize
    <3> HIDE DEF Below
    <3> QED BY <2>3, <2>4, ReplicationConstants
  <2> HIDE DEF own, Below
  <2> QED BY <1>2, <2>5
<1> HIDE DEF own, Below
<1> QED BY <1>1, <1>2, <1>3 DEF Gapless

\* The entry a task is at is the next one of the peer's own.
LEMMA AtIsNext ==
    ASSUME CountingFacts, Shape, NEW t \in Tasks, Following(t), task[t].stream # {}
    PROVE  /\ At(t) \in task[t].stream
           /\ At(t) \in OwnAfter(PeerOf[t], task[t].after)
           /\ \A j \in task[t].stream : At(t) <= j
           /\ \A j \in OwnAfter(PeerOf[t], task[t].after) : j >= At(t)
<1> DEFINE S == task[t].stream
           k == task[t].after
<1>1. PeerOf[t] \in Sites
  BY ReplicationConstants
<1>2. Len(log[PeerOf[t]]) \in Nat
  BY <1>1, LengthOfLog DEF Shape
<1>3. Gapless(S, PeerOf[t], k)
  BY DEF Following
<1>4. S \in SUBSET Nat
  BY <1>2, <1>3 DEF Gapless, OwnAfter
<1> HIDE DEF S, k
<1>5. At(t) \in S /\ \A j \in S : At(t) <= j
  BY <1>4, Zenon DEF CountingFacts, At, S
<1>6. ASSUME NEW j \in OwnAfter(PeerOf[t], k)
      PROVE  j >= At(t)
  <2>1. At(t) \in Nat /\ j \in Nat
    <3>1. j \in Nat
      BY <1>2, <1>6 DEF OwnAfter
    <3>2. At(t) \in Nat
      BY <1>4, <1>5, Zenon
    <3> QED BY <3>1, <3>2
  <2>2. j < At(t) => j \in S
    BY <1>3, <1>5, <1>6 DEF Gapless
  <2> QED BY <1>5, <2>1, <2>2
<1> QED BY <1>3, <1>5, <1>6 DEF Gapless, S, k

\* A task goes on to the next entry.
LEMMA AdvanceFollows ==
    ASSUME CountingFacts, Shape, PosInv, Extended, NEW t \in Tasks, task[t].stream # {}, Advance(t)
    PROVE  HandledGrows /\ Following(t)' /\ handled' = [s \in Sites |-> [r \in Sites |-> handled'[s][r]]]
<1> DEFINE s == SiteOf[t]
           r == PeerOf[t]
           k == task[t].after
           a == At(t)
           S == task[t].stream
<1>1. s \in Sites /\ r \in Sites
  BY ReplicationConstants
<1>2. /\ Following(t)
      /\ handled = [q \in Sites |-> [u \in Sites |-> handled[q][u]]]
  BY DEF PosInv, PosShape
<1>3. /\ a \in S /\ a \in OwnAfter(r, k)
      /\ \A j \in S : a <= j
      /\ \A j \in OwnAfter(r, k) : j >= a
  BY <1>2, AtIsNext
<1>4. /\ handled' = [q \in Sites |-> [u \in Sites |-> handled'[q][u]]]
      /\ HandledGrows
      /\ a \in handled'[s][r]
  <2>1. handled' = [handled EXCEPT ![s][r] = @ \cup {a}]
    BY DEF Advance
  <2> HIDE DEF s, r, a
  <2> QED BY <1>1, <1>2, <2>1 DEF HandledGrows
<1>5. View(t, "stream", a, S \ {a}, 1, <<>>)
  BY AdvanceView DEF Shape
<1>6. /\ Len(log[r]) \in Nat /\ Len(log'[r]) \in Nat /\ Len(log[r]) <= Len(log'[r])
      /\ \A i \in 1..Len(log[r]) : log'[r][i] = log[r][i]
  BY <1>1 DEF Extended
<1>7. Covered(s, r, k) /\ Gapless(S, r, k) /\ k \in 0..Len(log[r])
  BY <1>2 DEF Following, Covered
<1> HIDE DEF s, r, k, a, S
<1>8. a \in 1..Len(log[r]) /\ a > k
  BY <1>3 DEF OwnAfter
<1>9. ASSUME NEW i \in 1..a, log'[r][i].site = r
      PROVE  i \in handled'[s][r]
  <2>1. i \in 1..Len(log[r]) /\ log[r][i].site = r
    BY <1>6, <1>8, <1>9
  <2>2. CASE i <= k
    BY <1>1, <1>4, <1>7, <2>1, <2>2 DEF Covered, HandledGrows
  <2>3. CASE i > k
    <3>1. i \in OwnAfter(r, k)
      BY <2>1, <2>3 DEF OwnAfter
    <3>2. i = a
      BY <1>3, <1>8, <3>1
    <3> QED BY <1>4, <3>2
  <2> QED BY <1>7, <2>2, <2>3
<1>10. Gapless(S \ {a}, r, a)
  <2>1. \A j \in OwnAfter(r, a) : j \in OwnAfter(r, k)
    BY <1>6, <1>7, <1>8 DEF OwnAfter
  <2>2. S \ {a} \subseteq OwnAfter(r, a)
    <3> SUFFICES ASSUME NEW j \in S, j # a
                 PROVE  j \in OwnAfter(r, a)
      OBVIOUS
    <3>1. j \in OwnAfter(r, k) /\ a <= j
      BY <1>3, <1>7 DEF Gapless
    <3> QED BY <1>6, <1>8, <3>1 DEF OwnAfter
  <2>3. \A j \in OwnAfter(r, a) : j # a
    BY <1>6, <1>8 DEF OwnAfter
  <2> QED BY <1>7, <2>1, <2>2, <2>3 DEF Gapless
<1>11. \A b, Q : b = a /\ Q = S \ {a} => Gapless(Q, r, b)'
  BY <1>1, <1>6, <1>8, <1>10, NextStays
<1>12. Gapless(task[t].stream, r, task[t].after)'
  BY <1>5, <1>11 DEF View
<1>13. Covered(s, r, task[t].after)'
  BY <1>5, <1>6, <1>8, <1>9 DEF View, Covered
<1>14. task'[t].pc = "stream"
  BY <1>5 DEF View
<1>15. Following(t)'
  BY <1>12, <1>13, <1>14 DEF Following, r, s
<1> QED BY <1>4, <1>15

\* The steps of one task leave the others where they are.
LEMMA OthersFollow ==
    ASSUME PosInv, Extended, HandledGrows,
           \A u \in Tasks : task'[u] = task[u] \/ Following(u)'
    PROVE  \A u \in Tasks : Following(u)'
<1> SUFFICES ASSUME NEW u \in Tasks, task'[u] = task[u]
             PROVE  Following(u)'
  OBVIOUS
<1>1. Following(u)
  BY DEF PosInv
<1>2. task'[u].pc \in {"write", "cascade"} => task[u].stream # {}
  BY <1>1 DEF Following
<1> QED BY <1>1, <1>2, FollowingStays

\* Saved positions stay covered.
LEMMA SavedStays ==
    ASSUME PosInv, Extended, HandledGrows, UNCHANGED pos
    PROVE  \A s, r \in Sites : Covered(s, r, pos[s][r])'
<1> SUFFICES ASSUME NEW s \in Sites, NEW r \in Sites
             PROVE  Covered(s, r, pos[s][r])'
  OBVIOUS
<1>1. Covered(s, r, pos[s][r])
  BY DEF PosInv
<1>2. \A k : k = pos[s][r] => Covered(s, r, k)'
  BY <1>1, CoveredStays
<1> QED BY <1>2

\* Steps that neither handle an entry nor save a position.
LEMMA QuietStep ==
    ASSUME PosInv, Extended, UNCHANGED <<pos, handled>>,
           \A u \in Tasks : task'[u] = task[u] \/ Following(u)'
    PROVE  PosInv'
<1>1. HandledGrows
  BY DEF HandledGrows
<1>2. PosShape'
  BY DEF PosInv, PosShape
<1> QED BY <1>1, <1>2, OthersFollow, SavedStays DEF PosInv

\* A task goes on, and nothing else happens to positions.
LEMMA AdvanceStep ==
    ASSUME CountingFacts, Shape, PosInv, Extended, NEW t \in Tasks, task[t].stream # {},
           Advance(t), UNCHANGED pos
    PROVE  PosInv'
<1>1. /\ HandledGrows /\ Following(t)'
      /\ handled' = [s \in Sites |-> [r \in Sites |-> handled'[s][r]]]
  BY AdvanceFollows
<1>2. PosShape'
  BY <1>1 DEF PosInv, PosShape
<1>3. \A u \in Tasks : u # t => task'[u] = task[u]
  BY AdvanceView DEF Shape, View
<1> QED BY <1>1, <1>2, <1>3, OthersFollow, SavedStays DEF PosInv

\* The inductive invariant of the positions.
Places == Shape /\ PosInv

\* Steps of a task that leave all logs alone.
LEMMA SameLogPlaces ==
    ASSUME Places, UNCHANGED <<log, clock>>, TasksShaped', PosInv'
    PROVE  Places'
BY DEF Places, Shape

\* One lemma per action.
LEMMA LocalPlaces ==
    ASSUME Places, Local
    PROVE  Places'
<1>0. Shape /\ PosInv
  BY DEF Places
<1>1. /\ \/ UNCHANGED <<log, clock>>
         \/ (UNCHANGED log \/ \E r \in Sites : \E x : Grows(r, x)) /\ clock' = clock + 1
      /\ UNCHANGED <<pos, task, handled>>
  BY <1>0, LocalStep
<1>2. Extended /\ log' = [r \in Sites |-> log'[r]]
  <2>1. CASE UNCHANGED log
    BY <1>0, <2>1, SameLogExtended DEF Shape
  <2>2. ASSUME NEW r \in Sites, NEW x, Grows(r, x)
        PROVE  Extended /\ log' = [q \in Sites |-> log'[q]]
    <3>1. IsLog(<<x>>)
      BY <1>0, OneMore DEF Shape
    <3> QED BY <1>0, <2>2, <3>1, AppendedExtended DEF Grows
  <2> QED BY <1>1, <2>1, <2>2
<1>3. TasksShaped'
  BY <1>0, <1>1 DEF Shape, TasksShaped
<1>4. clock' \in Nat
  BY <1>0, <1>1 DEF Shape
<1>5. Shape'
  BY <1>2, <1>3, <1>4 DEF Shape, Extended
<1>6. PosInv'
  BY <1>0, <1>1, <1>2, QuietStep
<1> QED BY <1>5, <1>6 DEF Places

LEMMA StartPlaces ==
    ASSUME Places, NEW t \in Tasks, Start(t) \/ Crash(t)
    PROVE  Places'
<1>0. Shape /\ PosInv /\ TasksShaped
  BY DEF Places, Shape
<1>1. UNCHANGED <<log, clock, pos, handled>>
  BY DEF Start, Begin, Crash
<1>2. Extended /\ HandledGrows
  BY <1>0, <1>1, SameLogExtended DEF HandledGrows
<1>3. SiteOf[t] \in Sites /\ PeerOf[t] \in Sites
  BY ReplicationConstants
<1>4. PICK k, pc : /\ View(t, pc, k, {}, 1, <<>>) /\ pc \in {"top", "stopped"}
                   /\ k = 0 \/ k = pos[SiteOf[t]][PeerOf[t]]
  <2>1. CASE Crash(t)
    BY <1>0, <2>1, CrashView
  <2>2. CASE Start(t)
    <3>1. PICK x : Begin(t, x) /\ (x = 0 \/ x = pos[SiteOf[t]][PeerOf[t]])
      BY <2>2 DEF Start
    <3> QED BY <1>0, <3>1, BeginView
  <2> QED BY <2>1, <2>2
<1>5. Covered(SiteOf[t], PeerOf[t], k)'
  <2>1. CASE k = 0
    <3>1. Len(log'[PeerOf[t]]) \in Nat
      BY <1>2, <1>3 DEF Extended
    <3> QED BY <2>1, <3>1 DEF Covered
  <2>2. CASE k = pos[SiteOf[t]][PeerOf[t]]
    <3>1. Covered(SiteOf[t], PeerOf[t], k)
      BY <1>0, <1>3, <2>2 DEF PosInv
    <3> QED BY <1>2, <1>3, <3>1, CoveredStays
  <2> QED BY <1>4, <2>1, <2>2
<1>6. Following(t)'
  BY <1>4, <1>5 DEF View, Following, Gapless
<1>7. \A u \in Tasks : task'[u] = task[u] \/ Following(u)'
  BY <1>4, <1>6 DEF View
<1>8. PosInv'
  BY <1>0, <1>1, <1>2, <1>7, QuietStep
<1>9. TasksShaped'
  BY <1>4 DEF View
<1> QED BY <1>1, <1>8, <1>9, SameLogPlaces

\* Steps in which a task keeps its place.
LEMMA StayPlaces ==
    ASSUME Places, NEW t \in Tasks, UNCHANGED <<log, clock, pos, handled>>, NEW pc, NEW i, NEW done,
           View(t, pc, task[t].after, task[t].stream, i, done),
           pc \in {"write", "cascade"} => task[t].stream # {}
    PROVE  Places'
<1>0. Shape /\ PosInv /\ Following(t)
  BY DEF Places, PosInv
<1>1. Extended /\ HandledGrows
  BY <1>0, SameLogExtended DEF HandledGrows
<1>2. Following(t)'
  BY <1>0, <1>1, FollowingStays DEF View
<1>3. \A u \in Tasks : task'[u] = task[u] \/ Following(u)'
  BY <1>2 DEF View
<1>4. PosInv'
  BY <1>0, <1>1, <1>3, QuietStep
<1>5. TasksShaped'
  BY DEF View
<1> QED BY <1>4, <1>5, SameLogPlaces

LEMMA RefreshPlaces ==
    ASSUME Places, NEW t \in Tasks, RefreshLease(t) \/ RefreshFails(t)
    PROVE  Places'
<1>0. TasksShaped /\ Following(t)
  BY DEF Places, Shape, PosInv
<1>1. UNCHANGED <<log, clock, pos, handled>>
  BY DEF RefreshLease, RefreshFails
<1>2. PICK b : task' = [task EXCEPT ![t].holds = b]
  BY Zenon DEF RefreshLease, RefreshFails
<1>3. View(t, task[t].pc, task[t].after, task[t].stream, task[t].i, task[t].done)
  BY <1>0, <1>2, HoldsView
<1> QED BY <1>0, <1>1, <1>3, StayPlaces DEF Following

LEMMA PullPlaces ==
    ASSUME CountingFacts, Places, NEW t \in Tasks, Pull(t)
    PROVE  Places'
<1>0. Shape /\ PosInv /\ TasksShaped /\ Following(t)
  BY DEF Places, Shape, PosInv
<1> DEFINE r == PeerOf[t]
           k == task[t].after
           S == CollectEntries(r, k)
<1>1. UNCHANGED <<log, clock, pos, handled>>
  BY DEF Pull, history
<1>2. View(t, "stream", k, S, task[t].i, task[t].done)
  <2>1. task' = [task EXCEPT ![t].pc = "stream", ![t].stream = S]
    BY DEF Pull
  <2> HIDE DEF S
  <2> QED BY <1>0, <2>1, StreamView
<1>3. Extended /\ HandledGrows
  BY <1>0, <1>1, SameLogExtended DEF HandledGrows
<1>4. SiteOf[t] \in Sites /\ r \in Sites
  BY ReplicationConstants
<1>5. /\ Len(log[r]) \in Nat /\ DOMAIN log[r] = 1..Len(log[r])
      /\ Covered(SiteOf[t], r, k) /\ k \in 0..Len(log[r])
  BY <1>0, <1>3, <1>4 DEF Extended, Following, Covered
<1>6. Gapless(S, r, k)
  BY <1>5, Collected
<1> HIDE DEF r, k, S
<1>7. \A Q, c : Q = S /\ c = k => Gapless(Q, r, c)' /\ Covered(SiteOf[t], r, c)'
  BY <1>3, <1>4, <1>5, <1>6, NextStays, CoveredStays
<1>8. Following(t)'
  BY <1>2, <1>7 DEF View, Following, r
<1>9. \A u \in Tasks : task'[u] = task[u] \/ Following(u)'
  BY <1>2, <1>8 DEF View
<1>10. PosInv'
  BY <1>0, <1>1, <1>3, <1>9, QuietStep
<1>11. TasksShaped'
  BY <1>2 DEF View
<1> QED BY <1>1, <1>10, <1>11, SameLogPlaces

\* An operation is read, applied, skipped or failed: the task stays at its
\* entry.
LEMMA OpPlaces ==
    ASSUME Places, NEW t \in Tasks,
           ReadOp(t) \/ WriteOp(t) \/ WriteFails(t) \/ Cascade(t) \/ CascadeFails(t)
    PROVE  Places'
<1>0. TasksShaped /\ Following(t)
  BY DEF Places, Shape, PosInv
<1>1. UNCHANGED <<log, clock, pos, handled>> /\ task[t].stream # {}
  <2>1. UNCHANGED <<log, clock, pos, handled>>
    BY DEF ReadOp, WriteOp, WriteFails, Cascade, CascadeFails, history
  <2>2. task[t].stream # {}
    BY <1>0 DEF ReadOp, WriteOp, WriteFails, Cascade, CascadeFails, Following
  <2> QED BY <2>1, <2>2
<1>2. \/ \E x : task' = [task EXCEPT ![t].pc = "write", ![t].seen = x]
      \/ task' = [task EXCEPT ![t].pc = "cascade"]
      \/ \E x : NextOp(t, x)
  <2>1. CASE ReadOp(t)
    BY <2>1, Zenon DEF ReadOp
  <2>2. CASE WriteOp(t)
    BY <2>2, Zenon DEF WriteOp
  <2>3. CASE WriteFails(t) \/ Cascade(t) \/ CascadeFails(t)
    BY <2>3, Zenon DEF WriteFails, Cascade, CascadeFails
  <2> QED BY <2>1, <2>2, <2>3
<1>3. \E pc, i, done : View(t, pc, task[t].after, task[t].stream, i, done)
  BY <1>0, <1>2, ReadView, PcView, NextOpView, Zenon
<1> QED BY <1>1, <1>3, StayPlaces

\* What EndEntry appends are operations of the peer's own entry.
Mirrored(t) == [site |-> PeerOf[t], ts |-> Current(t).ts, ops |-> task[t].done]

LEMMA EndAppends ==
    ASSUME CountingFacts, Places, NEW t \in Tasks, EndEntry(t) \/ AppendFails(t)
    PROVE  /\ \/ UNCHANGED log
              \/ /\ IsLog(<<Mirrored(t)>>) /\ Len(<<Mirrored(t)>>) = 1
                 /\ log' = [log EXCEPT ![SiteOf[t]] = @ \o <<Mirrored(t)>>]
           /\ At(t) \in 1..Len(log[PeerOf[t]])
           /\ Current(t).site = PeerOf[t]
           /\ Extended
           /\ log' = [s \in Sites |-> log'[s]]
           /\ task[t].stream # {}
<1>0. Shape /\ Following(t) /\ SiteOf[t] \in Sites /\ IsLog(log[SiteOf[t]])
  BY ReplicationConstants DEF Places, Shape, PosInv
<1>1. task[t].stream # {}
  BY DEF EndEntry, AppendFails, Advance
<1>2. At(t) \in OwnAfter(PeerOf[t], task[t].after)
  BY <1>0, <1>1, AtIsNext
<1>3. At(t) \in 1..Len(log[PeerOf[t]]) /\ Current(t).site = PeerOf[t]
  BY <1>2 DEF OwnAfter, Current
<1> DEFINE x == Mirrored(t)
<1>4. \/ UNCHANGED log
      \/ log' = [log EXCEPT ![SiteOf[t]] = Append(@, x)]
  BY DEF EndEntry, AppendFails, Mirrored
<1> HIDE DEF x
<1>5. CASE UNCHANGED log
  BY <1>0, <1>1, <1>3, <1>5, SameLogExtended DEF Shape
<1>6. CASE log' = [log EXCEPT ![SiteOf[t]] = Append(@, x)]
  <2>1. Append(log[SiteOf[t]], x) = log[SiteOf[t]] \o <<x>> /\ IsLog(<<x>>) /\ Len(<<x>>) = 1
    BY <1>0, OneMore
  <2>2. log' = [log EXCEPT ![SiteOf[t]] = @ \o <<x>>]
    BY <1>6, <2>1
  <2>3. Extended /\ log' = [s \in Sites |-> log'[s]]
    BY <1>0, <2>1, <2>2, AppendedExtended
  <2> QED BY <1>1, <1>3, <2>1, <2>2, <2>3 DEF x
<1> QED BY <1>4, <1>5, <1>6

LEMMA EndPlaces ==
    ASSUME CountingFacts, Places, NEW t \in Tasks, EndEntry(t) \/ AppendFails(t)
    PROVE  Places'
<1>0. Shape /\ PosInv /\ TasksShaped
  BY DEF Places, Shape
<1>1. Extended /\ log' = [s \in Sites |-> log'[s]] /\ task[t].stream # {}
  BY EndAppends
<1>2. Advance(t) /\ UNCHANGED <<clock, pos>>
  BY DEF EndEntry, AppendFails, Advance
<1>3. PosInv'
  BY <1>0, <1>1, <1>2, AdvanceStep
<1>4. TasksShaped'
  BY <1>0, <1>2, AdvanceView DEF View
<1>5. Shape'
  BY <1>0, <1>1, <1>2, <1>4 DEF Shape, Extended
<1> QED BY <1>3, <1>5 DEF Places

LEMMA SavePlaces ==
    ASSUME Places, NEW t \in Tasks, SavePosition(t) \/ SaveFails(t)
    PROVE  Places'
<1>0. Shape /\ PosInv /\ TasksShaped /\ Following(t)
  BY DEF Places, Shape, PosInv
<1> DEFINE s == SiteOf[t]
           r == PeerOf[t]
           k == task[t].after
<1>1. UNCHANGED <<log, clock, handled>>
  BY DEF SavePosition, SaveFails, history
<1>2. Extended /\ HandledGrows
  BY <1>0, <1>1, SameLogExtended DEF HandledGrows
<1>3. s \in Sites /\ r \in Sites
  BY ReplicationConstants
<1>4. View(t, "top", k, {}, task[t].i, task[t].done)
  BY <1>0, StreamView DEF SavePosition, SaveFails
<1>5. \/ UNCHANGED pos
      \/ pos' = [pos EXCEPT ![s][r] = k]
  BY DEF SavePosition, SaveFails
<1>6. pos = [q \in Sites |-> [u \in Sites |-> pos[q][u]]] /\ Covered(s, r, k)
  BY <1>0 DEF PosInv, PosShape, Following
<1> HIDE DEF s, r, k
<1>7. \A c : c = k => Covered(s, r, c)'
  BY <1>2, <1>3, <1>6, CoveredStays
<1>8. Following(t)'
  BY <1>4, <1>7 DEF View, Following, Gapless, s, r
<1>9. \A u \in Tasks : Following(u)'
  BY <1>0, <1>2, <1>4, <1>8, OthersFollow DEF View
<1>10. /\ pos' = [q \in Sites |-> [u \in Sites |-> pos'[q][u]]]
       /\ \A q, u \in Sites : Covered(q, u, pos[q][u])'
  <2>1. CASE UNCHANGED pos
    BY <1>0, <1>2, <1>6, <2>1, SavedStays
  <2>2. CASE pos' = [pos EXCEPT ![s][r] = k]
    <3>1. /\ pos' = [q \in Sites |-> [u \in Sites |-> pos'[q][u]]]
          /\ pos'[s][r] = k
          /\ \A q, u \in Sites : q # s \/ u # r => pos'[q][u] = pos[q][u]
      BY <1>3, <1>6, <2>2
    <3>2. \A q, u \in Sites : q # s \/ u # r => Covered(q, u, pos[q][u])'
      <4> SUFFICES ASSUME NEW q \in Sites, NEW u \in Sites, q # s \/ u # r
                   PROVE  Covered(q, u, pos[q][u])'
        OBVIOUS
      <4>1. Covered(q, u, pos[q][u])
        BY <1>0 DEF PosInv
      <4>2. \A c : c = pos[q][u] => Covered(q, u, c)'
        BY <1>2, <4>1, CoveredStays
      <4> QED BY <3>1, <4>2
    <3>3. Covered(s, r, pos[s][r])'
      BY <1>7, <3>1
    <3> QED BY <3>1, <3>2, <3>3
  <2> QED BY <1>5, <2>1, <2>2
<1>11. PosInv'
  BY <1>0, <1>1, <1>9, <1>10 DEF PosInv, PosShape
<1>12. TasksShaped'
  BY <1>4 DEF View
<1> QED BY <1>1, <1>11, <1>12, SameLogPlaces
=============================================================================
