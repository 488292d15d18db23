------------------------- MODULE ReplicationProofs --------------------------
(***************************************************************************)
(* Theorems about Replication, for any sites, tasks, nodes and batches.    *)
(***************************************************************************)
EXTENDS ReplicationSteps

----------------------------------------------------------------------------
(* Positions.                                                              *)

LEMMA InitPlaces ==
    ASSUME Init
    PROVE  Places
<1>1. IsLog(<<>>) /\ Len(<<>>) = 0
  <2>1. <<>> \in Seq({})
    OBVIOUS
  <2> QED BY <2>1 DEF IsLog
<1>2. /\ clock = 0 /\ log = [s \in Sites |-> <<>>]
      /\ pos = [s \in Sites |-> [r \in Sites |-> 0]]
      /\ handled = [s \in Sites |-> [r \in Sites |-> {}]]
      /\ task = [t \in Tasks |-> Stopped]
  BY DEF Init
<1>3. TasksShaped
  <2>1. TaskRec(Stopped)
    BY DEF TaskRec, Stopped
  <2> QED BY <1>2, <2>1 DEF TasksShaped
<1>5. Shape
  BY <1>1, <1>2, <1>3 DEF Shape
<1>6. \A s, r \in Sites : Covered(s, r, 0)
  BY <1>1, <1>2 DEF Covered
<1>7. ASSUME NEW t \in Tasks
      PROVE  Following(t)
  <2>1. task[t].pc = "stopped" /\ task[t].after = 0 /\ task[t].stream = {}
    BY <1>2 DEF Stopped
  <2>2. SiteOf[t] \in Sites /\ PeerOf[t] \in Sites
    BY ReplicationConstants
  <2> QED BY <1>6, <2>1, <2>2 DEF Following, Gapless
<1>8. PosShape /\ \A s, r \in Sites : pos[s][r] = 0
  BY <1>2 DEF PosShape
<1>9. PosInv
  BY <1>6, <1>7, <1>8 DEF PosInv
<1> QED BY <1>5, <1>9 DEF Places

LEMMA NextPlaces ==
    ASSUME CountingFacts, Places, [Next]_vars
    PROVE  Places'
<1>1. CASE Local
  BY <1>1, LocalPlaces
<1>2. CASE UNCHANGED <<log, clock, pos, task, handled>>
  <2>1. Shape /\ PosInv
    BY DEF Places
  <2>2. Extended
    BY <1>2, <2>1, SameLogExtended
  <2>3. PosInv'
    BY <1>2, <2>1, <2>2, QuietStep
  <2>4. TasksShaped'
    BY <1>2, <2>1 DEF Shape, TasksShaped
  <2> QED BY <1>2, <2>3, <2>4, SameLogPlaces
<1>3. ASSUME NEW t \in Tasks, Start(t) \/ Crash(t) \/ RefreshLease(t) \/ RefreshFails(t)
      PROVE  Places'
  BY <1>3, StartPlaces, RefreshPlaces
<1>4. ASSUME NEW t \in Tasks,
             Step(t) \/ WriteFails(t) \/ CascadeFails(t) \/ AppendFails(t) \/ SaveFails(t)
      PROVE  Places'
  BY <1>4, PullPlaces, OpPlaces, EndPlaces, SavePlaces DEF Step
<1>5. UNCHANGED vars \/ (\E s \in Sites : ExpireLease(s)) =>
      UNCHANGED <<log, clock, pos, task, handled>>
  BY DEF vars, ExpireLease, history
<1> QED BY <1>1, <1>2, <1>3, <1>4, <1>5 DEF Next

LEMMA PlacesCover ==
    ASSUME Places
    PROVE  PositionCovers
BY DEF Places, PosInv, Covered, PositionCovers

----------------------------------------------------------------------------
(* Origins.                                                                *)

\* No timestamp is ahead of the clock.
StampsOK == \A s \in Sites : \A i \in DOMAIN log[s] : log[s][i].ts \in Nat /\ log[s][i].ts <= clock

\* What a task has applied of its entry are operations of that entry.
Working(t) ==
    /\ IsLog(task[t].done)
    /\ task[t].i \in Nat \ {0}
    /\ task[t].i = 1 => task[t].done = <<>>
    /\ task[t].stream = {} \/ task[t].pc \in {"top", "stopped"} => task[t].i = 1
    /\ task[t].pc \in {"write", "cascade"} => task[t].i \in DOMAIN Current(t).ops
    /\ \A k \in DOMAIN task[t].done :
          \E l \in DOMAIN Current(t).ops : Current(t).ops[l] = task[t].done[k]

AllWorking == \A t \in Tasks : Working(t)

\* The inductive invariant of the origins.
Origins == StampsOK /\ OneOrigin

\* No step takes anything from a log.
LEMMA NextExtended ==
    ASSUME CountingFacts, Places, [Next]_vars
    PROVE  Extended
<1>0. Shape
  BY DEF Places
<1>1. CASE UNCHANGED log
  BY <1>0, <1>1, SameLogExtended
<1>2. ASSUME NEW r \in Sites, NEW x, Grows(r, x)
      PROVE  Extended
  <2>1. IsLog(<<x>>)
    BY <1>0, OneMore DEF Shape
  <2> QED BY <1>0, <1>2, <2>1, AppendedExtended DEF Grows
<1>3. CASE Local
  BY <1>0, <1>1, <1>2, <1>3, LocalStep
<1>4. ASSUME NEW t \in Tasks, EndEntry(t) \/ AppendFails(t)
      PROVE  Extended
  BY <1>4, EndAppends
<1>5. ASSUME NEW t \in Tasks,
             \/ Start(t) \/ Crash(t) \/ RefreshLease(t) \/ RefreshFails(t) \/ WriteFails(t)
             \/ Pull(t) \/ ReadOp(t) \/ WriteOp(t) \/ Cascade(t) \/ CascadeFails(t)
             \/ SavePosition(t) \/ SaveFails(t)
      PROVE  UNCHANGED log
  BY <1>5 DEF Start, Begin, Crash, RefreshLease, RefreshFails, WriteFails, Pull, ReadOp, WriteOp,
              Cascade, CascadeFails, SavePosition, SaveFails
<1>6. UNCHANGED vars \/ (\E s \in Sites : ExpireLease(s)) => UNCHANGED log
  BY DEF vars, ExpireLease
<1> QED BY <1>1, <1>3, <1>4, <1>5, <1>6 DEF Next, Step

LEMMA EmptyLog == IsLog(<<>>) /\ DOMAIN <<>> = {} /\ Len(<<>>) = 0
<1>1. <<>> \in Seq({})
  OBVIOUS
<1> QED BY <1>1 DEF IsLog

\* Growing logs do not change the entry a task is at.
LEMMA WorkingStays ==
    ASSUME CountingFacts, Places, Extended, NEW t \in Tasks, Working(t), task'[t] = task[t]
    PROVE  Working(t)'
<1>1. CASE task[t].stream = {}
  <2>1. task[t].i = 1 /\ task[t].done = <<>> /\ task[t].pc \notin {"write", "cascade"}
    BY <1>1 DEF Working, Places, PosInv, Following
  <2>2. task'[t].i = 1 /\ task'[t].done = <<>> /\ task'[t].pc \notin {"write", "cascade"}
    BY <2>1
  <2> QED BY <2>2, EmptyLog DEF Working
<1>2. CASE task[t].stream # {}
  <2>1. At(t) \in OwnAfter(PeerOf[t], task[t].after)
    BY <1>2, AtIsNext DEF Places, PosInv
  <2>2. PeerOf[t] \in Sites
    BY ReplicationConstants
  <2>3. At(t)' = At(t) /\ At(t) \in 1..Len(log[PeerOf[t]])
    BY <2>1 DEF At, OwnAfter
  <2>4. Current(t)' = Current(t)
    BY <2>2, <2>3 DEF Current, Extended
  <2> QED BY <2>4 DEF Working
<1> QED BY <1>1, <1>2

\* The steps of a task that leave the log alone.
LEMMA OpWorking ==
    ASSUME AllWorking, NEW t \in Tasks, TasksShaped, Following(t), UNCHANGED log,
           ReadOp(t) \/ WriteOp(t) \/ WriteFails(t) \/ Cascade(t) \/ CascadeFails(t)
    PROVE  Working(t)'
<1>0. Working(t)
  BY DEF AllWorking
<1>1. task[t].stream # {}
  BY DEF ReadOp, WriteOp, WriteFails, Cascade, CascadeFails, Following
<1>2. task[t].i \in DOMAIN Current(t).ops
  BY <1>0 DEF ReadOp, WriteOp, WriteFails, Cascade, CascadeFails, Working
<1>3. ASSUME task'[t].stream = task[t].stream
      PROVE  Current(t)' = Current(t)
  BY <1>3 DEF Current, At
<1>4. CASE \E x : task' = [task EXCEPT ![t].pc = "write", ![t].seen = x]
  <2>1. View(t, "write", task[t].after, task[t].stream, task[t].i, task[t].done)
    BY <1>4, ReadView
  <2>2. Current(t)' = Current(t)
    BY <1>3, <2>1 DEF View
  <2>3. task'[t].i = task[t].i /\ task'[t].done = task[t].done /\ task'[t].stream # {} /\ task'[t].pc = "write"
    BY <1>1, <2>1 DEF View
  <2> QED BY <1>0, <1>2, <2>2, <2>3 DEF Working
<1>5. CASE task' = [task EXCEPT ![t].pc = "cascade"]
  <2>1. View(t, "cascade", task[t].after, task[t].stream, task[t].i, task[t].done)
    BY <1>5, PcView
  <2>2. Current(t)' = Current(t)
    BY <1>3, <2>1 DEF View
  <2>3. task'[t].i = task[t].i /\ task'[t].done = task[t].done /\ task'[t].stream # {} /\ task'[t].pc = "cascade"
    BY <1>1, <2>1 DEF View
  <2> QED BY <1>0, <1>2, <2>2, <2>3 DEF Working
<1>6. ASSUME NEW x, NextOp(t, x), x = <<>> \/ x = <<Op(t)>>
      PROVE  Working(t)'
  <2> DEFINE d == task[t].done
             ops == Current(t).ops
  <2>1. View(t, "stream", task[t].after, task[t].stream, task[t].i + 1, d \o x)
    BY <1>6, NextOpView
  <2>2. Current(t)' = Current(t)
    BY <1>3, <2>1 DEF View
  <2>3. IsLog(d) /\ \A k \in DOMAIN d : \E l \in DOMAIN ops : ops[l] = d[k]
    BY <1>0 DEF Working
  <2>4. IsLog(x) /\ \A k \in DOMAIN x : \E l \in DOMAIN ops : ops[l] = x[k]
    <3>1. CASE x = <<>>
      BY <3>1, EmptyLog
    <3>2. CASE x = <<Op(t)>>
      <4>1. IsLog(<<Op(t)>>)
        BY OneMore, EmptyLog
      <4>2. \A k \in DOMAIN x : x[k] = Op(t)
        BY <3>2
      <4> QED BY <1>2, <3>2, <4>1, <4>2 DEF Op
    <3> QED BY <1>6, <3>1, <3>2
  <2> HIDE DEF d, ops
  <2>5. /\ IsLog(d \o x)
        /\ \A k \in DOMAIN (d \o x) : \E l \in DOMAIN ops : ops[l] = (d \o x)[k]
    <3>1. /\ IsLog(d \o x)
          /\ Len(d) \in Nat /\ Len(x) \in Nat /\ Len(d \o x) = Len(d) + Len(x)
          /\ DOMAIN d = 1..Len(d) /\ DOMAIN x = 1..Len(x) /\ DOMAIN (d \o x) = 1..Len(d \o x)
          /\ \A i \in 1..Len(d) : (d \o x)[i] = d[i]
          /\ \A i \in 1..Len(d \o x) : i > Len(d) => (d \o x)[i] = x[i - Len(d)]
      BY <2>3, <2>4, Joined
    <3>2. ASSUME NEW k \in DOMAIN (d \o x)
          PROVE  \E l \in DOMAIN ops : ops[l] = (d \o x)[k]
      <4>1. CASE k \in 1..Len(d)
        BY <2>3, <3>1, <4>1
      <4>2. CASE k > Len(d) /\ k - Len(d) \in DOMAIN x
        BY <2>4, <3>1, <3>2, <4>2
      <4> QED BY <3>1, <3>2, <4>1, <4>2
    <3> QED BY <3>1, <3>2
  <2>6. /\ task'[t].i = task[t].i + 1 /\ task'[t].done = d \o x /\ task'[t].stream # {}
        /\ task'[t].pc = "stream" /\ task[t].i \in Nat \ {0}
    BY <1>0, <1>1, <2>1 DEF View, Working
  <2>7. task'[t].i \in Nat \ {0} /\ task'[t].i # 1
    BY <2>6
  <2> QED BY <2>2, <2>5, <2>6, <2>7 DEF Working, ops
<1>7. CASE ReadOp(t)
  BY <1>4, <1>6, <1>7 DEF ReadOp
<1>8. CASE WriteOp(t)
  BY <1>5, <1>6, <1>8 DEF WriteOp
<1>9. CASE WriteFails(t) \/ Cascade(t) \/ CascadeFails(t)
  BY <1>6, <1>9 DEF WriteFails, Cascade, CascadeFails
<1> QED BY <1>7, <1>8, <1>9

\* At the ends of an entry and of a stream nothing is under way.
LEMMA RestWorking ==
    ASSUME NEW t \in Tasks, task'[t].i = 1, task'[t].done = <<>>,
           task'[t].pc \notin {"write", "cascade"}
    PROVE  Working(t)'
BY EmptyLog DEF Working

LEMMA TaskWorking ==
    ASSUME AllWorking, NEW t \in Tasks, TasksShaped,
           \/ Start(t) \/ Crash(t) \/ RefreshLease(t) \/ RefreshFails(t) \/ Pull(t)
           \/ EndEntry(t) \/ AppendFails(t) \/ SavePosition(t) \/ SaveFails(t)
    PROVE  Working(t)'
<1>0. Working(t)
  BY DEF AllWorking
<1> USE RestWorking
<1>1. CASE Crash(t)
  BY <1>1, CrashView DEF View
<1>2. CASE Start(t)
  BY <1>2, BeginView DEF Start, View
<1>3. CASE RefreshLease(t) \/ RefreshFails(t)
  <2>1. task[t].pc = "top" /\ \E b : task' = [task EXCEPT ![t].holds = b]
    BY <1>3, Zenon DEF RefreshLease, RefreshFails
  <2>2. View(t, task[t].pc, task[t].after, task[t].stream, task[t].i, task[t].done)
    BY <2>1, HoldsView
  <2> QED BY <1>0, <2>1, <2>2 DEF View, Working
<1>4. CASE Pull(t)
  <2>1. task[t].pc = "top" /\ \E S : task' = [task EXCEPT ![t].pc = "stream", ![t].stream = S]
    BY <1>4, Zenon DEF Pull
  <2>2. PICK S : View(t, "stream", task[t].after, S, task[t].i, task[t].done)
    BY <2>1, StreamView
  <2> QED BY <1>0, <2>1, <2>2 DEF View, Working
<1>5. CASE EndEntry(t) \/ AppendFails(t)
  BY <1>5, AdvanceView DEF EndEntry, AppendFails, View
<1>6. CASE SavePosition(t) \/ SaveFails(t)
  <2>1. task[t].i = 1 /\ task' = [task EXCEPT ![t].pc = "top", ![t].stream = {}]
    BY <1>6 DEF SavePosition, SaveFails
  <2>2. View(t, "top", task[t].after, {}, task[t].i, task[t].done)
    BY <2>1, StreamView
  <2> QED BY <1>0, <2>1, <2>2 DEF View, Working
<1> QED BY <1>1, <1>2, <1>3, <1>4, <1>5, <1>6

\* The other tasks.
LEMMA TasksAlone ==
    ASSUME NEW t \in Tasks, TasksShaped,
           \/ Start(t) \/ Crash(t) \/ RefreshLease(t) \/ RefreshFails(t) \/ Step(t)
           \/ WriteFails(t) \/ CascadeFails(t) \/ AppendFails(t) \/ SaveFails(t)
    PROVE  \A u \in Tasks : u # t => task'[u] = task[u]
<1>1. \E rec : task' = [task EXCEPT ![t] = rec]
  <2>1. CASE Start(t) \/ Crash(t)
    BY <2>1, Zenon DEF Start, Begin, Crash
  <2>2. CASE RefreshLease(t) \/ RefreshFails(t)
    BY <2>2, Zenon DEF RefreshLease, RefreshFails
  <2>3. CASE Pull(t) \/ SavePosition(t) \/ SaveFails(t)
    BY <2>3, Zenon DEF Pull, SavePosition, SaveFails
  <2>4. \A x : NextOp(t, x) => \E rec : task' = [task EXCEPT ![t] = rec]
    BY Zenon DEF NextOp
  <2>5. CASE ReadOp(t) \/ WriteOp(t)
    BY <2>4, <2>5, Zenon DEF ReadOp, WriteOp
  <2>6. CASE WriteFails(t) \/ Cascade(t) \/ CascadeFails(t)
    BY <2>4, <2>6, Zenon DEF WriteFails, Cascade, CascadeFails
  <2>7. CASE EndEntry(t) \/ AppendFails(t)
    BY <2>7, Zenon DEF EndEntry, AppendFails, Advance
  <2> QED BY <2>1, <2>2, <2>3, <2>5, <2>6, <2>7 DEF Step
<1> QED BY <1>1 DEF TasksShaped

LEMMA NextWorking ==
    ASSUME CountingFacts, Places, AllWorking, [Next]_vars
    PROVE  AllWorking'
<1>0. Shape /\ PosInv /\ TasksShaped
  BY DEF Places, Shape
<1>1. Extended
  BY <1>0, NextExtended
<1>2. ASSUME NEW t \in Tasks, task'[t] = task[t]
      PROVE  Working(t)'
  BY <1>1, <1>2, WorkingStays DEF AllWorking
<1>3. CASE UNCHANGED task
  BY <1>2, <1>3 DEF AllWorking
<1>4. ASSUME NEW t \in Tasks,
             \/ Start(t) \/ Crash(t) \/ RefreshLease(t) \/ RefreshFails(t) \/ Step(t)
             \/ WriteFails(t) \/ CascadeFails(t) \/ AppendFails(t) \/ SaveFails(t)
      PROVE  AllWorking'
  <2>1. \A u \in Tasks : u # t => task'[u] = task[u]
    BY <1>0, <1>4, TasksAlone
  <2>2. CASE ReadOp(t) \/ WriteOp(t) \/ WriteFails(t) \/ Cascade(t) \/ CascadeFails(t)
    <3>1. UNCHANGED log
      BY <2>2 DEF ReadOp, WriteOp, WriteFails, Cascade, CascadeFails
    <3>2. Working(t)'
      BY <1>0, <2>2, <3>1, OpWorking DEF PosInv
    <3> QED BY <1>2, <2>1, <3>2 DEF AllWorking
  <2>3. CASE \/ Start(t) \/ Crash(t) \/ RefreshLease(t) \/ RefreshFails(t) \/ Pull(t)
             \/ EndEntry(t) \/ AppendFails(t) \/ SavePosition(t) \/ SaveFails(t)
    <3>1. Working(t)'
      BY <1>0, <2>3, TaskWorking
    <3> QED BY <1>2, <2>1, <3>1 DEF AllWorking
  <2> QED BY <1>4, <2>2, <2>3 DEF Step
<1>5. UNCHANGED vars \/ (\E s \in Sites : ExpireLease(s)) \/ Local => UNCHANGED task
  BY <1>0, LocalStep DEF vars, ExpireLease
<1> QED BY <1>3, <1>4, <1>5 DEF Next

\* A log grows by one entry that has its origin.
LEMMA GrownOrigins ==
    ASSUME Shape, Origins, NEW s \in Sites, NEW x, log' = [log EXCEPT ![s] = @ \o <<x>>],
           clock' \in Nat, clock' >= clock, x.ts \in Nat, x.ts <= clock',
           \/ x.site = s /\ x.ts > clock
           \/ \E r \in Sites : /\ r # s /\ x.site = r
                               /\ \E j \in DOMAIN log[r] : PartOf(x, log[r][j])
    PROVE  Origins'
<1>1. /\ Extended /\ GrownBy(s, <<x>>) /\ IsLog(<<x>>) /\ Len(<<x>>) = 1 /\ <<x>>[1] = x
      /\ clock \in Nat
  BY OneMore, AppendedExtended DEF Shape
<1> DEFINE one == <<x>>
<1> HIDE DEF one
<1>2. \A u \in Sites : /\ Len(log[u]) \in Nat /\ Len(log'[u]) \in Nat
                       /\ Len(log[u]) <= Len(log'[u])
                       /\ DOMAIN log[u] = 1..Len(log[u]) /\ DOMAIN log'[u] = 1..Len(log'[u])
                       /\ \A j \in 1..Len(log[u]) : log'[u][j] = log[u][j]
  BY <1>1 DEF Extended
<1>3. \A u \in Sites : \A j \in DOMAIN log[u] : j \in DOMAIN log'[u] /\ log'[u][j] = log[u][j]
  BY <1>2
<1>4. ASSUME NEW j \in DOMAIN log'[s], j \notin DOMAIN log[s]
      PROVE  log'[s][j] = x
  <2>1. Len(log'[s]) = Len(log[s]) + 1
    BY <1>1 DEF GrownBy, one
  <2>2. j = Len(log[s]) + 1 /\ j \in 1..Len(log'[s]) /\ j > Len(log[s])
    BY <1>2, <1>4, <2>1
  <2>3. log'[s][j] = one[j - Len(log[s])]
    BY <1>1, <2>2 DEF GrownBy, one
  <2>4. j - Len(log[s]) = 1
    BY <1>2, <2>2
  <2>5. one[1] = x
    BY <1>1 DEF one
  <2> QED BY <2>3, <2>4, <2>5
<1>5. \A u \in Sites : \A j \in DOMAIN log'[u] :
         \/ j \in DOMAIN log[u] /\ log'[u][j] = log[u][j]
         \/ u = s /\ log'[u][j] = x
  <2>1. \A u \in Sites : u # s => log'[u] = log[u]
    BY <1>1 DEF GrownBy
  <2> QED BY <1>3, <1>4, <2>1
<1>6. \A u \in Sites : \A j \in DOMAIN log[u] : log[u][j].ts \in Nat /\ log[u][j].ts <= clock
  BY DEF Origins, StampsOK
<1>7. StampsOK'
  <2>1. ASSUME NEW u \in Sites, NEW j \in DOMAIN log'[u]
        PROVE  log'[u][j].ts \in Nat /\ log'[u][j].ts <= clock'
    <3>1. CASE j \in DOMAIN log[u] /\ log'[u][j] = log[u][j]
      <4>1. log[u][j].ts \in Nat /\ log[u][j].ts <= clock
        BY <1>6, <3>1
      <4> QED BY <1>1, <3>1, <4>1
    <3>2. CASE log'[u][j] = x
      BY <3>2
    <3> QED BY <1>5, <2>1, <3>1, <3>2
  <2> QED BY <2>1 DEF StampsOK
<1>8. OneOrigin'
  <2> SUFFICES ASSUME NEW q \in Sites, NEW r \in Sites, q # r, NEW i \in DOMAIN log'[q]
               PROVE  /\ log'[q][i].site = r =>
                            \E j \in DOMAIN log'[r] : PartOf(log'[q][i], log'[r][j])
                      /\ log'[q][i].site = q =>
                            ~\E j \in DOMAIN log'[r] : /\ log'[r][j].site = r
                                                      /\ log'[r][j].ts = log'[q][i].ts
    BY DEF OneOrigin, PartOf
  <2>1. ASSUME log'[q][i].site = r
        PROVE  \E j \in DOMAIN log'[r] : PartOf(log'[q][i], log'[r][j])
    <3>1. CASE i \in DOMAIN log[q] /\ log'[q][i] = log[q][i]
      <4>1. PICK j \in DOMAIN log[r] : PartOf(log[q][i], log[r][j])
        BY <2>1, <3>1 DEF Origins, OneOrigin
      <4> QED BY <1>3, <3>1, <4>1
    <3>2. CASE q = s /\ log'[q][i] = x
      <4>1. PICK j \in DOMAIN log[r] : PartOf(x, log[r][j])
        BY <2>1, <3>2
      <4> QED BY <1>3, <3>2, <4>1
    <3> QED BY <1>5, <3>1, <3>2
  <2>2. ASSUME log'[q][i].site = q, NEW j \in DOMAIN log'[r],
               log'[r][j].site = r, log'[r][j].ts = log'[q][i].ts
        PROVE  FALSE
    <3>1. CASE /\ i \in DOMAIN log[q] /\ log'[q][i] = log[q][i]
               /\ j \in DOMAIN log[r] /\ log'[r][j] = log[r][j]
      BY <2>2, <3>1 DEF Origins, OneOrigin
    <3>2. CASE q = s /\ log'[q][i] = x /\ j \in DOMAIN log[r] /\ log'[r][j] = log[r][j]
      <4>1. x.ts > clock
        BY <2>2, <3>2
      <4>2. log[r][j].ts \in Nat /\ log[r][j].ts <= clock
        BY <1>6, <3>2
      <4> QED BY <1>1, <2>2, <3>2, <4>1, <4>2
    <3>3. CASE r = s /\ log'[r][j] = x /\ i \in DOMAIN log[q] /\ log'[q][i] = log[q][i]
      <4>1. x.ts > clock
        BY <2>2, <3>3
      <4>2. log[q][i].ts \in Nat /\ log[q][i].ts <= clock
        BY <1>6, <3>3
      <4> QED BY <1>1, <2>2, <3>3, <4>1, <4>2
    <3> QED BY <1>5, <2>2, <3>1, <3>2, <3>3
  <2> QED BY <2>1, <2>2
<1> QED BY <1>7, <1>8 DEF Origins

LEMMA SameLogOrigins ==
    ASSUME Shape, Origins, UNCHANGED log, clock' \in Nat, clock' >= clock
    PROVE  Origins'
<1>1. OneOrigin'
  BY DEF Origins, OneOrigin, PartOf
<1>2. StampsOK'
  BY DEF Origins, StampsOK, Shape
<1> QED BY <1>1, <1>2 DEF Origins

\* A local mutation has a timestamp no entry had before it.
LEMMA LocalOrigins ==
    ASSUME Shape, Origins, Local
    PROVE  Origins'
<1>1. /\ \/ UNCHANGED log
         \/ (\E r \in Sites : \E x : Grows(r, x)) /\ clock' = clock + 1
      /\ clock' = clock \/ clock' = clock + 1
  BY LocalStep
<1>2. clock \in Nat /\ clock' \in Nat /\ clock' >= clock
  BY <1>1 DEF Shape
<1>3. CASE UNCHANGED log
  BY <1>2, <1>3, SameLogOrigins
<1>4. ASSUME NEW r \in Sites, NEW x, Grows(r, x), clock' = clock + 1
      PROVE  Origins'
  <2>1. /\ log' = [log EXCEPT ![r] = @ \o <<x>>]
        /\ x.site = r /\ x.ts \in Nat /\ x.ts <= clock' /\ x.ts > clock
    BY <1>2, <1>4 DEF Grows
  <2> QED BY <1>2, <2>1, GrownOrigins
<1> QED BY <1>1, <1>3, <1>4

\* A mirrored entry holds operations of its peer's entry.
LEMMA EndOrigins ==
    ASSUME CountingFacts, Places, AllWorking, Origins, NEW t \in Tasks,
           EndEntry(t) \/ AppendFails(t)
    PROVE  Origins'
<1> DEFINE s == SiteOf[t]
           p == PeerOf[t]
           x == Mirrored(t)
<1>1. s \in Sites /\ p \in Sites /\ s # p
  BY ReplicationConstants
<1>2. UNCHANGED clock /\ clock \in Nat
  BY DEF EndEntry, AppendFails, Advance, Places, Shape
<1>3. /\ At(t) \in 1..Len(log[p]) /\ Current(t).site = p
      /\ UNCHANGED log \/ log' = [log EXCEPT ![s] = @ \o <<x>>]
  BY EndAppends
<1>4. At(t) \in DOMAIN log[p]
  BY <1>1, <1>3, LengthOfLog DEF Places, Shape
<1>5. x.site = p /\ x.ts = Current(t).ts /\ x.ops = task[t].done
  BY DEF Mirrored
<1>6. PartOf(x, log[p][At(t)])
  <2>1. \A k \in DOMAIN task[t].done :
           \E l \in DOMAIN Current(t).ops : Current(t).ops[l] = task[t].done[k]
    BY DEF AllWorking, Working
  <2>2. Current(t) = log[p][At(t)]
    BY DEF Current
  <2> HIDE DEF x
  <2> QED BY <1>3, <1>5, <2>1, <2>2 DEF PartOf
<1>7. x.ts \in Nat /\ x.ts <= clock
  BY <1>1, <1>4, <1>5 DEF Origins, StampsOK, Current
<1> HIDE DEF x, s, p
<1>8. CASE UNCHANGED log
  BY <1>2, <1>8, SameLogOrigins DEF Places
<1>9. CASE log' = [log EXCEPT ![s] = @ \o <<x>>]
  <2>1. \E r \in Sites : /\ r # s /\ x.site = r
                        /\ \E j \in DOMAIN log[r] : PartOf(x, log[r][j])
    BY <1>1, <1>4, <1>5, <1>6
  <2>2. clock' \in Nat /\ clock' >= clock /\ x.ts <= clock'
    BY <1>2, <1>7
  <2>3. Shape
    BY DEF Places
  <2> QED BY <1>1, <1>7, <1>9, <2>1, <2>2, <2>3, GrownOrigins
<1> QED BY <1>3, <1>8, <1>9

LEMMA NextOrigins ==
    ASSUME CountingFacts, Places, AllWorking, Origins, [Next]_vars
    PROVE  Origins'
<1>1. CASE Local
  BY <1>1, LocalOrigins DEF Places
<1>2. ASSUME NEW t \in Tasks, EndEntry(t) \/ AppendFails(t)
      PROVE  Origins'
  BY <1>2, EndOrigins
<1>3. CASE UNCHANGED <<log, clock>>
  BY <1>3, SameLogOrigins DEF Places, Shape
<1>4. ASSUME NEW t \in Tasks,
             \/ Start(t) \/ Crash(t) \/ RefreshLease(t) \/ RefreshFails(t) \/ WriteFails(t)
             \/ Pull(t) \/ ReadOp(t) \/ WriteOp(t) \/ Cascade(t) \/ CascadeFails(t)
             \/ SavePosition(t) \/ SaveFails(t)
      PROVE  UNCHANGED <<log, clock>>
  BY <1>4 DEF Start, Begin, Crash, RefreshLease, RefreshFails, WriteFails, Pull, ReadOp, WriteOp,
              Cascade, CascadeFails, SavePosition, SaveFails
<1>5. UNCHANGED vars \/ (\E s \in Sites : ExpireLease(s)) => UNCHANGED <<log, clock>>
  BY DEF vars, ExpireLease
<1> QED BY <1>1, <1>2, <1>3, <1>4, <1>5 DEF Next, Step

LEMMA InitOrigins ==
    ASSUME Init
    PROVE  Origins
<1>1. log = [s \in Sites |-> <<>>]
  BY DEF Init
<1>2. \A s \in Sites : DOMAIN log[s] = {}
  BY <1>1
<1> QED BY <1>2 DEF Origins, StampsOK, OneOrigin

LEMMA InitWorking ==
    ASSUME Init
    PROVE  AllWorking
<1>1. \A t \in Tasks : task[t] = Stopped
  BY DEF Init
<1>2. Stopped.i = 1 /\ Stopped.done = <<>> /\ Stopped.pc = "stopped"
  BY DEF Stopped
<1> QED BY <1>1, <1>2, EmptyLog DEF AllWorking, Working

----------------------------------------------------------------------------
(* The facts about finite sets and the theorems.                           *)

INSTANCE FiniteSetTheorems
INSTANCE WellFoundedInduction

LEMMA FirstIsFirst ==
    ASSUME NEW S \in SUBSET Nat, S # {}
    PROVE  First(S) \in S /\ \A j \in S : First(S) <= j
<1>1. \E x \in S : \A y \in S : ~(<<y, x>> \in OpToRel(<, Nat))
  BY WFMin, NatLessThanWellFounded, Zenon
<1>2. PICK x \in S : \A y \in S : ~(y < x)
  <2>1. \A x, y \in S : y < x => <<y, x>> \in OpToRel(<, Nat)
    BY DEF OpToRel
  <2> QED BY <1>1, <2>1, Zenon
<1>3. \A y \in S : x <= y
  BY <1>2
<1>4. \E z \in S : \A y \in S : z <= y
  BY <1>3, Zenon
<1> QED BY <1>4, Zenon DEF First

LEMMA CountingFactsHold == CountingFacts
<1>1. \A S \in SUBSET Nat : S # {} => First(S) \in S /\ \A j \in S : First(S) <= j
  BY FirstIsFirst
<1>2. ASSUME NEW n \in Nat, NEW S \in SUBSET (1..n), NEW T \in SUBSET S
      PROVE  Cardinality(T) \in Nat /\ Cardinality(S) \in Nat /\ Cardinality(T) <= Cardinality(S)
  <2>1. IsFiniteSet(1..n)
    BY FS_Interval
  <2>2. IsFiniteSet(S) /\ IsFiniteSet(T)
    BY <2>1, FS_Subset, Zenon
  <2> QED BY <2>2, FS_CardinalityType, FS_Subset
<1> QED BY <1>1, <1>2, Zenon DEF CountingFacts

\* Whatever crashes, fails or is taken over, a saved position never passes an
\* entry of the peer that no task of the site went through (run_peer_replicator,
\* update_replication_position_scoped), for any batch size and number of tasks.
THEOREM PositionsCover == Spec => []PositionCovers
<1>1. Init => Places
  BY InitPlaces
<1>2. Places /\ [Next]_vars => Places'
  BY CountingFactsHold, NextPlaces
<1>3. Places => PositionCovers
  BY PlacesCover
<1> QED BY <1>1, <1>2, <1>3, PTL DEF Spec

\* No operation comes back to its site or is claimed by two: mirrored entries
\* keep the name of their origin (append_cdc_entry) and are not pulled from
\* the sites that mirror them (collect_cdc_entries).
THEOREM OperationsHaveOneOrigin == Spec => []OneOrigin
<1>1. Init => Places /\ AllWorking /\ Origins
  BY InitPlaces, InitWorking, InitOrigins
<1>2. Places /\ AllWorking /\ Origins /\ [Next]_vars => (Places /\ AllWorking /\ Origins)'
  BY CountingFactsHold, NextPlaces, NextWorking, NextOrigins
<1>3. Places /\ AllWorking /\ Origins => OneOrigin
  BY DEF Origins
<1> QED BY <1>1, <1>2, <1>3, PTL DEF Spec
=============================================================================
