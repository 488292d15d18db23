------------------------------- MODULE MCJobs -------------------------------
(***************************************************************************)
(* Instances of Jobs for model checking: two processes, three records of   *)
(* the type, one node of another type, and one scenario per question.      *)
(***************************************************************************)
EXTENDS Jobs, TLC

CONSTANTS s1, s2, t1, t2, a, b, Person, City

ServerOfTask == t1 :> s1 @@ t2 :> s2
MCTemplates == {{"p", "q"}}

Declared(kind, required, default) ==
    [index |-> kind, required |-> required, type |-> {a, b}, default |-> default]
Plain == [props |-> [p |-> Declared("equality", TRUE, {}), q |-> Declared("none", FALSE, {b})],
          extras |-> FALSE, ok |-> TRUE]
More2 == [Plain EXCEPT !.props.q.index = "equality"]
Unique == [Plain EXCEPT !.props.p.index = "unique"]
Broken == [Plain EXCEPT !.ok = FALSE]
MCDefs == {Plain, More2, Unique}

Node(n) == [type |-> Person, id |-> n]
Other == [type |-> City, id |-> 1]
Edge(x, y) == [src |-> x, tgt |-> y]
MCEdges == {Edge(Node(1), Node(2)), Edge(Node(1), Other), Edge(Other, Node(2))}
MCKeyOrder == <<Edge(Other, Node(1)), Edge(Other, Node(2)), Edge(Node(1), Other),
                Edge(Node(1), Node(2)), Edge(Node(2), Other), Edge(Node(2), Node(1))>>

PQ(x, y) == [p |-> x, q |-> y]
OnlyP(x) == [p |-> x]
Recs(x, y) == <<x, y, Unborn>>
Update(n, x) == [op |-> "update", id |-> n, props |-> x]
Create(x) == [op |-> "create", props |-> x]
Remove(n, async) == [op |-> "delete", id |-> n, async |-> async]
Register(d, site, v) == [op |-> "register", def |-> d, site |-> site, version |-> v]

Scenario(defs, records, first, second) ==
    [defs |-> defs, records |-> records, requests |-> t1 :> first @@ t2 :> second,
     jobs |-> <<>>, warm |-> {s1, s2}, edges |-> {}, log |-> {}, aged |-> 0,
     checkpoint |-> [c \in Consumers |-> 0]]

Writers == [Scenario(<<Plain>>, Recs(PQ(a, a), Unborn),
                     <<Update(1, OnlyP(b)), Create(OnlyP(a))>>,
                     <<Update(1, PQ(a, Null)), Remove(1, FALSE)>>) EXCEPT !.warm = {}]
UniqueWriters == Scenario(<<Unique>>, Recs(OnlyP(a), Unborn),
                          <<Create(OnlyP(b)), Update(1, OnlyP(Null))>>,
                          <<Create(OnlyP(a)), Update(1, OnlyP(b))>>)
Indexing == Scenario(<<Plain>>, Recs(PQ(a, a), PQ(b, b)),
                     <<Register(More2, Here, 0)>>, <<Update(1, [q |-> b])>>)
Unindexing == [Scenario(<<More2>>, Recs(PQ(a, a), PQ(b, b)),
                       <<[op |-> "dropIndex", prop |-> "q"]>>, <<>>) EXCEPT
                  !.jobs = <<NewJob("backfill", "q")>>]
Stripping == Scenario(<<Plain>>, Recs(PQ(a, a), PQ(b, b)),
                      <<[op |-> "strip", prop |-> "q"]>>, <<Update(1, OnlyP(b))>>)
Across == {Edge(Node(1), Other), Edge(Other, Node(2))}
Small == [Scenario(<<Plain>>, Recs(OnlyP(a), Unborn),
                   <<[op |-> "dropType", async |-> FALSE]>>, <<Update(1, OnlyP(b))>>) EXCEPT
             !.edges = Across]
Large(async) == [Scenario(<<Plain>>, Recs(PQ(a, a), Unborn),
                          <<[op |-> "dropType", async |-> async]>>, <<>>) EXCEPT
                    !.edges = Across]
Cascade(async) == [Scenario(<<Plain>>, Recs(PQ(a, a), PQ(b, b)),
                            <<Remove(1, async)>>, <<Update(1, OnlyP(b))>>) EXCEPT
                      !.edges = MCEdges]
Orphans == [Scenario(<<Plain>>, Recs(Unborn, Unborn), <<>>, <<>>) EXCEPT
               !.edges = MCEdges, !.jobs = <<NewJob("orphans", Person)>>]
Retention(read, size, old) ==
    [Scenario(<<Plain>>, Recs(Unborn, Unborn), <<>>, <<>>) EXCEPT
        !.log = 1..size, !.aged = old, !.jobs = <<NewJob("retention", Person)>>,
        !.checkpoint = [c \in Consumers |-> IF c = "cache" THEN read ELSE -1]]
Ageing == Retention(0, 1, 0)
Latecomer == Retention(3, 3, 3)
Backlog == [Scenario(<<Plain>>, Recs(PQ(a, a), Unborn), <<[op |-> "strip", prop |-> "q"]>>, <<>>)
               EXCEPT !.jobs = <<[NewJob("orphans", Person) EXCEPT !.status = "completed"],
                                 NewJob("orphans", Person)>>]
Owners == [Scenario(<<>>, Recs(Unborn, Unborn),
                    <<[op |-> "setOwner", site |-> "east"], Register(Plain, "east", 1),
                      [op |-> "transferOwner", expected |-> "east", site |-> Here],
                      Register(Broken, Here, 0)>>,
                    <<Register(More2, Here, 0)>>) EXCEPT !.warm = {}]
Namespace == Scenario(<<Plain>>, Recs(PQ(a, a), PQ(b, b)),
                      <<[op |-> "strip", prop |-> "q"], [op |-> "dropNamespace"]>>, <<>>)

MCScenarios == {Writers, UniqueWriters, Indexing, Unindexing, Stripping, Small, Large(TRUE),
                Large(FALSE), Cascade(TRUE), Cascade(FALSE), Orphans, Ageing, Latecomer,
                Backlog, Owners, Namespace}
=============================================================================
