------------------------------- MODULE MCWatch -------------------------------
EXTENDS Watch, TLC

CONSTANTS c1, c2, hit, miss

MCTypeOf == [n \in Nodes |-> IF n = 1 THEN "a" ELSE "b"]
MCTypes == <<"a", "b">>
MCPrincipal == (c1 :> "p") @@ (c2 :> NoPrincipal)

QueryA == [kind |-> "query", type |-> "a", match |-> {hit}]
QueryAny == [kind |-> "query", type |-> "*", match |-> {hit}]
Namespace == [kind |-> "namespace"]
PointSome == [kind |-> "point", nodes |-> (1 :> {"watched"}) @@ (2 :> {}), edges |-> {}]
PointEdges ==
    [kind |-> "point", nodes |-> <<>>,
     edges |-> {[node |-> 1, dir |-> "incoming", other |-> 2],
                [node |-> 2, dir |-> "both", other |-> 0],
                [node |-> 1, dir |-> "outgoing", other |-> 1]}]

Created(n, v) == [op |-> "create", node |-> n, value |-> v]

\* One client and one subscription, with every kind of operation.
Following ==
    {[filters |-> (c1 :> QueryA), log |-> <<>>, may |-> {"create", "update", "delete"}],
     [filters |-> (c1 :> QueryAny), log |-> <<>>, may |-> {"create", "delete"}]}

\* Operations that leave all nodes where they are.
Touching ==
    {[filters |-> (c1 :> f), log |-> <<Created(1, hit), Created(2, hit)>>,
      may |-> {"update", "transfer", "edges"}] :
        f \in {QueryA, PointSome, PointEdges}}

\* A snapshot, and the replay of what it shows.
Snapshots ==
    {[filters |-> (c1 :> QueryA), log |-> <<Created(1, hit), Created(2, hit)>>,
      may |-> {"update", "delete", "snapshot", "retention"}]}
    \cup
    {[filters |-> (c1 :> f), log |-> <<Created(1, hit), Created(2, hit)>>,
      may |-> {"delete", "snapshot", "retention"}] : f \in {Namespace, QueryAny}}

\* A client that comes back.
Resuming ==
    {[filters |-> (c2 :> f), log |-> <<Created(1, hit), Created(2, hit)>>,
      may |-> {"delete", "leave", "resume", "beats", "sweep"}] :
        f \in {QueryA, Namespace}}

\* All the ways in which a subscription ends, and two clients at the registry's limits.
Ending ==
    {[filters |-> (c1 :> PointSome), log |-> <<Created(1, hit), Created(2, hit)>>,
      may |-> {"snapshot", "leave", "errors", "expiry"}]}
Limits ==
    {[filters |-> (c1 :> QueryA) @@ (c2 :> QueryA), log |-> <<Created(1, hit)>>,
      may |-> {"leave", "cancel", "expiry"}]}

MCScenarios == Following \cup Touching \cup Snapshots \cup Resuming \cup Ending \cup Limits
==============================================================================
