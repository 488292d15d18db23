------------------------------ MODULE MCQueries ------------------------------
(***************************************************************************)
(* Small instances of Queries: four nodes with a unique, a range, an       *)
(* equality and an unindexed property, and a graph on them with a cycle, a *)
(* diamond and a filtered edge.                                            *)
(***************************************************************************)
EXTENDS Queries

MCProps == {"u", "r", "e", "x"}
MCIndexOf == [u |-> "unique", r |-> "range", e |-> "equality", x |-> "none"]
MCTemplates == {{"r", "e"}, {"r", "e", "x"}}

MCAccepts == <<{1, 2}, {2}>>

Node(u, r, e, x) == [u |-> u, r |-> r, e |-> e, x |-> x]
Stored == <<Node(1, 1, 1, 1), Node(2, 2, 1, 2), Node(3, 1, 1, 2), Node(4, 1, 2, Absent)>>

\* One node more than PostingCap: the posting lists are cut.
Crowd == [n \in 1..7 |-> Node(n, 1, 1, IF n = 1 THEN 1 ELSE 2)]

Is(prop, op, val) == [prop |-> prop, op |-> op, val |-> val]

TermExpressions ==
    {<<<<Is("r", "==", 1)>>>>, <<<<Is("e", "==", 1), Is("r", "==", 1)>>>>,
     <<<<Is("r", "==", 2)>>, <<Is("e", "==", 1), Is("x", "==", 2)>>>>}
ScanExpressions ==
    {<<>>, <<<<Is("r", ">", 1)>>>>, <<<<Is("u", "<=", 3), Is("x", "!=", 1)>>>>,
     <<<<Is("r", "==", 1), Is("x", "!=", 1)>>>>,
     <<<<Is("x", "contains", 2), Is("r", "<", 2), Is("e", "==", 1)>>>>,
     <<<<Is("e", ">=", 1), Is("r", ">=", 1)>>>>,
     <<<<Is("e", "==", 1), Is("x", "contains", 2)>>>>}

FindQuery(expr, limit, paging, strict, fields) ==
    [kind |-> "find", expr |-> expr, limit |-> limit, paging |-> paging, strict |-> strict,
     fields |-> fields]
Finding(asked, environment) ==
    [nodes |-> Stored, edges |-> {}, query |-> asked, may |-> environment,
     data |-> {[id |-> n, props |-> props] :
                  n \in 1..4, props \in {Node(3, 2, 2, 2), Node(1, 1, 1, 2)}}]

FindScenarios ==
    {Finding(FindQuery(expr, limit, paging, strict, fields), environment) :
        expr \in TermExpressions \cup ScanExpressions, limit \in {1, 3},
        paging \in {"keyset", "offset"}, strict \in BOOLEAN, fields \in {{}, {"r"}},
        environment \in {{}, {"write", "delete"}, {"delete", "fail"}, {"degrade"}}}

\* Lists and unions over the cap, at it and below it.
CrowdExpressions ==
    {<<<<Is("e", "==", 1)>>>>, <<<<Is("e", "==", 1), Is("x", "==", 2)>>>>,
     <<<<Is("x", "==", 2)>>, <<Is("u", "==", 1)>>>>,
     <<<<Is("u", "==", 7)>>, <<Is("u", "==", 2)>>>>, <<<<Is("r", "<", 2)>>>>}
CrowdScenarios ==
    {[Finding(FindQuery(expr, limit, paging, TRUE, {}), environment) EXCEPT !.nodes = Crowd] :
        expr \in CrowdExpressions, limit \in {2, 5}, paging \in {"keyset", "offset"},
        environment \in {{}, {"delete"}}}

Out(label) == [dir |-> "outgoing", label |-> label, accepts |-> {0, 1}, filter |-> <<>>]
In(label) == [Out(label) EXCEPT !.dir = "incoming"]
Both(label) == [Out(label) EXCEPT !.dir = "both"]
Strong(hop) == [hop EXCEPT !.accepts = {1}]
To(hop, term) == [hop EXCEPT !.filter = <<term>>]

\* 1 -> 2, 1 -> 3, 2 -> 4, 3 -> 4, 4 -> 1 and, weakly, 2 -> 3; and one edge more than
\* EdgeCap out of 1, to 4
Graph == {<<1, 1, 2, 1>>, <<1, 1, 3, 1>>, <<2, 1, 4, 1>>, <<3, 2, 4, 1>>, <<4, 1, 1, 1>>,
          <<2, 1, 3, 0>>}
Fan == Graph \cup {<<1, 2, 4, 1>>}

Walks ==
    {<<Out(0)>>, <<Out(1), Strong(Out(0))>>, <<Both(0), Out(0)>>, <<Both(1), In(0)>>,
     <<To(Both(0), Is("x", "!=", 1)), To(Out(0), Is("r", "==", 1))>>}

TraverseScenarios ==
    {[nodes |-> Stored, edges |-> graph, may |-> environment, data |-> {},
      query |-> [kind |-> "traverse", start |-> 1, hops |-> hops, depth |-> depth, max |-> max,
                 strict |-> strict]] :
        graph \in {Graph, Fan}, hops \in Walks, depth \in {1, 2}, max \in {1, 2}, strict \in BOOLEAN,
        environment \in {{}, {"fail"}, {"delete"}, {"unlink"}}}

NoDirectives == [n \in {} |-> 0]
BlockOf(idents, root) ==
    [idents |-> idents, root |-> root, dirs |-> NoDirectives, fields |-> {}, hops |-> <<>>]
OfType(idents, filter) ==
    [BlockOf(idents, [func |-> "type"]) EXCEPT !.dirs = [filter |-> filter]]
OfNode(idents, n) == BlockOf(idents, [func |-> "uid", node |-> n])
Walk(idents, n, hops, depth) ==
    [OfNode(idents, n) EXCEPT !.hops = hops, !.dirs = [recurse |-> depth]]
OfVars(idents, names) == BlockOf(idents, [func |-> "uid", idents |-> names])

Programs ==
    {<<OfType(<<"a", "first">>, <<<<Is("r", "==", 1)>>>>), Walk(<<"b", "second">>, 1, <<Out(0)>>, 1),
       OfNode(<<"c", "third">>, 4), OfVars(<<"fourth">>, <<"a", "b", "c", "difference">>)>>,
     <<OfType(<<"a", "first">>, <<<<Is("e", "==", 1)>>>>),
       [OfVars(<<"b", "second">>, <<"a">>) EXCEPT !.dirs = [filter |-> <<<<Is("x", "==", 2)>>>>]],
       [OfVars(<<"third">>, <<"b", "a", "intersect">>) EXCEPT !.fields = {"u"},
                                            !.dirs = [limit |-> [first |-> 1, offset |-> 0]]],
       [OfType(<<"fourth">>, <<>>) EXCEPT !.dirs = [limit |-> [first |-> 2, offset |-> 1]]]>>,
     <<Walk(<<"a", "first">>, 1, <<Both(1), Out(0)>>, 2), OfNode(<<"b", "second">>, 2),
       OfVars(<<"third">>, <<"b", "a">>)>>,
     <<OfType(<<"a", "first">>, <<>>), OfType(<<"b", "second">>, <<<<Is("r", ">=", 1)>>>>),
       OfVars(<<"third">>, <<"b", "a", "difference">>), OfType(<<"fourth">>, <<<<Is("r", ">", 1)>>>>)>>,
     <<OfVars(<<"first">>, <<"b">>), OfNode(<<"b", "second">>, 2)>>,
     <<[OfNode(<<"first">>, 1) EXCEPT !.dirs = [filter |-> <<>>]]>>}

PqlScenarios ==
    {[nodes |-> Stored, edges |-> Graph, may |-> environment,
      data |-> {[id |-> n, props |-> Node(3, 2, 2, 2)] : n \in 1..4},
      query |-> [kind |-> "pql", blocks |-> program, strict |-> strict]] :
        program \in Programs, strict \in BOOLEAN,
        environment \in {{}, {"write", "delete"}, {"fail", "unlink"}, {"degrade"}}}

MCScenarios == FindScenarios \cup CrowdScenarios \cup TraverseScenarios \cup PqlScenarios

\* A full scan and an index scan, two pages each.
PagingScenarios ==
    {Finding(FindQuery(<<>>, 1, "keyset", TRUE, {}), {}),
     Finding(FindQuery(<<<<Is("e", ">=", 1), Is("r", ">=", 1)>>>>, 2, "keyset", TRUE, {}), {})}
=============================================================================
