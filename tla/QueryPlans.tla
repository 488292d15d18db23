----------------------------- MODULE QueryPlans -----------------------------
(***************************************************************************)
(* What a query computes: the filter language as far as planner and term   *)
(* path read it (predicate.rs, cel.rs), the choice of an index and of the  *)
(* residual filter (planner.rs, plan.rs), the key ranges of the scans and  *)
(* the pages made of them (executor.rs, index.rs).  All definitions are    *)
(* functions of one snapshot of the store; module Queries reads snapshots, *)
(* page by page, while the store changes.                                  *)
(*                                                                         *)
(* Values are numbers, in the order of their encodings; 0 is an absent     *)
(* property.  Index entries, postings and counters are the ones the stored *)
(* nodes call for (IndexCovers and TermsExact of Records).                 *)
(***************************************************************************)
EXTENDS Integers, Sequences, FiniteSets, SequencesExt

CONSTANTS
    Props,          \* the properties of the entity type
    IndexOf,        \* Props -> {"none", "unique", "equality", "range"}
    Templates,      \* sets of properties with a synthetic posting field
    Accepts,        \* external: Accepts[w], the values a string call with literal w accepts
    NullDiffers,    \* external: CEL's `null != literal`
    MaxLimit,       \* max_limit, 10000 in the code
    PostingCap,     \* hard_cap of execute_term_groups, 20 * max_limit in the code
    PostingBase     \* what is read of a posting list at least, 1024 or more in the code

ASSUME LimitAssumption == PostingCap > MaxLimit /\ PostingBase > 0

Absent == 0
Least(S) == CHOOSE x \in S : \A y \in S : x <= y
Greatest(S) == CHOOSE x \in S : \A y \in S : y <= x
FirstFew(s, k) == SubSeq(s, 1, Least({k, Len(s)}))
FromOffset(s, k) == SubSeq(s, k + 1, Len(s))
SortBy(S, Before(_, _)) ==
    [i \in 1..Cardinality(S) |-> CHOOSE x \in S : Cardinality({y \in S : Before(y, x)}) = i - 1]
NumberLess(m, n) == m < n

\* The order of keys in the database; a key is a pair.
KeyLess(k, l) == k[1] < l[1] \/ (k[1] = l[1] /\ k[2] < l[2])

-----------------------------------------------------------------------------
(* Filters.  An expression is a sequence of groups joined by ||, a group a *)
(* sequence of terms joined by &&; <<>> is the empty expression.           *)

Comparisons == {"==", "!=", ">=", "<=", ">", "<"}
Orderings == {">=", "<=", ">", "<"}

\* parse_comparison; any other term is a call such as contains().
IsComparison(t) == t.op \in Comparisons

Compare(v, op, w) ==
    CASE op = "==" -> v = w
      [] op = "!=" -> v # w
      [] op = "<"  -> v < w
      [] op = "<=" -> v <= w
      [] op = ">"  -> v > w
      [] op = ">=" -> v >= w
      [] op = "contains" -> v \in Accepts[w]

\* CelExpression::evaluate of one term: properties the node lacks are null.
Holds(t, props) ==
    IF props[t.prop] = Absent THEN t.op = "!=" /\ NullDiffers
                              ELSE Compare(props[t.prop], t.op, t.val)
Passes(terms, props) == \A t \in terms : Holds(t, props)

\* evaluate_node_filter, matches_node_filter: an absent property is an error,
\* and an error is no match.
PassesBare(terms, props) ==
    \A t \in terms : props[t.prop] # Absent /\ Compare(props[t.prop], t.op, t.val)

\* What the expression means.
Satisfies(expr, props) ==
    expr = <<>> \/ \E i \in DOMAIN expr : Passes(ToSet(expr[i]), props)

-----------------------------------------------------------------------------
(* Planner.                                                                *)

\* extract_predicates: positions of the comparisons of a lone group.
Extracted(expr) ==
    IF Len(expr) # 1 THEN {} ELSE {i \in DOMAIN expr[1] : IsComparison(expr[1][i])}

\* IndexType::selectivity and QueryPlan::selectivity, in hundredths
Selectivity(t) ==
    LET base == CASE IndexOf[t.prop] = "unique" -> 1
                  [] IndexOf[t.prop] = "equality" -> 10
                  [] IndexOf[t.prop] = "range" -> 50
    IN  IF t.op = "==" THEN base ELSE 2 * base

Indexable(t) ==
    \/ t.op = "==" /\ IndexOf[t.prop] # "none"
    \/ t.op \in Orderings /\ IndexOf[t.prop] = "range"

\* select_best_index: the first of the most selective predicates, 0 for none
BestIndex(expr) ==
    LET usable == {i \in Extracted(expr) : Indexable(expr[1][i])}
        cost(i) == Selectivity(expr[1][i])
        best == {i \in usable : \A j \in usable : cost(i) <= cost(j)}
    IN  IF best = {} THEN 0 ELSE Least(best)

\* build_residual: no filter without a comparison, none beside a lone indexed
\* comparison, otherwise every conjunct but the indexed one.
Residual(expr) ==
    LET used == BestIndex(expr)
    IN  IF Extracted(expr) = {} \/ (used # 0 /\ Cardinality(Extracted(expr)) = 1)
        THEN {}
        ELSE {expr[1][i] : i \in DOMAIN expr[1] \ {used}}

\* QueryPlanner::plan; 0 is a full scan
Plan(expr) == [used |-> BestIndex(expr), residual |-> Residual(expr)]

-----------------------------------------------------------------------------
(* Scans.  A snapshot has nodes, a function from identifiers to properties. *)

\* build_index_entry: a unique entry has the identifier as its value, the
\* others as the end of their key.
IndexKeys(nodes, p) ==
    {[key |-> <<nodes[n][p], IF IndexOf[p] = "unique" THEN 0 ELSE n>>, id |-> n] :
        n \in {m \in DOMAIN nodes : nodes[m][p] # Absent}}
DataKeys(nodes) == {[key |-> <<0, n>>, id |-> n] : n \in DOMAIN nodes}

\* The ranges of execute_index_scan: Equals, and Range with one bound.
InRange(t, key) == Compare(key[1], t.op, t.val)

FetchLimit(limit) == Least({limit, MaxLimit}) + 1
ScanLimit(limit) == Least({4 * FetchLimit(limit), MaxLimit})

\* execute_index_scan, execute_full_scan: one range read, behind the cursor
\* when there is one.
ScanKeys(nodes, expr, cursor, limit) ==
    LET used == Plan(expr).used
        keys == IF used = 0 THEN DataKeys(nodes)
                ELSE {e \in IndexKeys(nodes, expr[1][used].prop) : InRange(expr[1][used], e.key)}
        rest == {e \in keys : cursor = <<>> \/ KeyLess(cursor, e.key)}
        Before(e, f) == KeyLess(e.key, f.key)
    IN  FirstFew(SortBy(rest, Before), ScanLimit(limit))

\* execute_with_options after the scan: rows are the candidates still stored.
\* The cursor is the key of the last row taken, which is the extra one.
ScanPage(rows, plan, limit) ==
    LET Keep(r) == Passes(plan.residual, r.props)
        taken == FirstFew(SelectSeq(rows, Keep), FetchLimit(limit))
        more == Len(taken) = FetchLimit(limit)
    IN  [rows |-> FirstFew(taken, FetchLimit(limit) - 1),
         next |-> IF more THEN Last(taken).key ELSE <<>>]

-----------------------------------------------------------------------------
(* The term path.                                                          *)

\* parse_term_expression
UsesTerms(expr) == expr # <<>> /\ \A i \in DOMAIN expr : \A t \in ToSet(expr[i]) : t.op = "=="

Fields(group) == {t.prop : t \in ToSet(group)}

\* rewrite_template_term_group: the largest template the group determines
\* replaces its fields by one posting list, unless terms contradict.
Lookups(group) ==
    LET plain == {[prop |-> {t.prop}, val |-> {<<t.prop, t.val>>}] : t \in ToSet(group)}
        clear == \A t, u \in ToSet(group) : t.prop = u.prop => t.val = u.val
        found == {T \in Templates : T \subseteq Fields(group)}
        T == CHOOSE U \in found : \A V \in found : Cardinality(V) <= Cardinality(U)
    IN  IF ~clear \/ found = {} THEN plain
        ELSE {[prop |-> T, val |-> {<<t.prop, t.val>> : t \in {u \in ToSet(group) : u.prop \in T}}]}
             \cup {l \in plain : l.prop \cap T = {}}

\* The identifiers in a posting list, and estimate_posting_fetch_limit.
Posted(nodes, lookup) ==
    {n \in DOMAIN nodes : \A x \in lookup.val : nodes[n][x[1]] = x[2]}
PostingLimit(count) == Least({Greatest({count, PostingBase}), PostingCap})

\* Mutant: the cursor's own posting is read again.
PostingsFromCursor(nodes, lookup, after, count) ==
    ToSet(FirstFew(SortBy({n \in Posted(nodes, lookup) : n >= after}, NumberLess),
                   PostingLimit(count)))

\* list_posting_node_ids_after: the first identifiers behind the cursor
Postings(nodes, lookup, after, count) ==
    ToSet(FirstFew(SortBy({n \in Posted(nodes, lookup) : n > after}, NumberLess),
                   PostingLimit(count)))

\* execute_term_expression: the identifiers to fetch
TermIds(ids, limit) == FirstFew(SortBy(ids, NumberLess), FetchLimit(limit))

\* Mutant: the cursor is the extra row, as in the scans.
TermPageAfterExtra(rows, limit) ==
    [rows |-> FirstFew(rows, FetchLimit(limit) - 1),
     next |-> IF Len(rows) = FetchLimit(limit) THEN <<rows[FetchLimit(limit)].id>> ELSE <<>>]

\* The page of the rows found; the cursor is its last node.
TermPage(rows, limit) ==
    [rows |-> FirstFew(rows, FetchLimit(limit) - 1),
     next |-> IF Len(rows) = FetchLimit(limit) THEN <<rows[FetchLimit(limit) - 1].id>> ELSE <<>>]
=============================================================================
