------------------------------ MODULE PqlBlocks ------------------------------
(***************************************************************************)
(* A PQL query from its syntax tree to the blocks that ExecutePQL runs, in *)
(* the order it runs them (pql/parser.rs, resolver.rs, compiler.rs), and   *)
(* what variable blocks compute from captured rows (query_service.rs).     *)
(*                                                                         *)
(* A block has idents, the identifiers in front of its root function;      *)
(* root, which is [func |-> "type"], [func |-> "uid", node |-> n],         *)
(* [func |-> "uid", idents |-> <<a, ...>>] or a filter function; dirs, a   *)
(* function from directive names to their arguments; fields, the selected  *)
(* properties; and hops, the selected edges.  A row is [id, props].        *)
(***************************************************************************)
EXTENDS QueryPlans

CONSTANTS
    Labels,           \* the edge types of the schema
    AllowUndeclared   \* allow_undeclared_edges of the schema

-----------------------------------------------------------------------------
(* Parser.                                                                 *)

\* parse_query_block: `capture as name` or `name`
CaptureOf(b) == IF Len(b.idents) = 2 THEN b.idents[1] ELSE ""

IsVarRoot(root) == root.func = "uid" /\ "idents" \in DOMAIN root
IsNodeRoot(root) == root.func = "uid" /\ "node" \in DOMAIN root

\* parse_root_function: a third or later identifier may name the operation
NamesOperation(root) ==
    Len(root.idents) >= 3 /\ Last(root.idents) \in {"intersect", "difference"}
SetOpOf(root) == IF NamesOperation(root) THEN Last(root.idents) ELSE "union"
VarsOf(root) ==
    IF ~IsVarRoot(root) THEN <<>>
    ELSE IF NamesOperation(root) THEN Front(root.idents) ELSE root.idents

-----------------------------------------------------------------------------
(* Resolver.                                                               *)

Capturing(blocks, var) == {i \in DOMAIN blocks : CaptureOf(blocks[i]) = var}

\* resolve, resolve_root_function, validate_selections
Resolvable(blocks) ==
    \A i \in DOMAIN blocks :
        LET b == blocks[i]
        IN  /\ b.root.func \in {"type", "uid"}
            /\ \A v \in ToSet(VarsOf(b.root)) : \E j \in Capturing(blocks, v) : j < i
            /\ b.fields \subseteq Props
            /\ AllowUndeclared \/ \A h \in ToSet(b.hops) : h.label \in Labels

\* The variable table keeps the last block that captures a name.
DependsOn(blocks, i) ==
    {CHOOSE j \in Capturing(blocks, v) : \A k \in Capturing(blocks, v) : k <= j :
        v \in ToSet(VarsOf(blocks[i].root))}

\* topological_sort: blocks without dependencies go on a stack; a block that
\* is taken from it releases the blocks that waited for it alone.
Execution(blocks) ==
    LET ready == SortBy({i \in DOMAIN blocks : DependsOn(blocks, i) = {}}, NumberLess)
        run[k \in 0..Len(blocks)] ==
            IF k = 0 THEN [stack |-> ready, order |-> <<>>]
            ELSE IF run[k - 1].stack = <<>> THEN run[k - 1]
            ELSE LET node == Last(run[k - 1].stack)
                     order == Append(run[k - 1].order, node)
                     free == {i \in DOMAIN blocks : /\ node \in DependsOn(blocks, i)
                                                    /\ DependsOn(blocks, i) \subseteq ToSet(order)}
                 IN  [stack |-> Front(run[k - 1].stack) \o SortBy(free, NumberLess), order |-> order]
    IN  run[Len(blocks)].order

\* CircularDependency
Orderable(blocks) == Len(Execution(blocks)) = Len(blocks)

-----------------------------------------------------------------------------
(* Compiler.                                                               *)

\* compile_block
KindOf(b) ==
    CASE IsNodeRoot(b.root) /\ b.hops # <<>> -> "traverse"
      [] IsNodeRoot(b.root) /\ b.hops = <<>> -> "lookup"
      [] b.root.func = "type" -> "find"
      [] OTHER -> "variables"

\* validate_block_directives
Compilable(blocks) ==
    \A b \in ToSet(blocks) :
        DOMAIN b.dirs \subseteq CASE KindOf(b) = "traverse" -> {"limit", "cascade", "recurse"}
                                  [] KindOf(b) = "lookup" -> {}
                                  [] OTHER -> {"filter", "limit"}

\* extract_filter_cel, extract_limit, extract_offset, extract_recurse_depth
FilterOf(b) == IF "filter" \in DOMAIN b.dirs THEN b.dirs.filter ELSE <<>>
HasLimit(b) == "limit" \in DOMAIN b.dirs
LimitOf(b, default) == IF HasLimit(b) THEN b.dirs.limit.first ELSE default
OffsetOf(b) == IF HasLimit(b) THEN b.dirs.limit.offset ELSE 0
DepthOf(b) == IF "recurse" \in DOMAIN b.dirs THEN b.dirs.recurse ELSE 1

-----------------------------------------------------------------------------
(* Variables.  Captured rows are sequences; a node's identity is its id.   *)

IdsOf(rows) == {rows[i].id : i \in DOMAIN rows}
Value(captured, var) == IF var \in DOMAIN captured THEN captured[var] ELSE <<>>

\* The first of the rows with each identity, in order.
Distinct(rows) ==
    LET first == {i \in DOMAIN rows : \A j \in 1..(i - 1) : rows[j].id # rows[i].id}
        order == SortBy(first, NumberLess)
    IN  [k \in DOMAIN order |-> rows[order[k]]]

\* Mutant: subtraction removes the rows of the last variable only.
MergeSetsTwo(captured, vars, op) ==
    LET first == Value(captured, vars[1])
        ids == IdsOf(Value(captured, Last(vars)))
        In(r) == r.id \in ids
        NotIn(r) == r.id \notin ids
    IN  CASE op = "union" ->
               Distinct(FlattenSeq([i \in DOMAIN vars |-> Value(captured, vars[i])]))
          [] op = "intersect" -> SelectSeq(first, In)
          [] op = "difference" -> SelectSeq(first, NotIn)

\* merge_variable_sets; one variable alone is taken as it is
MergeSets(captured, vars, op) ==
    LET first == Value(captured, vars[1])
        others == {IdsOf(Value(captured, vars[i])) : i \in 2..Len(vars)}
        InAll(r) == \A S \in others : r.id \in S
        InNone(r) == \A S \in others : r.id \notin S
    IN  CASE op = "union" ->
               Distinct(FlattenSeq([i \in DOMAIN vars |-> Value(captured, vars[i])]))
          [] op = "intersect" -> SelectSeq(first, InAll)
          [] op = "difference" -> SelectSeq(first, InNone)

\* project_node
Project(rows, fields) ==
    IF fields = {} THEN rows
    ELSE [i \in DOMAIN rows |->
            [rows[i] EXCEPT !.props = [p \in Props |-> IF p \in fields THEN @[p] ELSE Absent]]]

\* apply_variable_nodes_pipeline up to skip and take
FromVariables(captured, b) ==
    LET vars == VarsOf(b.root)
        merged == IF Len(b.root.idents) = 1 THEN Value(captured, vars[1])
                  ELSE MergeSets(captured, vars, SetOpOf(b.root))
        Keep(r) == \E g \in {ToSet(FilterOf(b)[i]) : i \in DOMAIN FilterOf(b)} : PassesBare(g, r.props)
    IN  Project(IF FilterOf(b) = <<>> THEN merged ELSE SelectSeq(merged, Keep), b.fields)
=============================================================================
