---------------------------- MODULE CypherQuery ----------------------------
(***************************************************************************)
(* Execution of a planned statement: the pull-based operators of           *)
(* cypher/physical.rs over the graph, and the statement loop of            *)
(* execute_plan and execute_cypher (server/storage.rs).                    *)
(*                                                                         *)
(* The graph is what the operators can see of the storage engine: nodes    *)
(* and relationships in order of creation, dead ones included, and the     *)
(* catalog of labels and relationship types, whose ids start at 1.  Every  *)
(* create, rewrite and delete is a committed operation of its own          *)
(* (GraphStore models them); there is no transaction around a statement.   *)
(* An operator is its plan record with three fields of state: buf (a       *)
(* cursor, a buffer or the pending rows), ready (buf was filled) and n (a  *)
(* counter).  Pulling a row is the recursive operator Pull, which returns  *)
(* the operator and the graph after it.                                    *)
(***************************************************************************)
EXTENDS CypherPlan

LOCAL INSTANCE SequencesExt

CONSTANTS CqScripts,   \* the statements that are executed, in order
          CqGraphs     \* the graphs they start from

VARIABLES cqgraph,     \* the graph
          cqleft,      \* statements still to run; the first is the current one
          cqop,        \* the operator tree of the current statement
          cqrows,      \* the rows it has produced
          cqpc,        \* "idle", "running", "done" or "failed"
          cqbefore     \* the graph when the current statement began

cqvars == <<cqgraph, cqleft, cqop, cqrows, cqpc, cqbefore>>

----------------------------------------------------------------------------
\* The graph as the operators see it

IndexIn(s, x) == IF x \in ToSet(s) THEN CHOOSE i \in DOMAIN s : s[i] = x ELSE 0

Registered(s, x) == IF x = "" \/ x \in ToSet(s) THEN s ELSE Append(s, x)

\* storage_label_id_for(label).unwrap_or(0): an unknown label is the id of no label
label_id(g, label) == IndexIn(g.labels, label)

Name(s, id) == IF id \in DOMAIN s THEN s[id] ELSE ""

NodeValue(g, id) ==
    [t |-> "node", n |-> id, props |-> g.nodes[id].props,
     labels |-> {Name(g.labels, g.nodes[id].label)} \ {""}]

\* None if the node is gone
load_node_value(g, id) ==
    IF id \in DOMAIN g.nodes /\ g.nodes[id].live THEN <<NodeValue(g, id)>> ELSE <<>>

edge_record_to_value(g, id) ==
    [t |-> "rel", n |-> id, type |-> Name(g.types, g.edges[id].type), props |-> g.edges[id].props,
     from |-> g.edges[id].from, to |-> g.edges[id].to]

\* An empty set of types selects every edge; the newest is first on the list.
AlongEdges(g, near, far, id, types) ==
    LET hits == SelectSeq(Reverse([i \in DOMAIN g.edges |-> i]),
                    LAMBDA e : /\ g.edges[e].live /\ g.edges[e][near] = id
                               /\ types = {} \/ g.edges[e].type \in types)
    IN  [i \in DOMAIN hits |-> [edge |-> hits[i], end |-> g.edges[hits[i]][far]]]

scan_edges(g, dir, id, types) ==
    CASE dir = "out" -> AlongEdges(g, "from", "to", id, types)
      [] dir = "in" -> AlongEdges(g, "to", "from", id, types)
      [] dir = "both" -> AlongEdges(g, "from", "to", id, types) \o AlongEdges(g, "to", "from", id, types)

\* A type name is looked up among the labels first; an unknown one is dropped.
type_ids(g, types) ==
    {IF t \in ToSet(g.labels) THEN label_id(g, t) ELSE IndexIn(g.types, t) : t \in ToSet(types)} \ {0}

\* value_to_property: what cannot be stored is dropped
storable(props) ==
    [k \in {k \in DOMAIN props : props[k].t \notin {"list", "map", "node", "rel"}} |-> props[k]]

create_node(g, label, props) ==
    LET labels == Registered(g.labels, label)
    IN  [g EXCEPT !.labels = labels,
                  !.nodes = Append(@, [label |-> IndexIn(labels, label), props |-> storable(props), live |-> TRUE])]

create_edge_between(g, type, props, from, to) ==
    LET types == Registered(g.types, type)
    IN  [g EXCEPT !.types = types,
                  !.edges = Append(@, [type |-> IndexIn(types, type), props |-> storable(props),
                                       from |-> from, to |-> to, live |-> TRUE])]

----------------------------------------------------------------------------
\* evaluate, for the expressions modelled here

RECURSIVE evaluate(_, _)
evaluate(e, row) ==
    CASE e.op = "lit" -> e.val
      [] e.op = "var" -> IF e.name \in DOMAIN row THEN row[e.name] ELSE Err
      [] e.op = "prop" ->
             IF e.base \notin DOMAIN row THEN Err
             ELSE LET v == row[e.base]
                  IN  IF is_null(v) THEN Null
                      ELSE IF v.t \notin {"node", "rel"} THEN Err
                      ELSE IF e.key \in DOMAIN v.props THEN v.props[e.key] ELSE Null
      [] e.op = "eq" ->
             LET l == evaluate(e.left, row)  r == evaluate(e.right, row)
             IN  IF Err \in {l, r} THEN Err ELSE cypher_eq(l, r)
      [] OTHER -> Err

EvalMap(props, row) == [k \in DOMAIN props |-> evaluate(props[k], row)]

HasError(values) == \E k \in DOMAIN values : values[k] = Err

OrNull(v) == IF v = Err THEN Null ELSE v

Bound(row, x, v) == IF x = "" THEN row ELSE (x :> v) @@ row

----------------------------------------------------------------------------
\* Operators: building, resetting, and the outcomes of a pull

Stated(p) == p @@ [buf |-> <<>>, ready |-> FALSE, n |-> 0]

RECURSIVE op_reset(_)
op_reset(p) ==
    LET q == [p EXCEPT !.buf = <<>>, !.ready = FALSE, !.n = 0]
    IN  [f \in DOMAIN q |-> IF f \in ChildrenOf(q) THEN op_reset(q[f]) ELSE q[f]]

RECURSIVE build_physical_operator(_)
build_physical_operator(p) ==
    Stated([f \in DOMAIN p |-> IF f \in ChildrenOf(p) THEN build_physical_operator(p[f]) ELSE p[f]])

Yield(op, g, row) == [op |-> op, g |-> g, row |-> <<row>>, err |-> FALSE]
End(op, g) == [op |-> op, g |-> g, row |-> <<>>, err |-> FALSE]
Fail(op, g) == [op |-> op, g |-> g, row |-> <<>>, err |-> TRUE]

\* The outcome of an operator whose input ended or failed.
Passed(op, in) == [in EXCEPT !.op = op]

RECURSIVE Pull(_, _)

\* Every row of an operator, as the eager operators collect them.
RECURSIVE Drained(_, _, _)

Collected(r, rows) ==
    IF r.row = <<>> THEN [op |-> r.op, g |-> r.g, rows |-> rows, err |-> r.err]
    ELSE Drained(r.op, r.g, Append(rows, r.row[1]))

Drained(op, g, rows) == Collected(Pull(op, g), rows)

----------------------------------------------------------------------------
\* Reading operators

SingleRowOp(op, g) ==
    IF op.ready THEN End(op, g) ELSE Yield([op EXCEPT !.ready = TRUE], g, <<>>)

\* The cursor is filled by the first call, or again by the next if it came out empty;
\* nodes that are gone by the time they are reached are skipped.
ScanOp(op, g, ids) ==
    LET cursor == IF op.ready THEN op.buf ELSE ids
        live == {i \in DOMAIN cursor : load_node_value(g, cursor[i]) # <<>>}
        first == CHOOSE i \in live : \A j \in live : i <= j
        read == [op EXCEPT !.ready = @ \/ ids # <<>>, !.buf = <<>>]
    IN  IF live = {} THEN End(read, g)
        ELSE Yield([read EXCEPT !.buf = SubSeq(cursor, first + 1, Len(cursor))], g,
                   "_node" :> NodeValue(g, cursor[first]))

\* node_index keeps the ids of deleted nodes.
AllNodesScanOp(op, g) == ScanOp(op, g, [i \in DOMAIN g.nodes |-> i])

NodeByLabelScanOp(op, g) ==
    ScanOp(op, g, SelectSeq([i \in DOMAIN g.nodes |-> i],
                      LAMBDA i : g.nodes[i].live /\ g.nodes[i].label = label_id(g, op.label)))

\* The edges from the start node of a row are collected at once, and each end node is
\* looked up when its row is asked for.
ExpandOp(op, g) ==
    IF op.buf # <<>>
    THEN LET p == Head(op.buf)
             rest == [op EXCEPT !.buf = Tail(@)]
             end == load_node_value(g, p.end)
         IN  IF end = <<>> THEN Pull(rest, g)
             ELSE Yield(rest, g, Bound(Bound(p.row, op.var, p.rel),
                                       IF op.end # "" THEN op.end ELSE "_end_node", end[1]))
    ELSE LET in == Pull(op.input, g)
             next == [op EXCEPT !.input = in.op]
             row == in.row[1]
             found == scan_edges(in.g, op.dir, row[op.from].n, type_ids(in.g, op.types))
         IN  IF in.row = <<>> THEN Passed(next, in)
             ELSE IF op.from \notin DOMAIN row \/ row[op.from].t \notin {"node", "int"} THEN Pull(next, in.g)
             ELSE Pull([next EXCEPT !.buf =
                           [i \in DOMAIN found |-> [rel |-> edge_record_to_value(in.g, found[i].edge),
                                                    end |-> found[i].end, row |-> row]]], in.g)

\* The paths one relationship longer, none of them taken twice.
Trails(op, g, types, path) ==
    LET steps == SelectSeq(scan_edges(g, op.dir, path.end, types), LAMBDA s : s.edge \notin ToSet(path.edges))
    IN  [i \in DOMAIN steps |-> [end |-> steps[i].end, edges |-> Append(path.edges, steps[i].edge)]]

RECURSIVE bfs(_, _, _, _)
bfs(queue, op, g, types) ==
    IF queue = <<>> THEN <<>>
    ELSE LET path == Head(queue)
             found == IF Len(path.edges) >= op.min THEN <<path>> ELSE <<>>
             longer == IF Len(path.edges) >= op.max THEN <<>> ELSE Trails(op, g, types, path)
         IN  found \o bfs(Tail(queue) \o longer, op, g, types)

\* The rows of the paths found from a row.
AlongPaths(g, row, found) ==
    [i \in DOMAIN found |-> [end |-> found[i].end, row |-> row,
                             rels |-> [k \in DOMAIN found[i].edges |-> edge_record_to_value(g, found[i].edges[k])]]]

\* A row whose end node is gone is kept, with the end variable unbound.
VarLenExpandOp(op, g) ==
    IF op.buf # <<>>
    THEN LET p == Head(op.buf)
             end == load_node_value(g, p.end)
             row == IF end = <<>> THEN p.row ELSE Bound(p.row, op.end, end[1])
         IN  Yield([op EXCEPT !.buf = Tail(@)], g, Bound(row, op.var, List(p.rels)))
    ELSE LET in == Pull(op.input, g)
             next == [op EXCEPT !.input = in.op]
             row == in.row[1]
             found == bfs(<<[end |-> row[op.from].n, edges |-> <<>>]>>, op, in.g, type_ids(in.g, op.types))
         IN  IF in.row = <<>> THEN Passed(next, in)
             ELSE IF op.from \notin DOMAIN row \/ row[op.from].t \notin {"node", "int"} THEN Pull(next, in.g)
             ELSE Pull([next EXCEPT !.buf = AlongPaths(in.g, row, found)], in.g)

FilterOp(op, g) ==
    LET in == Pull(op.input, g)
        next == [op EXCEPT !.input = in.op]
        v == evaluate(op.pred, in.row[1])
    IN  IF in.row = <<>> THEN Passed(next, in)
        ELSE IF v = True THEN Yield(next, in.g, in.row[1])
        ELSE IF v \in {False, Null} THEN Pull(next, in.g)
        ELSE Fail(next, in.g)

eval_projections(columns, row) ==
    [x \in {NameOf(columns[i]) : i \in DOMAIN columns} |->
        evaluate(columns[CHOOSE i \in DOMAIN columns : NameOf(columns[i]) = x
                             /\ \A j \in i + 1 .. Len(columns) : NameOf(columns[j]) # x].expr, row)]

ProjectOp(op, g) ==
    LET in == Pull(op.input, g)
        next == [op EXCEPT !.input = in.op]
        out == eval_projections(op.columns, in.row[1])
    IN  IF in.row = <<>> THEN Passed(next, in)
        ELSE IF HasError(out) THEN Fail(next, in.g)
        ELSE Yield(next, in.g, out)

\* An operator that fills its buffer with F(all rows of its input) before it yields.
Buffered(op, g, F(_)) ==
    LET all == Drained(op.input, g, <<>>)
        rows == IF op.ready THEN op.buf ELSE F(all.rows)
        after == IF op.ready THEN g ELSE all.g
        input == IF op.ready THEN op.input ELSE all.op
        filled == [op EXCEPT !.ready = TRUE, !.input = input, !.buf = IF rows = <<>> THEN <<>> ELSE Tail(rows)]
    IN  IF ~op.ready /\ all.err THEN Fail([op EXCEPT !.input = all.op], all.g)
        ELSE IF rows = <<>> THEN End(filled, after)
        ELSE Yield(filled, after, Head(rows))

EagerOp(op, g) == Buffered(op, g, LAMBDA rows : rows)

\* Rows sorted by one key, stably.
RECURSIVE SortedBy(_, _)
SortedBy(rows, item) ==
    IF rows = <<>> THEN <<>>
    ELSE LET key(row) == OrNull(evaluate(item.expr, row))
             done == SortedBy(Front(rows), item)
             cmp(row) == compare_values(key(Last(rows)), key(row)) * (IF item.asc THEN 1 ELSE -1)
             from == {i \in DOMAIN done : \A j \in i..Len(done) : cmp(done[j]) = -1}
             at == IF from = {} THEN Len(done) + 1 ELSE CHOOSE i \in from : \A j \in from : i <= j
         IN  InsertAt(done, at, Last(rows))

SortOp(op, g) == Buffered(op, g, LAMBDA rows : FoldRight(LAMBDA item, acc : SortedBy(acc, item), op.order, rows))

\* `val.as_integer().map(|v| v as u64)', 0 when it is no number
CountOf(v) == IF v.t \notin {"int", "float"} THEN 0 ELSE IF v.n < 0 THEN Unbounded ELSE v.n

RECURSIVE SkipOp(_, _)
SkipOp(op, g) ==
    LET in == Pull(op.input, g)
        next == [op EXCEPT !.input = in.op, !.n = @ + 1]
    IN  IF op.n >= CountOf(op.count) \/ in.row = <<>> THEN Passed([op EXCEPT !.input = in.op], in)
        ELSE SkipOp(next, in.g)

LimitOp(op, g) ==
    LET in == Pull(op.input, g)
    IN  IF op.n >= CountOf(op.count) THEN End(op, g)
        ELSE Passed([op EXCEPT !.input = in.op, !.n = @ + Len(in.row)], in)

\* The inner operator starts afresh for every row of the outer one.
ApplyOp(op, g) ==
    LET out == Pull(op.left, g)
        in == Pull(op.right, g)
    IN  IF op.buf = <<>>
        THEN IF out.row = <<>> THEN Passed([op EXCEPT !.left = out.op], out)
             ELSE Pull([op EXCEPT !.left = out.op, !.right = op_reset(@), !.buf = out.row], out.g)
        ELSE IF in.err THEN Passed([op EXCEPT !.right = in.op], in)
        ELSE IF in.row = <<>> THEN Pull([op EXCEPT !.right = in.op, !.buf = <<>>], in.g)
        ELSE Yield([op EXCEPT !.right = in.op], in.g, in.row[1] @@ op.buf[1])

----------------------------------------------------------------------------
\* Aggregation

AggregateValues(agg, rows) ==
    LET seen == SelectSeq([i \in DOMAIN rows |-> IF agg.arg.op = "star" THEN Integer(1) ELSE evaluate(agg.arg, rows[i])],
                          LAMBDA v : v # Err)
    IN  IF agg.distinct THEN distinct(seen) ELSE seen

\* min or max: the first of the values that no other beats
Extreme(values, sign) ==
    IF values = <<>> THEN Null
    ELSE FoldLeft(LAMBDA best, v : IF compare_values(v, best) = sign THEN v ELSE best, Head(values), Tail(values))

\* sum starts at 0 and fails where add does; avg is left out.
compute_aggregate(agg, rows) ==
    LET values == AggregateValues(agg, rows)
    IN  CASE agg.fn = "count" -> Integer(Len(values))
          [] agg.fn = "collect" -> List(values)
          [] agg.fn = "sum" -> FoldLeft(LAMBDA sum, v : IF sum = Err THEN Err ELSE add(sum, v), Integer(0), values)
          [] agg.fn = "min" -> Extreme(values, -1)
          [] agg.fn = "max" -> Extreme(values, 1)

SameKey(k, l) == \A i \in DOMAIN k : SameValue(k[i], l[i])

\* The row joins the first group whose key is `==', or starts a new one.
Grouped(groups, key, row) ==
    LET same == {i \in DOMAIN groups : SameKey(groups[i].key, key)}
    IN  IF same = {} THEN Append(groups, [key |-> key, rows |-> <<row>>])
        ELSE [groups EXCEPT ![CHOOSE i \in same : \A j \in same : i <= j].rows = Append(@, row)]

AggregateRows(op, rows) ==
    LET keyOf(row) == [i \in DOMAIN op.keys |-> OrNull(evaluate(op.keys[i], row))]
        groups == FoldLeft(LAMBDA acc, row : Grouped(acc, keyOf(row), row), <<>>, rows)
        texts == [i \in DOMAIN op.keys |-> op.keys[i].text]
        out(grp) == [x \in {NameOf(op.aggregates[i]) : i \in DOMAIN op.aggregates} |->
                        compute_aggregate(op.aggregates[CHOOSE i \in DOMAIN op.aggregates :
                                              NameOf(op.aggregates[i]) = x].expr, grp.rows)]
                    @@ [x \in ToSet(texts) |-> grp.key[IndexIn(texts, x)]]
    IN  [i \in DOMAIN groups |-> out(groups[i])]

\* The first call fails if any group does.
FailsWithAny(r) == IF \E row \in ToSet(r.row \o r.op.buf) : HasError(row) THEN Fail(r.op, r.g) ELSE r

AggregateOp(op, g) == FailsWithAny(Buffered(op, g, LAMBDA rows : AggregateRows(op, rows)))

----------------------------------------------------------------------------
\* Writing operators

Wrote(g, row, err) == [g |-> g, row |-> row, err |-> err]

\* First pass of execute_create: every node of the pattern is created and bound, bound
\* before or not; expressions see the row as it came.
create_nodes(start, g, pattern) ==
    LET step(acc, e) ==
            LET values == EvalMap(e.props, start)
                made == create_node(acc.g, e.label, values)
            IN  IF acc.err \/ e.kind # "node" THEN acc
                ELSE IF HasError(values) THEN [acc EXCEPT !.err = TRUE]
                ELSE Wrote(made, Bound(acc.row, e.var, NodeValue(made, Len(made.nodes))), FALSE)
    IN  FoldLeft(step, Wrote(g, start, FALSE), pattern)

\* Second pass: a relationship between two named nodes; others are dropped.
create_relationships(made, pattern) ==
    LET step(acc, i) ==
            LET from == pattern[i - 1].var
                to == pattern[i + 1].var
                type == IF pattern[i].types = <<>> THEN "" ELSE pattern[i].types[1]
                values == EvalMap(pattern[i].props, acc.row)
                grown == create_edge_between(acc.g, type, values, acc.row[from].n, acc.row[to].n)
                value == [edge_record_to_value(grown, Len(grown.edges)) EXCEPT !.type = "TYPE_", !.props = <<>>]
            IN  IF acc.err \/ pattern[i].kind # "rel" \/ from = "" \/ to = "" THEN acc
                ELSE IF HasError(values) THEN [acc EXCEPT !.err = TRUE]
                ELSE Wrote(grown, Bound(acc.row, pattern[i].var, value), FALSE)
    IN  IF made.err THEN made ELSE FoldLeft(step, made, [i \in 1 .. Len(pattern) |-> i])

execute_create(op, g, row) == create_relationships(create_nodes(row, g, op.pattern), op.pattern)

\* The outcome of applying W to each row an operator's input yields.
Driven(op, g, W(_, _)) ==
    LET in == Pull(op.input, g)
        next == [op EXCEPT !.input = in.op]
        w == W(in.g, in.row[1])
    IN  IF in.row = <<>> THEN Passed(next, in)
        ELSE IF w.err THEN Fail(next, w.g)
        ELSE Yield(next, w.g, w.row)

\* The outcome of a write that no input drives.
Once(op, w) == IF w.err THEN Fail([op EXCEPT !.ready = TRUE], w.g) ELSE Yield([op EXCEPT !.ready = TRUE], w.g, w.row)

CreateOp(op, g) ==
    IF "input" \in DOMAIN op THEN Driven(op, g, LAMBDA h, row : execute_create(op, h, row))
    ELSE IF op.ready THEN End(op, g)
    ELSE Once(op, execute_create(op, g, <<>>))

\* A delete tombstones; an edge leaves the lists of both nodes.
delete_edges(g, ids) ==
    [g EXCEPT !.edges = [i \in DOMAIN @ |-> IF i \in ids THEN [@[i] EXCEPT !.live = FALSE] ELSE @[i]]]

Detached(g, id) == {s.edge : s \in ToSet(scan_edges(g, "both", id, {}))}

delete_entity(acc, v, detach) ==
    LET bare == IF detach THEN delete_edges(acc.g, Detached(acc.g, v.n)) ELSE acc.g
    IN  IF acc.err \/ is_null(v) THEN acc
        ELSE IF v.t = "node" THEN [acc EXCEPT !.g = [bare EXCEPT !.nodes[v.n].live = FALSE]]
        ELSE IF v.t = "rel" THEN [acc EXCEPT !.g = delete_edges(@, {v.n})]
        ELSE [acc EXCEPT !.err = TRUE]

\* Deletes what every row names, and yields none.
DeleteOp(op, g) ==
    LET in == Pull(op.input, g)
        next == [op EXCEPT !.input = in.op]
        w == FoldLeft(LAMBDA acc, e : delete_entity(acc, evaluate(e, in.row[1]), op.detach),
                      Wrote(in.g, <<>>, FALSE), op.exprs)
    IN  IF in.row = <<>> THEN Passed(next, in)
        ELSE IF w.err THEN Fail(next, w.g)
        ELSE Pull(next, w.g)

WithProps(props, values) ==
    LET kept == {k \in DOMAIN values : ~is_null(values[k])}
    IN  [k \in (DOMAIN props \ DOMAIN values) \cup kept |-> IF k \in kept THEN values[k] ELSE props[k]]

\* One SET item, applied to the entity in the row.  Labels change in the row only.
set_item(acc, item) ==
    LET values == IF item.op = "prop" THEN item.key :> evaluate(item.expr, acc.row)
                  ELSE IF item.op = "label" THEN <<>> ELSE EvalMap(item.map, acc.row)
        target == IF item.var \in DOMAIN acc.row THEN acc.row[item.var] ELSE Null
        props == WithProps(IF item.op = "replace" THEN <<>> ELSE target.props, values)
    IN  IF acc.err THEN acc
        ELSE IF HasError(values) THEN [acc EXCEPT !.err = TRUE]
        ELSE IF ~(target.t = "node" \/ (target.t = "rel" /\ item.op = "prop")) THEN acc
        ELSE IF item.op = "label" THEN [acc EXCEPT !.row[item.var].labels = @ \cup item.labels]
        ELSE [acc EXCEPT !.row[item.var].props = props,
                         !.mutated = IF item.var \in ToSet(@) THEN @ ELSE Append(@, item.var)]

\* Mutant: the properties of a relationship are not written back.
Rewritten_NodesOnly(g, v) ==
    IF v.t = "node" THEN [g EXCEPT !.nodes[v.n].props = storable(v.props)] ELSE g

\* rewrite_node_properties_engine, rewrite_edge_properties_engine
Rewritten(g, v) ==
    IF v.t = "node" THEN [g EXCEPT !.nodes[v.n].props = storable(v.props)]
    ELSE [g EXCEPT !.edges[v.n].props = storable(v.props)]

\* All items, then one rewrite of the whole property map per variable.
apply_set_items(g, row, items) ==
    LET set == FoldLeft(set_item, [row |-> row, mutated |-> <<>>, err |-> FALSE], items)
        flushed == FoldLeft(LAMBDA h, x : Rewritten(h, set.row[x]), g, set.mutated)
    IN  IF set.err THEN Wrote(g, row, TRUE) ELSE Wrote(flushed, set.row, FALSE)

SetOp(op, g) == Driven(op, g, LAMBDA h, row : apply_set_items(h, row, op.items))

\* REMOVE changes the entity in the row and nothing in storage.
remove_item(row, item) ==
    IF item.var \notin DOMAIN row \/ row[item.var].t \notin {"node", "rel"} THEN row
    ELSE IF item.op = "prop"
         THEN [row EXCEPT ![item.var].props = [k \in DOMAIN @ \ {item.key} |-> @[k]]]
    ELSE [row EXCEPT ![item.var].labels = @ \ item.labels]

RemoveOp(op, g) == Driven(op, g, LAMBDA h, row : Wrote(h, FoldLeft(remove_item, row, op.items), FALSE))

\* values_equal_for_merge on every inline property
EqualOn(v, wanted) ==
    \A k \in DOMAIN wanted : k \in DOMAIN v.props /\ cypher_eq(v.props[k], wanted[k]) = True

find_full_match(g, node, wanted) ==
    LET fit == {i \in DOMAIN g.nodes :
                   /\ g.nodes[i].live
                   /\ node.label = "" \/ g.nodes[i].label = label_id(g, node.label)
                   /\ EqualOn(NodeValue(g, i), wanted)}
    IN  IF fit = {} THEN 0 ELSE CHOOSE i \in fit : \A j \in fit : i <= j

\* MERGE of one node: bound already, found, or created.
execute_merge(op, g, row) ==
    LET node == op.pattern[1]
        wanted == EvalMap(node.props, row)
        found == find_full_match(g, node, wanted)
        made == create_node(g, node.label, wanted)
    IN  IF node.var # "" /\ node.var \in DOMAIN row THEN apply_set_items(g, row, op.on_match)
        ELSE IF HasError(wanted) THEN Wrote(g, row, TRUE)
        ELSE IF found # 0 THEN apply_set_items(g, Bound(row, node.var, NodeValue(g, found)), op.on_match)
        ELSE apply_set_items(made, Bound(row, node.var, NodeValue(made, Len(made.nodes))), op.on_create)

MergeOp(op, g) == Driven(op, g, LAMBDA h, row : execute_merge(op, h, row))

Pull(op, g) ==
    CASE op.op = "SingleRow" -> SingleRowOp(op, g)
      [] op.op = "AllNodesScan" -> AllNodesScanOp(op, g)
      [] op.op = "NodeByLabelScan" -> NodeByLabelScanOp(op, g)
      [] op.op = "Expand" -> ExpandOp(op, g)
      [] op.op = "VarLenExpand" -> VarLenExpandOp(op, g)
      [] op.op = "Filter" -> FilterOp(op, g)
      [] op.op = "Project" -> ProjectOp(op, g)
      [] op.op = "Sort" -> SortOp(op, g)
      [] op.op = "Skip" -> SkipOp(op, g)
      [] op.op = "Limit" -> LimitOp(op, g)
      [] op.op = "Eager" -> EagerOp(op, g)
      [] op.op = "Apply" -> ApplyOp(op, g)
      [] op.op = "Aggregate" -> AggregateOp(op, g)
      [] op.op = "Create" -> CreateOp(op, g)
      [] op.op = "Delete" -> DeleteOp(op, g)
      [] op.op = "Set" -> SetOp(op, g)
      [] op.op = "Remove" -> RemoveOp(op, g)
      [] op.op = "Merge" -> MergeOp(op, g)

----------------------------------------------------------------------------
\* The statement loop of execute_cypher and execute_plan

Stmt == Head(cqleft)

\* The columns of a result: those of the root projection, or the names in the first row.
RECURSIVE extract_projection_columns(_)
extract_projection_columns(p) ==
    CASE p.op = "Project" -> {NameOf(p.columns[i]) : i \in DOMAIN p.columns}
      [] p.op = "Aggregate" -> {p.keys[i].text : i \in DOMAIN p.keys}
                               \cup {NameOf(p.aggregates[i]) : i \in DOMAIN p.aggregates}
      [] p.op \in {"Limit", "Skip", "Sort", "Filter", "Eager"} -> extract_projection_columns(p.input)
      [] OTHER -> {}

ResultRow(row) ==
    LET named == extract_projection_columns(cqop)
        columns == IF named # {} THEN named ELSE IF cqrows # <<>> THEN DOMAIN cqrows[1] ELSE DOMAIN row
    IN  [c \in columns |-> IF c \in DOMAIN row THEN row[c] ELSE Null]

CQInit ==
    /\ cqgraph \in CqGraphs /\ cqleft \in CqScripts
    /\ cqop = NoPlan /\ cqrows = <<>> /\ cqpc = "idle" /\ cqbefore = cqgraph

\* A statement that does not pass the scope check runs nothing.
statement_refused ==
    /\ cqpc = "idle" /\ cqleft # <<>> /\ ~analyse(Stmt)
    /\ cqpc' = "failed" /\ cqbefore' = cqgraph
    /\ UNCHANGED <<cqgraph, cqleft, cqop, cqrows>>

statement_begin ==
    /\ cqpc = "idle" /\ cqleft # <<>> /\ analyse(Stmt)
    /\ cqop' = build_physical_operator(plan(Stmt))
    /\ cqpc' = "running" /\ cqbefore' = cqgraph
    /\ UNCHANGED <<cqgraph, cqleft, cqrows>>

next_row ==
    /\ cqpc = "running"
    /\ \E r \in {Pull(cqop, cqgraph)} :
          /\ r.row # <<>>
          /\ cqop' = r.op /\ cqgraph' = r.g
          /\ cqrows' = Append(cqrows, ResultRow(r.row[1]))
    /\ UNCHANGED <<cqleft, cqpc, cqbefore>>

\* The last pull: the end of the rows, or an error, which undoes nothing.
statement_end ==
    /\ cqpc = "running"
    /\ \E r \in {Pull(cqop, cqgraph)} :
          /\ r.row = <<>>
          /\ cqgraph' = r.g
          /\ cqpc' = IF r.err THEN "failed" ELSE "done"
    /\ UNCHANGED <<cqop, cqrows, cqleft, cqbefore>>

next_statement ==
    /\ cqpc \in {"done", "failed"} /\ cqleft # <<>>
    /\ cqleft' = Tail(cqleft) /\ cqop' = NoPlan /\ cqrows' = <<>> /\ cqpc' = "idle"
    /\ UNCHANGED <<cqgraph, cqbefore>>

CQNext == statement_refused \/ statement_begin \/ next_row \/ statement_end \/ next_statement

CQSpec == CQInit /\ [][CQNext]_cqvars

----------------------------------------------------------------------------
\* Properties

Ended == cqpc = "done"

Shape(stmt) == [i \in DOMAIN stmt |-> stmt[i].op]

\* What a plan yields on a graph, all at once.
Answer(p, g) == Drained(build_physical_operator(p), g, <<>>)

LiveNodes(g) == {i \in DOMAIN g.nodes : g.nodes[i].live}
LiveEdgeIds(g) == {i \in DOMAIN g.edges : g.edges[i].live}

\* The names a plan reads are known, and no type is also the name of a label.
NamesKnown(p, g) ==
    LET read == read_footprint(p)
    IN  /\ read.nodes \ {"*"} \subseteq ToSet(g.labels)
        /\ read.rels \ {"*"} \subseteq ToSet(g.types) \ ToSet(g.labels)

\* How many live nodes there are of each label, and edges of each type.
Census(g) ==
    [label |-> [l \in 0..Len(g.labels) |-> Cardinality({i \in LiveNodes(g) : g.nodes[i].label = l})],
     type |-> [t \in 0..Len(g.types) |-> Cardinality({i \in LiveEdgeIds(g) : g.edges[i].type = t})]]

RECURSIVE AllBarriers(_)
AllBarriers(p) ==
    LET q == [f \in DOMAIN p |-> IF f \in ChildrenOf(p) THEN AllBarriers(p[f]) ELSE p[f]]
    IN  IF p.op \in {"Create", "Merge"} /\ "input" \in DOMAIN p THEN [q EXCEPT !.input = Eager(@)] ELSE q

RECURSIVE HasLimit(_)
HasLimit(p) == p.op = "Limit" \/ \E f \in ChildrenOf(p) : HasLimit(p[f])

\* insert_eager leaves a read to stream when its footprint and that of the CREATE or MERGE
\* it drives are disjoint; the statement still does exactly what it would do with a
\* barrier under every write: no row of a scan, an expansion or a re-scan by Apply is
\* one the statement made itself.
BarriersSuffice ==
    (Ended /\ NamesKnown(plan(Stmt), cqbefore) /\ ~HasLimit(plan(Stmt))) =>
        \E ref \in {Answer(AllBarriers(plan(Stmt)), cqbefore)} :
            Census(cqgraph) = Census(ref.g) /\ Len(cqrows) = Len(ref.rows)

\* The node reached from s over the edges es, 0 if they do not form a path of live nodes.
RECURSIVE PathEnd(_, _, _, _)
PathEnd(g, dir, s, es) ==
    IF es = <<>> THEN s
    ELSE LET e == g.edges[Head(es)]
             next == IF e.from = s /\ dir # "in" THEN e.to ELSE IF e.to = s /\ dir # "out" THEN e.from ELSE 0
         IN  IF next = 0 \/ next \notin LiveNodes(g) THEN 0 ELSE PathEnd(g, dir, next, Tail(es))

\* Declaratively: every path of live edges of the right types, none taken twice.
Paths(g, pattern) ==
    LET rel == pattern[2]
        edges == {i \in LiveEdgeIds(g) : rel.types = <<>> \/ Name(g.types, g.edges[i].type) \in ToSet(rel.types)}
        starts == {i \in LiveNodes(g) : pattern[1].label = "" \/ Name(g.labels, g.nodes[i].label) = pattern[1].label}
        lists == UNION {{es \in [1..k -> edges] : \A i, j \in 1..k : es[i] = es[j] => i = j} :
                           k \in rel.min..Low(rel.max, Cardinality(edges))}
    IN  {p \in {<<s, es, PathEnd(g, rel.dir, s, es)>> : s \in starts, es \in lists} : p[3] # 0}

PathOf(row, pattern) ==
    LET r == row[pattern[2].var]
    IN  <<row[pattern[1].var].n,
          IF r.t = "rel" THEN <<r.n>> ELSE [i \in DOMAIN r.items |-> r.items[i].n],
          row[pattern[3].var].n>>

SinglePattern(stmt) == Shape(stmt) = <<"match", "return">> /\ Len(stmt[1].patterns) = 1

PathQuery(stmt) ==
    /\ SinglePattern(stmt) /\ Len(stmt[1].patterns[1]) = 3 /\ stmt[2].limit = <<>> /\ stmt[2].skip = <<>>
    /\ {stmt[2].columns[i].expr : i \in DOMAIN stmt[2].columns} = {Var(stmt[1].patterns[1][i].var) : i \in 1..3}

Loopless(g) == \A i \in LiveEdgeIds(g) : g.edges[i].from # g.edges[i].to

\* A MATCH of one relationship, fixed or of variable length, in any direction, returns
\* every path that fits and each of them once: the breadth-first search of
\* VarLenExpandOp, the adjacency scans and the resolution of names agree with the
\* definition of a path.
PathsExact ==
    (Ended /\ PathQuery(Stmt) /\ NamesKnown(plan(Stmt), cqgraph)
        /\ (Stmt[1].patterns[1][2].dir = "both" => Loopless(cqgraph))) =>
    LET pattern == Stmt[1].patterns[1]
    IN  /\ {PathOf(cqrows[i], pattern) : i \in DOMAIN cqrows} = Paths(cqgraph, pattern)
        /\ Len(cqrows) = Cardinality(Paths(cqgraph, pattern))

WindowOf(c) == [skip |-> IF c.skip = <<>> THEN 0 ELSE c.skip[1].n,
                limit |-> IF c.limit = <<>> THEN Unbounded ELSE c.limit[1].n]

\* ORDER BY, SKIP and LIMIT return the window of the ordered rows that they name, whatever
\* the order of the operators the planner stacks for them, also above an aggregation.
WindowExact ==
    (Ended /\ SinglePattern(Stmt) /\ WindowOf(Stmt[2]).skip >= 0 /\ WindowOf(Stmt[2]).limit >= 0) =>
    LET w == WindowOf(Stmt[2])
        keys == Stmt[2].order
        key(row, i) == OrNull(evaluate(Var(keys[i].expr.text), row))
        le2(r1, r2) == \/ \A i \in DOMAIN keys : key(r1, i) = key(r2, i)
                       \/ \E i \in DOMAIN keys :
                              /\ compare_values(key(r1, i), key(r2, i)) = (IF keys[i].asc THEN -1 ELSE 1)
                              /\ \A j \in 1..i - 1 : key(r1, j) = key(r2, j)
    IN  /\ \E all \in {Answer(plan(<<Stmt[1], [Stmt[2] EXCEPT !.skip = <<>>, !.limit = <<>>]>>), cqbefore).rows} :
               cqrows = SubSeq(all, w.skip + 1, Low(w.skip + w.limit, Len(all)))
        /\ \A i \in 1..Len(cqrows) - 1 : le2(cqrows[i], cqrows[i + 1])

\* Every row that a MATCH yields is counted in exactly one group, the one with its key,
\* and no two groups have the same key.
GroupsPartition ==
    (Ended /\ SinglePattern(Stmt) /\ WindowOf(Stmt[2]) = [skip |-> 0, limit |-> Unbounded]
        /\ Last(Stmt[2].columns).expr = Agg("count", Star, FALSE)) =>
    LET columns == Front(Stmt[2].columns)
        keyOf(row) == [i \in DOMAIN columns |-> OrNull(evaluate(columns[i].expr, row))]
        keyIn(out) == [i \in DOMAIN columns |-> out[NameOf(columns[i])]]
    IN  \E rows \in {Answer(plan(<<Stmt[1]>>), cqbefore).rows} :
        /\ \A i, j \in DOMAIN cqrows : keyIn(cqrows[i]) = keyIn(cqrows[j]) => i = j
        /\ \A i \in DOMAIN cqrows :
               cqrows[i][NameOf(Last(Stmt[2].columns))]
                   = Integer(Cardinality({j \in DOMAIN rows : keyOf(rows[j]) = keyIn(cqrows[i])}))
        /\ \A j \in DOMAIN rows : \E i \in DOMAIN cqrows : keyIn(cqrows[i]) = keyOf(rows[j])

\* The live nodes that a MERGE pattern of literals describes.
Fitting(g, node) ==
    {i \in LiveNodes(g) : /\ node.label = "" \/ node.label \in NodeValue(g, i).labels
                          /\ \A k \in DOMAIN node.props :
                                 k \in DOMAIN g.nodes[i].props /\ g.nodes[i].props[k] = node.props[k].val}

MergeOf(stmt) == IF "merge" \in ToSet(Shape(stmt)) THEN stmt[IndexIn(Shape(stmt), "merge")].pattern[1]
                 ELSE NodeP("", "", <<>>)

\* MERGE run for any number of rows, and again in later statements, leaves exactly one
\* node that fits its label and properties, if there was at most one before: later rows
\* find what the first one made.
MergeOnce ==
    LET node == MergeOf(Stmt)
    IN  (Ended /\ node.props # <<>> /\ node.label \in ToSet(cqbefore.labels)
            /\ (\A k \in DOMAIN node.props : node.props[k].op = "lit" /\ ~is_null(node.props[k].val))
            /\ (Shape(Stmt)[1] = "match" => node.var \notin Binds(Stmt[1]))
            /\ Cardinality(Fitting(cqbefore, node)) <= 1 /\ (Shape(Stmt)[1] = "merge" \/ cqrows # <<>>)) =>
        Cardinality(Fitting(cqgraph, node)) = 1

Dangling(g) == {i \in LiveEdgeIds(g) : ~(g.nodes[g.edges[i].from].live /\ g.nodes[g.edges[i].to].live)}

\* DETACH DELETE, also of a node that several rows name or whose neighbour was deleted a
\* row before, leaves no relationship with a deleted end; nor does any other statement
\* but a plain DELETE.
NoDangling ==
    (cqpc \in {"done", "failed"} /\ Dangling(cqbefore) = {}
        /\ \A i \in DOMAIN Stmt : Stmt[i].op = "delete" => Stmt[i].detach) => Dangling(cqgraph) = {}

Entities(row) == {<<row[x].t, row[x].n>> : x \in {y \in DOMAIN row : row[y].t \in {"node", "rel"}}}

Unaliased(row) ==
    \A x, y \in DOMAIN row : (x # y /\ row[x].t \in {"node", "rel"} /\ row[x].t = row[y].t) => row[x].n # row[y].n

StoredProps(g, e) == IF e[1] = "node" THEN g.nodes[e[2]].props ELSE g.edges[e[2]].props

\* What MATCH ... SET ... RETURN shows of an entity, in the last row that mentions it, is
\* what is stored when the statement ends: the entity is written back whole from the row,
\* and no row is written back from values that an earlier one has replaced.
SetStored ==
    (Ended /\ Shape(Stmt) = <<"match", "set", "return">> /\ \A i \in DOMAIN cqrows : Unaliased(cqrows[i])) =>
    \A i \in DOMAIN cqrows : \A x \in DOMAIN cqrows[i] :
        (/\ cqrows[i][x].t \in {"node", "rel"}
         /\ \A j \in i + 1..Len(cqrows) : <<cqrows[i][x].t, cqrows[i][x].n>> \notin Entities(cqrows[j])) =>
            StoredProps(cqgraph, <<cqrows[i][x].t, cqrows[i][x].n>>) = storable(cqrows[i][x].props)

\* A statement answers and changes what its clauses say: MATCH finds every path once, the window
\* and the groups are those of the rows, MERGE makes at most one node, DETACH DELETE leaves no
\* dangling relationship and SET stores what the rows show (the operators of physical.rs, pulled
\* one row at a time, under the plans of planner.rs).
StatementsExact ==
    /\ PathsExact /\ WindowExact /\ GroupsPartition
    /\ MergeOnce /\ NoDangling /\ SetStored

----------------------------------------------------------------------------
\* Stated intentions that the code does not meet

\* CREATE reuses what the rows that drive it have bound: `MATCH (n) CREATE (n)-[:R]->(m)`
\* makes one node per row, as the documentation of Eager in planner.rs has it.
\* Refuted: README, section 5.
CreateReusesBound ==
    (Ended /\ Shape(Stmt) = <<"match", "create">>) =>
        Len(cqgraph.nodes) - Len(cqbefore.nodes)
            = Len(cqrows) * Cardinality({i \in DOMAIN Stmt[2].patterns[1] :
                  /\ Stmt[2].patterns[1][i].kind = "node"
                  /\ Stmt[2].patterns[1][i].var \notin Binds(Stmt[1])})

\* RemoveOp removes properties and labels from the stored entities.
\* Refuted: README, section 5.
RemoveDurable ==
    (Ended /\ Shape(Stmt) = <<"match", "remove", "return">>) =>
        \A i \in DOMAIN cqrows : \A x \in DOMAIN cqrows[i] : cqrows[i][x].t = "node" =>
            /\ StoredProps(cqgraph, <<"node", cqrows[i][x].n>>) = storable(cqrows[i][x].props)
            /\ NodeValue(cqgraph, cqrows[i][x].n).labels = cqrows[i][x].labels

\* What ends in an error has changed nothing.
\* Refuted: README, section 5.
StatementAllOrNothing == cqpc = "failed" => cqgraph = cqbefore

\* A row is returned only for nodes that carry the label and the properties the pattern asks for.
\* Refuted: README, section 5.
PatternFilters ==
    (Ended /\ SinglePattern(Stmt) /\ Len(Stmt[1].patterns[1]) = 1) =>
        \A i \in DOMAIN cqrows : Stmt[1].patterns[1][1].var \in DOMAIN cqrows[i] =>
            cqrows[i][Stmt[1].patterns[1][1].var].n \in Fitting(cqbefore, Stmt[1].patterns[1][1])
=============================================================================
