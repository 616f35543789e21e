----------------------------- MODULE CypherPlan -----------------------------
(***************************************************************************)
(* From a parsed statement to the operator tree that is executed: the      *)
(* scope check of cypher/semantic.rs and the rule-based planner of         *)
(* cypher/planner.rs, with the barriers insert_eager puts between a read   *)
(* and the write it drives.                                                *)
(*                                                                         *)
(* A statement is a sequence of clauses, a pattern a sequence of node and  *)
(* relationship elements, a plan a tree of records whose children are its  *)
(* fields input, left and right.  A name that is left out is "".  The      *)
(* text of an expression is what Display gives for it, under which results *)
(* are bound when no alias is given.                                       *)
(***************************************************************************)
EXTENDS CypherValue, TLC

LOCAL INSTANCE SequencesExt

----------------------------------------------------------------------------
\* Expressions
Lit(v) == [op |-> "lit", val |-> v, text |-> "literal"]
Var(x) == [op |-> "var", name |-> x, text |-> x]
Prop(x, k) == [op |-> "prop", base |-> x, key |-> k, text |-> x \o "." \o k]
Eq(l, r) == [op |-> "eq", left |-> l, right |-> r, text |-> "(" \o l.text \o " = " \o r.text \o ")"]
Star == [op |-> "star", text |-> "*"]
Agg(f, arg, d) == [op |-> "agg", fn |-> f, arg |-> arg, distinct |-> d,
                   text |-> f \o "(" \o (IF d THEN "DISTINCT " ELSE "") \o arg.text \o ")"]

\* Patterns; a relationship is `fixed' when its length is written *n or not at all
NodeP(x, label, props) == [kind |-> "node", var |-> x, label |-> label, props |-> props]
RelP(x, types, dir) == [kind |-> "rel", var |-> x, types |-> types, dir |-> dir,
                        fixed |-> TRUE, min |-> 1, max |-> 1, props |-> <<>>]
Hops(r, fixed, min, max) == [r EXCEPT !.fixed = fixed, !.min = min, !.max = max]
Unbounded == 99

NoPlan == [op |-> "none"]
AllNodesScan == [op |-> "AllNodesScan"]
SingleRow == [op |-> "SingleRow"]
NodeByLabelScan(label) == [op |-> "NodeByLabelScan", label |-> label]
Column(expr, alias) == [expr |-> expr, alias |-> alias]
Project(input, columns) == [op |-> "Project", input |-> input, columns |-> columns]
Apply(left_, right_) == [op |-> "Apply", left |-> left_, right |-> right_]

Or(p, default) == IF p = NoPlan THEN default ELSE p

ChildrenOf(p) == DOMAIN p \cap {"input", "left", "right"}

----------------------------------------------------------------------------
\* semantic.rs: the variables an expression mentions, and the scope of a statement

RECURSIVE Mentions(_)
Mentions(e) ==
    CASE e.op = "var" -> {e.name}
      [] e.op = "prop" -> {e.base}
      [] e.op = "eq" -> Mentions(e.left) \cup Mentions(e.right)
      [] e.op = "agg" -> Mentions(e.arg)
      [] OTHER -> {}

RECURSIVE contains_aggregate(_)
contains_aggregate(e) ==
    e.op = "agg" \/ (e.op = "eq" /\ (contains_aggregate(e.left) \/ contains_aggregate(e.right)))

collect_pattern_variables(pattern) == {pattern[i].var : i \in DOMAIN pattern} \ {""}

\* The variables a SET or REMOVE item requires to be in scope.
ItemMentions(item) == {item.var} \cup (IF item.op = "prop" THEN Mentions(item.expr) ELSE {})

NameOf(column) == IF column.alias # "" THEN column.alias ELSE column.expr.text

Of(s, F(_)) == UNION {F(s[i]) : i \in DOMAIN s}

\* The variables a clause refers to, in the scope before it and with what it binds.
Needs(c) ==
    CASE c.op = "where" -> Mentions(c.pred)
      [] c.op = "delete" -> Of(c.exprs, Mentions)
      [] c.op \in {"set", "remove"} -> Of(c.items, ItemMentions)
      [] c.op = "merge" -> Of(c.on_create \o c.on_match, ItemMentions)
      [] c.op = "with" -> UNION {Mentions(c.columns[i].expr) : i \in DOMAIN c.columns}
      [] c.op = "return" -> UNION {Mentions(c.columns[i].expr) \ {c.columns[j].alias : j \in 1..i - 1} :
                                       i \in DOMAIN c.columns}
      [] c.op = "unwind" -> Mentions(c.expr)
      [] OTHER -> {}

Binds(c) ==
    CASE c.op \in {"match", "optional", "create"} -> Of(c.patterns, collect_pattern_variables)
      [] c.op = "merge" -> collect_pattern_variables(c.pattern)
      [] c.op = "return" -> {c.columns[i].alias : i \in DOMAIN c.columns} \ {""}
      [] c.op = "unwind" -> {c.var}
      [] OTHER -> {}

\* The scope after a clause, or a failure; only a WHERE that comes first is out of order.
Analysed(acc, c) ==
    LET early == IF c.op \in {"match", "optional", "create", "merge"} THEN Binds(c) ELSE {}
        fails == \/ ~(Needs(c) \subseteq acc.scope \cup early)
                 \/ c.op = "where" /\ (~acc.begun \/ contains_aggregate(c.pred))
                 \/ c.op = "with" /\ c.where # <<>>
                        /\ ~(Mentions(c.where[1]) \subseteq {NameOf(c.columns[i]) : i \in DOMAIN c.columns})
    IN  [ok |-> acc.ok /\ ~fails, begun |-> TRUE,
         scope |-> IF c.op = "with" THEN {NameOf(c.columns[i]) : i \in DOMAIN c.columns}
                   ELSE acc.scope \cup Binds(c)]

analyse(stmt) == FoldLeft(Analysed, [ok |-> TRUE, begun |-> FALSE, scope |-> {}], stmt).ok

----------------------------------------------------------------------------
\* planner.rs: MATCH

EndVar(pattern, i) == IF i + 1 \in DOMAIN pattern THEN pattern[i + 1].var ELSE ""

AnonVar(i) == "__anon_" \o (<<"0", "1", "2", "3", "4", "5", "6">>)[i]

\* The scan of the first node; a node met later, or with an input, is not scanned.
Scan(node, x) ==
    Project(IF node.label # "" THEN NodeByLabelScan(node.label) ELSE AllNodesScan,
            <<Column(Var("_node"), x)>>)

Expanded(rel, end, from, input) ==
    [op |-> IF rel.fixed /\ rel.max <= 1 THEN "Expand" ELSE "VarLenExpand",
     input |-> input, dir |-> rel.dir, types |-> rel.types, var |-> rel.var,
     end |-> end, from |-> from, min |-> rel.min, max |-> rel.max]

RECURSIVE build_match_plan(_, _, _, _)
build_match_plan(pattern, i, last, current) ==
    IF i > Len(pattern) THEN current
    ELSE LET e == pattern[i]
             x == IF e.var # "" THEN e.var ELSE AnonVar(i)
         IN  IF e.kind = "node"
             THEN build_match_plan(pattern, i + 1, x, Or(current, Scan(e, x)))
             ELSE build_match_plan(pattern, i + 1, last,
                      Expanded(e, EndVar(pattern, i), last, Or(current, AllNodesScan)))

MatchPlan(patterns, current) ==
    FoldLeft(LAMBDA acc, p : build_match_plan(p, 1, "_", acc), current, patterns)

----------------------------------------------------------------------------
\* planner.rs: RETURN and WITH

is_aggregate(e) == e.op = "agg"      \* a comparison is no BinaryOp

BoundKey(c) == IF is_aggregate(c.expr) THEN NameOf(c) ELSE c.expr.text

\* ORDER BY over an aggregate refers to what AggregateOp binds.
rewrite_order_key(e, columns) ==
    LET hits == {i \in DOMAIN columns : \/ columns[i].expr.text = e.text
                                        \/ columns[i].alias # "" /\ columns[i].alias = e.text}
        group == {i \in hits : ~is_aggregate(columns[i].expr)}
        Pick(s) == columns[CHOOSE i \in s : \A j \in s : i <= j]
    IN  IF hits = {} THEN e ELSE Var(BoundKey(Pick(IF group # {} THEN group ELSE hits)))

Windowed(c, order, input) ==
    LET sorted == IF order = <<>> THEN input ELSE [op |-> "Sort", input |-> input, order |-> order]
        skipped == IF c.skip = <<>> THEN sorted ELSE [op |-> "Skip", input |-> sorted, count |-> c.skip[1]]
    IN  IF c.limit = <<>> THEN skipped ELSE [op |-> "Limit", input |-> skipped, count |-> c.limit[1]]

build_return_plan(c, current) ==
    LET input == Or(current, SingleRow)
        keys == SelectSeq(c.columns, LAMBDA k : ~is_aggregate(k.expr))
        aggregates == SelectSeq(c.columns, LAMBDA k : is_aggregate(k.expr))
        grouped == [op |-> "Aggregate", input |-> input,
                    keys |-> [i \in DOMAIN keys |-> keys[i].expr], aggregates |-> aggregates]
        order == [i \in DOMAIN c.order |->
                     [c.order[i] EXCEPT !.expr = rewrite_order_key(@, c.columns)]]
        through == [i \in DOMAIN c.columns |-> Column(Var(BoundKey(c.columns[i])), NameOf(c.columns[i]))]
    IN  IF aggregates = <<>> THEN Project(Windowed(c, c.order, input), c.columns)
        ELSE Project(Windowed(c, order, grouped), through)

----------------------------------------------------------------------------
\* planner.rs: the barriers

\* What a read may observe; "*" is anything.
Observed(nodes, rels) == [nodes |-> nodes, rels |-> rels]

RECURSIVE read_footprint(_)
read_footprint(p) ==
    LET below == {read_footprint(p[f]) : f \in ChildrenOf(p)}
        types == IF p.op \notin {"Expand", "VarLenExpand"} THEN {}
                 ELSE IF p.types = <<>> THEN {"*"} ELSE ToSet(p.types)
        nodes == CASE p.op = "AllNodesScan" -> {"*"}
                   [] p.op = "NodeByLabelScan" -> {p.label}
                   [] OTHER -> {}
    IN  Observed(nodes \cup UNION {b.nodes : b \in below}, types \cup UNION {b.rels : b \in below})

\* What a CREATE or MERGE makes; an unlabelled node and an untyped relationship are "".
create_footprint(pattern) ==
    LET part(kind) == {i \in DOMAIN pattern : pattern[i].kind = kind}
    IN  Observed({pattern[i].label : i \in part("node")},
                 UNION {IF pattern[i].types = <<>> THEN {""} ELSE ToSet(pattern[i].types) : i \in part("rel")})

\* Mutant: a scan of all nodes is not taken to see a labelled node.
conflicts_SameNameOnly(read, write) ==
    \E k \in {"nodes", "rels"} : write[k] \cap read[k] # {}

conflicts(read, write) ==
    \E k \in {"nodes", "rels"} : \/ write[k] # {} /\ "*" \in read[k]
                                 \/ write[k] \cap read[k] # {}

is_pipeline_breaker(p) == p.op \in {"Aggregate", "Sort", "Eager"}

Eager(p) == [op |-> "Eager", input |-> p]

barrier_if_conflict(read, write) ==
    IF ~is_pipeline_breaker(read) /\ conflicts(read_footprint(read), write) THEN Eager(read) ELSE read

RECURSIVE insert_eager(_)
insert_eager(p) ==
    LET q == [f \in DOMAIN p |-> IF f \in ChildrenOf(p) THEN insert_eager(p[f]) ELSE p[f]]
    IN  IF p.op \in {"Create", "Merge"} /\ "input" \in DOMAIN p
        THEN [q EXCEPT !.input = barrier_if_conflict(@, create_footprint(p.pattern))]
        ELSE q

----------------------------------------------------------------------------
\* planner.rs: plan

Over(op, input, fields) == [op |-> op, input |-> input] @@ fields

RECURSIVE plan(_)

\* What a clause makes of the plan of the clauses before it.
Planned(current, c) ==
    LET read == Or(current, AllNodesScan)
        matched == MatchPlan(c.patterns, current)
        created == [op |-> "Create", pattern |-> FlattenSeq(c.patterns)]
        returned == build_return_plan(c, current)
    IN  CASE c.op = "match" -> matched
          [] c.op = "optional" -> Apply(AllNodesScan, matched)
          [] c.op = "where" -> Over("Filter", read, [pred |-> c.pred])
          [] c.op = "create" -> IF current = NoPlan THEN created ELSE created @@ [input |-> current]
          [] c.op = "delete" -> Over("Delete", read, [exprs |-> c.exprs, detach |-> c.detach])
          [] c.op = "set" -> Over("Set", read, [items |-> c.items])
          [] c.op = "remove" -> Over("Remove", read, [items |-> c.items])
          [] c.op = "merge" -> Over("Merge", Or(current, SingleRow),
                                    [pattern |-> c.pattern, on_create |-> c.on_create, on_match |-> c.on_match])
          [] c.op = "return" -> returned
          [] c.op = "with" -> IF c.where = <<>> THEN returned
                              ELSE Over("Filter", returned, [pred |-> c.where[1]])
          [] c.op = "unwind" -> Apply(read, NodeByLabelScan("__UNWIND_" \o c.var))
          [] c.op \in {"call", "foreach"} -> Apply(read, plan(c.body))
          [] OTHER -> current

plan(stmt) == insert_eager(Or(FoldLeft(Planned, NoPlan, stmt), AllNodesScan))
=============================================================================
