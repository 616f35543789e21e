----------------------------- MODULE CypherParser -----------------------------
(***************************************************************************)
(* The recursive-descent parser of cypher/parser.rs over the tokens of     *)
(* cypher/lexer.rs, and the text that Display (cypher/ast.rs) gives for an *)
(* expression, under which the planner binds and finds result columns.     *)
(*                                                                         *)
(* A token is a string: a keyword in capitals, punctuation, a name, a      *)
(* number.  A name in back-ticks, like q_set, is a name to the lexer.  The *)
(* parser's position is the list of tokens it has not consumed.  An        *)
(* expression is a tuple that starts with its kind; an optional part is a  *)
(* sequence of at most one element.  Spans and error messages are left     *)
(* out.  A run parses an expression, prints and parses one, or parses a    *)
(* statement with error recovery, a clause at a time.                      *)
(***************************************************************************)
EXTENDS Integers, Sequences, FiniteSets

LOCAL INSTANCE SequencesExt

CONSTANT PrCases           \* the inputs: [kind, toks] or [kind, ast]

VARIABLES prcase,          \* the input
          prin,            \* the tokens that are left
          prclauses,       \* the clauses found so far
          prerrors,        \* the number of errors
          prskipped,       \* history: the tokens skip_to_next_clause passed over
          prpc             \* "ready" (an expression), "clause" (a statement) or "done"

prvars == <<prcase, prin, prclauses, prerrors, prskipped, prpc>>

----------------------------------------------------------------------------
\* Tokens

NumberTokens == {"1", "2", "-1", "-2"}
PlainNames == {"x", "y", "k", "all", "reduce", "exists", "xor", "optional", "detach", "foreach", "yield"}
Quoted == {"q_with", "q_set", "q_merge"}
Ident == PlainNames \cup Quoted

peek(in) == IF in = <<>> THEN "EOF" ELSE Head(in)

advance(in) == IF in = <<>> THEN in ELSE Tail(in)

Good(v, rest) == [ok |-> TRUE, v |-> v, rest |-> rest]
Bad(in) == [ok |-> FALSE, v |-> <<>>, rest |-> in]

\* The `?' after a call that may fail.
Then(r, F(_)) == IF r.ok THEN F(r) ELSE r

expect(t, in) == IF peek(in) = t THEN Good(t, advance(in)) ELSE Bad(in)

\* The closing token of something already parsed.
Close(t, v, in) == Then(expect(t, in), LAMBDA c : Good(v, c.rest))

expect_ident(in) == IF peek(in) \in Ident THEN Good(peek(in), advance(in)) ELSE Bad(in)

----------------------------------------------------------------------------
\* Expressions

Infix == {"OR", "AND", "xor", "NOT", "=", "<", "IN", "CONTAINS", "STARTS", "+", "-", "*", "^"}

infix_binding_power(op) ==
    LET bp == CASE op = "OR" -> 10 [] op = "xor" -> 20 [] op = "AND" -> 30
                [] op \in {"=", "<", "IN", "CONTAINS", "STARTS"} -> 40
                [] op \in {"+", "-"} -> 50 [] op = "*" -> 60 [] op = "^" -> 70 [] OTHER -> 0
    IN  IF bp = 0 THEN <<0, 0>> ELSE <<bp, bp + 1>>

PREFIX_NOT_BP == 35

\* What a symbol stands for, and a production: every symbol in turn.
RECURSIVE Nonterminal(_, _)
RECURSIVE Produce(_, _, _)
RECURSIVE Commas(_, _, _)
RECURSIVE parse_expression(_, _)

\* lhs followed by as many IS NULL and IS NOT NULL as there are
RECURSIVE NullTests(_, _)
NullTests(lhs, in) ==
    IF peek(in) # "IS" THEN Good(lhs, in)
    ELSE LET on == advance(in)
             end == IF peek(on) = "NOT" THEN advance(on) ELSE on
         IN  IF peek(end) # "NULL" THEN Bad(end)
             ELSE NullTests(<<IF peek(on) = "NOT" THEN "isnotnull" ELSE "isnull", lhs>>, advance(end))

\* consume_infix; NOT between two operands is read as an operator and refused
consume_infix(lhs, op, in) ==
    Then(IF op = "STARTS" THEN expect("WITH", advance(in)) ELSE Good("", advance(in)), LAMBDA on :
      Then(parse_expression(infix_binding_power(op)[2], on.rest), LAMBDA rhs :
        IF op = "NOT" THEN Bad(rhs.rest) ELSE Good(<<op, lhs, rhs.v>>, rhs.rest)))

RECURSIVE Infixes(_, _, _)
Infixes(lhs, min_bp, in) ==
    IF peek(in) \notin Infix \/ infix_binding_power(peek(in))[1] < min_bp THEN Good(lhs, in)
    ELSE Then(consume_infix(lhs, peek(in), in), LAMBDA one : Infixes(one.v, min_bp, one.rest))

\* An expression, absent before one of the tokens stop
Unless(stop, in) ==
    IF peek(in) \in stop THEN Good(<<>>, in)
    ELSE Then(parse_expression(0, in), LAMBDA e : Good(<<e.v>>, e.rest))

AfterDots(in) == IF peek(advance(in)) = "." THEN advance(advance(in)) ELSE advance(in)

\* An index or a slice
Subscript(lhs, in) ==
    Then(Unless({".", "]"}, in), LAMBDA from :
      IF peek(from.rest) # "." THEN Close("]", IF from.v = <<>> THEN lhs ELSE <<"index", lhs, from.v[1]>>, from.rest)
      ELSE Then(Unless({"]"}, AfterDots(from.rest)), LAMBDA to : Close("]", <<"slice", lhs, from.v, to.v>>, to.rest)))

Postfix(lhs, in) ==
    IF peek(in) = "[" THEN Subscript(lhs, advance(in))
    ELSE Then(expect_ident(advance(in)), LAMBDA id : Good(<<"prop", lhs, id.v>>, id.rest))

RECURSIVE parse_postfix(_, _)
parse_postfix(lhs, in) ==
    IF peek(in) \notin {".", "["} THEN Good(lhs, in)
    ELSE Then(Postfix(lhs, in), LAMBDA more : parse_postfix(more.v, more.rest))

\* A production whose parts become the parts of an expression of this kind.
Node(kind, syms, in) == Produce(syms, in, <<kind>>)

\* [x IN xs WHERE .. | ..], or a list
parse_list_or_comprehension(in) ==
    LET from == advance(in)
    IN  IF peek(from) = "]" THEN Good(<<"list", <<>>>>, advance(from))
        ELSE IF peek(from) \in Ident /\ peek(advance(from)) = "IN"
        THEN Node("comp", <<"IDENT", "IN", "EXPR", "?WHERE", "?|", "]">>, from)
        ELSE Then(Commas("EXPR", from, <<>>), LAMBDA list : Close("]", <<"list", list.v>>, list.rest))

RECURSIVE Alternatives(_, _)
Alternatives(in, alts) ==
    IF peek(in) # "WHEN" THEN Good(alts, in)
    ELSE Then(Produce(<<"WHEN", "EXPR", "THEN", "EXPR">>, in, <<>>), LAMBDA one : Alternatives(one.rest, Append(alts, one.v)))

parse_case_expression(in) ==
    Then(Unless({"WHEN"}, advance(in)), LAMBDA subject :
      Then(Alternatives(subject.rest, <<>>), LAMBDA alts :
        Produce(<<"?ELSE", "END">>, alts.rest, <<"case", subject.v, alts.v>>)))

parse_map_literal(in) ==
    IF peek(advance(in)) = "}" THEN Good(<<"map", <<>>>>, advance(advance(in)))
    ELSE Then(Commas("ENTRY", advance(in), <<>>), LAMBDA entries : Close("}", <<"map", entries.v>>, entries.rest))

\* f( [DISTINCT] [* | arguments] )
FunctionCall(name, in) ==
    LET distinct_ == peek(in) = "DISTINCT"
        on == IF distinct_ THEN advance(in) ELSE in
    IN  Then(CASE peek(on) = "*" -> Good(<< <<"star">> >>, advance(on))
               [] peek(on) = ")" -> Good(<<>>, on)
               [] OTHER -> Commas("EXPR", on, <<>>), LAMBDA args :
          Then(Close(")", <<"call", name, distinct_, args.v>>, args.rest), LAMBDA call : parse_postfix(call.v, call.rest)))

\* reduce, the quantifiers and EXISTS are names; any other is a call or a variable
parse_ident_primary(in) ==
    LET name == peek(in)  on == advance(in)
    IN  CASE name = "reduce" -> Node("reduce", <<"(", "IDENT", "=", "EXPR", ",", "IDENT", "IN", "EXPR", "|", "EXPR", ")">>, on)
          [] name = "all" -> Node("all", <<"(", "IDENT", "IN", "EXPR", "WHERE", "EXPR", ")">>, on)
          [] name = "exists" -> IF peek(on) = "{" THEN Node("exists", <<"{", "CLAUSES}", "}">>, on)
                                ELSE IF peek(on) = "(" THEN Node("exists", <<"PATTERN">>, on) ELSE Bad(on)
          [] OTHER -> IF peek(on) = "(" THEN FunctionCall(name, advance(on)) ELSE parse_postfix(<<"var", name>>, on)

parse_primary(in) ==
    LET t == peek(in)
    IN  CASE t \in NumberTokens \cup {"NULL", "TRUE"} -> Good(<<"lit", t>>, advance(in))
          [] t = "(" -> Then(Produce(<<"EXPR", ")">>, advance(in), <<>>), LAMBDA r : Good(r.v[1], r.rest))
          [] t = "[" -> parse_list_or_comprehension(in)
          [] t = "{" -> parse_map_literal(in)
          [] t = "*" -> Good(<<"star">>, advance(in))
          [] t = "CASE" -> parse_case_expression(in)
          [] t \in Ident -> parse_ident_primary(in)
          [] OTHER -> Bad(in)

\* A minus takes a primary without what may be postfixed to it, unless that is a name.
parse_unary(in) ==
    LET primary == parse_primary(IF peek(in) = "-" THEN advance(in) ELSE in)
    IN  IF peek(in) = "NOT"
        THEN Then(parse_expression(PREFIX_NOT_BP, advance(in)), LAMBDA e : Good(<<"not", e.v>>, e.rest))
        ELSE Then(primary, LAMBDA e : IF peek(in) = "-" THEN Good(<<"neg", e.v>>, e.rest) ELSE parse_postfix(e.v, e.rest))

parse_expression(min_bp, in) ==
    Then(parse_unary(in), LAMBDA first :
      Then(Infixes(first.v, min_bp, first.rest), LAMBDA all : NullTests(all.v, all.rest)))

----------------------------------------------------------------------------
\* Patterns

\* Of the entries of a property map, the last for a key.
LastWins(es) == {es[i] : i \in {j \in DOMAIN es : \A l \in DOMAIN es : l > j => es[l][1] # es[j][1]}}

\* :A|B, repeated; :|B is accepted in a node only
RECURSIVE parse_labels(_, _, _, _)
parse_labels(in, names, node, open_) ==
    LET on == advance(in)
    IN  IF ~(peek(in) = ":" \/ (open_ /\ peek(in) = "|")) THEN Good(names, in)
        ELSE IF peek(on) \in Ident THEN parse_labels(advance(on), Append(names, peek(on)), node, TRUE)
        ELSE IF node /\ peek(in) = ":" /\ peek(on) = "|" THEN parse_labels(on, names, node, TRUE)
        ELSE Bad(on)

parse_node_pattern(in) == Produce(<<"(", "?IDENT", "LABELS", "?{", ")">>, in, <<"node">>)

\* The name in brackets is a variable if a colon, a bracket, a star or a brace follows it.
RelVariable(in) ==
    IF peek(in) \in Ident /\ peek(advance(in)) \in {":", "]", "*", "{"} THEN Good(<<peek(in)>>, advance(in))
    ELSE Good(<<>>, in)

\* a star alone, or with n, n.., ..m or n..m; a missing minimum is 1
parse_path_length_suffix(in) ==
    LET least == IF peek(in) \in NumberTokens THEN Good(peek(in), advance(in)) ELSE Good("1", in)
        dot == advance(least.rest)
        most == advance(dot)
    IN  IF peek(in) \notin NumberTokens \cup {"."} THEN Good(<<"1", "none">>, in)
        ELSE IF peek(least.rest) # "." THEN Good(<<least.v, least.v>>, least.rest)
        ELSE IF peek(dot) # "." THEN Good(<<least.v, least.v>>, dot)
        ELSE IF peek(most) \in NumberTokens THEN Good(<<least.v, peek(most)>>, advance(most))
        ELSE Good(<<least.v, "none">>, most)

\* <-[..]-, -[..]->, -[..]-; two arrow heads are refused
parse_relationship_pattern(in) ==
    Then(IF peek(advance(in)) # "[" THEN Good(<<"rel">>, advance(in))
         ELSE Node("rel", <<"[", "RELVAR", "TYPES", "?*", "?{", "]">>, advance(in)), LAMBDA inner :
      LET dash == peek(inner.rest) = "-"
          head == peek(inner.rest) = "->" \/ (dash /\ peek(advance(inner.rest)) = ">")
          end == IF dash /\ head THEN advance(advance(inner.rest)) ELSE advance(inner.rest)
      IN  IF ~(dash \/ head) THEN Bad(inner.rest)
          ELSE IF head /\ peek(in) = "<-" THEN Bad(end)
          ELSE Good(Append(inner.v, CASE head -> "out" [] peek(in) = "<-" -> "in" [] OTHER -> "both"), end))

RECURSIVE Elements(_, _)
Elements(in, elements) ==
    IF peek(in) \notin {"-", "<-"} THEN Good(elements, in)
    ELSE Then(parse_relationship_pattern(in), LAMBDA rel :
           Then(parse_node_pattern(rel.rest), LAMBDA node : Elements(node.rest, elements \o <<rel.v, node.v>>)))

parse_pattern(in) == Then(parse_node_pattern(in), LAMBDA node : Elements(node.rest, <<node.v>>))

\* p = pattern, or a pattern
NamedPattern(in) ==
    IF peek(in) \in Ident /\ peek(advance(in)) = "=" THEN Produce(<<"IDENT", "=", "PATTERN">>, in, <<>>)
    ELSE Produce(<<"PATTERN">>, in, <<>>)

----------------------------------------------------------------------------
\* Clauses

\* :A:B in SET and REMOVE
RECURSIVE LabelNames(_, _)
LabelNames(in, names) ==
    IF peek(in) # ":" THEN Good(names, in)
    ELSE Then(expect_ident(advance(in)), LAMBDA id : LabelNames(id.rest, Append(names, id.v)))

SetItem(in) ==
    LET t == peek(advance(in))
    IN  IF peek(in) \notin Ident THEN Bad(in)
        ELSE CASE t = "." -> Produce(<<"IDENT", ".", "IDENT", "=", "EXPR">>, in, <<"property">>)
               [] t = ":" -> Produce(<<"IDENT", "NAMES">>, in, <<"label">>)
               [] t \in {"+=", "="} -> Produce(<<"IDENT", t, "EXPR">>, in, <<t>>)
               [] OTHER -> Bad(advance(in))

RemoveItem(in) ==
    LET t == peek(advance(in))
    IN  IF peek(in) \notin Ident THEN Bad(in)
        ELSE CASE t = "." -> Produce(<<"IDENT", ".", "IDENT">>, in, <<"property">>)
               [] t = ":" -> Produce(<<"IDENT", "NAMES">>, in, <<"label">>)
               [] OTHER -> Bad(advance(in))

\* ORDER BY, SKIP and LIMIT in any order; the last of each counts
RECURSIVE parse_order_skip_limit(_, _)
parse_order_skip_limit(in, parts) ==
    LET t == peek(in)
    IN  IF t \notin {"ORDER", "SKIP", "LIMIT"} THEN Good(parts, in)
        ELSE Then(Produce(IF t = "ORDER" THEN <<t, "BY", "ORDERS">> ELSE <<t, "EXPR">>, in, <<>>), LAMBDA r :
               parse_order_skip_limit(r.rest, [parts EXCEPT ![t] = r.v[1]]))

parse_return_body(kind, in) ==
    LET distinct_ == peek(in) = "DISTINCT"
        on == IF distinct_ THEN advance(in) ELSE in
    IN  Then(IF peek(on) = "*" THEN Good(<<>>, advance(on)) ELSE Commas("PROJECTION", on, <<>>), LAMBDA items :
          Then(parse_order_skip_limit(items.rest, [ORDER |-> <<>>, SKIP |-> <<>>, LIMIT |-> <<>>]), LAMBDA tail :
            Good(<<kind, distinct_, peek(on) = "*", items.v, tail.v>>, tail.rest)))

\* ON CREATE SET and ON MATCH SET; any other ON is left for what follows
RECURSIVE MergeActions(_, _)
MergeActions(in, actions) ==
    LET event == peek(advance(in))
    IN  IF peek(in) # "ON" \/ event \notin {"CREATE", "MATCH"} THEN Good(actions, in)
        ELSE Then(Produce(<<"ON", event, "SET", "SETS">>, in, <<>>), LAMBDA items :
               MergeActions(items.rest, [actions EXCEPT ![event] = items.v]))

RECURSIVE QualifiedName(_, _)
QualifiedName(in, name) ==
    IF peek(in) \notin Ident THEN Bad(in)
    ELSE IF peek(advance(in)) = "." THEN QualifiedName(advance(advance(in)), Append(name, peek(in)))
    ELSE Good(Append(name, peek(in)), advance(in))

\* CALL { .. }, or CALL procedure [(arguments)] [YIELD projections]
CallClause(in) ==
    IF peek(in) = "{" THEN Node("CALL", <<"{", "CLAUSES}", "}">>, in)
    ELSE Then(QualifiedName(in, <<>>), LAMBDA name :
           Then(IF peek(name.rest) # "(" THEN Good(<<>>, name.rest)
                ELSE IF peek(advance(name.rest)) = ")" THEN Good(<<>>, advance(advance(name.rest)))
                ELSE Produce(<<"(", "EXPRS", ")">>, name.rest, <<>>), LAMBDA args :
             Then(IF peek(args.rest) = "yield" THEN Commas("PROJECTION", advance(args.rest), <<>>)
                  ELSE Good(<<>>, args.rest), LAMBDA yields :
               Good(<<"CALL", name.v, args.v, yields.v>>, yields.rest))))

\* The clauses up to a closing token
RECURSIVE Clauses(_, _, _)
Clauses(close, in, clauses) ==
    IF peek(in) \in {close, "EOF"} THEN Good(clauses, in)
    ELSE Then(Nonterminal("CLAUSE", in), LAMBDA one : Clauses(close, one.rest, Append(clauses, one.v)))

MergeClause(in) ==
    Then(Node("MERGE", <<"MERGE", "PATTERN">>, in), LAMBDA merge :
      MergeActions(merge.rest, [pattern |-> merge.v, CREATE |-> <<>>, MATCH |-> <<>>]))

WithClause(in) ==
    Then(parse_return_body("WITH", advance(in)), LAMBDA body : Produce(<<"?WHERE">>, body.rest, body.v))

UnwindClause(in) == Produce(<<"UNWIND", "EXPR", "AS", "IDENT">>, in, <<"UNWIND">>)

\* A DISTINCT after UNION is seen, and not consumed.
UnionClause(in) ==
    LET all == peek(advance(in)) = "all"
    IN  Good(<<"UNION", all>>, IF all THEN advance(advance(in)) ELSE advance(in))

ForeachClause(in) == Produce(<<"foreach", "(", "IDENT", "IN", "EXPR", "|", "CLAUSES)", ")">>, in, <<"foreach">>)

parse_clause(in) ==
    LET t == peek(in)
    IN  CASE t \in {"MATCH", "CREATE"} -> Produce(<<t, "PATTERNS">>, in, <<t>>)
          [] t = "optional" -> Produce(<<t, "MATCH", "PATTERNS">>, in, <<t>>)
          [] t = "RETURN" -> parse_return_body(t, advance(in))
          [] t = "WHERE" -> Produce(<<t, "EXPR">>, in, <<t>>)
          [] t = "DELETE" -> Produce(<<t, "EXPRS">>, in, <<t>>)
          [] t = "detach" -> Produce(<<t, "DELETE", "EXPRS">>, in, <<t>>)
          [] t = "SET" -> Produce(<<t, "SETS">>, in, <<t>>)
          [] t = "REMOVE" -> Produce(<<t, "REMOVES">>, in, <<t>>)
          [] t = "MERGE" -> MergeClause(in)
          [] t = "WITH" -> WithClause(in)
          [] t = "UNWIND" -> UnwindClause(in)
          [] t = "UNION" -> UnionClause(in)
          [] t = "CALL" -> CallClause(advance(in))
          [] t = "foreach" -> ForeachClause(in)
          [] OTHER -> Bad(in)

----------------------------------------------------------------------------
\* What a symbol of a production stands for; any other symbol is the token itself

Nonterminals == {"IDENT", "EXPR", "EXPRS", "ENTRY", "PATTERN", "PATTERNS", "NAMED", "LABELS", "TYPES", "NAMES", "RELVAR",
                 "SET1", "SETS", "REMOVE1", "REMOVES", "ORDER1", "ORDERS", "PROJECTION", "CLAUSE", "CLAUSES}", "CLAUSES)",
                 "?WHERE", "?ELSE", "?|", "?AS", "?IDENT", "?{", "?*", "?DESC"}

\* What follows an optional token t: <<>> if t is not there.
Optional(t, sym, in) == IF peek(in) = t THEN Produce(<<t, sym>>, in, <<>>) ELSE Good(<<>>, in)

Nonterminal(sym, in) ==
    CASE sym = "IDENT" -> expect_ident(in)
      [] sym = "EXPR" -> parse_expression(0, in)
      [] sym = "EXPRS" -> Commas("EXPR", in, <<>>)
      [] sym = "ENTRY" -> Produce(<<"IDENT", ":", "EXPR">>, in, <<>>)
      [] sym = "PATTERN" -> parse_pattern(in)
      [] sym = "NAMED" -> NamedPattern(in)
      [] sym = "PATTERNS" -> Commas("NAMED", in, <<>>)
      [] sym = "LABELS" -> parse_labels(in, <<>>, TRUE, FALSE)
      [] sym = "TYPES" -> parse_labels(in, <<>>, FALSE, FALSE)
      [] sym = "NAMES" -> LabelNames(in, <<>>)
      [] sym = "RELVAR" -> RelVariable(in)
      [] sym = "SET1" -> SetItem(in)
      [] sym = "SETS" -> Commas("SET1", in, <<>>)
      [] sym = "REMOVE1" -> RemoveItem(in)
      [] sym = "REMOVES" -> Commas("REMOVE1", in, <<>>)
      [] sym = "ORDER1" -> Produce(<<"EXPR", "?DESC">>, in, <<>>)
      [] sym = "ORDERS" -> Commas("ORDER1", in, <<>>)
      [] sym = "PROJECTION" -> Produce(<<"EXPR", "?AS">>, in, <<>>)
      [] sym = "CLAUSE" -> parse_clause(in)
      [] sym = "CLAUSES}" -> Clauses("}", in, <<>>)
      [] sym = "CLAUSES)" -> Clauses(")", in, <<>>)
      [] sym = "?WHERE" -> Optional("WHERE", "EXPR", in)
      [] sym = "?ELSE" -> Optional("ELSE", "EXPR", in)
      [] sym = "?|" -> Optional("|", "EXPR", in)
      [] sym = "?AS" -> Optional("AS", "IDENT", in)
      [] sym = "?IDENT" -> IF peek(in) \in Ident THEN Good(<<peek(in)>>, advance(in)) ELSE Good(<<>>, in)
      [] sym = "?{" -> IF peek(in) # "{" THEN Good({}, in)
                       ELSE Then(parse_map_literal(in), LAMBDA r : Good(LastWins(r.v[2]), r.rest))
      [] sym = "?*" -> IF peek(in) = "*" THEN parse_path_length_suffix(advance(in)) ELSE Good(<<"1", "1">>, in)
      [] sym = "?DESC" -> Good(peek(in) # "DESC", IF peek(in) \in {"ASC", "DESC"} THEN advance(in) ELSE in)

\* The values of the symbols that are not tokens are added to parts.
Produce(syms, in, parts) ==
    IF syms = <<>> THEN Good(parts, in)
    ELSE LET sym == Head(syms)
         IN  IF sym \in Nonterminals
             THEN Then(Nonterminal(sym, in), LAMBDA r : Produce(Tail(syms), r.rest, Append(parts, r.v)))
             ELSE Then(expect(sym, in), LAMBDA r : Produce(Tail(syms), r.rest, parts))

Commas(sym, in, items) ==
    Then(Nonterminal(sym, in), LAMBDA r :
      IF peek(r.rest) = "," THEN Commas(sym, advance(r.rest), Append(items, r.v))
      ELSE Good(Append(items, r.v), r.rest))

\* parse_statement: semicolons between clauses are skipped; no clause at all is an error
RECURSIVE parse_statement(_, _)
parse_statement(in, clauses) ==
    IF in = <<>> THEN IF clauses = <<>> THEN Bad(in) ELSE Good(clauses, in)
    ELSE IF peek(in) = ";" THEN parse_statement(advance(in), clauses)
    ELSE Then(Nonterminal("CLAUSE", in), LAMBDA one : parse_statement(one.rest, Append(clauses, one.v)))

----------------------------------------------------------------------------
\* Display, as the tokens that the lexer makes of the text

\* A name is printed without its back-ticks, and may then be read as a keyword.
Printed(name) == CASE name = "q_with" -> "WITH" [] name = "q_set" -> "SET" [] name = "q_merge" -> "MERGE" [] OTHER -> name

Joined(lists, sep) == FoldLeft(LAMBDA acc, l : IF acc = <<>> THEN l ELSE acc \o sep \o l, <<>>, lists)

RECURSIVE Display(_)

Parenthesised(op, l, r) == <<"(">> \o l \o (IF op = "STARTS" THEN <<"STARTS", "WITH">> ELSE <<op>>) \o r \o <<")">>

\* A minus and the digits that follow it are one number to the lexer.
Negated(toks) == IF Head(toks) \in {"1", "2"} THEN <<"-" \o Head(toks)>> \o Tail(toks) ELSE <<"-">> \o toks

DisplayOpt(t, part) == IF part = <<>> THEN <<>> ELSE t \o Display(part[1])

Display(e) ==
    LET k == e[1]
        all(es) == [i \in DOMAIN es |-> Display(es[i])]
    IN  CASE k = "lit" -> <<e[2]>>
          [] k = "var" -> <<Printed(e[2])>>
          [] k = "star" -> <<"*">>
          [] k = "prop" -> Display(e[2]) \o <<".", Printed(e[3])>>
          [] k = "index" -> Display(e[2]) \o <<"[">> \o Display(e[3]) \o <<"]">>
          [] k = "slice" -> Display(e[2]) \o <<"[">> \o DisplayOpt(<<>>, e[3]) \o <<".", ".">> \o DisplayOpt(<<>>, e[4]) \o <<"]">>
          [] k \in Infix -> Parenthesised(k, Display(e[2]), Display(e[3]))
          [] k = "neg" -> Negated(Display(e[2]))
          [] k = "not" -> <<"(", "NOT">> \o Display(e[2]) \o <<")">>
          [] k = "isnull" -> Display(e[2]) \o <<"IS", "NULL">>
          [] k = "isnotnull" -> Display(e[2]) \o <<"IS", "NOT", "NULL">>
          [] k = "list" -> <<"[">> \o Joined(all(e[2]), <<",">>) \o <<"]">>
          [] k = "map" -> <<"{">> \o Joined([i \in DOMAIN e[2] |-> <<Printed(e[2][i][1]), ":">> \o Display(e[2][i][2])], <<",">>) \o <<"}">>
          [] k = "call" -> <<Printed(e[2]), "(">> \o (IF e[3] THEN <<"DISTINCT">> ELSE <<>>) \o Joined(all(e[4]), <<",">>) \o <<")">>
          [] k = "case" -> <<"CASE">> \o DisplayOpt(<<>>, e[2])
                           \o Joined([i \in DOMAIN e[3] |-> <<"WHEN">> \o Display(e[3][i][1]) \o <<"THEN">> \o Display(e[3][i][2])], <<>>)
                           \o DisplayOpt(<<"ELSE">>, e[4]) \o <<"END">>
          [] k = "comp" -> <<"[", Printed(e[2]), "IN">> \o Display(e[3]) \o DisplayOpt(<<"WHERE">>, e[4]) \o DisplayOpt(<<"|">>, e[5]) \o <<"]">>
          [] k = "reduce" -> <<k, "(", Printed(e[2]), "=">> \o Display(e[3]) \o <<",", Printed(e[4]), "IN">> \o Display(e[5])
                             \o <<"|">> \o Display(e[6]) \o <<")">>
          [] k = "all" -> <<k, "(", Printed(e[2]), "IN">> \o Display(e[3]) \o <<"WHERE">> \o Display(e[4]) \o <<")">>

----------------------------------------------------------------------------
\* The state machine

PRInit ==
    /\ prcase \in PrCases
    /\ prin = IF prcase.kind = "text" THEN <<>> ELSE prcase.toks
    /\ prclauses = <<>> /\ prerrors = 0 /\ prskipped = {} /\ prpc = (IF prcase.kind = "stmt" THEN "clause" ELSE "ready")

\* An expression is parsed, or printed and parsed; prclauses keeps the outcome.
parse_text ==
    /\ prpc = "ready"
    /\ prclauses' = <<Nonterminal("EXPR", IF prcase.kind = "text" THEN Display(prcase.ast) ELSE prcase.toks)>>
    /\ prin' = <<>> /\ prpc' = "done"
    /\ UNCHANGED <<prcase, prerrors, prskipped>>

\* errors.push(e); the count stops at MaxErrors
MaxErrors == 5
Counted == IF prerrors < MaxErrors THEN prerrors + 1 ELSE prerrors

AfterSemis(in) == LET at == {i \in DOMAIN in : in[i] # ";"}
                  IN  IF at = {} THEN <<>> ELSE SubSeq(in, CHOOSE i \in at : \A j \in at : i <= j, Len(in))

Boundary == {"MATCH", "RETURN", "WHERE", "CREATE", "DELETE", ";", "optional", "detach", "foreach"} \cup Quoted

\* How many tokens skip_to_next_clause passes over
RECURSIVE skip_to_next_clause(_)
skip_to_next_clause(in) ==
    IF in = <<>> \/ peek(in) \in Boundary THEN 0 ELSE 1 + skip_to_next_clause(advance(in))

\* One turn of the loop of parse_statement_with_recovery; after an error the parser skips on from there.
Turn(one, from, errors) ==
    IF one.ok THEN prin' = one.rest /\ prclauses' = Append(prclauses, one.v) /\ UNCHANGED <<prerrors, prskipped, prpc>>
    ELSE LET n == skip_to_next_clause(from)
         IN  /\ prin' = SubSeq(from, n + 1, Len(from))
             /\ prskipped' = prskipped \cup {from[i] : i \in 1..n}
             /\ prerrors' = errors
             /\ UNCHANGED <<prclauses, prpc>>

\* Mutant: the parser goes back to the start of the clause that failed.
Recover_Rewinds(one, in) == Turn(one, in, Counted)

\* The position stays where the error was met.
Recover(one, in) == Turn(one, one.rest, Counted)

parse_statement_with_recovery ==
    /\ prpc = "clause"
    /\ LET in == AfterSemis(prin)
       IN  IF in = <<>> THEN prin' = in /\ prpc' = "done" /\ UNCHANGED <<prclauses, prerrors, prskipped>>
           ELSE Recover(Nonterminal("CLAUSE", in), in)
    /\ UNCHANGED prcase

PRNext == parse_text \/ parse_statement_with_recovery

PRSpec == PRInit /\ [][PRNext]_prvars

----------------------------------------------------------------------------
\* Properties

\* The meaning of a chain of operands and infix operators, by the precedence of the openCypher
\* grammar: the last of the operators that bind least splits it; NOT covers what binds more than AND.
Level(op) == CASE op = "OR" -> 1 [] op = "xor" -> 2 [] op = "AND" -> 3 [] op \in {"=", "<", "IN", "CONTAINS"} -> 5
               [] op \in {"+", "-"} -> 6 [] op = "*" -> 7 [] op = "^" -> 8

RECURSIVE Meaning(_)
Meaning(toks) ==
    LET ops == {i \in 2..Len(toks) : toks[i] \in Infix \ {"NOT"}}
        least == {i \in ops : \A j \in ops : Level(toks[i]) < Level(toks[j]) \/ (Level(toks[i]) = Level(toks[j]) /\ j <= i)}
        at == CHOOSE i \in least : TRUE
    IN  IF ops # {} /\ ~(toks[1] = "NOT" /\ Level(toks[at]) > 4)
        THEN <<toks[at], Meaning(SubSeq(toks, 1, at - 1)), Meaning(SubSeq(toks, at + 1, Len(toks)))>>
        ELSE IF toks[1] = "NOT" THEN <<"not", Meaning(Tail(toks))>>
        ELSE <<IF toks[1] \in NumberTokens THEN "lit" ELSE "var", toks[1]>>

\* Whatever operators a chain mixes, and wherever NOT stands in it, the parser groups it as their
\* precedence says: equal ones from the left (parse_expression, consume_infix, infix_binding_power).
GroupedByPrecedence == prpc = "done" /\ prcase.kind = "chain" => prclauses[1] = Good(Meaning(prcase.toks), <<>>)

\* The expressions whose text is unambiguous: an IS NULL is not followed by an operator, nothing is postfixed to
\* a minus or an IS NULL, a minus precedes no number and no minus, names need no back-ticks, a slice has no start.
RECURSIVE Prints(_)
Prints(e) ==
    LET k == e[1]
        NullTest(x) == x[1] \in {"isnull", "isnotnull"}
        Closed(x) == x[1] # "neg" /\ ~NullTest(x)
        Opt(part) == part = <<>> \/ Prints(part[1])
    IN  CASE k \in {"lit", "star"} -> TRUE
          [] k = "var" -> e[2] \notin Quoted
          [] k = "prop" -> Closed(e[2]) /\ Prints(e[2])
          [] k = "index" -> Closed(e[2]) /\ Prints(e[2]) /\ Prints(e[3])
          [] k = "slice" -> Closed(e[2]) /\ Prints(e[2]) /\ e[3] = <<>> /\ Opt(e[4])
          [] k \in Infix -> ~NullTest(e[2]) /\ Prints(e[2]) /\ Prints(e[3])
          [] k = "neg" -> e[2][1] \in {"var", "call", "list", "map", "case", "not"} \cup Infix /\ Prints(e[2])
          [] k \in {"not", "isnull", "isnotnull"} -> Prints(e[2])
          [] k = "list" -> \A i \in DOMAIN e[2] : Prints(e[2][i])
          [] k = "map" -> \A i \in DOMAIN e[2] : Prints(e[2][i][2])
          [] k = "call" -> \A i \in DOMAIN e[4] : Prints(e[4][i])
          [] k = "case" -> Opt(e[2]) /\ Opt(e[4]) /\ \A i \in DOMAIN e[3] : Prints(e[3][i][1]) /\ Prints(e[3][i][2])
          [] k = "comp" -> Prints(e[3]) /\ Opt(e[4]) /\ Opt(e[5])
          [] k = "reduce" -> Prints(e[3]) /\ Prints(e[5]) /\ Prints(e[6])
          [] k = "all" -> Prints(e[3]) /\ Prints(e[4])

\* The text of such an expression parses back to it, so two of them never share the column name or the
\* ORDER BY key that the planner makes of the text (Display for Expression, parse_expression).
TextParsesBack == prpc = "done" /\ prcase.kind = "text" /\ Prints(prcase.ast) => prclauses[1] = Good(prcase.ast, <<>>)

\* Parsing with recovery reports no error exactly when parsing succeeds, or there is no clause at all, and then
\* finds the same clauses (parse_statement, parse_statement_with_recovery).
RecoveryAgrees ==
    prpc = "done" /\ prcase.kind = "stmt" =>
      LET plain == parse_statement(prcase.toks, <<>>)
      IN  IF prerrors = 0 THEN plain = Good(prclauses, <<>>) \/ (~plain.ok /\ AfterSemis(prcase.toks) = <<>>)
          ELSE ~plain.ok

\* Every turn of recovery consumes a token, so it ends, on a text that has no clause keyword in
\* back-ticks: what stops skip_to_next_clause is consumed by the parse_clause of the next turn.
RecoveryProgresses ==
    [][prpc = "clause" /\ prpc' = "clause" /\ (\A i \in DOMAIN prcase.toks : prcase.toks[i] \notin Quoted)
         => Len(prin') < Len(prin)]_prvars

\* The parser gives a text the meaning of its grammar: operators group by precedence, the text of
\* an expression parses back to it, and parsing with recovery reports an error exactly when the
\* plain parser does, and ends.
ParserFaithful ==
    /\ [](GroupedByPrecedence /\ TextParsesBack /\ RecoveryAgrees)
    /\ RecoveryProgresses

\* Refuted: every turn consumes a token, on any text.
RecoveryAlwaysProgresses == [][prpc = "clause" /\ prpc' = "clause" => Len(prin') < Len(prin)]_prvars

\* Refuted: recovery passes over no token that starts a clause ("Skip tokens until we reach a token that
\* could start a new clause").
SkipsNoClause == prskipped \cap {"SET", "REMOVE", "MERGE", "WITH", "UNWIND", "UNION", "CALL"} = {}

\* Refuted: ^ groups from the right ("right-associative").
PowerFromRight ==
    prpc = "done" /\ prcase.kind = "chain" /\ prcase.toks = <<"x", "^", "y", "^", "1">> =>
      prclauses[1].v = <<"^", <<"var", "x">>, <<"^", <<"var", "y">>, <<"lit", "1">>>>>>

\* Refuted: a slice with a start parses ("[expr..], [..expr], [expr..expr], or [expr]").
SlicesParse == prpc = "done" /\ prcase.kind = "text" /\ prcase.ast[1] = "slice" => prclauses[1].ok

\* Refuted: every text parses back.
AnyTextParsesBack == prpc = "done" /\ prcase.kind = "text" => prclauses[1] = Good(prcase.ast, <<>>)
=============================================================================
