------------------------------ MODULE MCQuery ------------------------------
(***************************************************************************)
(* Instances of the Cypher components for TLC: values and lists for the    *)
(* evaluator, statements and graphs for the executor, token sequences and  *)
(* syntax trees for the parser.                                            *)
(***************************************************************************)
EXTENDS CypherQuery, CypherParser

-----------------------------------------------------------------------------
\* CypherValue
MCOperands == {Null, True, False, NegZero, NaN, Str(1), Str(2), List(<<>>), List(<<Integer(1)>>), List(<<Null>>), Entity(1)}
    \cup {Integer(n) : n \in {-8, 0, 1, 5, 7}} \cup {Float(n) : n \in {0, 1, 4}}
MCElements == {Null, Integer(1), Integer(2), Float(1), Str(1)}
MCCvCases ==
    [kind : {"operands"}, l : MCOperands, r : MCOperands, x : MCOperands]
    \cup [kind : {"list"}, x : MCElements, items : UNION {[1..n -> MCElements] : n \in 0..3}]
    \cup [kind : {"window"}, items : {[i \in 1..n |-> Integer(i)] : n \in 0..3}, from : -5..5, to : -5..5]
    \cup [kind : {"range"}, start : {-8, -2, 0, 3, 7}, end : {-8, -3, 0, 4, 6, 7}, step : {-3, -1, 0, 1, 2}]

-----------------------------------------------------------------------------
\* CypherQuery
MCPlain(n) == IF n = 0 THEN <<>> ELSE "k" :> Integer(n)
MCNode(label, n) == [label |-> label, props |-> MCPlain(n), live |-> TRUE]
MCEdge(type, from, to) == [type |-> type, props |-> <<>>, from |-> from, to |-> to, live |-> TRUE]

\* Three nodes, two labels, relationships of two types with a cycle; and a self-loop.
MCCqGraphs ==
  {[labels |-> <<"A", "B">>, types |-> <<"R", "S">>,
    nodes |-> <<MCNode(1, 2), MCNode(1, 1), MCNode(2, 2), MCNode(0, 0)>>, edges |-> es] :
      es \in {<<>>, <<MCEdge(1, 1, 2), MCEdge(1, 2, 3), MCEdge(2, 3, 1), MCEdge(1, 1, 3)>>,
              <<MCEdge(1, 1, 2), MCEdge(1, 2, 1), MCEdge(2, 2, 2)>>}}

MCN(x) == NodeP(x, "", <<>>)
MCL(x, label) == NodeP(x, label, <<>>)
MCMatch(pattern) == [op |-> "match", patterns |-> <<pattern>>]
MCRet(columns) == [op |-> "return", columns |-> columns, order |-> <<>>, skip |-> <<>>, limit |-> <<>>]
MCReturn(xs) == MCRet([i \in DOMAIN xs |-> Column(Var(xs[i]), "")])
MCRel(types, dir) == RelP("r", types, dir)

MCLengths == {<<TRUE, 1, 1>>, <<TRUE, 2, 2>>, <<FALSE, 0, 2>>, <<FALSE, 1, 3>>, <<FALSE, 2, Unbounded>>}
MCPathStatements ==
  {<<MCMatch(<<MCL("a", label), Hops(MCRel(types, dir), len[1], len[2], len[3]), MCN("b")>>),
     MCReturn(<<"a", "r", "b">>)>> :
      label \in {"", "A"}, types \in {<<>>, <<"R">>, <<"R", "S">>}, dir \in {"out", "in", "both"},
      len \in MCLengths}

MCWindows ==
  {<<MCMatch(<<MCN("n")>>),
     [MCRet(<<Column(Prop("n", "k"), "")>>) EXCEPT
         !.order = <<[expr |-> Prop("n", "k"), asc |-> asc]>>, !.skip = skip, !.limit = limit]>> :
      asc \in BOOLEAN, skip \in {<<>>, <<Integer(1)>>, <<Integer(5)>>}, limit \in {<<>>, <<Integer(0)>>, <<Integer(2)>>, <<Integer(-1)>>}}
MCCount == Column(Agg("count", Star, FALSE), "c")
MCGroupings ==
  {<<MCMatch(<<MCN("a"), MCRel(<<>>, "out"), MCN("b")>>), [MCRet(Append(keys, MCCount)) EXCEPT !.order = order, !.limit = limit]>> :
      keys \in {<<>>, <<Column(Prop("a", "k"), "")>>, <<Column(Prop("a", "k"), ""), Column(Prop("b", "k"), "")>>, <<Column(Var("a"), "")>>},
      order \in {<<>>, <<[expr |-> Var("c"), asc |-> FALSE]>>}, limit \in {<<>>, <<Integer(1)>>}}
  \cup {<<MCMatch(<<MCN("a")>>), MCRet(<<Column(Agg(f, Prop("a", "k"), d), "x")>>)>> :
         f \in {"collect", "sum", "min", "max"}, d \in BOOLEAN}

MCCreate(pattern) == [op |-> "create", patterns |-> <<pattern>>]
MCMade == {<<MCL("m", "A")>>, <<MCL("m", "B")>>, <<MCN("m")>>, <<MCL("p", "C"), RelP("", <<"R">>, "out"), MCL("q", "C")>>}
MCReads == {<<MCMatch(<<MCL("a", "A")>>)>>, <<MCMatch(<<MCN("a")>>)>>, <<>>,
            <<MCMatch(<<MCN("a"), MCRel(<<"R">>, "out"), MCN("b")>>)>>,
            <<MCMatch(<<MCN("a"), RelP("", <<>>, "out"), MCN("b")>>)>>,
            <<[op |-> "optional", patterns |-> <<<<MCL("a", "A")>>>>]>>,
            <<MCMatch(<<MCL("a", "A")>>), [op |-> "call", body |-> <<MCMatch(<<MCL("b", "B")>>)>>]>>,
            <<MCMatch(<<MCL("a", "A")>>), [op |-> "call", body |-> <<MCMatch(<<MCN("b")>>)>>]>>,
            <<MCMatch(<<MCL("a", "A")>>), [op |-> "where", pred |-> Eq(Prop("a", "k"), Lit(Integer(1)))]>>,
            <<MCMatch(<<MCL("a", "A")>>), [op |-> "with", columns |-> <<Column(Var("a"), "")>>, order |-> <<>>, skip |-> <<>>,
                limit |-> <<>>, where |-> <<Eq(Prop("a", "k"), Lit(Integer(1)))>>]>>,
            <<MCMatch(<<MCL("a", "A")>>), [op |-> "unwind", var |-> "x", expr |-> Lit(List(<<Integer(1)>>))]>>}
MCWrites ==
  {rd \o <<MCCreate(mk)>> \o tail : rd \in MCReads, mk \in MCMade, tail \in {<<>>, <<MCReturn(<<"m">>)>>, <<MCCreate(<<MCL("z", "B")>>)>>}}
  \cup {rd \o <<[op |-> "foreach", body |-> <<MCCreate(mk)>>]>> : rd \in MCReads, mk \in MCMade}

MCMerge(node, sets) == [op |-> "merge", pattern |-> <<node>>, on_create |-> sets, on_match |-> sets]
MCSetP(x, k, e) == [op |-> "prop", var |-> x, key |-> k, expr |-> e]
MCMergeNode(label) == NodeP("m", label, ("k" :> Lit(Integer(1))) @@ ("j" :> Lit(Str(1))))
MCMerges ==
  {rd \o <<MCMerge(MCMergeNode(label), sets)>> : rd \in {<<>>, <<MCMatch(<<MCN("a")>>)>>, <<MCMatch(<<MCL("m", "A")>>)>>},
      label \in {"A", "B", "C", ""}, sets \in {<<>>, <<MCSetP("m", "x", Lit(Integer(3)))>>}}

MCDelete(x, d) == [op |-> "delete", exprs |-> <<Var(x)>>, detach |-> d]
MCDeletes ==
  {<<MCMatch(p), MCDelete(x, d)>> : p \in {<<MCN("a"), MCRel(<<>>, dir), MCN("b")>> : dir \in {"out", "both"}},
      x \in {"a", "b", "r"}, d \in BOOLEAN}
  \cup {<<MCMatch(<<MCL("a", "A")>>), MCDelete("a", TRUE)>>}

MCSet(items) == [op |-> "set", items |-> items]
MCItems ==
  {<<MCSetP("r", "w", Prop("a", "k"))>>, <<MCSetP("b", "k", Prop("a", "k")), MCSetP("b", "x", Prop("b", "k"))>>,
   <<MCSetP("a", "k", Lit(Null)), MCSetP("b", "y", Lit(Integer(1)))>>,
   <<[op |-> "replace", var |-> "b", map |-> "z" :> Prop("a", "k")]>>,
   <<[op |-> "merge", var |-> "a", map |-> "z" :> Prop("b", "k")], [op |-> "label", var |-> "a", labels |-> {"B"}]>>}
MCSets ==
  {<<MCMatch(<<MCN("a"), MCRel(<<>>, dir), MCN("b")>>), MCSet(items), MCReturn(<<"a", "r", "b">>)>> :
      dir \in {"out", "in", "both"}, items \in MCItems}
MCRemoves ==
  {<<MCMatch(<<MCL("a", "A")>>), [op |-> "remove", items |-> <<item>>], MCReturn(<<"a">>)>> :
      item \in {[op |-> "prop", var |-> "a", key |-> "k", expr |-> Star], [op |-> "label", var |-> "a", labels |-> {"A"}]}}
MCBad == {<<MCMatch(<<MCN("a")>>), MCReturn(<<"zz">>)>>, <<[op |-> "where", pred |-> Lit(True)]>>,
          <<MCMatch(<<MCN("a")>>), MCSet(<<MCSetP("a", "x", Prop("y", "k"))>>)>>,
          <<MCMatch(<<MCN("a")>>), [op |-> "where", pred |-> Eq(Agg("count", Star, FALSE), Lit(Integer(1)))]>>,
          <<MCMatch(<<MCN("a")>>), [op |-> "where", pred |-> Prop("a", "k")], MCReturn(<<"a">>)>>,
          <<MCRet(<<Column(Lit(Integer(1)), "x")>>)>>, <<MCMatch(<<MCN("a")>>), [op |-> "union"], MCReturn(<<"a">>)>>}

MCFails == {<<MCMatch(<<MCN("a")>>), MCCreate(<<MCN("z")>>), [op |-> "where", pred |-> Prop("a", "k")], MCReturn(<<"a">>)>>}
MCReuse == {<<MCMatch(<<MCN("a")>>), MCCreate(<<MCN("a"), RelP("", <<"R">>, "out"), MCN("m")>>)>>}
MCInline == {<<MCMatch(<<NodeP("a", label, "k" :> Lit(Integer(1)))>>), MCReturn(<<"a">>)>> : label \in {"", "A", "C"}}
MCReading == MCInline \cup MCPathStatements \cup MCWindows \cup MCGroupings \cup MCBad
MCWriting == MCFails \cup MCReuse \cup MCWrites \cup MCDeletes \cup MCSets \cup MCRemoves
MCFollow == <<MCMatch(<<MCL("a", "A"), MCRel(<<>>, "both"), MCN("b")>>), MCReturn(<<"a", "r", "b">>)>>
MCCqScripts == {<<st>> : st \in MCReading} \cup {<<st, MCFollow>> : st \in MCWriting}
               \cup {<<s1, s2>> : s1 \in MCMerges, s2 \in {s \in MCMerges : Len(s) = 1}}

-----------------------------------------------------------------------------
\* CypherParser
MCSeqs(S, n) == UNION {[1..l -> S] : l \in 0..n}

\* chains of four operands, one of them perhaps with NOT in front where the grammar allows it
MCChains ==
    LET ops == {"OR", "xor", "AND", "=", "IN", "+", "-", "*", "^"}
        negs == {<<>>, <<"NOT">>}
        piece(op, neg) == <<op>> \o (IF op \in {"OR", "xor", "AND"} THEN neg ELSE <<>>)
    IN  {n1 \o <<"x">> \o piece(o1, n2) \o <<"y">> \o piece(o2, n1) \o <<"1">> \o piece(o3, n2) \o <<"k">> :
            n1 \in negs, n2 \in negs, o1 \in ops, o2 \in ops, o3 \in ops}
        \cup {n \o <<"x", o1, "y", o2, "1">> : n \in negs, o1 \in ops, o2 \in ops}

MCAtoms == {<<"var", "x">>, <<"lit", "1">>, <<"lit", "-1">>, <<"var", "q_set">>}

\* the expressions one level above those of S
MCAbove(S, T) ==
    {<<op, a, b>> : op \in {"OR", "=", "STARTS", "+", "-"}, a \in S, b \in T}
    \cup {<<u, a>> : u \in {"neg", "not", "isnull", "isnotnull"}, a \in S}
    \cup {<<"prop", a, "k">> : a \in S}
    \cup {<<"index", a, b>> : a \in S, b \in T}
    \cup {<<"slice", a, f, t>> : a \in S, f \in {<<>>} \cup {<<b>> : b \in T}, t \in {<<>>} \cup {<<b>> : b \in T}}
    \cup {<<"list", <<a, b>>>> : a \in S, b \in T} \cup {<<"list", <<>>>>}
    \cup {<<"map", << <<"k", a>> >> >> : a \in S}
    \cup {<<"call", "y", d, <<a, b>>>> : d \in BOOLEAN, a \in S, b \in T}
    \cup {<<"call", "y", d, << <<"star">> >> >> : d \in BOOLEAN} \cup {<<"call", "y", FALSE, <<>>>>}
    \cup {<<"case", s, << <<a, b>> >>, d>> : s \in {<<>>, << <<"var", "x">> >>}, a \in S, b \in T, d \in {<<>>, << <<"lit", "1">> >>}}
    \cup {<<"comp", "x", a, f, p>> : a \in S, f \in {<<>>} \cup {<<b>> : b \in T}, p \in {<<>>} \cup {<<b>> : b \in T}}
    \cup {<<"reduce", "x", a, "y", b, a>> : a \in S, b \in T}
    \cup {<<"all", "x", a, b>> : a \in S, b \in T}

MCTexts == LET one == MCAbove(MCAtoms, {<<"var", "x">>, <<"lit", "1">>})
           IN  MCAbove(MCAtoms, MCAtoms) \cup MCAbove(one, {<<"var", "y">>})
               \cup {<<op, <<"var", "y">>, b>> : op \in {"OR", "=", "-"}, b \in one}

MCStatements ==
    MCSeqs({"MATCH", "(", "x", ")", "RETURN", "SET", ";", "q_set", "optional"}, 4)
    \cup {<<"MATCH", "(", "x", ":", "k", "|", "y", "{", "k", ":", "1", "}", ")", "-", "[", "y", ":", "k", "*", "1", ".", ".", "2", "]", "->", "(", ")", t>> \o rest :
            t \in {"WHERE", "SET", "REMOVE", "detach", "DELETE", "RETURN", "MERGE", "WITH", "UNWIND", "CALL", "foreach", "UNION", "CREATE"},
            rest \in {<<"x", ".", "k", "=", "1", ",", "x", "+=", "y">>, <<"x", ":", "k", ",", "y", ".", "k">>, <<"DELETE", "x", "RETURN", "y">>,
                      <<"x", "AS", "y", "ORDER", "BY", "x", "DESC", "LIMIT", "1", "WHERE", "x">>, <<"DISTINCT", "*", "SKIP", "1">>,
                      <<"(", "x", ")", "ON", "CREATE", "SET", "x", "=", "y", "ON", "MATCH", "SET", "x", ":", "k", "RETURN", "x">>,
                      <<"(", "x", ")", "ON", "RETURN", "x">>, <<"{", "MATCH", "(", "x", ")", "<-", "(", "y", ")", "}", "RETURN", "x">>,
                      <<"x", ".", "y", "(", "1", ",", "2", ")", "yield", "x">>, <<"(", "x", "IN", "y", "|", "SET", "x", "=", "1", ")">>,
                      <<"all", "RETURN", "x">>, <<"y", "=", "(", "x", ")", "<-", "[", "]", "-", ">", "(", ")">>,
                      <<"exists", "(", "x", ")", "-", "(", "y", ")">>, <<"exists", "{", "MATCH", "(", "x", ")", "}">>}}

MCPrCases == {[kind |-> "chain", toks |-> c] : c \in MCChains} \cup {[kind |-> "text", ast |-> e] : e \in MCTexts}
             \cup {[kind |-> "stmt", toks |-> t] : t \in MCStatements}
=============================================================================
