---------------------------- MODULE MCStructures ----------------------------
(***************************************************************************)
(* Instances of the index, graph and RDF components for TLC.               *)
(***************************************************************************)
EXTENDS BPlusTree, IndexManager, GraphStore, AdjacencyList, RdfTripleStore

\* The trees a run starts from: bulk loaded with 0, 4 or 12 keys, or built by 12 inserts.
MCStarts == {<<"load", 0>>, <<"load", 4>>, <<"load", 12>>, <<"insert", 12>>}

\* Index entries, in groups that a batch draws from; the values collide, extend each other or are too long.
MCEntry(i, id) == [index |-> i, id |-> id]
MCString(d) == Value("String", d)
MCValues == <<MCString(<<97>>), MCString(<<97, 0>>), MCString(<<255, 255, 255>>), Value("Null", 0)>>
MCEntryGroups ==
  {{MCEntry("label", <<1, 1>>), MCEntry("type", <<1, 1>>), MCEntry("adjacency", <<1, 1, 2>>), MCEntry("adjacency", <<1, 2, 2>>)},
   {MCEntry("property", <<1, v, 1>>) : v \in DOMAIN MCValues},
   {MCEntry("label", <<1, 1>>), MCEntry("rdf", <<1, 2, 3>>), MCEntry("rdf", <<3, 2, 1>>)}}

\* Sessions of the graph engine: what they start with, what they call and how often.
MCLabels == {1}
MCNames == <<1, 2>>
MCLooks == [v \in {"x", "y"} |-> IF v = "y" THEN "node" ELSE "property"]
MCSession(n, ops, maps, left) == [nodes |-> n, ops |-> ops, maps |-> maps, left |-> left]
MCScripts ==
  { MCSession(2, {"edge", "delete_edge", "delete_node", "freeze", "compact", "reopen"}, {<<>>}, 6),
    MCSession(0, {"node", "edge", "set", "delete_node", "compact", "reopen"},
         {<<>>, (1 :> "x"), (2 :> "y"), (1 :> "x") @@ (2 :> "x")}, 4),
    MCSession(1, {"node", "edge", "put", "delete_edge", "delete_node", "reopen"}, {<<>>}, 5) }

MCQuads == {<<"a", "p", "b", "default">>, <<"a", "p", "b", "g">>, <<"b", "p", "c", "default">>}
=============================================================================
