----------------------------- MODULE GraphStore -----------------------------
(***************************************************************************)
(* The record layer of the graph: node, edge and property records on       *)
(* slotted pages, the doubly linked adjacency lists threaded through the    *)
(* edge records, the property chains, the RAM indexes, the frozen CSR copy  *)
(* of the adjacency, compaction, and the rebuild of the indexes from the    *)
(* pages when the database is opened again (src/src/graph/engine.rs,        *)
(* graph.rs, record.rs, csr.rs).                                            *)
(*                                                                         *)
(* Operations run one at a time (the engine is borrowed mutably), so each   *)
(* is one step; logging, locks and the crash in the middle of an operation  *)
(* are GraphEngine's subject.                                               *)
(*                                                                         *)
(* A page holds PerPage records.  A property value stands for a value and,  *)
(* through Looks, for the encoded length of the property record that        *)
(* carries it: rebuild_indexes tells record kinds apart by length only.     *)
(* (A property record of 64 bytes is taken for an edge in the same way; the *)
(* model keeps to the 32 bytes of a node.)                                  *)
(***************************************************************************)
EXTENDS Integers, Sequences, FiniteSets, TLC
LOCAL INSTANCE SequencesExt
LOCAL INSTANCE FiniteSetsExt

CONSTANTS PerPage,      \* records per page
          Labels,       \* label ids of nodes (also used as edge types)
          PropNames,        \* property names, in sorted order: a sequence
          Looks,        \* value -> "property" or "node"
          PhantomNode,  \* the node_id the bytes of a 32-byte property record spell
          PutIds,       \* ids a caller of put_node or put_edge chooses
          Scripts,      \* the kinds of session explored
          MaxSlots      \* bound on records written

VARIABLES engine,       \* the GraphStorageEngine
          graph,        \* what was created and not deleted: nodes and edges
          script,       \* which session this is, and the operations left in it
          past          \* what happened: see GSInit
gsvars == <<engine, graph, script, past>>

NULL == <<0, 0>>

NodeRecord(id, label, chain) ==
  [kind |-> "node", id |-> id, label |-> label, prop |-> chain,
   out |-> NULL, in |-> NULL, deleted |-> FALSE]

EdgeRecord(id, type, src, dst, srcSlot, dstSlot, chain) ==
  [kind |-> "edge", id |-> id, type |-> type, src |-> src, dst |-> dst,
   srcNode |-> srcSlot, dstNode |-> dstSlot, prop |-> chain,
   prevS |-> NULL, nextS |-> NULL, prevT |-> NULL, nextT |-> NULL,
   deleted |-> FALSE]

PropertyRecord(name, value, next) ==
  [kind |-> "property", name |-> name, value |-> value, next |-> next]

Thawed == [frozen |-> FALSE, row_ptr |-> <<>>, columns |-> <<>>]

NewEngine ==
  [heap |-> <<>>, node_pages |-> <<>>, edge_pages |-> <<>>, property_pages |-> <<>>,
   node_index |-> <<>>, label_index |-> <<>>, edge_index |-> <<>>,
   type_index |-> <<>>, property_index |-> <<>>,
   node_free_list |-> <<>>, edge_free_list |-> <<>>,
   csr |-> Thawed, next_id |-> 1]

read_record(e, s) == e.heap[s[1]][s[2]]

overwrite_record(e, s, r) == [e EXCEPT !.heap[s[1]][s[2]] = r]

\* The most recent page of the list with room, or a new page.
insert_record(e, list, r) ==
  LET fits == {i \in DOMAIN e[list] : Len(e.heap[e[list][i]]) < PerPage}
      p    == IF fits = {} THEN Len(e.heap) + 1 ELSE e[list][Max(fits)]
  IN IF fits = {}
       THEN [engine |-> [e EXCEPT !.heap = Append(@, <<r>>), ![list] = Append(@, p)],
             slot   |-> <<p, 1>>]
       ELSE [engine |-> [e EXCEPT !.heap[p] = Append(@, r)],
             slot   |-> <<p, Len(e.heap[p]) + 1>>]

Without(f, k) == [x \in DOMAIN f \ {k} |-> f[x]]

\* Property chain, written from the last name to the first, and the entry of
\* each value in the property index (its key: value and entity; the name is not
\* part of it, and the entries of the chain it replaces stay).
write_property_chain(e, id, props) ==
  LET Put1(acc, n) ==
        LET r == insert_record(acc.engine, "property_pages",
                               PropertyRecord(n, props[n], acc.slot))
        IN [engine |-> [r.engine EXCEPT
                          !.property_index = (<<props[n], id>> :> r.slot) @@ @],
            slot   |-> r.slot]
  IN FoldLeft(Put1, [engine |-> e, slot |-> NULL],
              Reverse(SelectSeq(PropNames, LAMBDA n : n \in DOMAIN props)))

Indexed(e, index, sub, id, key, slot) ==
  [e EXCEPT ![index] = (id :> slot) @@ @, ![sub] = (<<key, id>> :> slot) @@ @]

---------------------------------------------------------------------------
\* Adjacency lists

\* Bug: the old head is not told of its new predecessor.
wire_source_HeadUntold(e, edge, node) ==
  LET old == read_record(e, node).out
      r   == [read_record(e, edge) EXCEPT !.nextS = old, !.prevS = NULL]
      e1  == overwrite_record(e, edge, r)
  IN overwrite_record(e1, node, [read_record(e1, node) EXCEPT !.out = edge])

wire_source(e, edge, node) ==
  LET old == read_record(e, node).out
      r   == [read_record(e, edge) EXCEPT !.nextS = old, !.prevS = NULL]
      e1  == overwrite_record(e, edge, r)
      e2  == IF old = NULL THEN e1
             ELSE overwrite_record(e1, old, [read_record(e1, old) EXCEPT !.prevS = edge])
  IN overwrite_record(e2, node, [read_record(e2, node) EXCEPT !.out = edge])

wire_target(e, edge, node) ==
  LET old == read_record(e, node).in
      r   == [read_record(e, edge) EXCEPT !.nextT = old, !.prevT = NULL]
      e1  == overwrite_record(e, edge, r)
      e2  == IF old = NULL THEN e1
             ELSE overwrite_record(e1, old, [read_record(e1, old) EXCEPT !.prevT = edge])
  IN overwrite_record(e2, node, [read_record(e2, node) EXCEPT !.in = edge])

\* An edge without predecessor is taken for the head of its list.
unwire_source(e, edge, node) ==
  LET prev == read_record(e, edge).prevS
      next == read_record(e, edge).nextS
      e1   == IF prev = NULL THEN e
              ELSE overwrite_record(e, prev, [read_record(e, prev) EXCEPT !.nextS = next])
      e2   == IF next = NULL THEN e1
              ELSE overwrite_record(e1, next, [read_record(e1, next) EXCEPT !.prevS = prev])
      e3   == overwrite_record(e2, edge, [read_record(e2, edge) EXCEPT !.prevS = NULL, !.nextS = NULL])
  IN IF prev = NULL
       THEN overwrite_record(e3, node, [read_record(e3, node) EXCEPT !.out = next])
       ELSE e3

unwire_target(e, edge, node) ==
  LET prev == read_record(e, edge).prevT
      next == read_record(e, edge).nextT
      e1   == IF prev = NULL THEN e
              ELSE overwrite_record(e, prev, [read_record(e, prev) EXCEPT !.nextT = next])
      e2   == IF next = NULL THEN e1
              ELSE overwrite_record(e1, next, [read_record(e1, next) EXCEPT !.prevT = prev])
      e3   == overwrite_record(e2, edge, [read_record(e2, edge) EXCEPT !.prevT = NULL, !.nextT = NULL])
  IN IF prev = NULL
       THEN overwrite_record(e3, node, [read_record(e3, node) EXCEPT !.in = next])
       ELSE e3

---------------------------------------------------------------------------
\* Operations of the engine.  e is the engine before, the value the engine after.

create_node_atomic(e, id, label, props) ==
  LET chain == write_property_chain(e, id, props)
      r     == insert_record(chain.engine, "node_pages", NodeRecord(id, label, chain.slot))
  IN Indexed(r.engine, "node_index", "label_index", id, label, r.slot)

\* lookup_node_slot: the slot of a node in the primary index, which keeps the
\* nodes deleted since the database was opened.
create_edge_atomic(e, id, type, src, dst, props) ==
  LET chain == write_property_chain(e, id, props)
      s     == e.node_index[src]
      t     == e.node_index[dst]
      r     == insert_record(chain.engine, "edge_pages",
                             EdgeRecord(id, type, src, dst, s, t, chain.slot))
      wired == wire_target(wire_source(r.engine, r.slot, s), r.slot, t)
  IN Indexed(wired, "edge_index", "type_index", id, type, r.slot)

engine_delete_node(e, id) ==
  LET slot == e.node_index[id]
      r    == read_record(e, slot)
      e1   == overwrite_record(e, slot, [r EXCEPT !.deleted = TRUE])
  IN [e1 EXCEPT !.label_index = Without(@, <<r.label, id>>),
                !.node_free_list = Append(@, slot)]

engine_delete_edge(e, id) ==
  LET slot == e.edge_index[id]
      r    == read_record(e, slot)
      e1   == unwire_target(unwire_source(e, slot, r.srcNode), slot, r.dstNode)
      e2   == overwrite_record(e1, slot, [read_record(e1, slot) EXCEPT !.deleted = TRUE])
  IN [e2 EXCEPT !.type_index = Without(@, <<r.type, id>>),
                !.edge_free_list = Append(@, slot)]

\* rewrite_node_properties_engine / rewrite_edge_properties_engine
attach_properties(e, index, id, props) ==
  LET chain == write_property_chain(e, id, props)
      slot  == e[index][id]
  IN overwrite_record(chain.engine, slot,
                      [read_record(chain.engine, slot) EXCEPT !.prop = chain.slot])

\* What the length of a record makes of it.
LooksLike(r) == IF r.kind = "property" THEN Looks[r.value] ELSE r.kind

IdOf(r) == IF r.kind = "property" THEN PhantomNode ELSE r.id

\* The bytes of a property record spell no DELETED flag here.
IsDead(r) == r.kind # "property" /\ r.deleted

SlotsOf(e, pages, kind) ==
  {<<p, i>> \in pages \X (1..PerPage) :
     i <= Len(e.heap[p]) /\ LooksLike(e.heap[p][i]) = kind}

Tracked(e, list) == Range(e[list])

\* Pages without a live record leave the page lists; the free lists forget them.
engine_compact(e) ==
  LET Keep(list, kind) == SelectSeq(e[list], LAMBDA p :
        \E s \in SlotsOf(e, {p}, kind) : ~IsDead(read_record(e, s)))
      Prune(free, pages) == SelectSeq(e[free], LAMBDA s : s[1] \in Range(pages))
  IN [e EXCEPT !.node_pages = Keep("node_pages", "node"),
               !.edge_pages = Keep("edge_pages", "edge"),
               !.node_free_list = Prune("node_free_list", Keep("node_pages", "node")),
               !.edge_free_list = Prune("edge_free_list", Keep("edge_pages", "edge"))]

\* The CSR arrays: edges sorted by source, target and id, and for each node id
\* the offset of its first edge.
Earlier(a, b) == \/ a.src < b.src
                 \/ a.src = b.src /\ a.dst < b.dst
                 \/ a.src = b.src /\ a.dst = b.dst /\ a.id < b.id

csr_build(edges, top) ==
  [frozen  |-> TRUE,
   row_ptr |-> [i \in 0..(top + 1) |-> Cardinality({x \in edges : x.src + 1 <= i})],
   columns |-> SetToSortSeq(edges, Earlier)]

\* Live edges of the tracked edge pages, and the highest node id that they or
\* the tracked node pages mention.
engine_freeze(e) ==
  LET found == {read_record(e, s) : s \in SlotsOf(e, Tracked(e, "edge_pages"), "edge")}
      live  == {r \in found : ~r.deleted}
      edges == {[src |-> r.src, dst |-> r.dst, id |-> r.id, type |-> r.type] : r \in live}
      ids   == {r.src : r \in live} \cup {r.dst : r \in live}
               \cup {IdOf(read_record(e, s)) : s \in SlotsOf(e, Tracked(e, "node_pages"), "node")}
  IN [e EXCEPT !.csr = csr_build(edges, Max(ids \cup {0}))]

\* Opening the database again: only the pages survive; page lists, primary and
\* secondary indexes are collected from the records found on them, by length.
rebuild_indexes(e) ==
  LET all       == 1..Len(e.heap)
      nodes     == SlotsOf(e, all, "node")
      edges     == SlotsOf(e, all, "edge")
      Live(ss)  == {s \in ss : ~IsDead(read_record(e, s))}
      Pages(ss) == SelectSeq([p \in all |-> p], LAMBDA p : \E s \in ss : s[1] = p)
      Latest(ss, id) == CHOOSE s \in ss : /\ IdOf(read_record(e, s)) = id
                                        /\ \A t \in ss : IdOf(read_record(e, t)) = id =>
                                              t[1] < s[1] \/ (t[1] = s[1] /\ t[2] <= s[2])
      Index(ss) == [id \in {IdOf(read_record(e, s)) : s \in ss} |-> Latest(ss, id)]
      Key(r)    == IF r.kind = "node" THEN r.label ELSE IF r.kind = "edge" THEN r.type ELSE 0
      Sub(ss)   == [k \in {<<Key(read_record(e, s)), IdOf(read_record(e, s))>> : s \in ss} |->
                      Latest(ss, k[2])]
  IN [NewEngine EXCEPT
        !.heap = e.heap,
        !.node_pages = Pages(nodes), !.edge_pages = Pages(edges),
        !.node_index = Index(Live(nodes)), !.label_index = Sub(Live(nodes)),
        !.edge_index = Index(Live(edges)), !.type_index = Sub(Live(edges)),
        !.next_id = Max({0} \cup {IdOf(read_record(e, s)) : s \in nodes \cup edges}) + 1]

---------------------------------------------------------------------------
\* Reading

get_property(e, s) == read_record(e, s)

\* At most MaxSlots hops, where the code allows 4096 and 65536.
read_property_chain(e, head) ==
  LET Hop(acc, k) ==
        IF acc.at = NULL THEN acc
        ELSE LET r == get_property(e, acc.at)
             IN [at |-> r.next, map |-> (r.name :> r.value) @@ acc.map]
  IN FoldLeft(Hop, [at |-> head, map |-> <<>>], [k \in 1..MaxSlots |-> k]).map

WalkFrom(e, head, next) ==
  LET Hop(acc, k) ==
        IF acc.at = NULL THEN acc
        ELSE LET r == read_record(e, acc.at)
             IN [at |-> r[next], ids |-> IF r.deleted THEN acc.ids ELSE Append(acc.ids, r.id)]
  IN FoldLeft(Hop, [at |-> head, ids |-> <<>>], [k \in 1..MaxSlots |-> k]).ids

\* Edge ids in list order; of a node that is not in the index, none.
scan_outgoing_edges(e, id) ==
  IF id \in DOMAIN e.node_index
    THEN WalkFrom(e, read_record(e, e.node_index[id]).out, "nextS") ELSE <<>>

scan_incoming_edges(e, id) ==
  IF id \in DOMAIN e.node_index
    THEN WalkFrom(e, read_record(e, e.node_index[id]).in, "nextT") ELSE <<>>

outgoing_edges(csr, id) ==
  IF id + 1 \in DOMAIN csr.row_ptr
    THEN SubSeq(csr.columns, csr.row_ptr[id] + 1, csr.row_ptr[id + 1]) ELSE <<>>

\* The frozen copy is preferred to the lists.
scan_adjacency(e, id) ==
  IF e.csr.frozen
    THEN [i \in DOMAIN outgoing_edges(e.csr, id) |-> outgoing_edges(e.csr, id)[i].id]
    ELSE scan_outgoing_edges(e, id)

scan_all(e, index) ==
  {id \in DOMAIN e[index] : ~IsDead(read_record(e, e[index][id]))}

scan_by_key(e, sub, key) ==
  {k[2] : k \in {x \in DOMAIN e[sub] : x[1] = key /\ ~IsDead(read_record(e, e[sub][x]))}}

\* Graph::scan_nodes_by_property: entries of the value whose node is not deleted.
scan_nodes_by_property(e, v) ==
  {k[2] : k \in {x \in DOMAIN e.property_index :
                    x[1] = v /\ x[2] \in scan_all(e, "node_index")}}

---------------------------------------------------------------------------
\* Behaviour

Records(e) == Cardinality(SlotsOf(e, 1..Len(e.heap), "node"))
            + Cardinality(SlotsOf(e, 1..Len(e.heap), "edge"))
            + Cardinality(SlotsOf(e, 1..Len(e.heap), "property"))

\* A session begins with script.nodes nodes without properties.
GSInit ==
  /\ script \in Scripts
  /\ engine = FoldLeft(LAMBDA e, k : [create_node_atomic(e, k, 1, <<>>) EXCEPT !.next_id = k + 1],
                       NewEngine, [k \in 1..script.nodes |-> k])
  /\ graph = [nodes |-> [k \in 1..script.nodes |-> [label |-> 1, props |-> <<>>]],
              edges |-> <<>>]
  /\ past = [redeleted |-> FALSE,   \* delete_edge was called on a deleted edge
             renoded   |-> FALSE,   \* delete_node was called on a deleted node
             reopened  |-> FALSE,   \* the database was opened again
             phantom   |-> FALSE,   \* a property record was taken for a node
             changed   |-> FALSE,   \* the graph changed since the last freeze
             nodes     |-> 1..script.nodes,  \* node ids ever in use
             edges     |-> {}]               \* edge ids ever in use

Doing(op) ==
  /\ script.left > 0 /\ op \in script.ops
  /\ script' = [script EXCEPT !.left = @ - 1]

HasRoom(n) == Records(engine) + n <= MaxSlots

\* Allocates an id; the creation fails with AlreadyExists if a caller of
\* put_node or put_edge used that id before.
Allocated(e) == [e EXCEPT !.next_id = @ + 1]

GraphCreateNode(label, props) ==
  LET id == engine.next_id IN
  /\ Doing("node") /\ HasRoom(1 + Cardinality(DOMAIN props))
  /\ IF id \in DOMAIN engine.node_index
       THEN engine' = Allocated(engine) /\ UNCHANGED <<graph, past>>
       ELSE /\ engine' = create_node_atomic(Allocated(engine), id, label, props)
            /\ graph' = [graph EXCEPT !.nodes = (id :> [label |-> label, props |-> props]) @@ @]
            /\ past' = [past EXCEPT !.nodes = @ \cup {id}, !.changed = TRUE]

put_node(id, label) ==
  /\ Doing("put") /\ HasRoom(1)
  /\ id \notin DOMAIN engine.node_index
  /\ engine' = create_node_atomic(engine, id, label, <<>>)
  /\ graph' = [graph EXCEPT !.nodes = (id :> [label |-> label, props |-> <<>>]) @@ @]
  /\ past' = [past EXCEPT !.nodes = @ \cup {id}, !.changed = TRUE]

\* Endpoints are looked up in the primary index.
create_relationship(type, src, dst, props) ==
  LET id == engine.next_id IN
  /\ Doing("edge") /\ HasRoom(1 + Cardinality(DOMAIN props))
  /\ {src, dst} \subseteq DOMAIN engine.node_index
  /\ IF id \in DOMAIN engine.edge_index
       THEN engine' = Allocated(engine) /\ UNCHANGED <<graph, past>>
       ELSE /\ engine' = create_edge_atomic(Allocated(engine), id, type, src, dst, props)
            /\ graph' = [graph EXCEPT !.edges =
                 (id :> [type |-> type, src |-> src, dst |-> dst, props |-> props]) @@ @]
            /\ past' = [past EXCEPT !.edges = @ \cup {id}, !.changed = TRUE]

put_edge(id, type, src, dst) ==
  /\ Doing("put") /\ HasRoom(1)
  /\ {src, dst} \subseteq DOMAIN engine.node_index
  /\ id \notin DOMAIN engine.edge_index
  /\ engine' = create_edge_atomic(engine, id, type, src, dst, <<>>)
  /\ graph' = [graph EXCEPT !.edges =
       (id :> [type |-> type, src |-> src, dst |-> dst, props |-> <<>>]) @@ @]
  /\ past' = [past EXCEPT !.edges = @ \cup {id}, !.changed = TRUE]

delete_node(id) ==
  /\ Doing("delete_node")
  /\ id \in DOMAIN engine.node_index
  /\ engine' = engine_delete_node(engine, id)
  /\ graph' = [graph EXCEPT !.nodes = Without(@, id)]
  /\ past' = [past EXCEPT !.changed = TRUE, !.renoded = @ \/ id \notin DOMAIN graph.nodes]

delete_edge(id) ==
  /\ Doing("delete_edge")
  /\ id \in DOMAIN engine.edge_index
  /\ engine' = engine_delete_edge(engine, id)
  /\ graph' = [graph EXCEPT !.edges = Without(@, id)]
  /\ past' = [past EXCEPT !.changed = TRUE, !.redeleted = @ \/ id \notin DOMAIN graph.edges]

rewrite_node_properties(id, props) ==
  /\ Doing("set") /\ HasRoom(Cardinality(DOMAIN props))
  /\ id \in DOMAIN graph.nodes \cap DOMAIN engine.node_index
  /\ engine' = attach_properties(engine, "node_index", id, props)
  /\ graph' = [graph EXCEPT !.nodes[id].props = props]
  /\ UNCHANGED past

rewrite_edge_properties(id, props) ==
  /\ Doing("set") /\ HasRoom(Cardinality(DOMAIN props))
  /\ id \in DOMAIN graph.edges \cap DOMAIN engine.edge_index
  /\ engine' = attach_properties(engine, "edge_index", id, props)
  /\ graph' = [graph EXCEPT !.edges[id].props = props]
  /\ UNCHANGED past

freeze_adjacency ==
  /\ Doing("freeze")
  /\ engine' = engine_freeze(engine)
  /\ past' = [past EXCEPT !.changed = FALSE]
  /\ UNCHANGED graph

thaw_adjacency ==
  /\ Doing("freeze") /\ engine.csr.frozen
  /\ engine' = [engine EXCEPT !.csr = Thawed]
  /\ UNCHANGED <<graph, past>>

compact ==
  /\ Doing("compact")
  /\ engine' = engine_compact(engine)
  /\ UNCHANGED <<graph, past>>

reopen ==
  /\ Doing("reopen")
  /\ engine' = rebuild_indexes(engine)
  /\ past' = [past EXCEPT !.reopened = TRUE,
                !.phantom = @ \/ \E p \in DOMAIN engine.heap : \E i \in DOMAIN engine.heap[p] :
                   engine.heap[p][i].kind = "property" /\ LooksLike(engine.heap[p][i]) = "node"]
  /\ UNCHANGED graph

\* Clients name the entities they created, deleted or not; an id they choose
\* themselves is one they have not used.
GSNext ==
  \/ \E l \in Labels, m \in script.maps : GraphCreateNode(l, m)
  \/ \E i \in PutIds \ past.nodes, l \in Labels : put_node(i, l)
  \/ \E l \in Labels, a, b \in past.nodes, m \in script.maps : create_relationship(l, a, b, m)
  \/ \E i \in PutIds \ past.edges, l \in Labels, a, b \in past.nodes : put_edge(i, l, a, b)
  \/ \E i \in past.nodes : delete_node(i)
  \/ \E i \in past.edges : delete_edge(i)
  \/ \E i \in past.nodes, m \in script.maps : rewrite_node_properties(i, m)
  \/ \E i \in past.edges, m \in script.maps : rewrite_edge_properties(i, m)
  \/ freeze_adjacency
  \/ thaw_adjacency
  \/ compact
  \/ reopen

GSSpec == GSInit /\ [][GSNext]_gsvars

---------------------------------------------------------------------------
\* Properties

LiveEdges(end, id) == {k \in DOMAIN graph.edges : graph.edges[k][end] = id}

\* Every live edge is met exactly once on the outgoing list of its source and
\* on the incoming list of its target, and nothing else is (wire_* and unwire_*
\* under any order of creations, deletions, compactions and reopenings), as
\* long as no edge was deleted a second time.
AdjacencyComplete ==
  ~past.redeleted =>
    \A id \in DOMAIN graph.nodes :
      /\ IsInjective(scan_outgoing_edges(engine, id))
      /\ Range(scan_outgoing_edges(engine, id)) = LiveEdges("src", id)
      /\ IsInjective(scan_incoming_edges(engine, id))
      /\ Range(scan_incoming_edges(engine, id)) = LiveEdges("dst", id)

\* The same without the premise: delete_edge of an edge that is deleted already
\* leaves the lists of its nodes alone.
\* Refuted: README, section 5.
RedeleteHarmless ==
  \A id \in DOMAIN graph.nodes :
    Range(scan_outgoing_edges(engine, id)) = LiveEdges("src", id)

\* A frozen copy that nothing has outdated answers scan_adjacency for a live
\* node as the linked lists would (freeze_adjacency reads only the pages that
\* compaction left in edge_pages).
FrozenAgrees ==
  (engine.csr.frozen /\ ~past.changed /\ ~past.redeleted) =>
    \A id \in DOMAIN graph.nodes :
      Range(scan_adjacency(engine, id)) = Range(scan_outgoing_edges(engine, id))

\* The scans by id, label, type and the property chains return the live
\* entities with the properties last written, in the session that wrote them and
\* in later ones, unless a property record was taken for a node.
ScansReturnGraph ==
  ~past.phantom =>
    /\ scan_all(engine, "node_index") = DOMAIN graph.nodes
    /\ scan_all(engine, "edge_index") = DOMAIN graph.edges
    /\ \A l \in Labels :
         /\ scan_by_key(engine, "label_index", l) =
              {id \in DOMAIN graph.nodes : graph.nodes[id].label = l}
         /\ scan_by_key(engine, "type_index", l) =
              {id \in DOMAIN graph.edges : graph.edges[id].type = l}
    /\ \A id \in DOMAIN graph.nodes :
         read_property_chain(engine, read_record(engine, engine.node_index[id]).prop)
           = graph.nodes[id].props
    /\ \A id \in DOMAIN graph.edges :
         read_property_chain(engine, read_record(engine, engine.edge_index[id]).prop)
           = graph.edges[id].props

\* The same for the set of nodes without the premise: rebuild_indexes finds the
\* nodes that were created and no others.
\* Refuted: README, section 5.
RebuildFindsNodes == scan_all(engine, "node_index") = DOMAIN graph.nodes

\* The free lists hold tombstones on tracked pages, each once, unless an entity
\* was deleted twice (delete_node, delete_edge and compact).
FreeSlotsAreDead ==
  (~past.redeleted /\ ~past.renoded) =>
    \A kind \in {<<"node_free_list", "node_pages">>, <<"edge_free_list", "edge_pages">>} :
      /\ IsInjective(engine[kind[1]])
      /\ \A s \in Range(engine[kind[1]]) :
           IsDead(read_record(engine, s)) /\ s[1] \in Range(engine[kind[2]])

\* A lookup by value finds every live node that has the value now, in the
\* session that wrote it (write_property_chain, insert_property_index).
PropertyLookupComplete ==
  ~past.reopened =>
    \A id \in DOMAIN graph.nodes : \A n \in DOMAIN graph.nodes[id].props :
      id \in scan_nodes_by_property(engine, graph.nodes[id].props[n])

\* Every way of reading the store sees one graph, the one the operations built: adjacency lists,
\* their frozen copy, scans, property chains and lookups by value; and no slot that may be
\* reused is part of it (GraphStorageEngine, FrozenAdjacency, compact, rebuild_indexes).
ReadersSeeGraph ==
  /\ AdjacencyComplete /\ FrozenAgrees /\ ScansReturnGraph
  /\ PropertyLookupComplete /\ FreeSlotsAreDead

\* create_relationship refuses an endpoint that has been deleted
\* (lookup_node_slot).
\* Refuted: README, section 5.
EndpointsAlive ==
  [][\A id \in DOMAIN graph'.edges \ DOMAIN graph.edges :
       {graph'.edges[id].src, graph'.edges[id].dst} \subseteq DOMAIN graph.nodes]_gsvars

\* A lookup by value returns only nodes that have the value, and returns them
\* after a reopening as well.
\* Refuted: README, section 5.
PropertyLookupExact ==
  \A v \in DOMAIN Looks : scan_nodes_by_property(engine, v) =
    {id \in DOMAIN graph.nodes : \E n \in DOMAIN graph.nodes[id].props :
       graph.nodes[id].props[n] = v}
====
