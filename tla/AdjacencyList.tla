---------------------------- MODULE AdjacencyList ----------------------------
(***************************************************************************)
(* The doubly linked adjacency list kept in the prev and next slots of edge *)
(* records, as the functions of src/src/graph/adjacency.rs maintain it for  *)
(* a caller that keeps the head: linking at the head, unlinking in O(1),    *)
(* and collecting the list.  One node's list is modelled; its side says     *)
(* which pair of slots it uses.                                             *)
(***************************************************************************)
EXTENDS Naturals, FiniteSets

CONSTANTS AdjEdges,   \* slots that hold an edge record
          NoSlot,     \* SlotRef::NULL
          AdjSides    \* "source": outgoing, "target": incoming

ASSUME NoSlotAssumption == NoSlot \notin AdjEdges

VARIABLES nxt,      \* next_source_edge, next_target_edge
          prv,      \* prev_source_edge, prev_target_edge
          head,     \* the head the caller keeps
          linked,   \* the edges that were linked and not unlinked since
          misused   \* a linked edge was linked again, or an unlinked one unlinked
alvars == <<nxt, prv, head, linked, misused>>

SlotOrNull == AdjEdges \cup {NoSlot}

ALInit ==
  /\ nxt = [s \in AdjSides |-> [x \in AdjEdges |-> NoSlot]]
  /\ prv = [s \in AdjSides |-> [x \in AdjEdges |-> NoSlot]]
  /\ head = [s \in AdjSides |-> NoSlot]
  /\ linked = [s \in AdjSides |-> {}]
  /\ misused = FALSE

\* Bug: the old head keeps no way back.
link_head_OneWay(s, x) ==
  /\ nxt[s][x] = NoSlot /\ prv[s][x] = NoSlot
  /\ nxt' = [nxt EXCEPT ![s][x] = head[s]]
  /\ prv' = prv
  /\ head' = [head EXCEPT ![s] = x]
  /\ linked' = [linked EXCEPT ![s] = @ \cup {x}]
  /\ misused' = (misused \/ x \in linked[s])

\* link_source_head, link_target_head: refused (AlreadyLinked) only if one of
\* the edge's own slots is in use.
link_head(s, x) ==
  /\ nxt[s][x] = NoSlot /\ prv[s][x] = NoSlot
  /\ nxt' = [nxt EXCEPT ![s][x] = head[s]]
  /\ prv' = IF head[s] = NoSlot THEN prv ELSE [prv EXCEPT ![s][head[s]] = x]
  /\ head' = [head EXCEPT ![s] = x]
  /\ linked' = [linked EXCEPT ![s] = @ \cup {x}]
  /\ misused' = (misused \/ x \in linked[s])

\* unlink_source, unlink_target: an edge without predecessor was the head.
unlink(s, x) ==
  LET p == prv[s][x]
      n == nxt[s][x]
  IN /\ nxt' = [nxt EXCEPT ![s] = [y \in AdjEdges |->
                  IF y = x THEN NoSlot ELSE IF y = p THEN n ELSE @[y]]]
     /\ prv' = [prv EXCEPT ![s] = [y \in AdjEdges |->
                  IF y = x THEN NoSlot ELSE IF y = n THEN p ELSE @[y]]]
     /\ head' = IF p = NoSlot THEN [head EXCEPT ![s] = n] ELSE head
     /\ linked' = [linked EXCEPT ![s] = @ \ {x}]
     /\ misused' = (misused \/ x \notin linked[s])

ALNext == \E s \in AdjSides, x \in AdjEdges : link_head(s, x) \/ unlink(s, x)

ALSpec == ALInit /\ [][ALNext]_alvars

\* Sets of edges that hold the head and, with an edge, the one that follows it
Followed(s) ==
  {S \in SUBSET AdjEdges :
     /\ head[s] # NoSlot => head[s] \in S
     /\ \A x \in S : nxt[s][x] # NoSlot => nxt[s][x] \in S}

\* collect_outgoing, collect_incoming: what is reached from the head, the least such set.
collect(s) == {x \in AdjEdges : \A S \in Followed(s) : x \in S}

---------------------------------------------------------------------------
\* Properties

ALTypeOK ==
  /\ nxt \in [AdjSides -> [AdjEdges -> SlotOrNull]]
  /\ prv \in [AdjSides -> [AdjEdges -> SlotOrNull]]
  /\ head \in [AdjSides -> SlotOrNull]
  /\ linked \in [AdjSides -> SUBSET AdjEdges]
  /\ misused \in BOOLEAN

\* The two chains mirror each other: the successor's predecessor is the edge,
\* the predecessor's successor is the edge, only the head has no predecessor,
\* and an edge outside the list holds no pointer (link and unlink, while no edge
\* is linked twice or unlinked twice).
DoublyLinked ==
  ~misused =>
    \A s \in AdjSides :
      /\ head[s] # NoSlot => head[s] \in linked[s] /\ prv[s][head[s]] = NoSlot
      /\ \A x \in AdjEdges :
           /\ nxt[s][x] # NoSlot => x \in linked[s] /\ nxt[s][x] \in linked[s] /\ prv[s][nxt[s][x]] = x
           /\ prv[s][x] # NoSlot => x \in linked[s] /\ prv[s][x] \in linked[s] /\ nxt[s][prv[s][x]] = x
           /\ x \in linked[s] /\ prv[s][x] = NoSlot => head[s] = x

\* The walk from the head meets exactly the edges that are linked.
CollectsLinked == ~misused => \A s \in AdjSides : collect(s) = linked[s]

\* Linking an edge that is on a list already is refused (AlreadyLinked).
\* Refuted: README, section 5.
RelinkRefused == \A s \in AdjSides : \A x \in AdjEdges : nxt[s][x] # x
====
