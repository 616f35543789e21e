---------------------------- MODULE IndexManager ----------------------------
(***************************************************************************)
(* The secondary indexes and the coordinator that changes them in batches  *)
(* (src/index/manager.rs, label.rs, type_index.rs, property.rs,            *)
(* adjacency_index.rs, rdf_store.rs, key.rs).  A B+ tree is the dictionary *)
(* BPlusTree shows it to be, with the one error it returns here: a delete  *)
(* whose merge fails, and which has removed the key by then.               *)
(***************************************************************************)
EXTENDS ValueCodec, FiniteSets
LOCAL INSTANCE SequencesExt
LOCAL INSTANCE FiniteSetsExt
LOCAL INSTANCE Functions

CONSTANTS
    EntryGroups,  \* sets of entries [index, id]; a behaviour indexes those of one
    PropertyValues, \* sequence of property values, named in ids by their position
    SlotRefs,     \* record addresses
    MaxBatch,     \* mutations of a batch
    MaxBatches

VARIABLES
    trees,    \* tree -> (key -> slot)
    batch,    \* [open, applied, before]
    imcount,  \* batches begun
    indexed,  \* the entries inserted and not deleted, nor undone with their batch
    entries,  \* the group of this behaviour
    torn      \* a delete over several trees has stopped half-way

imvars == <<trees, batch, imcount, indexed, entries, torn>>

Trees == {"node", "edge", "label", "type", "property", "adjacency", "spo", "pos", "osp"}

None == [open |-> FALSE, applied |-> <<>>, before |-> <<>>]

IMInit ==
    /\ trees = [t \in Trees |-> <<>>]
    /\ batch = None
    /\ imcount = 0
    /\ indexed = {}
    /\ entries \in EntryGroups
    /\ torn = FALSE

(***************************************************************************)
(* Keys.  A fixed-width field is one digit; only the serialized value of a *)
(* property has a length of its own, and null stands in for the ones that  *)
(* are too long.                                                           *)
(***************************************************************************)

Serialized(v) ==
    IF encode(PropertyValues[v]) = TooLong THEN <<0>> ELSE encode(PropertyValues[v])

property_index_key(id) == <<id[1]>> \o Serialized(id[2]) \o <<id[3]>>

rdf_pos_key(id) == <<id[2], id[3], id[1]>>

rdf_osp_key(id) == <<id[3], id[1], id[2]>>

\* the trees an entry lives in, in the order they are changed, with its key there
Places(e) ==
    CASE e.index = "property" -> <<<<"property", property_index_key(e.id)>>>>
      [] e.index = "rdf" -> <<<<"spo", e.id>>, <<"pos", rdf_pos_key(e.id)>>, <<"osp", rdf_osp_key(e.id)>>>>
      [] OTHER -> <<<<e.index, e.id>>>>

\* the triple a key of a permutation stands for
decode_triple(perm, k) ==
    CASE perm = "spo" -> k
      [] perm = "pos" -> <<k[3], k[1], k[2]>>
      [] perm = "osp" -> <<k[2], k[3], k[1]>>

(***************************************************************************)
(* apply_one.                                                              *)
(***************************************************************************)

Put(ts, place, slot) == [ts EXCEPT ![place[1]] = (place[2] :> slot) @@ @]

Drop(ts, place) == [ts EXCEPT ![place[1]] = Restrict(@, DOMAIN @ \ {place[2]})]

Stored(ts, place) == place[2] \in DOMAIN ts[place[1]]

insert(ts, e, slot) == FoldLeft(LAMBDA acc, p : Put(acc, p, slot), ts, Places(e))

\* the delete of the first n trees; a merge that fails stops it there
delete_upto(ts, e, n) == FoldLeft(Drop, ts, SubSeq(Places(e), 1, n))

delete(ts, e) == delete_upto(ts, e, Len(Places(e)))

(***************************************************************************)
(* apply_batch.                                                            *)
(***************************************************************************)

IMBegin ==
    /\ ~ batch.open /\ imcount < MaxBatches
    /\ batch' = [open |-> TRUE, applied |-> <<>>, before |-> trees]
    /\ imcount' = imcount + 1
    /\ UNCHANGED <<trees, indexed, entries, torn>>

ApplyInsert(e, slot) ==
    /\ batch.open /\ Len(batch.applied) < MaxBatch
    /\ trees' = insert(trees, e, slot)
    /\ indexed' = indexed \cup {e}
    /\ batch' = [batch EXCEPT !.applied = Append(@, [inserts |-> TRUE, entry |-> e])]
    /\ UNCHANGED <<imcount, entries, torn>>

ApplyDelete(e) ==
    /\ batch.open /\ Len(batch.applied) < MaxBatch
    /\ trees' = delete(trees, e)
    /\ indexed' = indexed \ {e}
    /\ batch' = [batch EXCEPT !.applied = Append(@, [inserts |-> FALSE, entry |-> e])]
    /\ UNCHANGED <<imcount, entries, torn>>

\* the inverses of the applied inserts, latest first.  stuck: the trees whose
\* deletes fail; the error is ignored, yet a triple stays in the trees after it
inverse_Nothing(ts, m, stuck) == ts

inverse(ts, m, stuck) ==
    LET places == Places(m.entry)
        failing == {i \in DOMAIN places : places[i][1] \in stuck /\ Stored(ts, places[i])}
        reached == IF failing = {} THEN Len(places) ELSE Min(failing)
    IN IF m.inserts THEN delete_upto(ts, m.entry, reached) ELSE ts

RolledBack(ts, applied, stuck) ==
    FoldRight(LAMBDA m, acc : inverse(acc, m, stuck), applied, ts)

\* A delete fails in its n-th tree; what the batch did so far is rolled back
ApplyFails(e, n, stuck) ==
    /\ batch.open /\ Len(batch.applied) < MaxBatch
    /\ Stored(trees, Places(e)[n])
    /\ trees' = RolledBack(delete_upto(trees, e, n), batch.applied, stuck)
    /\ indexed' = indexed \ ({e} \cup {m.entry : m \in {x \in ToSet(batch.applied) : x.inserts}})
    /\ torn' = (torn \/ n < Len(Places(e)) \/ stuck # {})
    /\ batch' = None
    /\ UNCHANGED <<imcount, entries>>

IMEnd ==
    /\ batch.open /\ batch.applied # <<>>
    /\ batch' = None
    /\ UNCHANGED <<trees, imcount, indexed, entries, torn>>

IMFail ==
    \E e \in entries : \E n \in DOMAIN Places(e) : \E stuck \in {{}, {"spo"}} : ApplyFails(e, n, stuck)

IMNext ==
    \/ IMBegin
    \/ \E e \in entries, s \in SlotRefs : ApplyInsert(e, s)
    \/ \E e \in entries : ApplyDelete(e)
    \/ IMFail
    \/ IMEnd

IMSpec == IMInit /\ [][IMNext]_imvars

(***************************************************************************)
(* Lookups and scans.                                                      *)
(***************************************************************************)

IsPrefixOf(p, k) == Len(p) <= Len(k) /\ SubSeq(k, 1, Len(p)) = p

KeysUnder(tree, prefix) == {k \in DOMAIN trees[tree] : IsPrefixOf(prefix, k)}

\* scan_by_subject_predicate, scan_by_subject, scan_by_predicate_object, scan_by_object
scan_prefix(perm, prefix) == {decode_triple(perm, k) : k \in KeysUnder(perm, prefix)}

LabelIndex_scan(label) == KeysUnder("label", <<label>>)

TypeIndex_scan(type) == KeysUnder("type", <<type>>)

scan_outgoing(source, type) == KeysUnder("adjacency", <<source, type>>)

\* reads the whole tree
scan_incoming(target) == {k \in DOMAIN trees["adjacency"] : k[3] = target}

\* PropertyIndex::scan
scan_property(property, v) == KeysUnder("property", <<property>> \o Serialized(v))

(***************************************************************************)
(* Properties.                                                             *)
(***************************************************************************)

Triples == {e.id : e \in {x \in entries : x.index = "rdf"}}

\* Every pattern of a triple finds the same triples, whichever of the three
\* permutations answers it, and with the same address, unless a delete or a
\* rollback has failed between two of them (RdfStore::insert, delete, scan_*).
RdfScansAgree ==
    ~ torn =>
      LET held == DOMAIN trees["spo"]
      IN \A t \in Triples :
           /\ scan_prefix("spo", <<t[1]>>) = {u \in held : u[1] = t[1]}
           /\ scan_prefix("pos", <<t[2], t[3]>>) = {u \in held : u[2] = t[2] /\ u[3] = t[3]}
           /\ scan_prefix("osp", <<t[3]>>) = {u \in held : u[3] = t[3]}
           /\ t \in held => /\ trees["pos"][rdf_pos_key(t)] = trees["spo"][t]
                            /\ trees["osp"][rdf_osp_key(t)] = trees["spo"][t]

IndexedIn(index) == {e.id : e \in {x \in indexed : x.index = index}}

\* A scan by label, by type, of outgoing and of incoming edges returns the entries
\* that were inserted and neither deleted nor undone with a failed batch
\* (LabelIndex, TypeIndex, AdjacencyIndex).
ScansReturnIndexed ==
    \A e \in entries :
        /\ e.index = "label" => LabelIndex_scan(e.id[1]) = {k \in IndexedIn("label") : k[1] = e.id[1]}
        /\ e.index = "type" => TypeIndex_scan(e.id[1]) = {k \in IndexedIn("type") : k[1] = e.id[1]}
        /\ e.index = "adjacency" =>
             /\ scan_outgoing(e.id[1], e.id[2])
                  = {k \in IndexedIn("adjacency") : k[1] = e.id[1] /\ k[2] = e.id[2]}
             /\ scan_incoming(e.id[3]) = {k \in IndexedIn("adjacency") : k[3] = e.id[3]}

Fresh(m) == m.inserts /\ \A p \in ToSet(Places(m.entry)) : ~ Stored(batch.before, p)

\* A batch that fails leaves the indexes as they were, but for the keys of the
\* delete that failed: its earlier mutations are undone, if all of them inserted
\* keys that were not there and no inverse fails (apply_batch, inverse).
FailedBatchUndone ==
    [][\A e \in entries : \A n \in DOMAIN Places(e) :
          (ApplyFails(e, n, {}) /\ \A i \in DOMAIN batch.applied : Fresh(batch.applied[i]))
            => trees' = delete_upto(batch.before, e, n)]_imvars

\* A batch that fails leaves the index set exactly as it was before the call.
\* Refuted: README, section 5.
BatchAllOrNothing == [][IMFail => trees' = batch.before]_imvars

PropertyEntries == {e \in entries : e.index = "property"}

PropertyKeysWith(property, v) ==
    {property_index_key(e.id) : e \in {x \in PropertyEntries : x.id[1] = property /\ x.id[2] = v}}

Confusable(i, j) ==
    LET v == PropertyValues[i]
        w == PropertyValues[j]
    IN \/ encode(v) = TooLong \/ encode(w) = TooLong
       \/ v.tag = w.tag /\ v.tag \in {"String", "List", "Map"} /\ IsPrefixOf(Append(v.data, 0), w.data)

\* A property scan returns every entry of the value it is asked for, and of the
\* values it is not asked for only those that are too long or that continue it with
\* a zero byte (PropertyIndex::scan).
PropertyScanExact ==
    \A e \in PropertyEntries :
        LET found == scan_property(e.id[1], e.id[2])
            others == {w.id[2] : w \in {x \in PropertyEntries : ~ Confusable(e.id[2], x.id[2])}} \ {e.id[2]}
        IN /\ PropertyKeysWith(e.id[1], e.id[2]) \cap DOMAIN trees["property"] \subseteq found
           /\ \A w \in others : found \cap PropertyKeysWith(e.id[1], w) = {}

\* The indexes hold what the batches left: all scans return what was inserted and neither deleted
\* nor undone, and a batch that fails is undone (apply_batch, inverse and the scans).
IndexesFollowBatches ==
    /\ [](RdfScansAgree /\ ScansReturnIndexed /\ PropertyScanExact)
    /\ FailedBatchUndone

\* A property scan returns exactly the entries of the value it is asked for.
\* Refuted: README, section 5.
PropertyScanExactly ==
    \A e \in PropertyEntries :
        scan_property(e.id[1], e.id[2]) \subseteq PropertyKeysWith(e.id[1], e.id[2])

==============================================================================
