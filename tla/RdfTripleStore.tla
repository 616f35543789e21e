--------------------------- MODULE RdfTripleStore ---------------------------
(***************************************************************************)
(* The RDF store of rdf/store.rs and rdf/dictionary.rs as the engine uses  *)
(* it: add_quad (prepare_quad, WAL commit, page writes, commit_prepared),  *)
(* delete_triple, pattern matching, and rebuild on open.                   *)
(*                                                                         *)
(* A page is the set of its live records and holds at most PageRoom of     *)
(* them.  image is what the buffer pool holds, stable what recovery and    *)
(* the data file give after a crash: a commit makes the images it logged   *)
(* stable at once, other changes wait for the flusher.                     *)
(***************************************************************************)
EXTENDS Integers, Sequences, FiniteSets

CONSTANTS
    Quads,        \* the quads that clients use: <<subject, predicate, object, graph>>
    NodeSized,    \* terms whose record has the length of a node record
    PageRoom,     \* records that fit a page
    MaxRdfFaults, \* failed commits and page writes
    MaxDeletes,
    MaxReopens,
    Default       \* the graph of a quad without one

VARIABLES
    rdf,        \* dictionary, mirror and permutation index in memory
    image,      \* the pages as the process reads them
    stable,     \* the pages as the next process will read them
    added,      \* the quads whose add was acknowledged, less the deleted ones
    phantoms,   \* term records that the last open took for nodes
    rdffaults,
    rdfpast,    \* an add failed; a crash undid a delete
    rdfcount    \* deletes and reopenings

rdfvars == <<rdf, image, stable, added, phantoms, rdffaults, rdfpast, rdfcount>>

Unwritten == {<<"unwritten">>}   \* an allocated page that was never written: reading it fails

FreshStore == [ids |-> <<>>, terms |-> <<>>, next |-> 1, mirror |-> <<>>, index |-> <<>>, pages |-> <<>>]

RDFInit ==
    /\ rdf = FreshStore /\ image = <<>> /\ stable = <<>>
    /\ added = {} /\ phantoms = {} /\ rdffaults = 0
    /\ rdfpast = [failed |-> FALSE, undone |-> FALSE]
    /\ rdfcount = [deletes |-> 0, reopens |-> 0]

\* a partial function is a function on the part where it is defined
Bind(f, x, v) == [y \in DOMAIN f \cup {x} |-> IF y = x THEN v ELSE f[y]]

Unbind(f, x) == [y \in DOMAIN f \ {x} |-> f[y]]

TermRecord(id, t) == <<"term", id, t>>

TripleRecord(key) == <<"triple", key>>

-----------------------------------------------------------------------------
(* prepare_quad works on a pending set of page images.  w is its state: the store, the pages it    *)
(* has images of, and whether a read failed, after which nothing more is done.                     *)

\* rdf_pages from the most recent one: the first with room, or the first that cannot be read
PlaceFor(w) ==
    LET n == {i \in DOMAIN w.store.pages : \/ w.page[w.store.pages[i]] = Unwritten
                                          \/ Cardinality(w.page[w.store.pages[i]]) < PageRoom}
    IN IF n = {} THEN 0 ELSE CHOOSE i \in n : \A j \in n : j <= i

persist_into_pending(w, r) ==
    LET i == PlaceFor(w)
        p == IF i = 0 THEN Len(w.page) + 1 ELSE w.store.pages[i]
    IN IF ~ w.ok THEN w
       ELSE IF i = 0
         THEN [w EXCEPT !.store.pages = Append(@, p), !.page = Append(@, {r}),
                        !.pending = @ \cup {p}, !.last = p]
       ELSE IF w.page[p] = Unwritten THEN [w EXCEPT !.ok = FALSE]
       ELSE [w EXCEPT !.page[p] = @ \cup {r}, !.pending = @ \cup {p}, !.last = p]

\* the dictionary takes the term before its record is placed, committed or written
intern_pending(w, t) ==
    IF ~ w.ok \/ t = Default \/ t \in DOMAIN w.store.ids THEN w
    ELSE persist_into_pending([w EXCEPT !.store.ids = Bind(@, t, w.store.next),
                                        !.store.terms = Bind(@, w.store.next, t),
                                        !.store.next = @ + 1],
                              TermRecord(w.store.next, t))

id_of(st, t) == IF t = Default THEN 0 ELSE st.ids[t]

KeyOf(st, q) == [i \in 1..4 |-> id_of(st, q[i])]

Known(st, q) == \A i \in 1..4 : q[i] = Default \/ q[i] \in DOMAIN st.ids

prepare_triple(w, q) ==
    IF ~ w.ok \/ KeyOf(w.store, q) \in DOMAIN rdf.mirror THEN w
    ELSE persist_into_pending(w, TripleRecord(KeyOf(w.store, q)))

prepare_quad(q) ==
    LET w0 == [store |-> rdf, page |-> image, pending |-> {}, last |-> 0, ok |-> TRUE]
    IN prepare_triple(intern_pending(intern_pending(intern_pending(intern_pending(w0, q[1]), q[2]), q[3]), q[4]), q)

SPO(key) == <<key[1], key[2], key[3]>>

index_insert(st, key, p) == [st EXCEPT !.index = Bind(@, SPO(key), <<p, key[4]>>)]

commit_prepared(st, key, p) == [index_insert(st, key, p) EXCEPT !.mirror = Bind(@, key, p)]

\* the images of the pending pages replace what is there; pages allocated on the way stay unwritten
Merge(old, w, pages) ==
    [p \in DOMAIN w.page |-> IF p \in pages THEN w.page[p] ELSE IF p \in DOMAIN old THEN old[p] ELSE Unwritten]

add_quad(q) ==
    \E w \in {prepare_quad(q)} : LET key == KeyOf(w.store, q) IN
       /\ w.ok
       /\ \/ /\ key \in DOMAIN rdf.mirror /\ UNCHANGED rdfvars
          \/ /\ key \notin DOMAIN rdf.mirror
             /\ rdf' = commit_prepared(w.store, key, w.last)
             /\ image' = Merge(image, w, w.pending) /\ stable' = Merge(stable, w, w.pending)
             /\ added' = added \cup {q}
             /\ UNCHANGED <<phantoms, rdffaults, rdfpast, rdfcount>>

\* an error of a page read, of the log or of the commit: the images are dropped, the dictionary
\* and rdf_pages keep what prepare_quad did to them
add_quad_fails(q) ==
    \E w \in {prepare_quad(q)} :
       /\ w.ok => /\ KeyOf(w.store, q) \notin DOMAIN rdf.mirror
                  /\ rdffaults < MaxRdfFaults
       /\ rdffaults' = IF w.ok THEN rdffaults + 1 ELSE rdffaults
       /\ rdf' = w.store
       /\ image' = Merge(image, w, {}) /\ stable' = Merge(stable, w, {})
       /\ rdfpast' = [rdfpast EXCEPT !.failed = TRUE]
       /\ UNCHANGED <<added, phantoms, rdfcount>>

\* an error of a page write after the commit
add_quad_unwritten(q) ==
    \E w \in {prepare_quad(q)} :
       /\ w.ok /\ KeyOf(w.store, q) \notin DOMAIN rdf.mirror /\ rdffaults < MaxRdfFaults
       /\ rdffaults' = rdffaults + 1
       /\ rdf' = w.store
       /\ image' = Merge(image, w, {}) /\ stable' = Merge(stable, w, w.pending)
       /\ rdfpast' = [rdfpast EXCEPT !.failed = TRUE]
       /\ UNCHANGED <<added, phantoms, rdfcount>>

Survivors(st, key) == {k \in DOMAIN st.mirror : SPO(k) = SPO(key)}

\* the index entry goes with the first quad of the triple
Reindexed_Never(st, key) == {[st EXCEPT !.index = Unbind(@, SPO(key))]}

\* delete and reindex_spo: the entry is written again for every graph that still has the triple,
\* in the order of a hash map
Reindexed(st, key) ==
    LET gone == [st EXCEPT !.index = Unbind(@, SPO(key))]
    IN IF Survivors(st, key) = {} THEN {gone}
       ELSE {index_insert(gone, k, st.mirror[k]) : k \in Survivors(st, key)}

\* the record leaves its page in the buffer pool; the WAL gets a logical record that nothing replays
delete_quad(q) ==
    /\ Known(rdf, q) /\ rdfcount.deletes < MaxDeletes
    /\ rdfcount' = [rdfcount EXCEPT !.deletes = @ + 1]
    /\ LET key == KeyOf(rdf, q)
       IN /\ key \in DOMAIN rdf.mirror
          /\ rdf' \in Reindexed([rdf EXCEPT !.mirror = Unbind(@, key)], key)
          /\ image' = [image EXCEPT ![rdf.mirror[key]] = IF @ = Unwritten THEN @ ELSE @ \ {TripleRecord(key)}]
    /\ added' = added \ {q}
    /\ UNCHANGED <<stable, phantoms, rdffaults, rdfpast>>

flush_rdf ==
    /\ image # stable /\ stable' = image
    /\ UNCHANGED <<rdf, image, added, phantoms, rdffaults, rdfpast, rdfcount>>

-----------------------------------------------------------------------------
RdfRecords(pages) == UNION {pages[p] : p \in {p \in DOMAIN pages : pages[p] # Unwritten}}

\* next_id is one more than the greatest id seen
Reinserted(recs) ==
    LET ids == {r[2] : r \in {r \in recs : r[1] = "term"}}
    IN IF ids = {} THEN 1 ELSE 1 + CHOOSE i \in ids : \A j \in ids : j <= i

PagesOf(r) == {p \in DOMAIN stable : stable[p] # Unwritten /\ r \in stable[p]}

First(r) == CHOOSE p \in PagesOf(r) : \A o \in PagesOf(r) : p <= o

Last(r) == CHOOSE p \in PagesOf(r) : \A o \in PagesOf(r) : o <= p

Latest(rs) == CHOOSE r \in rs : \A s \in rs : Last(s) <= Last(r)

\* pass 1: term records to the dictionary, the last one of a term or an id wins; pass 2: triple
\* records to the mirror, and to the index when the mirror did not have them
rebuild ==
    LET recs == RdfRecords(stable)
        terms == {r \in recs : r[1] = "term"}
        keys == {r[2] : r \in {r \in recs : r[1] = "triple"}}
    IN [ids |-> [t \in {r[3] : r \in terms} |-> Latest({r \in terms : r[3] = t})[2]],
        terms |-> [i \in {r[2] : r \in terms} |-> Latest({r \in terms : r[2] = i})[3]],
        next |-> Reinserted(recs),
        mirror |-> [k \in keys |-> Last(TripleRecord(k))],
        index |-> [s \in {SPO(k) : k \in keys} |->
                     LET ks == {k \in keys : SPO(k) = s}
                         k == CHOOSE k \in ks : \A l \in ks : First(TripleRecord(l)) <= First(TripleRecord(k))
                     IN <<First(TripleRecord(k)), k[4]>>],
        pages |-> SelectSeq([i \in DOMAIN stable |-> i], LAMBDA p : stable[p] \notin {Unwritten, {}})]

\* the process dies and the next one opens the database; rebuild_indexes has looked at every
\* record before, and takes one of 32 bytes for a node
reopen_rdf ==
    /\ rdfcount.reopens < MaxReopens /\ rdfcount' = [rdfcount EXCEPT !.reopens = @ + 1]
    /\ rdf' = rebuild
    /\ image' = stable /\ UNCHANGED stable
    /\ phantoms' = {r[3] : r \in {r \in RdfRecords(stable) : r[1] = "term"}} \cap NodeSized
    /\ rdfpast' = [rdfpast EXCEPT !.undone = @ \/ \E p \in DOMAIN stable : ~ (stable[p] \subseteq image[p])]
    /\ UNCHANGED <<added, rdffaults>>

RDFNext ==
    \/ \E q \in Quads : add_quad(q) \/ add_quad_fails(q) \/ add_quad_unwritten(q) \/ delete_quad(q)
    \/ flush_rdf \/ reopen_rdf

RDFSpec == RDFInit /\ [][RDFNext]_rdfvars

-----------------------------------------------------------------------------
Unbound == -1

match_ids(pat) == {k \in DOMAIN rdf.mirror : \A i \in 1..4 : pat[i] = Unbound \/ pat[i] = k[i]}

\* a quad whose ids are not all in the dictionary is left out
materialise(keys) ==
    {[i \in 1..4 |-> IF i = 4 /\ k[4] = 0 THEN Default ELSE rdf.terms[k[i]]] :
        k \in {k \in keys : \A i \in 1..4 : (i = 4 /\ k[4] = 0) \/ k[i] \in DOMAIN rdf.terms}}

\* the positions of q that m keeps are bound; a term that the dictionary does not know matches nothing
match_pattern(q, m) ==
    IF \E i \in m : q[i] \notin DOMAIN rdf.ids THEN {}
    ELSE materialise(match_ids([i \in 1..4 |-> IF i \in m THEN rdf.ids[q[i]] ELSE Unbound]))

\* The permutation index holds a triple as long as one graph asserts it, with the slot of a quad
\* that exists: deleting it from one graph leaves the others reachable (reindex_spo).  A crash that
\* undoes a delete may leave one quad on two pages.
IndexFollowsMirror ==
  ~ rdfpast.undone =>
    /\ DOMAIN rdf.index = {SPO(k) : k \in DOMAIN rdf.mirror}
    /\ \A s \in DOMAIN rdf.index :
          \E k \in DOMAIN rdf.mirror : SPO(k) = s /\ rdf.index[s] = <<rdf.mirror[k], k[4]>>

\* Every pattern (any set of bound positions of any quad) returns exactly the quads that were added
\* and not deleted, by this process or an earlier one, with their own terms.  A failed add leaves
\* terms in the dictionary that no page has, and a crash may undo a delete: hence the premise.
PatternsExact ==
    ~ rdfpast.failed /\ ~ rdfpast.undone =>
        \A q \in Quads : \A m \in SUBSET (1..(IF q[4] = Default THEN 3 ELSE 4)) :
            match_pattern(q, m) = {a \in added : \A i \in m : a[i] = q[i]}

\* No term id stands for two terms, in memory or on the pages, through any number of reopenings.
IdsNeverShared ==
    ~ rdfpast.failed =>
        /\ \A t, u \in DOMAIN rdf.ids : rdf.ids[t] = rdf.ids[u] => t = u
        /\ \A r, s \in RdfRecords(stable) : r[1] = "term" /\ s[1] = "term" /\ r[2] = s[2] => r = s

\* Whatever was added, deleted, crashed and reopened, the mirror, the permutation index and the
\* dictionary describe one set of quads, and patterns return it (RdfStore, TermDictionary).
ReadersSeeQuads == IndexFollowsMirror /\ PatternsExact /\ IdsNeverShared

\* engine.rs, add_quad: "a committed quad is reconstructable by REDO and re-indexed on open"
\* Refuted: README, section 5.
CommittedReadBack == added \subseteq materialise(DOMAIN rdf.mirror)

\* store.rs: "the durable, crash-safe home of RDF data"; delete_quad: "the deletion is WAL-logged"
\* Refuted: README, section 5.
DeletedStaysDeleted == ~ rdfpast.failed => materialise(DOMAIN rdf.mirror) \subseteq added

\* mod.rs: the rebuild scan "never mistakes an RDF record for a node/edge"
\* Refuted: README, section 5.
NeverTakenForNode == phantoms = {}
=============================================================================
