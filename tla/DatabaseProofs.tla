--------------------------- MODULE DatabaseProofs ---------------------------
(***************************************************************************)
(* The database handle, for every set of handles and names.  What agrees   *)
(* between sessions is followed from one place to the next: the catalogs   *)
(* of the handle that holds the lock, the file it writes and syncs, the    *)
(* directory entry, and what the next session decodes.                     *)
(***************************************************************************)
EXTENDS Database, TLAPS

CatalogRecord ==
  [ids : UNION {[D -> Nat] : D \in SUBSET Names}, rev : UNION {[I -> Names] : I \in SUBSET Nat}, next : Nat]

\* A catalog that get_or_create built: ids 1, 2, ... in the order of the names, and their inverse.
GoodCatalog(c) ==
  /\ c \in CatalogRecord
  /\ c.next >= 1
  /\ DOMAIN c.rev = 1..(c.next - 1)
  /\ \A n \in DOMAIN c.ids : c.ids[n] \in 1..(c.next - 1) /\ c.rev[c.ids[n]] = n
  /\ \A i \in 1..(c.next - 1) : c.rev[i] \in DOMAIN c.ids /\ c.ids[c.rev[i]] = i

Within(c, d) == \A n \in DOMAIN c.ids : n \in DOMAIN d.ids /\ d.ids[n] = c.ids[n]

\* Catalog::new.
LEMMA EmptyIsGood == GoodCatalog(NoCatalog) /\ DOMAIN NoCatalog.ids = {}
<1>1. NoCatalog.ids \in UNION {[D -> Nat] : D \in SUBSET Names}
  <2>1. NoCatalog.ids \in [{} -> Nat]
    BY DEF NoCatalog
  <2> QED BY <2>1
<1>2. NoCatalog.rev \in UNION {[I -> Names] : I \in SUBSET Nat}
  <2>1. NoCatalog.rev \in [{} -> Names]
    BY DEF NoCatalog
  <2> QED BY <2>1
<1>3. NoCatalog \in CatalogRecord
  BY <1>1, <1>2, Zenon DEF CatalogRecord, NoCatalog
<1> QED BY <1>3 DEF GoodCatalog, NoCatalog

\* get_or_create: a good catalog stays good, keeps its pairs and knows the name.
LEMMA CatalogGrows ==
  ASSUME NEW c, GoodCatalog(c), NEW n \in Names
  PROVE  /\ GoodCatalog(get_or_create(c, n)) /\ Within(c, get_or_create(c, n))
         /\ n \in DOMAIN get_or_create(c, n).ids
<1> DEFINE d == get_or_create(c, n)
<1>1. CASE n \in DOMAIN c.ids
  BY <1>1 DEF get_or_create, Within
<1>2. CASE n \notin DOMAIN c.ids
  <2>0. /\ c.ids \in UNION {[D -> Nat] : D \in SUBSET Names}
        /\ c.rev \in UNION {[I -> Names] : I \in SUBSET Nat} /\ c.next \in Nat
    BY DEF GoodCatalog, CatalogRecord
  <2>1. /\ DOMAIN c.ids \subseteq Names /\ \A m \in DOMAIN c.ids : c.ids[m] \in Nat
        /\ \A i \in DOMAIN c.rev : c.rev[i] \in Names
    <3>1. PICK D \in SUBSET Names : c.ids \in [D -> Nat]
      BY <2>0
    <3>2. PICK I \in SUBSET Nat : c.rev \in [I -> Names]
      BY <2>0
    <3> QED BY <3>1, <3>2
  <2> DEFINE ids == [m \in DOMAIN c.ids \cup {n} |-> IF m = n THEN c.next ELSE c.ids[m]]
             rev == [i \in DOMAIN c.rev \cup {c.next} |-> IF i = c.next THEN n ELSE c.rev[i]]
  <2>2. d = [ids |-> ids, rev |-> rev, next |-> c.next + 1]
    BY <1>2 DEF get_or_create
  <2>3. d.ids = ids /\ d.rev = rev /\ d.next = c.next + 1
    BY <2>2
  <2>4. ids \in UNION {[D -> Nat] : D \in SUBSET Names}
    <3>1. ids \in [DOMAIN c.ids \cup {n} -> Nat]
      BY <2>0, <2>1
    <3> QED BY <2>1, <3>1, Zenon
  <2>5. rev \in UNION {[I -> Names] : I \in SUBSET Nat}
    <3>1. rev \in [DOMAIN c.rev \cup {c.next} -> Names]
      BY <2>0, <2>1
    <3>2. DOMAIN c.rev \cup {c.next} \in SUBSET Nat
      BY <2>0 DEF GoodCatalog
    <3> QED BY <3>1, <3>2, Zenon
  <2>6. d \in CatalogRecord
    <3>1. c.next + 1 \in Nat
      BY <2>0
    <3> HIDE DEF ids, rev, d
    <3> QED BY <2>2, <2>4, <2>5, <3>1 DEF CatalogRecord
  <2>7. DOMAIN d.rev = 1..(d.next - 1)
    BY <2>0, <2>3, SMTT(30) DEF GoodCatalog
  <2>8. ASSUME NEW m \in DOMAIN d.ids
        PROVE  d.ids[m] \in 1..(d.next - 1) /\ d.rev[d.ids[m]] = m
    BY <1>2, <2>0, <2>3, SMTT(30) DEF GoodCatalog
  <2>9. ASSUME NEW i \in 1..(d.next - 1)
        PROVE  d.rev[i] \in DOMAIN d.ids /\ d.ids[d.rev[i]] = i
    BY <1>2, <2>0, <2>3 DEF GoodCatalog
  <2>10. Within(c, d) /\ n \in DOMAIN d.ids
    BY <1>2, <2>3 DEF Within
  <2> HIDE DEF d
  <2>11. d.next >= 1
    BY <2>0, <2>3
  <2> QED BY <2>6, <2>7, <2>8, <2>9, <2>10, <2>11 DEF GoodCatalog, d
<1> QED BY <1>1, <1>2

\* What encode wrote, decode reads back, with the reverse map and the next id that were not written.
LEMMA CatalogRoundTrip ==
  ASSUME NEW c, GoodCatalog(c)
  PROVE  decode_catalog(c.ids) = c
<1> DEFINE found == {c.ids[n] : n \in DOMAIN c.ids}
<1>0. /\ c = [ids |-> c.ids, rev |-> c.rev, next |-> c.next] /\ c.next \in Nat
      /\ c.rev = [i \in DOMAIN c.rev |-> c.rev[i]]
  BY DEF GoodCatalog, CatalogRecord
<1>1. found = 1..(c.next - 1)
  BY DEF GoodCatalog
<1>2. ASSUME NEW i \in found
      PROVE  (CHOOSE n \in DOMAIN c.ids : c.ids[n] = i) = c.rev[i]
  BY <1>1, <1>2 DEF GoodCatalog
<1>3. [i \in found |-> CHOOSE n \in DOMAIN c.ids : c.ids[n] = i] = c.rev
  BY <1>0, <1>1, <1>2, ZenonT(30) DEF GoodCatalog
<1>4. 1 + (CHOOSE i \in found \cup {0} : \A j \in found : j <= i) = c.next
  <2> HIDE DEF found
  <2> DEFINE last == CHOOSE i \in found \cup {0} : \A j \in found : j <= i
  <2>1. c.next >= 1
    BY DEF GoodCatalog
  <2>2. (c.next - 1) \in found \cup {0}
    BY <1>0, <1>1, <2>1
  <2>3. \A j \in found : j <= c.next - 1
    BY <1>0, <1>1
  <2>4. \A i \in found \cup {0} : (\A j \in found : j <= i) => i = c.next - 1
    BY <1>0, <1>1, <2>1, SMTT(30)
  <2>5. last = c.next - 1
    BY <2>2, <2>3, <2>4
  <2> HIDE DEF last
  <2>6. 1 + last = c.next
    BY <1>0, <2>5
  <2> QED BY <2>6 DEF last
<1>5. decode_catalog(c.ids) = [ids |-> c.ids, rev |-> c.rev, next |-> c.next]
  BY <1>3, <1>4, Zenon DEF decode_catalog
<1> QED BY <1>0, <1>5

-----------------------------------------------------------------------------
Steps == {"out", "check", "mkdir", "lock", "create", "format", "model", "load", "open", "persist"}

HandleRecord ==
  [pc : Steps, op : {"init", "open"}, mode : 1..2, cat : CatalogRecord, closing : BOOLEAN]

StoreRecord ==
  [dir : BOOLEAN, data : BOOLEAN, valid : BOOLEAN, mode : 0..2,
   side : CatalogRecord, kept : CatalogRecord, entry : BOOLEAN]

PastRecord == [unsaved : BOOLEAN, swallowed : BOOLEAN, clobbered : BOOLEAN, vanished : BOOLEAN]

DBTypes ==
  /\ handle \in [Handles -> HandleRecord]
  /\ store \in StoreRecord
  /\ saved \in [cat : CatalogRecord, mode : 0..2]
  /\ dbpast \in PastRecord

\* The handles that have a catalog of the directory in memory
Inside(h) == handle[h].pc \in {"open", "persist"}

\* The flock: whoever is past it holds it.  The catalog is in memory from open on, and the
\* directory sync follows the rename of the catalog it makes durable.
LockHeld ==
  \A h \in Handles :
    /\ Engaged(h) => lock = h
    /\ handle[h].pc \in {"model", "open", "persist"} => store.valid = TRUE
    /\ ~ Inside(h) => handle[h].cat = NoCatalog
    /\ handle[h].pc = "persist" => store.side = handle[h].cat

GoodCatalogs ==
  /\ \A h \in Handles : GoodCatalog(handle[h].cat)
  /\ GoodCatalog(store.side) /\ GoodCatalog(store.kept) /\ GoodCatalog(saved.cat)

\* What a sync saved is in the file, in what a power cut leaves of it, and in memory.
SyncedKept ==
  /\ store.entry = TRUE => store.valid = TRUE
  /\ store.entry = FALSE => saved.cat = NoCatalog
  /\ dbpast.swallowed = FALSE /\ dbpast.clobbered = FALSE =>
       /\ Within(saved.cat, store.side) /\ Within(saved.cat, store.kept)
       /\ \A h \in Handles : handle[h].pc \in {"model", "open", "persist"} => Within(saved.cat, handle[h].cat)

Undisturbed ==
  dbpast.unsaved = FALSE /\ dbpast.swallowed = FALSE /\ dbpast.clobbered = FALSE /\ dbpast.vanished = FALSE

Resolves(c) == \A r \in rows : r[1] \in DOMAIN c.ids /\ c.ids[r[1]] = r[2]

Unused == rows = {} /\ store.side = NoCatalog /\ store.kept = NoCatalog

\* The catalog that knows every record is in the memory of the session or, between sessions, in the file.
RowsKnown ==
  Undisturbed =>
    /\ store.valid = FALSE => Unused
    /\ Within(store.kept, store.side)
    /\ \A h \in Handles :
         /\ handle[h].pc = "model" => Unused
         /\ Inside(h) => Resolves(handle[h].cat) /\ Within(store.side, handle[h].cat)
    /\ (\A h \in Handles : ~ Inside(h)) => Resolves(store.side)

\* Once an init returned Ok, the superblock and every session have its data model.
ModeFixed ==
  dbpast.clobbered = FALSE /\ dbpast.vanished = FALSE /\ saved.mode # 0 =>
    /\ store.valid = TRUE /\ store.mode = saved.mode
    /\ \A h \in Handles :
         /\ handle[h].pc # "model"
         /\ Inside(h) => handle[h].mode = saved.mode

DBInv == DBTypes /\ LockHeld /\ GoodCatalogs /\ SyncedKept /\ RowsKnown /\ ModeFixed

\* A handle that is not open.
LEMMA OutIsHandle == Out \in HandleRecord /\ Out.pc = "out" /\ Out.cat = NoCatalog
BY EmptyIsGood DEF Out, HandleRecord, Steps, GoodCatalog

\* What a step outside the sessions leaves of the directory, and of the flags
SameStore ==
  /\ store' \in StoreRecord
  /\ store'.valid = store.valid /\ store'.mode = store.mode /\ store'.entry = store.entry
  /\ store'.side = store.side /\ store'.kept = store.kept

SamePast ==
  /\ dbpast' \in PastRecord
  /\ dbpast'.swallowed = dbpast.swallowed /\ dbpast'.clobbered = dbpast.clobbered
  /\ dbpast'.vanished = dbpast.vanished /\ (dbpast'.unsaved = FALSE => dbpast.unsaved = FALSE)

\* A handle that moves outside the session, or leaves it, keeps the invariant, provided the file
\* knows every record when a session ends.
LEMMA QuietStep ==
  ASSUME DBInv, NEW h \in Handles, NEW r \in HandleRecord,
         handle' = [handle EXCEPT ![h] = r], UNCHANGED <<rows, saved>>, SameStore, SamePast,
         \/ r.pc \in {"out", "check", "mkdir", "lock"} /\ lock' = (IF lock = h THEN NoHandle ELSE lock)
         \/ r.pc \in {"out", "check", "mkdir", "lock"} /\ lock' = lock
         \/ r.pc \in {"create", "format", "load"} /\ lock' = h /\ lock \in {NoHandle, h},
         r.cat = NoCatalog,
         Inside(h) /\ Undisturbed' => Resolves(store.side)
  PROVE  DBInv'
<1>1. \A k \in Handles : handle'[k] = IF k = h THEN r ELSE handle[k]
  BY DEF DBInv, DBTypes
<1>2. DBTypes'
  BY DEF DBInv, DBTypes, SameStore, SamePast
<1>3. LockHeld'
  BY <1>1, HandleAssumption DEF DBInv, LockHeld, Engaged, Inside, SameStore
<1>4. GoodCatalogs'
  BY <1>1, EmptyIsGood DEF DBInv, GoodCatalogs, SameStore
<1>5. SyncedKept'
  BY <1>1 DEF DBInv, SyncedKept, SameStore, SamePast
<1>6. RowsKnown'
  <2> DEFINE Goal ==
               /\ store.valid = FALSE => Unused
               /\ Within(store.kept, store.side)
               /\ \A k \in Handles :
                     /\ handle'[k].pc = "model" => Unused
                     /\ (Inside(k))' => Resolves(handle'[k].cat) /\ Within(store.side, handle'[k].cat)
               /\ (\A k \in Handles : ~ (Inside(k))') => Resolves(store.side)
  <2> SUFFICES ASSUME Undisturbed' PROVE Goal
    <3>1. /\ Unused' <=> Unused
          /\ Within(store.kept, store.side)' <=> Within(store.kept, store.side)
          /\ Resolves(store.side)' <=> Resolves(store.side)
          /\ \A k \in Handles : Within(store.side, handle[k].cat)' <=> Within(store.side, handle'[k].cat)
          /\ \A k \in Handles : Resolves(handle[k].cat)' <=> Resolves(handle'[k].cat)
      BY DEF Unused, Resolves, Within, SameStore
    <3> QED BY <3>1, Zenon DEF RowsKnown, SameStore
  <2>1. \A k \in Handles : (Inside(k))' <=> (k # h /\ Inside(k))
    BY <1>1 DEF Inside
  <2>2. Undisturbed
    BY DEF Undisturbed, SamePast
  <2> QED BY <1>1, <2>1, <2>2 DEF DBInv, RowsKnown
<1>7. ModeFixed'
  BY <1>1 DEF DBInv, ModeFixed, Inside, SameStore, SamePast
<1> QED BY <1>2, <1>3, <1>4, <1>5, <1>6, <1>7 DEF DBInv

\* Nothing is lost from files that are not written.
LEMMA StoreStays ==
  ASSUME DBInv, UNCHANGED store PROVE SameStore
BY DEF DBInv, DBTypes, SameStore

\* Nothing is forgotten of what the sessions were told.
LEMMA PastStays ==
  ASSUME DBInv, UNCHANGED dbpast PROVE SamePast
BY DEF DBInv, DBTypes, SamePast

\* A handle that is not in a session and moves to another step of init or open
LEMMA MoveOn ==
  ASSUME DBInv, NEW h \in Handles, NEW at \in Steps, Becomes(h, at)
  PROVE  \E r \in HandleRecord : /\ handle' = [handle EXCEPT ![h] = r]
                                 /\ r.pc = at /\ r.cat = handle[h].cat /\ r.mode = handle[h].mode
<1> DEFINE r == [handle[h] EXCEPT !.pc = at]
<1>1. r \in HandleRecord /\ r.pc = at /\ r.cat = handle[h].cat /\ r.mode = handle[h].mode
  BY DEF DBInv, DBTypes, HandleRecord
<1>2. handle' = [handle EXCEPT ![h] = r]
  BY DEF DBInv, DBTypes, Becomes
<1> QED BY <1>1, <1>2, Zenon

\* build, check_path, create_dir_all, acquire_exclusive_lock and init_file
LEMMA ArrivalKeeps ==
  ASSUME DBInv, NEW h \in Handles,
         \/ \E mode \in 1..2 : build(h, mode)
         \/ check_path(h) \/ create_dir_all(h) \/ acquire_exclusive_lock(h) \/ init_file(h) \/ open_fails(h)
  PROVE  DBInv'
<1>0. ~ Inside(h) => handle[h].cat = NoCatalog
  BY DEF DBInv, LockHeld
<1>1. ASSUME NEW mode \in 1..2, build(h, mode) PROVE DBInv'
  <2> DEFINE op == IF store.dir THEN "open" ELSE "init"
             r == [handle[h] EXCEPT !.pc = "check", !.mode = mode, !.op = op]
  <2>1. handle' = [handle EXCEPT ![h] = r]
    BY <1>1, Zenon DEF build, DBInv, DBTypes
  <2>2. r \in HandleRecord /\ r.pc = "check" /\ r.cat = NoCatalog
    <3>1. handle[h] \in HandleRecord /\ "check" \in Steps /\ op \in {"init", "open"}
      BY DEF DBInv, DBTypes, Steps
    <3>2. handle[h].cat = NoCatalog
      BY <1>0, <1>1 DEF build, AtStep, Inside
    <3> HIDE DEF op
    <3>3. r \in HandleRecord
      BY <3>1, Zenon DEF HandleRecord
    <3>4. r.pc = "check" /\ r.cat = handle[h].cat
      BY <3>1 DEF HandleRecord
    <3> QED BY <3>2, <3>3, <3>4
  <2> HIDE DEF r
  <2>3. ~ Inside(h) /\ UNCHANGED <<rows, saved>> /\ SameStore /\ SamePast /\ lock' = lock
    BY <1>1, StoreStays, PastStays DEF build, AtStep, Inside
  <2> QED BY <2>1, <2>2, <2>3, QuietStep, Zenon
<1>2. ASSUME check_path(h) PROVE DBInv'
  <2>1. ~ Inside(h) /\ UNCHANGED <<rows, saved>> /\ SameStore /\ SamePast
    BY <1>2, StoreStays, PastStays DEF check_path, AtStep, Inside
  <2>2. CASE Leave(h)
    BY <2>1, <2>2, OutIsHandle, QuietStep, Zenon DEF Leave
  <2>3. ASSUME NEW at \in {"mkdir", "lock"}, Becomes(h, at), lock' = lock PROVE DBInv'
    <3>1. PICK r \in HandleRecord : handle' = [handle EXCEPT ![h] = r] /\ r.pc = at /\ r.cat = handle[h].cat
      BY <2>3, MoveOn DEF Steps
    <3> QED BY <1>0, <2>1, <2>3, <3>1, QuietStep, Zenon
  <2> QED BY <1>2, <2>2, <2>3 DEF check_path
<1>3. ASSUME create_dir_all(h) PROVE DBInv'
  <2>1. PICK r \in HandleRecord : handle' = [handle EXCEPT ![h] = r] /\ r.pc = "lock" /\ r.cat = handle[h].cat
    BY <1>3, MoveOn DEF Steps, create_dir_all
  <2>2. SameStore
    BY <1>3, Zenon DEF create_dir_all, SameStore, StoreRecord, DBInv, DBTypes
  <2>3. ~ Inside(h) /\ UNCHANGED <<rows, saved, lock>> /\ SamePast
    BY <1>3, PastStays DEF create_dir_all, AtStep, Inside
  <2> QED BY <1>0, <2>1, <2>2, <2>3, QuietStep, Zenon
<1>4. ASSUME acquire_exclusive_lock(h) PROVE DBInv'
  <2>1. ~ Inside(h) /\ UNCHANGED <<rows, saved>> /\ SameStore /\ SamePast
    BY <1>4, StoreStays, PastStays DEF acquire_exclusive_lock, AtStep, Inside
  <2>2. CASE Leave(h)
    BY <2>1, <2>2, OutIsHandle, QuietStep, Zenon DEF Leave
  <2>3. ASSUME NEW at \in {"create", "load"}, Becomes(h, at), lock' = h, lock = NoHandle PROVE DBInv'
    <3>1. PICK r \in HandleRecord : handle' = [handle EXCEPT ![h] = r] /\ r.pc = at /\ r.cat = handle[h].cat
      BY <2>3, MoveOn DEF Steps
    <3> QED BY <1>0, <2>1, <2>3, <3>1, QuietStep, Zenon
  <2> QED BY <1>4, <2>2, <2>3 DEF acquire_exclusive_lock
<1>5. ASSUME init_file(h) PROVE DBInv'
  <2>1. PICK r \in HandleRecord : handle' = [handle EXCEPT ![h] = r] /\ r.pc = "format" /\ r.cat = handle[h].cat
    BY <1>5, MoveOn DEF Steps, init_file
  <2>2. SameStore
    BY <1>5, Zenon DEF init_file, SameStore, StoreRecord, DBInv, DBTypes
  <2>3. ~ Inside(h) /\ UNCHANGED <<rows, saved, lock>> /\ SamePast /\ lock = h
    BY <1>5, PastStays, Zenon DEF init_file, AtStep, Inside, DBInv, LockHeld, Engaged
  <2> QED BY <1>0, <2>1, <2>2, <2>3, QuietStep, Zenon
<1>6. ASSUME open_fails(h) PROVE DBInv'
  <2>1. ~ Inside(h) /\ UNCHANGED <<rows, saved>> /\ SameStore /\ SamePast
    BY <1>6, StoreStays, PastStays DEF open_fails, AtStep, Inside
  <2> QED BY <1>6, <2>1, OutIsHandle, QuietStep, Zenon DEF open_fails, Leave
<1> QED BY <1>1, <1>2, <1>3, <1>4, <1>5, <1>6

\* One handle is in the session: what the invariant asks of it, of the file and of the last sync.
LEMMA SessionStep ==
  ASSUME DBInv, NEW h \in Handles, NEW r \in HandleRecord,
         handle' = [handle EXCEPT ![h] = r], r.pc \in {"open", "persist"}, lock = h, lock' = lock,
         store' \in StoreRecord, saved' \in [cat : CatalogRecord, mode : 0..2], dbpast' \in PastRecord,
         store'.valid = TRUE,
         GoodCatalog(r.cat), GoodCatalog(store'.side), GoodCatalog(store'.kept), GoodCatalog(saved'.cat),
         r.pc = "persist" => store'.side = r.cat,
         store'.entry = FALSE => saved'.cat = NoCatalog,
         dbpast'.swallowed = FALSE /\ dbpast'.clobbered = FALSE =>
           Within(saved'.cat, store'.side) /\ Within(saved'.cat, store'.kept) /\ Within(saved'.cat, r.cat),
         Undisturbed' =>
           /\ Within(store'.kept, store'.side) /\ Within(store'.side, r.cat)
           /\ \A x \in rows' : x[1] \in DOMAIN r.cat.ids /\ r.cat.ids[x[1]] = x[2],
         dbpast'.clobbered = FALSE /\ dbpast'.vanished = FALSE /\ saved'.mode # 0 =>
           store'.mode = saved'.mode /\ r.mode = saved'.mode
  PROVE  DBInv'
<1>1. \A k \in Handles : handle'[k] = IF k = h THEN r ELSE handle[k]
  BY DEF DBInv, DBTypes
<1>2. \A k \in Handles : k # h => ~ Engaged(k)
  BY DEF DBInv, LockHeld
<1>3. /\ \A k \in Handles : (Inside(k))' <=> k = h
      /\ \A k \in Handles : handle'[k].pc # "model"
      /\ \A k \in Handles : handle'[k].pc \in {"model", "open", "persist"} => k = h
  BY <1>1, <1>2 DEF Inside, Engaged
<1>4. DBTypes'
  BY Zenon DEF DBInv, DBTypes
<1>5. LockHeld'
  <2> SUFFICES ASSUME NEW k \in Handles
               PROVE  /\ Engaged(k)' => lock' = k
                      /\ handle'[k].pc \in {"model", "open", "persist"} => store'.valid = TRUE
                      /\ ~ Inside(k)' => handle'[k].cat = NoCatalog
                      /\ handle'[k].pc = "persist" => store'.side = handle'[k].cat
    BY Zenon DEF LockHeld
  <2>1. CASE k = h
    BY <1>1, <1>3, <2>1, Zenon
  <2>2. CASE k # h
    BY <1>1, <1>2, <1>3, <2>2 DEF DBInv, LockHeld, Engaged, Inside
  <2> QED BY <2>1, <2>2, Zenon
<1>6. GoodCatalogs'
  BY <1>1, Zenon DEF DBInv, GoodCatalogs
<1>7. SyncedKept'
  BY <1>1, <1>3, Zenon DEF SyncedKept
<1>8. RowsKnown'
  <2> SUFFICES ASSUME Undisturbed'
               PROVE  /\ Within(store'.kept, store'.side)
                      /\ \A k \in Handles : (Inside(k))' => Resolves(handle[k].cat)' /\ Within(store'.side, handle'[k].cat)
                      /\ ~ \A k \in Handles : ~ (Inside(k))'
    BY <1>3, SMTT(30) DEF RowsKnown, Within
  <2>1. Resolves(handle[h].cat)'
    BY <1>1, SMTT(30) DEF Resolves
  <2> QED BY <1>1, <1>3, <2>1, Zenon
<1>9. ModeFixed'
  BY <1>1, <1>3, Zenon DEF ModeFixed
<1> QED BY <1>4, <1>5, <1>6, <1>7, <1>8, <1>9, Zenon DEF DBInv

\* What the invariant says of the handle that is in the session
LEMMA SessionFacts ==
  ASSUME DBInv, NEW h \in Handles, Inside(h)
  PROVE  /\ handle[h] \in HandleRecord /\ store \in StoreRecord /\ dbpast \in PastRecord
         /\ saved \in [cat : CatalogRecord, mode : 0..2]
         /\ lock = h /\ store.valid = TRUE
         /\ GoodCatalog(handle[h].cat) /\ GoodCatalog(store.side) /\ GoodCatalog(store.kept) /\ GoodCatalog(saved.cat)
         /\ handle[h].pc = "persist" => store.side = handle[h].cat
         /\ store.entry = FALSE => saved.cat = NoCatalog
         /\ dbpast.swallowed = FALSE /\ dbpast.clobbered = FALSE =>
              /\ Within(saved.cat, store.side) /\ Within(saved.cat, store.kept)
              /\ Within(saved.cat, handle[h].cat)
         /\ Undisturbed =>
              /\ Within(store.kept, store.side) /\ Within(store.side, handle[h].cat)
              /\ \A x \in rows : x[1] \in DOMAIN handle[h].cat.ids /\ handle[h].cat.ids[x[1]] = x[2]
         /\ dbpast.clobbered = FALSE /\ dbpast.vanished = FALSE /\ saved.mode # 0 =>
              store.mode = saved.mode /\ handle[h].mode = saved.mode
<1> USE DEF DBInv
<1>1. handle[h].pc \in {"model", "open", "persist"} /\ Engaged(h)
  BY DEF Inside, Engaged
<1>2. handle[h] \in HandleRecord /\ store \in StoreRecord /\ dbpast \in PastRecord
      /\ saved \in [cat : CatalogRecord, mode : 0..2]
  BY DEF DBTypes
<1>3. lock = h /\ store.valid = TRUE /\ (handle[h].pc = "persist" => store.side = handle[h].cat)
  BY <1>1 DEF LockHeld
<1>4. GoodCatalog(handle[h].cat) /\ GoodCatalog(store.side) /\ GoodCatalog(store.kept) /\ GoodCatalog(saved.cat)
  BY DEF GoodCatalogs
<1>5. /\ store.entry = FALSE => saved.cat = NoCatalog
      /\ dbpast.swallowed = FALSE /\ dbpast.clobbered = FALSE =>
              /\ Within(saved.cat, store.side) /\ Within(saved.cat, store.kept)
              /\ Within(saved.cat, handle[h].cat)
  BY <1>1, Zenon DEF SyncedKept
<1>6. Undisturbed =>
              /\ Within(store.kept, store.side) /\ Within(store.side, handle[h].cat)
              /\ \A x \in rows : x[1] \in DOMAIN handle[h].cat.ids /\ handle[h].cat.ids[x[1]] = x[2]
  BY DEF RowsKnown, Resolves
<1>7. dbpast.clobbered = FALSE /\ dbpast.vanished = FALSE /\ saved.mode # 0 =>
              store.mode = saved.mode /\ handle[h].mode = saved.mode
  BY DEF ModeFixed
<1> QED BY <1>2, <1>3, <1>4, <1>5, <1>6, <1>7

\* A session that ends without its catalog in the file is either noted or has left nothing behind.
LEMMA NotedOrKnown ==
  ASSUME DBInv, NEW h \in Handles, Undisturbed, handle[h].pc = "persist" \/ ~ Unsaved(store.side), Inside(h)
  PROVE  Resolves(store.side)
<1>1. Resolves(handle[h].cat) /\ Within(store.side, handle[h].cat)
  BY DEF DBInv, RowsKnown
<1>2. CASE handle[h].pc = "persist"
  BY <1>1, <1>2 DEF DBInv, LockHeld
<1>3. CASE ~ Unsaved(store.side)
  BY <1>1, <1>3 DEF Unsaved, Resolves, Within
<1> QED BY <1>2, <1>3

\* persist_fails and die
LEMMA DepartureKeeps ==
  ASSUME DBInv, NEW h \in Handles, persist_fails(h) \/ die(h)
  PROVE  DBInv'
<1>1. UNCHANGED <<rows, saved>> /\ SameStore
  BY StoreStays DEF persist_fails, die
<1>2. handle[h] \in HandleRecord /\ dbpast \in PastRecord
  BY DEF DBInv, DBTypes
<1>3. ASSUME Leave(h), SamePast, Inside(h) /\ Undisturbed' => handle[h].pc = "persist" \/ ~ Unsaved(store.side)
      PROVE  DBInv'
  <2>1. Undisturbed' => Undisturbed
    BY <1>3 DEF SamePast, Undisturbed
  <2>2. Inside(h) /\ Undisturbed' => Resolves(store.side)
    BY <1>3, <2>1, NotedOrKnown
  <2> QED BY <1>1, <1>3, <2>2, OutIsHandle, QuietStep, Zenon DEF Leave
<1>4. ASSUME NEW b \in BOOLEAN, dbpast' = [dbpast EXCEPT !.unsaved = @ \/ b]
      PROVE  SamePast /\ (Undisturbed' => ~ b)
  BY <1>2, <1>4 DEF PastRecord, SamePast, Undisturbed
<1>5. ASSUME persist_fails(h), AtStep(h, "persist"), UNCHANGED dbpast PROVE DBInv'
  <2>1. SamePast
    BY <1>5, PastStays
  <2>2. CASE Leave(h)
    BY <1>3, <1>5, <2>1, <2>2, SMTT(30) DEF AtStep
  <2>3. CASE Becomes(h, "open") /\ UNCHANGED lock
    <3>1. PICK r \in HandleRecord :
            handle' = [handle EXCEPT ![h] = r] /\ r.pc = "open" /\ r.cat = handle[h].cat /\ r.mode = handle[h].mode
      BY <2>3, MoveOn DEF Steps
    <3>2. Inside(h) /\ UNCHANGED <<store, rows, saved, dbpast, lock>> /\ (Undisturbed' <=> Undisturbed)
      BY <1>5, <2>3 DEF AtStep, Inside, persist_fails, Undisturbed
    <3>3. /\ store' \in StoreRecord /\ saved' \in [cat : CatalogRecord, mode : 0..2] /\ dbpast' \in PastRecord
          /\ lock = h /\ lock' = lock /\ store'.valid = TRUE
          /\ GoodCatalog(r.cat) /\ GoodCatalog(store'.side) /\ GoodCatalog(store'.kept) /\ GoodCatalog(saved'.cat)
          /\ store'.entry = FALSE => saved'.cat = NoCatalog
      BY <3>1, <3>2, SessionFacts, Zenon
    <3>4. dbpast'.swallowed = FALSE /\ dbpast'.clobbered = FALSE =>
            Within(saved'.cat, store'.side) /\ Within(saved'.cat, store'.kept) /\ Within(saved'.cat, r.cat)
      BY <3>1, <3>2, SessionFacts, Zenon
    <3>5. Undisturbed' =>
            /\ Within(store'.kept, store'.side) /\ Within(store'.side, r.cat)
            /\ \A x \in rows' : x[1] \in DOMAIN r.cat.ids /\ r.cat.ids[x[1]] = x[2]
      BY <3>1, <3>2, SessionFacts, Zenon
    <3>6. dbpast'.clobbered = FALSE /\ dbpast'.vanished = FALSE /\ saved'.mode # 0 =>
            store'.mode = saved'.mode /\ r.mode = saved'.mode
      BY <3>1, <3>2, SessionFacts, Zenon
    <3> QED BY <3>1, <3>3, <3>4, <3>5, <3>6, SessionStep, Zenon
  <2> QED BY <1>5, <2>2, <2>3 DEF persist_fails, Released
<1>6. ASSUME AtStep(h, "open"), Leave(h), dbpast' = [dbpast EXCEPT !.unsaved = @ \/ Unsaved(store.side)] PROVE DBInv'
  <2>1. Unsaved(store.side) \in BOOLEAN
    BY DEF Unsaved
  <2> QED BY <1>3, <1>4, <1>6, <2>1
<1>7. ASSUME die(h) PROVE DBInv'
  <2>1. (lock = h /\ Unsaved(store.side)) \in BOOLEAN
    BY DEF Unsaved
  <2>2. SamePast /\ (Undisturbed' => ~ (lock = h /\ Unsaved(store.side)))
    BY <1>4, <1>7, <2>1, Zenon DEF die
  <2>3. Inside(h) => lock = h
    BY DEF DBInv, LockHeld, Inside, Engaged
  <2> QED BY <1>3, <1>7, <2>2, <2>3 DEF die
<1> QED BY <1>5, <1>6, <1>7 DEF persist_fails

\* A catalog that contains another contains what that one contains.
LEMMA WithinIsOrder ==
  /\ \A c : Within(c, c)
  /\ \A c, d, e : Within(c, d) /\ Within(d, e) => Within(c, e)
BY DEF Within

\* create_labelled, persist_rename and persist_sync_dir
LEMMA SessionKeeps ==
  ASSUME DBInv, NEW h \in Handles,
         \/ \E n \in Names : create_labelled(h, n)
         \/ \E closing \in BOOLEAN : persist_rename(h, closing)
         \/ persist_sync_dir(h)
  PROVE  DBInv'
<1>0. Inside(h)
  BY DEF create_labelled, persist_rename, persist_sync_dir, AtStep, Inside
<1>a. /\ handle[h] \in HandleRecord /\ store \in StoreRecord /\ dbpast \in PastRecord
      /\ saved \in [cat : CatalogRecord, mode : 0..2] /\ lock = h /\ store.valid = TRUE
  BY <1>0, SessionFacts, Zenon
<1>b. GoodCatalog(handle[h].cat) /\ GoodCatalog(store.side) /\ GoodCatalog(store.kept) /\ GoodCatalog(saved.cat)
  BY <1>0, SessionFacts, Zenon
<1>c. /\ handle[h].pc = "persist" => store.side = handle[h].cat
      /\ store.entry = FALSE => saved.cat = NoCatalog
  BY <1>0, SessionFacts, Zenon
<1>d. dbpast.swallowed = FALSE /\ dbpast.clobbered = FALSE =>
        Within(saved.cat, store.side) /\ Within(saved.cat, store.kept) /\ Within(saved.cat, handle[h].cat)
  BY <1>0, SessionFacts, Zenon
<1>e. Undisturbed =>
        /\ Within(store.kept, store.side) /\ Within(store.side, handle[h].cat)
        /\ \A x \in rows : x[1] \in DOMAIN handle[h].cat.ids /\ handle[h].cat.ids[x[1]] = x[2]
  BY <1>0, SessionFacts, Zenon
<1>f. dbpast.clobbered = FALSE /\ dbpast.vanished = FALSE /\ saved.mode # 0 =>
        store.mode = saved.mode /\ handle[h].mode = saved.mode
  BY <1>0, SessionFacts, Zenon
<1>1. ASSUME NEW n \in Names, create_labelled(h, n) PROVE DBInv'
  <2> DEFINE cat == get_or_create(handle[h].cat, n)
             r == [handle[h] EXCEPT !.cat = cat]
  <2>1. GoodCatalog(cat) /\ Within(handle[h].cat, cat) /\ n \in DOMAIN cat.ids
    BY <1>b, CatalogGrows
  <2>2. /\ handle' = [handle EXCEPT ![h] = r] /\ rows' = rows \cup {<<n, cat.ids[n]>>}
        /\ UNCHANGED <<store, lock, saved, dbpast>>
    BY <1>1 DEF create_labelled, DBInv, DBTypes
  <2> HIDE DEF cat
  <2>3. r \in HandleRecord /\ r.pc = handle[h].pc /\ r.cat = cat /\ r.mode = handle[h].mode /\ r.pc = "open"
    <3>1. handle[h].pc = "open" /\ cat \in CatalogRecord
      BY <1>1, <2>1, Zenon DEF create_labelled, AtStep, GoodCatalog
    <3> QED BY <1>a, <3>1 DEF HandleRecord
  <2> HIDE DEF r
  <2>4. dbpast.swallowed = FALSE /\ dbpast.clobbered = FALSE => Within(saved.cat, cat)
    BY <1>d, <2>1, WithinIsOrder, Zenon
  <2>5. Undisturbed' => /\ Within(store.kept, store.side) /\ Within(store.side, cat)
                        /\ \A x \in rows' : x[1] \in DOMAIN cat.ids /\ cat.ids[x[1]] = x[2]
    <3> SUFFICES ASSUME Undisturbed
                 PROVE /\ Within(store.kept, store.side) /\ Within(store.side, cat)
                       /\ \A x \in rows' : x[1] \in DOMAIN cat.ids /\ cat.ids[x[1]] = x[2]
      BY <2>2, Zenon DEF Undisturbed
    <3>1. Within(store.kept, store.side) /\ Within(store.side, cat)
      BY <1>e, <2>1, WithinIsOrder
    <3>2. \A x \in rows : x[1] \in DOMAIN cat.ids /\ cat.ids[x[1]] = x[2]
      BY <1>e, <2>1 DEF Within
    <3> QED BY <2>1, <2>2, <3>1, <3>2, SMTT(30)
  <2> QED BY <1>a, <1>b, <1>c, <1>d, <1>f, <2>1, <2>2, <2>3, <2>4, <2>5, SessionStep, ZenonT(30)
<1>2. ASSUME NEW closing \in BOOLEAN, persist_rename(h, closing) PROVE DBInv'
  <2> DEFINE r == [handle[h] EXCEPT !.pc = "persist", !.closing = closing]
             st == [store EXCEPT !.side = handle[h].cat]
  <2>1. handle[h] \in HandleRecord /\ handle[h].cat \in CatalogRecord /\ "persist" \in Steps
    BY <1>a DEF HandleRecord, Steps
  <2>2. /\ handle' = [handle EXCEPT ![h] = r] /\ store' = st
        /\ UNCHANGED <<rows, lock, saved, dbpast>>
    BY <1>2, Zenon DEF persist_rename, DBInv, DBTypes
  <2>3. r \in HandleRecord
    BY <2>1, Zenon DEF HandleRecord
  <2>4. r.pc = "persist" /\ r.cat = handle[h].cat /\ r.mode = handle[h].mode
    BY <2>1 DEF HandleRecord
  <2>5. /\ st \in StoreRecord /\ st.side = handle[h].cat /\ st.kept = store.kept /\ st.valid = store.valid
        /\ st.mode = store.mode /\ st.entry = store.entry
    BY <1>a, <2>1, Zenon DEF StoreRecord
  <2> HIDE DEF r, st
  <2>6. Undisturbed' => Within(store.kept, handle[h].cat) /\ Within(handle[h].cat, handle[h].cat)
    BY <1>e, <2>2, WithinIsOrder DEF Undisturbed
  <2>7. Undisturbed' => Undisturbed
    BY <2>2 DEF Undisturbed
  <2> QED BY <1>a, <1>b, <1>c, <1>d, <1>e, <1>f, <2>2, <2>3, <2>4, <2>5, <2>6, <2>7, SessionStep, ZenonT(30)
<1>3. ASSUME persist_sync_dir(h) PROVE DBInv'
  <2>1. AtStep(h, "persist")
    BY <1>3 DEF persist_sync_dir
  <2> DEFINE st == [store EXCEPT !.kept = store.side, !.entry = TRUE]
             sv == [saved EXCEPT !.cat = handle[h].cat]
  <2>2. /\ store' = st /\ saved' = sv /\ Released(h, handle[h].closing) /\ UNCHANGED <<rows, dbpast>>
    BY <1>3 DEF persist_sync_dir
  <2>3. store \in StoreRecord /\ store.side \in CatalogRecord /\ TRUE \in BOOLEAN
    BY <1>a DEF StoreRecord
  <2>4. st \in StoreRecord
    BY <2>3, Zenon DEF StoreRecord
  <2>5. /\ st.side = store.side /\ st.kept = store.side /\ st.valid = store.valid
        /\ st.mode = store.mode /\ st.entry = TRUE
    BY <2>3 DEF StoreRecord
  <2>6. sv \in [cat : CatalogRecord, mode : 0..2] /\ sv.cat = handle[h].cat /\ sv.mode = saved.mode
    BY <1>a DEF HandleRecord
  <2> HIDE DEF st, sv
  <2>7. store.side = handle[h].cat
    BY <1>c, <2>1 DEF AtStep
  <2>8. CASE Becomes(h, "open") /\ UNCHANGED lock
    <3>1. PICK r \in HandleRecord :
            handle' = [handle EXCEPT ![h] = r] /\ r.pc = "open" /\ r.cat = handle[h].cat /\ r.mode = handle[h].mode
      BY <2>8, MoveOn DEF Steps
    <3>2. Undisturbed' => Undisturbed
      BY <2>2 DEF Undisturbed
    <3>3. Within(handle[h].cat, handle[h].cat)
      BY WithinIsOrder
    <3> QED BY <1>a, <1>b, <1>e, <1>f, <2>2, <2>4, <2>5, <2>6, <2>7, <2>8, <3>1, <3>2, <3>3, SessionStep, ZenonT(30)
  <2>9. CASE Leave(h)
    <3>1. \A k \in Handles : handle'[k] = IF k = h THEN Out ELSE handle[k]
      BY <2>9, Zenon DEF Leave, DBInv, DBTypes
    <3>2. lock' = NoHandle /\ \A k \in Handles : k # h => ~ Engaged(k)
      BY <1>a, <2>9, Zenon DEF Leave, DBInv, LockHeld
    <3>3. \A k \in Handles : ~ Engaged(k)' /\ ~ Inside(k)' /\ handle'[k].pc \notin {"model", "open", "persist"}
      BY <3>1, <3>2, OutIsHandle, SMTT(30) DEF Engaged, Inside
    <3>4. DBTypes'
      BY <1>a, <2>2, <2>4, <2>6, <2>9, OutIsHandle, Zenon DEF DBInv, DBTypes, Leave
    <3>5. LockHeld'
      <4>1. \A k \in Handles : handle'[k].cat = NoCatalog
        BY <3>1, <3>2, OutIsHandle, SMTT(30) DEF DBInv, LockHeld, Engaged, Inside
      <4> QED BY <3>3, <4>1, Zenon DEF LockHeld
    <3>6. GoodCatalogs'
      BY <1>b, <2>2, <2>5, <2>6, <3>1, OutIsHandle, EmptyIsGood, Zenon DEF DBInv, GoodCatalogs
    <3>7. SyncedKept'
      <4>1. Within(handle[h].cat, handle[h].cat)
        BY WithinIsOrder, Zenon
      <4> QED BY <1>a, <2>2, <2>5, <2>6, <2>7, <3>3, <4>1 DEF SyncedKept
    <3>8. RowsKnown'
      <4> SUFFICES ASSUME Undisturbed'
                   PROVE  Within(store'.kept, store'.side) /\ Resolves(store.side)'
        BY <1>a, <2>2, <2>5, <3>3 DEF RowsKnown, Within
      <4>1. Undisturbed
        BY <2>2 DEF Undisturbed
      <4>2. Within(store'.kept, store'.side)
        BY <2>2, <2>5, WithinIsOrder, Zenon
      <4> QED BY <1>e, <2>2, <2>5, <2>7, <4>1, <4>2, ZenonT(30) DEF Resolves
    <3>9. ModeFixed'
      BY <1>a, <1>f, <2>2, <2>5, <2>6, <3>3 DEF ModeFixed
    <3> QED BY <3>4, <3>5, <3>6, <3>7, <3>8, <3>9 DEF DBInv
  <2> QED BY <2>2, <2>8, <2>9 DEF Released
<1> QED BY <1>1, <1>2, <1>3

\* init_engine: the superblock of an empty database.  If one was there, that is noted.
LEMMA FormatKeeps ==
  ASSUME DBInv, NEW h \in Handles, init_engine(h)
  PROVE  DBInv'
<1> DEFINE st == [store EXCEPT !.valid = TRUE, !.mode = 0]
           dp == [dbpast EXCEPT !.clobbered = @ \/ store.valid]
<1>1. /\ store' = st /\ dbpast' = dp /\ Becomes(h, "model") /\ UNCHANGED <<lock, rows, saved>>
      /\ handle[h].pc = "format"
  BY DEF init_engine, AtStep
<1>2. /\ store \in StoreRecord /\ dbpast \in PastRecord /\ store.valid \in BOOLEAN /\ TRUE \in BOOLEAN /\ 0 \in 0..2
  BY DEF DBInv, DBTypes, StoreRecord
<1>3. st \in StoreRecord
  BY <1>2, Zenon DEF StoreRecord
<1>4. /\ st.valid = TRUE /\ st.mode = 0 /\ st.side = store.side /\ st.kept = store.kept /\ st.entry = store.entry
  BY <1>2 DEF StoreRecord
<1>5. /\ dp \in PastRecord /\ dp.unsaved = dbpast.unsaved /\ dp.swallowed = dbpast.swallowed
      /\ dp.vanished = dbpast.vanished
      /\ dp.clobbered = FALSE => dbpast.clobbered = FALSE /\ store.valid = FALSE
  BY <1>2 DEF PastRecord
<1> HIDE DEF st, dp
<1>6. PICK r \in HandleRecord :
        handle' = [handle EXCEPT ![h] = r] /\ r.pc = "model" /\ r.cat = handle[h].cat /\ r.mode = handle[h].mode
  BY <1>1, MoveOn DEF Steps
<1>7. \A k \in Handles : handle'[k] = IF k = h THEN r ELSE handle[k]
  BY <1>6, Zenon DEF DBInv, DBTypes
<1>8. lock = h /\ handle[h].cat = NoCatalog /\ \A k \in Handles : k # h => ~ Engaged(k)
  BY <1>1, SMTT(30) DEF DBInv, LockHeld, Engaged, Inside
<1>9. /\ \A k \in Handles : ~ Inside(k) /\ ~ Inside(k)'
      /\ \A k \in Handles : handle'[k].pc \in {"model", "open", "persist"} => k = h
      /\ \A k \in Handles : handle'[k].pc # "persist" /\ handle'[k].cat = NoCatalog
  BY <1>1, <1>6, <1>7, <1>8 DEF Engaged, Inside, DBInv, LockHeld
<1>10. DBTypes'
  BY <1>1, <1>3, <1>5, <1>6 DEF DBInv, DBTypes
<1>11. LockHeld'
  BY <1>1, <1>4, <1>7, <1>8, <1>9, Zenon DEF LockHeld, Engaged
<1>12. GoodCatalogs'
  BY <1>1, <1>4, <1>9, EmptyIsGood, Zenon DEF DBInv, GoodCatalogs
<1>13. SyncedKept'
  <2>1. dbpast'.clobbered = FALSE => saved.cat = NoCatalog
    BY <1>1, <1>2, <1>5 DEF DBInv, SyncedKept, StoreRecord
  <2>2. Within(NoCatalog, NoCatalog)
    BY WithinIsOrder
  <2> QED BY <1>1, <1>4, <1>5, <1>9, <2>1, <2>2, Zenon DEF DBInv, SyncedKept
<1>14. RowsKnown'
  <2> SUFFICES ASSUME Undisturbed'
               PROVE  Within(store'.kept, store'.side) /\ Resolves(store.side)' /\ Unused'
    BY <1>9, Zenon DEF RowsKnown, Within
  <2>1. Undisturbed /\ store.valid = FALSE
    BY <1>1, <1>5, Zenon DEF Undisturbed
  <2>2. Unused
    BY <2>1, Zenon DEF DBInv, RowsKnown
  <2> QED BY <1>1, <1>4, <2>2, WithinIsOrder DEF Unused, Resolves
<1>15. ModeFixed'
  BY <1>1, <1>5, Zenon DEF DBInv, ModeFixed
<1> QED BY <1>10, <1>11, <1>12, <1>13, <1>14, <1>15 DEF DBInv

\* init_mode: the session of a database that has just been created begins.
LEMMA CreationKeeps ==
  ASSUME DBInv, NEW h \in Handles, init_mode(h)
  PROVE  DBInv'
<1> DEFINE st == [store EXCEPT !.mode = handle[h].mode]
           sv == [saved EXCEPT !.mode = handle[h].mode]
<1>1. /\ store' = st /\ saved' = sv /\ Becomes(h, "open") /\ UNCHANGED <<lock, rows, dbpast>>
      /\ handle[h].pc = "model"
  BY DEF init_mode, AtStep
<1>2. /\ handle[h].mode \in 0..2 /\ store \in StoreRecord /\ dbpast \in PastRecord
      /\ saved \in [cat : CatalogRecord, mode : 0..2]
  BY DEF DBInv, DBTypes, HandleRecord
<1>3. /\ st \in StoreRecord /\ st.mode = handle[h].mode /\ st.valid = store.valid
      /\ st.side = store.side /\ st.kept = store.kept /\ st.entry = store.entry
  BY <1>2 DEF StoreRecord
<1>4. sv \in [cat : CatalogRecord, mode : 0..2] /\ sv.cat = saved.cat /\ sv.mode = handle[h].mode
  BY <1>2
<1> HIDE DEF st, sv
<1>5. PICK r \in HandleRecord :
        handle' = [handle EXCEPT ![h] = r] /\ r.pc = "open" /\ r.cat = handle[h].cat /\ r.mode = handle[h].mode
  BY <1>1, MoveOn DEF Steps
<1>6. lock = h /\ store.valid = TRUE /\ handle[h].cat = NoCatalog
  BY <1>1 DEF DBInv, LockHeld, Engaged, Inside
<1>7. GoodCatalog(handle[h].cat) /\ GoodCatalog(store.side) /\ GoodCatalog(store.kept) /\ GoodCatalog(saved.cat)
  BY DEF DBInv, GoodCatalogs
<1>8. /\ store.entry = FALSE => saved.cat = NoCatalog
      /\ dbpast.swallowed = FALSE /\ dbpast.clobbered = FALSE =>
           Within(saved.cat, store.side) /\ Within(saved.cat, store.kept) /\ Within(saved.cat, handle[h].cat)
  BY <1>1 DEF DBInv, SyncedKept
<1>9. Undisturbed' =>
        /\ Within(store.kept, store.side) /\ Within(store.side, handle[h].cat)
        /\ \A x \in rows : x[1] \in DOMAIN handle[h].cat.ids /\ handle[h].cat.ids[x[1]] = x[2]
  <2> SUFFICES ASSUME Undisturbed
               PROVE  /\ Within(store.kept, store.side) /\ Within(store.side, handle[h].cat)
                      /\ \A x \in rows : x[1] \in DOMAIN handle[h].cat.ids /\ handle[h].cat.ids[x[1]] = x[2]
    BY <1>1, Zenon DEF Undisturbed
  <2>1. Unused
    BY <1>1 DEF DBInv, RowsKnown
  <2> QED BY <1>6, <2>1, WithinIsOrder DEF Unused
<1> QED BY <1>1, <1>2, <1>3, <1>4, <1>5, <1>6, <1>7, <1>8, <1>9, SessionStep, ZenonT(30)

\* open_ok and open_unread: the session begins with the catalog in the file, or with none.
LEMMA OpeningKeeps ==
  ASSUME DBInv, NEW h \in Handles, open_ok(h) \/ open_unread(h)
  PROVE  DBInv'
<1>1. /\ handle[h].pc = "load" /\ Accepts(h) /\ UNCHANGED <<store, lock, rows, saved>>
  BY DEF open_ok, open_unread, AtStep
<1>2. /\ handle[h] \in HandleRecord /\ store \in StoreRecord /\ dbpast \in PastRecord
      /\ saved \in [cat : CatalogRecord, mode : 0..2] /\ "open" \in Steps
  BY DEF DBInv, DBTypes, Steps
<1>3. GoodCatalog(store.side) /\ GoodCatalog(store.kept) /\ GoodCatalog(saved.cat)
  BY DEF DBInv, GoodCatalogs
<1>4. lock = h /\ \A k \in Handles : ~ Inside(k)
  BY <1>1 DEF DBInv, LockHeld, Engaged, Inside
<1>5. ASSUME NEW c, c \in {store.side, NoCatalog}, dbpast' \in PastRecord,
             handle' = [handle EXCEPT ![h].pc = "open", ![h].cat = c],
             dbpast'.swallowed = FALSE => dbpast.swallowed = FALSE /\ c = store.side,
             dbpast'.unsaved = dbpast.unsaved, dbpast'.clobbered = dbpast.clobbered,
             dbpast'.vanished = dbpast.vanished
      PROVE  DBInv'
  <2> DEFINE r == [handle[h] EXCEPT !.pc = "open", !.cat = c]
  <2>1. handle' = [handle EXCEPT ![h] = r]
    BY <1>2, <1>5, Zenon DEF DBInv, DBTypes
  <2>2. GoodCatalog(c) /\ c \in CatalogRecord
    BY <1>3, <1>5, EmptyIsGood, SMTT(30) DEF GoodCatalog
  <2>3. r \in HandleRecord
    BY <1>2, <2>2, Zenon DEF HandleRecord
  <2>4. r.pc = "open" /\ r.cat = c /\ r.mode = handle[h].mode
    BY <1>2 DEF HandleRecord
  <2> HIDE DEF r
  <2>5. store.valid = TRUE /\ store.mode \in {0, handle[h].mode}
    BY <1>1, <1>2 DEF Accepts, StoreRecord
  <2>6. store.entry = FALSE => saved.cat = NoCatalog
    BY DEF DBInv, SyncedKept
  <2>7. dbpast'.swallowed = FALSE /\ dbpast'.clobbered = FALSE =>
          Within(saved.cat, store.side) /\ Within(saved.cat, store.kept) /\ Within(saved.cat, c)
    BY <1>5 DEF DBInv, SyncedKept
  <2>8. Undisturbed' =>
          /\ Within(store.kept, store.side) /\ Within(store.side, c)
          /\ \A x \in rows : x[1] \in DOMAIN c.ids /\ c.ids[x[1]] = x[2]
    <3> SUFFICES ASSUME Undisturbed, c = store.side
                 PROVE  /\ Within(store.kept, store.side) /\ Within(store.side, c)
                        /\ \A x \in rows : x[1] \in DOMAIN c.ids /\ c.ids[x[1]] = x[2]
      BY <1>5, Zenon DEF Undisturbed
    <3>1. Within(store.kept, store.side) /\ Resolves(store.side)
      BY <1>4 DEF DBInv, RowsKnown
    <3> QED BY <3>1, WithinIsOrder DEF Resolves
  <2>9. dbpast'.clobbered = FALSE /\ dbpast'.vanished = FALSE /\ saved.mode # 0 =>
          store.mode = saved.mode /\ handle[h].mode = saved.mode
    BY <1>5, <2>5 DEF DBInv, ModeFixed
  <2> QED BY <1>1, <1>2, <1>3, <1>4, <1>5, <2>1, <2>2, <2>3, <2>4, <2>5, <2>6, <2>7, <2>8, <2>9, SessionStep, ZenonT(30)
<1>6. CASE open_ok(h)
  <2>1. decode_catalog(store.side.ids) = store.side
    BY <1>3, CatalogRoundTrip
  <2>2. handle' = [handle EXCEPT ![h].pc = "open", ![h].cat = store.side] /\ dbpast' = dbpast
    BY <1>6, <2>1 DEF open_ok
  <2> QED BY <1>2, <1>5, <2>2, Zenon
<1>7. CASE open_unread(h)
  <2>1. handle' = [handle EXCEPT ![h].pc = "open", ![h].cat = NoCatalog]
    BY <1>7 DEF open_unread
  <2>2. /\ dbpast' \in PastRecord /\ dbpast'.unsaved = dbpast.unsaved /\ dbpast'.clobbered = dbpast.clobbered
        /\ dbpast'.vanished = dbpast.vanished
        /\ dbpast'.swallowed = FALSE => dbpast.swallowed = FALSE /\ NoCatalog = store.side
    BY <1>2, <1>7, Zenon DEF open_unread, PastRecord
  <2> QED BY <1>5, <2>1, <2>2, Zenon
<1> QED BY <1>6, <1>7

\* power_cut: nobody is left; the file is the last one renamed or the last one synced.
LEMMA PowerCutKeeps ==
  ASSUME DBInv, power_cut
  PROVE  DBInv'
<1>1. PICK side \in {store.side, store.kept}, gone \in BOOLEAN :
        /\ gone => ~ store.entry /\ store.data
        /\ store' = [store EXCEPT !.side = side, !.kept = side, !.data = @ /\ ~ gone, !.valid = @ /\ ~ gone]
        /\ dbpast' = [dbpast EXCEPT !.unsaved = @ \/ Unsaved(side), !.vanished = @ \/ gone]
  BY Zenon DEF power_cut
<1>2. handle' = [h \in Handles |-> Out] /\ lock' = NoHandle /\ UNCHANGED <<rows, saved>>
  BY DEF power_cut
<1>3. store \in StoreRecord /\ dbpast \in PastRecord /\ saved \in [cat : CatalogRecord, mode : 0..2]
  BY Zenon DEF DBInv, DBTypes
<1>4. GoodCatalog(side) /\ side \in CatalogRecord /\ GoodCatalog(saved.cat)
  BY ZenonT(30) DEF DBInv, GoodCatalogs, GoodCatalog
<1>5. store' \in StoreRecord
  <2>1. (store.data /\ ~ gone) \in BOOLEAN /\ (store.valid /\ ~ gone) \in BOOLEAN
    OBVIOUS
  <2> QED BY <1>1, <1>3, <1>4, <2>1, Zenon DEF StoreRecord
<1>6. /\ store'.side = side /\ store'.kept = side /\ store'.mode = store.mode /\ store'.entry = store.entry
      /\ store'.valid = TRUE => store.valid = TRUE
      /\ gone = FALSE => store'.valid = store.valid
      /\ gone = TRUE => store.entry = FALSE
  BY <1>1, <1>3 DEF StoreRecord
<1>7. dbpast' \in PastRecord
  <2>1. (dbpast.unsaved \/ Unsaved(side)) \in BOOLEAN /\ (dbpast.vanished \/ gone) \in BOOLEAN
    BY DEF Unsaved
  <2> QED BY <1>1, <1>3, <2>1, Zenon DEF PastRecord
<1>8. /\ dbpast'.swallowed = dbpast.swallowed /\ dbpast'.clobbered = dbpast.clobbered
      /\ dbpast'.vanished = FALSE => dbpast.vanished = FALSE /\ gone = FALSE
      /\ dbpast'.unsaved = FALSE => dbpast.unsaved = FALSE /\ ~ Unsaved(side)
  BY <1>1, <1>3, Zenon DEF PastRecord
<1>9. \A h \in Handles : handle'[h] = Out /\ ~ Inside(h)' /\ ~ Engaged(h)'
  BY <1>2, OutIsHandle, Zenon DEF Inside, Engaged
<1>10. DBTypes'
  BY <1>2, <1>3, <1>5, <1>7, OutIsHandle, Zenon DEF DBTypes
<1>11. LockHeld'
  BY <1>9, OutIsHandle, Zenon DEF LockHeld
<1>12. GoodCatalogs'
  BY <1>2, <1>4, <1>6, <1>9, OutIsHandle, EmptyIsGood DEF GoodCatalogs
<1>13. SyncedKept'
  <2>1. store.entry = TRUE => store'.valid = TRUE
    BY <1>6, Zenon DEF DBInv, SyncedKept
  <2> QED BY <1>1, <1>2, <1>6, <1>8, <1>9, <2>1, OutIsHandle DEF DBInv, SyncedKept
<1>14. RowsKnown'
  <2> SUFFICES ASSUME Undisturbed'
               PROVE  /\ store.valid = FALSE => Unused'
                      /\ Within(side, side) /\ Resolves(side)
    BY <1>2, <1>6, <1>8, <1>9, OutIsHandle, Zenon DEF RowsKnown, Resolves, Within, Undisturbed
  <2>1. Undisturbed /\ ~ Unsaved(side)
    BY <1>8 DEF Undisturbed
  <2>2. store.valid = FALSE => Unused'
    BY <1>1, <1>2, <1>6, <2>1 DEF DBInv, RowsKnown, Unused
  <2>3. Within(side, store.side)
    BY <1>1, <2>1, WithinIsOrder DEF DBInv, RowsKnown
  <2>4. Resolves(side)
    <3>1. CASE \E h \in Handles : Inside(h)
      <4>1. PICK h \in Handles : Inside(h)
        BY <3>1, SMTT(30)
      <4>2. Resolves(handle[h].cat) /\ Within(side, handle[h].cat)
        BY <2>1, <2>3, <4>1, WithinIsOrder DEF DBInv, RowsKnown
      <4> QED BY <2>1, <4>2 DEF Resolves, Within, Unsaved
    <3>2. CASE \A h \in Handles : ~ Inside(h)
      <4>1. Resolves(store.side)
        BY <2>1, <3>2, Zenon DEF DBInv, RowsKnown
      <4> QED BY <2>1, <2>3, <4>1, Zenon DEF Resolves, Within, Unsaved
    <3> QED BY <3>1, <3>2, SMTT(30)
  <2> QED BY <2>2, <2>4, WithinIsOrder, Zenon
<1>15. ModeFixed'
  BY <1>2, <1>6, <1>8, <1>9, OutIsHandle DEF DBInv, ModeFixed
<1> QED BY <1>10, <1>11, <1>12, <1>13, <1>14, <1>15 DEF DBInv

\* Nothing is there at first.
LEMMA InitKeeps == DBInit => DBInv
<1> SUFFICES ASSUME DBInit PROVE DBInv
  BY Zenon
<1>1. NoCatalog \in CatalogRecord /\ GoodCatalog(NoCatalog)
  BY EmptyIsGood, Zenon DEF GoodCatalog
<1>2. \A h \in Handles : handle[h] = Out /\ ~ Inside(h) /\ ~ Engaged(h)
  BY OutIsHandle, Zenon DEF DBInit, Inside, Engaged
<1>3. store.valid = FALSE /\ store.side = NoCatalog /\ store.kept = NoCatalog /\ store.entry = FALSE
  BY Zenon DEF DBInit
<1>4. DBTypes
  BY <1>1, OutIsHandle, SMTT(30) DEF DBInit, DBTypes, StoreRecord, PastRecord
<1>5. LockHeld
  BY <1>2, OutIsHandle, SMTT(30) DEF LockHeld
<1>6. saved.cat = NoCatalog /\ saved.mode = 0 /\ rows = {}
  BY DEF DBInit
<1>7. GoodCatalogs
  BY <1>1, <1>2, <1>3, <1>6, OutIsHandle, Zenon DEF GoodCatalogs
<1>8. SyncedKept
  BY <1>2, <1>3, <1>6, OutIsHandle, WithinIsOrder, Zenon DEF SyncedKept
<1>9. RowsKnown
  BY <1>2, <1>3, <1>6, OutIsHandle, WithinIsOrder DEF RowsKnown, Unused, Resolves
<1>10. ModeFixed
  BY <1>6 DEF ModeFixed
<1> QED BY <1>4, <1>5, <1>7, <1>8, <1>9, <1>10 DEF DBInv

\* Every step of every handle keeps the invariant.
LEMMA NextKeeps == DBInv /\ [DBNext]_dbvars => DBInv'
<1> SUFFICES ASSUME DBInv, [DBNext]_dbvars PROVE DBInv'
  OBVIOUS
<1>1. CASE power_cut
  BY <1>1, PowerCutKeeps, SMTT(30)
<1>2. CASE UNCHANGED dbvars
  BY <1>2 DEF dbvars, DBInv, DBTypes, LockHeld, GoodCatalogs, SyncedKept, RowsKnown, ModeFixed,
              Engaged, Inside, Undisturbed, Unused, Resolves
<1>3. ASSUME NEW h \in Handles,
             \/ \E mode \in 1..2 : build(h, mode)
             \/ check_path(h) \/ create_dir_all(h) \/ acquire_exclusive_lock(h)
             \/ init_file(h) \/ init_engine(h) \/ init_mode(h)
             \/ open_ok(h) \/ open_fails(h) \/ open_unread(h)
             \/ \E n \in Names : create_labelled(h, n)
             \/ \E closing \in BOOLEAN : persist_rename(h, closing)
             \/ persist_sync_dir(h) \/ persist_fails(h) \/ die(h)
      PROVE  DBInv'
  BY <1>3, ArrivalKeeps, DepartureKeeps, SessionKeeps, FormatKeeps, CreationKeeps, OpeningKeeps
<1> QED BY <1>1, <1>2, <1>3 DEF DBNext

\* The invariant gives the five promises.
LEMMA InvAgrees == DBInv => SessionsAgree
<1> SUFFICES ASSUME DBInv PROVE SessionsAgree
  OBVIOUS
<1>0. store \in StoreRecord /\ dbpast \in PastRecord
  BY DEF DBInv, DBTypes
<1>1. OneOwner
  BY DEF DBInv, LockHeld, OneOwner
<1>2. ModeKept
  BY <1>0, Zenon DEF DBInv, ModeFixed, ModeKept, Inside, PastRecord
<1>3. CatalogInverse
  <2> SUFFICES ASSUME NEW h \in Handles
               PROVE  /\ \A n \in DOMAIN handle[h].cat.ids : label_name(handle[h].cat, handle[h].cat.ids[n]) = n
                      /\ \A i \in DOMAIN handle[h].cat.rev :
                            i < handle[h].cat.next /\ handle[h].cat.ids[handle[h].cat.rev[i]] = i
    BY DEF CatalogInverse
  <2>1. GoodCatalog(handle[h].cat)
    BY Zenon DEF DBInv, GoodCatalogs
  <2>2. handle[h].cat.next \in Nat
    BY <2>1, Zenon DEF GoodCatalog, CatalogRecord
  <2>3. ASSUME NEW n \in DOMAIN handle[h].cat.ids
        PROVE  label_name(handle[h].cat, handle[h].cat.ids[n]) = n
    BY <2>1, ZenonT(30) DEF GoodCatalog, label_name
  <2>4. ASSUME NEW i \in DOMAIN handle[h].cat.rev
        PROVE  i < handle[h].cat.next /\ handle[h].cat.ids[handle[h].cat.rev[i]] = i
    BY <2>1, <2>2, SMTT(30) DEF GoodCatalog
  <2> QED BY <2>3, <2>4, Zenon
<1>4. SyncedNamesSurvive
  BY <1>0 DEF DBInv, SyncedKept, SyncedNamesSurvive, Within, PastRecord
<1>5. NamesResolve
  <2> SUFFICES ASSUME \A f \in DOMAIN dbpast : ~ dbpast[f], NEW h \in Handles, NEW r \in rows, handle[h].pc = "open"
               PROVE  label_name(handle[h].cat, r[2]) = r[1]
    BY DEF NamesResolve
  <2>1. Undisturbed
    BY <1>0 DEF PastRecord, Undisturbed
  <2>2. Resolves(handle[h].cat)
    BY <2>1 DEF DBInv, RowsKnown, Inside
  <2>3. GoodCatalog(handle[h].cat)
    BY DEF DBInv, GoodCatalogs
  <2> QED BY <2>2, <2>3, Zenon DEF Resolves, GoodCatalog, label_name
<1> QED BY <1>1, <1>2, <1>3, <1>4, <1>5 DEF SessionsAgree

\* Whatever processes create, open, sync and close the database, die, or lose power: at most one of
\* them is in it, all see the data model it was created with, the names that a sync saved keep
\* their ids, and the records are found under their names, except after the events that the
\* history names (Database::init, Database::open, LabelCatalog).
THEOREM SessionsAlwaysAgree == DBSpec => []SessionsAgree
<1>1. DBInit => DBInv
  BY InitKeeps
<1>2. DBInv /\ [DBNext]_dbvars => DBInv'
  BY NextKeeps
<1>3. DBInv => SessionsAgree
  BY InvAgrees
<1> QED BY <1>1, <1>2, <1>3, PTL DEF DBSpec
=============================================================================
