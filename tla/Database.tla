------------------------------ MODULE Database ------------------------------
(***************************************************************************)
(* The life of a database directory (src/db/database.rs, with              *)
(* GraphBuilder::build of src/config.rs): processes that create and open   *)
(* it, the exclusive lock on it, the data model kept in the superblock,    *)
(* and the schema catalog (src/catalog/mod.rs) that gives label names      *)
(* their ids.  Records are durable when their transaction commits; the     *)
(* catalog is written to a file of its own, only by sync and by the Drop   *)
(* of the engine.                                                          *)
(*                                                                         *)
(* Labels stand for all three sections of the catalog, which share their   *)
(* code and nothing else.  A process may die at every step and the machine *)
(* may lose power; a rename that no directory sync followed may or may not *)
(* survive the latter.  The history variable dbpast records the events     *)
(* that the documented promises do not survive.                            *)
(***************************************************************************)
EXTENDS Integers, FiniteSets

CONSTANTS Handles,      \* processes, or handles within one
          NoHandle,
          Names,        \* label names
          MaxRows,      \* bound on the records committed
          MaxDbFaults   \* bound on I/O errors, deaths and power cuts together

ASSUME HandleAssumption == NoHandle \notin Handles

VARIABLES store,        \* the directory as the kernel sees it
          lock,         \* holder of the flock on .rgraph.lock
          handle,       \* the processes
          rows,         \* committed records: the name given and the label id stored
          saved,        \* the catalog of the last sync that returned Ok, and the mode of the init that did
          dbfaults,
          dbpast

dbvars == <<store, lock, handle, rows, saved, dbfaults, dbpast>>

NoCatalog == [ids |-> [n \in {} |-> 0], rev |-> [i \in {} |-> 0], next |-> 1]

Out == [pc |-> "out", op |-> "open", mode |-> 1, cat |-> NoCatalog, closing |-> FALSE]

DBInit ==
    /\ store = [dir |-> FALSE, data |-> FALSE, valid |-> FALSE, mode |-> 0,
                side |-> NoCatalog, kept |-> NoCatalog, entry |-> FALSE]
    /\ lock = NoHandle
    /\ handle = [h \in Handles |-> Out]
    /\ rows = {}
    /\ saved = [cat |-> NoCatalog, mode |-> 0]
    /\ dbfaults = 0
    /\ dbpast = [unsaved |-> FALSE, swallowed |-> FALSE, clobbered |-> FALSE, vanished |-> FALSE]

AtStep(h, at) == handle[h].pc = at

Becomes(h, at) == handle' = [handle EXCEPT ![h].pc = at]

(* The process or handle is gone and with it its lock: an error return drops the locked file. *)
Leave(h) ==
    /\ handle' = [handle EXCEPT ![h] = Out]
    /\ lock' = IF lock = h THEN NoHandle ELSE lock

(***************************************************************************)
(* The catalog.                                                            *)
(***************************************************************************)

get_or_create(cat, n) ==
    IF n \in DOMAIN cat.ids THEN cat
    ELSE [ids |-> [m \in DOMAIN cat.ids \cup {n} |-> IF m = n THEN cat.next ELSE cat.ids[m]],
          rev |-> [i \in DOMAIN cat.rev \cup {cat.next} |-> IF i = cat.next THEN n ELSE cat.rev[i]],
          next |-> cat.next + 1]

label_name(cat, i) == IF i \in DOMAIN cat.rev THEN cat.rev[i] ELSE ""

(* Only the pairs are written; the reverse map and the next id come from them. *)
decode_catalog(ids) ==
    LET found == {ids[n] : n \in DOMAIN ids}
    IN  [ids |-> ids, rev |-> [i \in found |-> CHOOSE n \in DOMAIN ids : ids[n] = i],
         next |-> 1 + CHOOSE i \in found \cup {0} : \A j \in found : j <= i]

(***************************************************************************)
(* init, open, build.                                                      *)
(***************************************************************************)

(* build looks at the path once more than init and open do themselves. *)
build(h, mode) ==
    /\ AtStep(h, "out")
    /\ handle' = [handle EXCEPT ![h].pc = "check", ![h].mode = mode,
                                ![h].op = IF store.dir THEN "open" ELSE "init"]
    /\ UNCHANGED <<store, lock, rows, saved, dbfaults, dbpast>>

check_path(h) ==
    /\ AtStep(h, "check")
    /\ CASE handle[h].op = "init" /\ store.dir   -> Leave(h)
         [] handle[h].op = "open" /\ ~ store.dir -> Leave(h)
         [] handle[h].op = "init" /\ ~ store.dir -> Becomes(h, "mkdir") /\ UNCHANGED lock
         [] OTHER                                -> Becomes(h, "lock") /\ UNCHANGED lock
    /\ UNCHANGED <<store, rows, saved, dbfaults, dbpast>>

create_dir_all(h) ==
    /\ AtStep(h, "mkdir")
    /\ Becomes(h, "lock")
    /\ store' = [store EXCEPT !.dir = TRUE]
    /\ UNCHANGED <<lock, rows, saved, dbfaults, dbpast>>

(* Without waiting: a lock that is held is an error. *)
acquire_exclusive_lock(h) ==
    /\ AtStep(h, "lock")
    /\ IF lock = NoHandle
       THEN lock' = h /\ Becomes(h, IF handle[h].op = "init" THEN "create" ELSE "load")
       ELSE Leave(h)
    /\ UNCHANGED <<store, rows, saved, dbfaults, dbpast>>

(* PageManager::init: the data file is created, or taken as it is. *)
init_file(h) ==
    /\ AtStep(h, "create")
    /\ Becomes(h, "format")
    /\ store' = [store EXCEPT !.data = TRUE]
    /\ UNCHANGED <<lock, rows, saved, dbfaults, dbpast>>

(* The superblock and bitmap of an empty database are written, without a look at what was there. *)
init_engine(h) ==
    /\ AtStep(h, "format")
    /\ Becomes(h, "model")
    /\ store' = [store EXCEPT !.valid = TRUE, !.mode = 0]
    /\ dbpast' = [dbpast EXCEPT !.clobbered = @ \/ store.valid]
    /\ UNCHANGED <<lock, rows, saved, dbfaults>>

init_mode(h) ==
    /\ AtStep(h, "model")
    /\ Becomes(h, "open")
    /\ store' = [store EXCEPT !.mode = handle[h].mode]
    /\ saved' = [saved EXCEPT !.mode = handle[h].mode]
    /\ UNCHANGED <<lock, rows, dbfaults, dbpast>>

(* What open asks of the directory: a data file, a superblock, and the mode it was created with. *)
Accepts(h) == store.data /\ store.valid /\ store.mode \in {0, handle[h].mode}

open_ok(h) ==
    /\ AtStep(h, "load")
    /\ Accepts(h)
    /\ handle' = [handle EXCEPT ![h].pc = "open", ![h].cat = decode_catalog(store.side.ids)]
    /\ UNCHANGED <<store, lock, rows, saved, dbfaults, dbpast>>

open_fails(h) ==
    /\ AtStep(h, "load")
    /\ ~ Accepts(h)
    /\ Leave(h)
    /\ UNCHANGED <<store, rows, saved, dbfaults, dbpast>>

(* An error in reading the catalog is not reported: the database opens with an empty one. *)
open_unread(h) ==
    /\ AtStep(h, "load")
    /\ Accepts(h)
    /\ dbfaults < MaxDbFaults /\ dbfaults' = dbfaults + 1
    /\ handle' = [handle EXCEPT ![h].pc = "open", ![h].cat = NoCatalog]
    /\ dbpast' = [dbpast EXCEPT !.swallowed = @ \/ store.side # NoCatalog]
    /\ UNCHANGED <<store, lock, rows, saved>>

(***************************************************************************)
(* The open handle.                                                        *)
(***************************************************************************)

(* A record with a label: the catalog in memory gives the id, the commit makes the record durable. *)
create_labelled(h, n) ==
    /\ AtStep(h, "open")
    /\ Cardinality(rows) < MaxRows
    /\ LET cat == get_or_create(handle[h].cat, n)
       IN  /\ handle' = [handle EXCEPT ![h].cat = cat]
           /\ rows' = rows \cup {<<n, cat.ids[n]>>}
    /\ UNCHANGED <<store, lock, saved, dbfaults, dbpast>>

(* sync, and the Drop of the engine: the catalog is written to a temporary file, synced and renamed. *)
persist_rename(h, closing) ==
    /\ AtStep(h, "open")
    /\ handle' = [handle EXCEPT ![h].pc = "persist", ![h].closing = closing]
    /\ store' = [store EXCEPT !.side = handle[h].cat]
    /\ UNCHANGED <<lock, rows, saved, dbfaults, dbpast>>

Released(h, closing) ==
    IF closing THEN Leave(h) ELSE Becomes(h, "open") /\ UNCHANGED lock

(* Mutant of persist_sync_dir: persist returns after the rename. *)
persist_sync_dir_Skipped(h) ==
    /\ AtStep(h, "persist")
    /\ saved' = [saved EXCEPT !.cat = handle[h].cat]
    /\ Released(h, handle[h].closing)
    /\ UNCHANGED <<store, rows, dbfaults, dbpast>>

persist_sync_dir(h) ==
    /\ AtStep(h, "persist")
    /\ store' = [store EXCEPT !.kept = store.side, !.entry = TRUE]
    /\ saved' = [saved EXCEPT !.cat = handle[h].cat]
    /\ Released(h, handle[h].closing)
    /\ UNCHANGED <<rows, dbfaults, dbpast>>

(* Records whose name the catalog file does not have. *)
Unsaved(side) == \E r \in rows : r[1] \notin DOMAIN side.ids

(* An error before the rename or in the directory sync: sync reports it, Drop does not. *)
persist_fails(h) ==
    /\ dbfaults < MaxDbFaults /\ dbfaults' = dbfaults + 1
    /\ \/ /\ AtStep(h, "persist")
          /\ Released(h, handle[h].closing)
          /\ UNCHANGED dbpast
       \/ /\ AtStep(h, "open")
          /\ Leave(h)
          /\ dbpast' = [dbpast EXCEPT !.unsaved = @ \/ Unsaved(store.side)]
    /\ UNCHANGED <<store, rows, saved>>

(* The process dies; what it had renamed is still there. *)
die(h) ==
    /\ ~ AtStep(h, "out")
    /\ dbfaults < MaxDbFaults /\ dbfaults' = dbfaults + 1
    /\ Leave(h)
    /\ dbpast' = [dbpast EXCEPT !.unsaved = @ \/ (lock = h /\ Unsaved(store.side))]
    /\ UNCHANGED <<store, rows, saved>>

(* The machine loses power: a rename that was not synced, and entries of a directory that never was, may go. *)
power_cut ==
    /\ store.dir
    /\ dbfaults < MaxDbFaults /\ dbfaults' = dbfaults + 1
    /\ handle' = [h \in Handles |-> Out]
    /\ lock' = NoHandle
    /\ \E side \in {store.side, store.kept}, gone \in BOOLEAN :
        /\ gone => ~ store.entry /\ store.data
        /\ store' = [store EXCEPT !.side = side, !.kept = side, !.data = @ /\ ~ gone, !.valid = @ /\ ~ gone]
        /\ dbpast' = [dbpast EXCEPT !.unsaved = @ \/ Unsaved(side), !.vanished = @ \/ gone]
    /\ UNCHANGED <<rows, saved>>

DBNext ==
    \/ \E h \in Handles :
        \/ \E mode \in 1..2 : build(h, mode)
        \/ check_path(h) \/ create_dir_all(h) \/ acquire_exclusive_lock(h)
        \/ init_file(h) \/ init_engine(h) \/ init_mode(h)
        \/ open_ok(h) \/ open_fails(h) \/ open_unread(h)
        \/ \E n \in Names : create_labelled(h, n)
        \/ \E closing \in BOOLEAN : persist_rename(h, closing)
        \/ persist_sync_dir(h) \/ persist_fails(h) \/ die(h)
    \/ power_cut

DBSpec == DBInit /\ [][DBNext]_dbvars

-----------------------------------------------------------------------------
Engaged(h) == handle[h].pc \in {"create", "format", "model", "load", "open", "persist"}

(* At most one process is past the lock of Database::init and Database::open, whatever dies or fails. *)
OneOwner == \A h, k \in Handles : Engaged(h) /\ Engaged(k) => h = k

(* Both directions of an open catalog agree and the next id is unused, also after a reload (decode). *)
CatalogInverse ==
    \A h \in Handles : handle[h].pc = "open" =>
        LET cat == handle[h].cat
        IN  /\ \A n \in DOMAIN cat.ids : label_name(cat, cat.ids[n]) = n
            /\ \A i \in DOMAIN cat.rev : i < cat.next /\ cat.ids[cat.rev[i]] = i

(* A sync that returned Ok is never undone: every name it saved has the same id in every later session, *)
(* after deaths, power cuts and failed syncs. *)
SyncedNamesSurvive ==
    ~ dbpast.swallowed /\ ~ dbpast.clobbered =>
        \A h \in Handles : handle[h].pc = "open" =>
            \A n \in DOMAIN saved.cat.ids : n \in DOMAIN handle[h].cat.ids /\ handle[h].cat.ids[n] = saved.cat.ids[n]

(* Every committed record is found under the name it was created with, unless the catalog was lost before *)
(* the name was saved, could not be read, or the database was created again. *)
NamesResolve ==
    (\A f \in DOMAIN dbpast : ~ dbpast[f]) =>
        \A h \in Handles, r \in rows : handle[h].pc = "open" => label_name(handle[h].cat, r[2]) = r[1]

(* A database whose init returned Ok is never open under the other data model. *)
ModeKept ==
    ~ dbpast.clobbered /\ ~ dbpast.vanished /\ saved.mode # 0 =>
        \A h \in Handles : handle[h].pc = "open" => handle[h].mode = saved.mode

(* Sessions on one database exclude each other and agree with each other: on the data model, on the names *)
(* that a sync saved and on the names of the committed records (Database::init, open, LabelCatalog). *)
SessionsAgree == OneOwner /\ ModeKept /\ CatalogInverse /\ SyncedNamesSurvive /\ NamesResolve

(* Refuted: no committed record is ever resolved to another name than its own, whatever crashes. *)
NeverRenamed ==
    \A h \in Handles, r \in rows : handle[h].pc = "open" => label_name(handle[h].cat, r[2]) \in {r[1], ""}

(* Refuted: a failed read of the catalog costs names for that session only. *)
SavedUnlessLost == dbpast.swallowed => DOMAIN saved.cat.ids \subseteq DOMAIN store.side.ids

(* Refuted: init never runs over a database that exists. *)
InitKeepsExisting == ~ dbpast.clobbered

(* Refuted: build initialises a database that does not exist, also in a directory that does. *)
BuildInitialises == \A h \in Handles : handle[h].pc = "load" => store.data /\ store.valid

=============================================================================
