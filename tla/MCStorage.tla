------------------------------ MODULE MCStorage ------------------------------
(***************************************************************************)
(* The parts of the storage layer that are checked for safety, each on its *)
(* own: a behaviour runs one part, chosen at the start, and the others     *)
(* rest in their initial state.  A run may end, so deadlock is no error.   *)
(***************************************************************************)
EXTENDS Superblock, PageManager, SlottedPage, WalLog, DoubleWrite, Database

VARIABLE part

storagevars == <<sbvars, pmvars, spvars, walvars, dwvars, dbvars, part>>

StorageInit ==
    /\ part \in {"superblock", "pages", "slots", "wal", "doublewrite", "database"}
    /\ SBInit /\ PMInit /\ WALInit /\ DWInit /\ DBInit
    /\ SPInit /\ (part = "slots" \/ spkind = "data")

StorageNext ==
    /\ UNCHANGED part
    /\ \/ part = "superblock" /\ SBNext /\ UNCHANGED <<pmvars, spvars, walvars, dwvars, dbvars>>
       \/ part = "pages" /\ PMNext /\ UNCHANGED <<sbvars, spvars, walvars, dwvars, dbvars>>
       \/ part = "slots" /\ SPNext /\ UNCHANGED <<sbvars, pmvars, walvars, dwvars, dbvars>>
       \/ part = "wal" /\ WALNext /\ UNCHANGED <<sbvars, pmvars, spvars, dwvars, dbvars>>
       \/ part = "doublewrite" /\ DWNext /\ UNCHANGED <<sbvars, pmvars, spvars, walvars, dbvars>>
       \/ part = "database" /\ DBNext /\ UNCHANGED <<sbvars, pmvars, spvars, walvars, dwvars>>

StorageSpec == StorageInit /\ [][StorageNext]_storagevars
=============================================================================
