---------------------------- MODULE AriesRecovery ----------------------------
(***************************************************************************)
(* The three phases of wal/aries.rs as operators on a set of log records   *)
(* and on the data pages.                                                  *)
(*                                                                         *)
(* A log is a set of records identified by their lsn.  A flush that is     *)
(* retried writes the same bytes twice; the second copy has the lsn of the *)
(* first and changes nothing, so a set is enough, and file order is lsn    *)
(* order.  A record has the fields                                         *)
(*    type   the RecordType, for the types that the engine logs            *)
(*    txid   0 in checkpoint records                                       *)
(*    prev   prev_lsn, and undo_next_lsn in a Clr (both are the prev_lsn   *)
(*           of the record that is compensated)                            *)
(*    page, image   the payload of PageInsert and Clr                      *)
(*    table  the dirty page table of a CheckpointEnd, {} otherwise         *)
(* A page is its page_lsn and its content; a page of zeros has lsn 0 and   *)
(* no content.                                                             *)
(***************************************************************************)
EXTENDS Integers, FiniteSets

Logical == {"NodeDelete", "PropertyInsert"}

Lifecycle == {"Commit", "Abort"}

ZeroPage == [lsn |-> 0, recs |-> {}]

Newest(R) == CHOOSE r \in R : \A q \in R : q.lsn <= r.lsn

Oldest(R) == CHOOSE r \in R : \A q \in R : r.lsn <= q.lsn

MaxLsn(R) == IF R = {} THEN 0 ELSE Newest(R).lsn

------------------------------------------------------------------------------
(* ANALYSIS sees the records from the checkpoint on, that record included. *)

Scanned(R, ckpt) == {r \in R : r.lsn >= ckpt}

(* The active transaction table.  Only a lifecycle record makes an entry   *)
(* (the engine logs no Begin); every later record of the txid moves        *)
(* last_lsn, and the last lifecycle record decides the status.             *)
Finishes(R, t) == {r \in R : r.txid = t /\ r.type \in Lifecycle}

att(R) ==
  [t \in {r.txid : r \in {q \in R : q.type \in Lifecycle}} |->
     [status |-> Newest(Finishes(R, t)).type,
      last_lsn |-> MaxLsn({r \in R : /\ r.txid = t
                                     /\ r.lsn >= Oldest(Finishes(R, t)).lsn})]]

Committed(R) == {t \in DOMAIN att(R) : att(R)[t].status = "Commit"}

\* Mutant: ANALYSIS takes the table from the checkpoint alone.
Mentioned_CheckpointOnly(r) == r.table

(* The dirty page table: the first record that mentions a page gives its   *)
(* rec_lsn; a CheckpointEnd mentions the pages of its table.               *)
Mentioned(r) == IF r.type = "PageInsert" THEN {<<r.page, r.lsn>>} ELSE r.table

dpt(R) ==
  {e \in UNION {Mentioned(r) : r \in R} :
     LET by == {r \in R : \E f \in Mentioned(r) : f[1] = e[1]}
     IN  e \in Mentioned(Oldest(by))}

------------------------------------------------------------------------------
(* REDO replays, in log order, the page images of committed transactions   *)
(* and every Clr, on pages of the dirty page table whose page_lsn is       *)
(* smaller.  An image that is applied raises the page_lsn to its own lsn,  *)
(* so what is left in the end is the newest replayable image.              *)

\* Mutant: the filter on committed transactions is dropped.
Replayed_AllTransactions(S, r) ==
  /\ r.type \in {"PageInsert", "Clr"}
  /\ \E e \in dpt(S) : e[1] = r.page
  /\ \E e \in dpt(S) : e[2] <= r.lsn

Replayed(S, r) ==
  /\ r.type \in {"PageInsert", "Clr"}
  /\ r.type = "PageInsert" => r.txid \in Committed(S)
  /\ \E e \in dpt(S) : e[1] = r.page
  /\ \E e \in dpt(S) : e[2] <= r.lsn

\* Mutant: a page leaves the dirty page table once an image was applied.
redo_FirstImage(R, S, disk) ==
  [p \in DOMAIN disk |->
     LET newer == {r \in R : r.page = p /\ Replayed(S, r) /\ r.lsn > disk[p].lsn}
     IN  IF newer = {} THEN disk[p]
         ELSE [lsn |-> Oldest(newer).lsn, recs |-> Oldest(newer).image]]

redo(R, S, disk) ==
  [p \in DOMAIN disk |->
     LET newer == {r \in R : r.page = p /\ Replayed(S, r) /\ r.lsn > disk[p].lsn}
     IN  IF newer = {} THEN disk[p]
         ELSE [lsn |-> Newest(newer).lsn, recs |-> Newest(newer).image]]

------------------------------------------------------------------------------
(* UNDO walks back from the last_lsn of each transaction that is not       *)
(* committed.  prev_lsn is the record that the engine logged before, of    *)
(* whatever transaction; the walk does not compare txids.  It ends at      *)
(* prev_lsn 0 or at a record that is not there.  PageInsert has no         *)
(* before-image: its inverse is a page of zeros.                           *)

Losers(S) == {t \in DOMAIN att(S) : att(S)[t].status = "Abort"}

(* The records that are met after n links, at most one.                    *)
Visited(R, from, n) ==
  LET at[k \in 0 .. n] ==
        IF k = 0 THEN {r \in R : r.lsn = from}
        ELSE UNION {{r \in R : r.lsn = q.prev} : q \in at[k - 1]}
  IN  at[n]

Chain(R, from) ==
  {r \in R : r.type = "PageInsert" /\ \E n \in 0 .. Cardinality(R) : r \in Visited(R, from, n)}

(* Nothing but the chain ends the walk: when records were lost and their   *)
(* lsns given out again it can lead back to where it was, and then the     *)
(* loop of undo has no end.                                                *)
Ends(R, from) == Visited(R, from, Cardinality(R)) = {}

(* One undo step per loser and record, in the order they are made.         *)
UndoSteps(R, S) ==
  UNION {{[last |-> att(S)[t].last_lsn, rec |-> r] : r \in Chain(R, att(S)[t].last_lsn)}
           : t \in Losers(S)}

Earlier(a, b) ==
  \/ a.last > b.last
  \/ a.last = b.last /\ a.rec.lsn > b.rec.lsn

undo(R, S, disk) ==
  [p \in DOMAIN disk |->
     IF \E u \in UndoSteps(R, S) : u.rec.page = p THEN ZeroPage ELSE disk[p]]

(* The compensation records, appended from lsn `from' on.                  *)
Clrs(R, S, from) ==
  {[type |-> "Clr", txid |-> u.rec.txid, prev |-> u.rec.prev, page |-> u.rec.page,
    image |-> {}, table |-> {},
    lsn |-> from + Cardinality({v \in UndoSteps(R, S) : Earlier(v, u)})]
     : u \in UndoSteps(R, S)}

==============================================================================
