----------------------------- MODULE GraphEngine -----------------------------
(***************************************************************************)
(* The write path of graph/engine.rs over the log and the buffer pool, and *)
(* what wal/aries.rs makes of it after a crash.                            *)
(*                                                                         *)
(* The engine is used through &mut self, so one operation runs at a time;  *)
(* the flusher thread runs beside it.  create_node_atomic (and the other   *)
(* operations written like it: create_edge_atomic, put_node, add_quad)     *)
(* logs the after-images of its pages, commits, and only then writes the   *)
(* pages.  delete_node (and delete_edge, put_edge) writes the page first   *)
(* and logs a logical record; put_property does so too, with txid 1 and    *)
(* without a commit.                                                       *)
(*                                                                         *)
(* A page's content is the set of nodes with a live record on it, and 0    *)
(* when a property was put there.                                          *)
(***************************************************************************)
EXTENDS AriesRecovery

CONSTANTS
  Page,         \* data pages, natural numbers above 0
  Footprint,    \* the sets of pages that a creation may write
  PropertyPage, \* the pages in property_pages
  MaxNode,      \* bound: nodes created are 1 .. MaxNode
  MaxLog,       \* bound on the lsn
  MaxOpens,     \* bound on the number of times the database is reopened
  Steal,        \* BOOLEAN: delete_node and put_property are called
  WalErrors     \* what a failing flush of the log may leave in the file

ASSUME EngineAssumption ==
  /\ Page \subseteq Nat \ {0} /\ IsFiniteSet(Page)
  /\ Footprint \subseteq (SUBSET Page) \ {{}} /\ PropertyPage \subseteq Page
  /\ MaxNode \in Nat /\ MaxLog \in Nat /\ MaxOpens \in Nat
  /\ Steal \in BOOLEAN /\ WalErrors \subseteq {"nothing", "torn"}

Node == 1 .. MaxNode

VARIABLES
  wal,        \* the records that can be read back from the segment
  broken,     \* TRUE once a torn record lies in front of later ones
  buffer,     \* records appended and not flushed
  current_lsn,\* the lsn of the next record
  disk,       \* the data pages in the file
  pool,       \* the dirty frames: the page, or Clean
  rec_lsn,    \* the lsn that first dirtied a frame
  inflight,   \* frames that the flusher has claimed
  sb,         \* the superblock in memory: current_wal_lsn, last_checkpoint_lsn
  sb_disk,    \* the superblock in the file
  next_txid,
  op,         \* the engine operation in progress
  up,         \* FALSE between a crash and the end of recovery
  opens,
  pages,      \* history: the pages that the creation of a node wrote
  asked,      \* history: nodes whose creation appended a Commit record
  created,    \* history: nodes whose creation is committed
  failed,     \* history: nodes whose creation was answered with a flush error
  deleting,   \* history: nodes whose deletion has begun
  deleted,    \* history: nodes whose deletion is committed
  exposed     \* history: the hazards that were met, out of
              \*   "reused"   recovery found a txid that was used again
              \*   "skipped"  a checkpoint was published over a dirty page
              \*   "torn"     a torn record was written in front of others

logvars  == <<wal, broken, buffer, current_lsn>>
pagevars == <<disk, pool, rec_lsn, inflight>>
histvars == <<pages, asked, created, failed, deleting, deleted, exposed>>
gvars == <<logvars, pagevars, sb, sb_disk, next_txid, op, up, opens, histvars>>

Clean == [lsn |-> -1, recs |-> {}]

NoOp == [kind |-> "none", node |-> 0, txid |-> 0, stage |-> "none", left |-> {},
         images |-> [p \in Page |-> Clean], ckpt |-> 0]

(* read_page: the frame when it is dirty, the file otherwise.              *)
View(p) == IF pool[p] = Clean THEN disk[p] ELSE pool[p]

(* PageGuard::set_dirty on the frame that the page is copied into; the     *)
(* page_lsn in the copy is the lsn.  The guard waits for the flusher.      *)
set_dirty(p, page) ==
  /\ p \notin inflight
  /\ pool' = [pool EXCEPT ![p] = page]
  /\ rec_lsn' = [rec_lsn EXCEPT ![p] =
                   IF pool[p] = Clean \/ page.lsn < @ THEN page.lsn ELSE @]

Least(S) == CHOOSE x \in S : \A y \in S : x <= y

Greatest(S) == CHOOSE x \in S : \A y \in S : y <= x

GInit ==
  /\ wal = {} /\ broken = FALSE /\ buffer = {} /\ current_lsn = 1
  /\ disk = [p \in Page |-> ZeroPage]
  /\ pool = [p \in Page |-> Clean]
  /\ rec_lsn = [p \in Page |-> 0]
  /\ inflight = {}
  /\ sb = [wal |-> 0, ckpt |-> 0]
  /\ sb_disk = [wal |-> 0, ckpt |-> 0]
  /\ next_txid = 1
  /\ op = NoOp
  /\ up = TRUE
  /\ opens = 0
  /\ pages = [n \in Node |-> {}]
  /\ asked = {} /\ created = {} /\ failed = {} /\ deleting = {} /\ deleted = {}
  /\ exposed = {}

------------------------------------------------------------------------------
(* WalWriter                                                               *)

Room == current_lsn <= MaxLog

Record(type, txid, prev, page, image, table) ==
  [type |-> type, txid |-> txid, prev |-> prev, page |-> page, image |-> image,
   table |-> table, lsn |-> current_lsn]

(* append: the record is buffered.  A full buffer is flushed first; that   *)
(* its records may be durable early is left to crash, which may keep any   *)
(* prefix of the buffer.                                                   *)
append(r) ==
  /\ Room
  /\ current_lsn' = current_lsn + 1
  /\ buffer' = buffer \cup {r}
  /\ UNCHANGED <<wal, broken>>

(* GraphStorageEngine::log chains the records of all transactions.         *)
log(type, txid, page, image) ==
  /\ append(Record(type, txid, sb.wal, page, image, {}))
  /\ sb' = [sb EXCEPT !.wal = current_lsn]

Flushed(R) == IF broken THEN wal ELSE wal \cup R

\* Mutant: flush empties the buffer although the records are not durable.
flush_Unsynced ==
  /\ buffer' = {}
  /\ UNCHANGED <<wal, broken, current_lsn>>

flush ==
  /\ wal' = Flushed(buffer)
  /\ buffer' = {}
  /\ UNCHANGED <<broken, current_lsn>>

(* append followed by flush, as commit and the checkpoint records do.      *)
append_and_flush(r) ==
  /\ Room
  /\ current_lsn' = current_lsn + 1
  /\ wal' = Flushed(buffer \cup {r})
  /\ buffer' = {}
  /\ broken' = broken

\* Bound: one flush is torn, in the first session.
MayTear == opens = 0 /\ ~broken

(* A flush that returns an error keeps the buffer, and the next one writes *)
(* it again at the end of the file.  The bytes of the first attempt are    *)
(* not there, or all there (then the records are in the log twice, and it  *)
(* is again crash that may find them durable), or a prefix of them is      *)
(* there and ends in a torn record.                                        *)
flush_fails ==
  /\ \/ "nothing" \in WalErrors /\ UNCHANGED <<wal, broken>>
     \/ /\ "torn" \in WalErrors /\ MayTear
        /\ \E r \in buffer : wal' = Flushed({q \in buffer : q.lsn < r.lsn})
        /\ broken' = TRUE
  /\ UNCHANGED <<buffer, current_lsn>>

------------------------------------------------------------------------------
(* create_node_atomic                                                      *)

Idle == up /\ op = NoOp

begin_create(S) ==
  /\ Idle
  /\ \E n \in Node :
       /\ pages[n] = {} /\ \A m \in Node : m < n => pages[m] # {}
       /\ pages' = [pages EXCEPT ![n] = S]
       /\ op' = [NoOp EXCEPT !.kind = "create", !.node = n, !.txid = next_txid,
                              !.stage = "log", !.left = S]
  /\ next_txid' = next_txid + 1
  /\ UNCHANGED <<logvars, pagevars, sb, sb_disk, up, opens,
                 asked, created, failed, deleting, deleted, exposed>>

(* Phase 2: a PageInsert per page, in page order.                          *)
log_page ==
  /\ op.kind = "create" /\ op.stage = "log" /\ op.left # {}
  /\ LET p == Least(op.left)
         image == View(p).recs \cup {op.node}
     IN  /\ log("PageInsert", op.txid, p, image)
         /\ op' = [op EXCEPT !.left = @ \ {p},
                             !.images[p] = [lsn |-> current_lsn, recs |-> image],
                             !.stage = IF op.left = {p} THEN "commit" ELSE "log"]
  /\ UNCHANGED <<pagevars, sb_disk, next_txid, up, opens, histvars>>

(* Preparing a page, or logging one, fails: the Abort record is buffered   *)
(* and not flushed.                                                        *)
rollback ==
  /\ op.kind \in {"create", "delete"} /\ op.stage = "log"
  /\ append(Record("Abort", op.txid, 0, 0, {}, {}))
  /\ op' = NoOp
  /\ UNCHANGED <<pagevars, sb, sb_disk, next_txid, up, opens, histvars>>

(* TransactionManager::commit appends the Commit record ...                *)
commit_append ==
  /\ op.kind \in {"create", "delete"} /\ op.stage = "commit"
  /\ append(Record("Commit", op.txid, 0, 0, {}, {}))
  /\ asked' = IF op.kind = "create" THEN asked \cup {op.node} ELSE asked
  /\ op' = [op EXCEPT !.stage = "flush"]
  /\ UNCHANGED <<pagevars, sb, sb_disk, next_txid, up, opens,
                 pages, created, failed, deleting, deleted, exposed>>

\* Mutant: the pages are written before the commit record is flushed.
commit_flush_Deferred ==
  /\ op.kind \in {"create", "delete"} /\ op.stage = "flush"
  /\ UNCHANGED logvars
  /\ op' = IF op.kind = "create" THEN [op EXCEPT !.left = pages[op.node], !.stage = "write"]
           ELSE NoOp
  /\ created' = IF op.kind = "create" THEN created \cup {op.node} ELSE created
  /\ deleted' = IF op.kind = "delete" THEN deleted \cup {op.node} ELSE deleted
  /\ UNCHANGED <<pagevars, sb, sb_disk, next_txid, up, opens,
                 pages, asked, failed, deleting, exposed>>

(* ... and flushes: from here on the transaction is committed.             *)
commit_flush ==
  /\ op.kind \in {"create", "delete"} /\ op.stage = "flush"
  /\ flush
  /\ op' = IF op.kind = "create" THEN [op EXCEPT !.left = pages[op.node], !.stage = "write"]
           ELSE NoOp
  /\ created' = IF op.kind = "create" THEN created \cup {op.node} ELSE created
  /\ deleted' = IF op.kind = "delete" THEN deleted \cup {op.node} ELSE deleted
  /\ UNCHANGED <<pagevars, sb, sb_disk, next_txid, up, opens,
                 pages, asked, failed, deleting, exposed>>

(* The flush fails: the operation returns the error and forgets its        *)
(* transaction; the Commit record is still in the buffer.                  *)
commit_flush_fails ==
  /\ op.kind \in {"create", "delete"} /\ op.stage = "flush"
  /\ flush_fails
  /\ op' = NoOp
  /\ failed' = IF op.kind = "create" THEN failed \cup {op.node} ELSE failed
  /\ exposed' = exposed \cup IF broken' THEN {"torn"} ELSE {}
  /\ UNCHANGED <<pagevars, sb, sb_disk, next_txid, up, opens,
                 pages, asked, created, deleting, deleted>>

(* Phase 4: the pages are written, in page order, with the lsn of their    *)
(* record.  write_page waits until the flusher is done with the frame.     *)
write_page ==
  /\ op.kind = "create" /\ op.stage = "write"
  /\ LET p == Least(op.left)
     IN  /\ set_dirty(p, op.images[p])
         /\ op' = IF op.left = {p} THEN NoOp ELSE [op EXCEPT !.left = @ \ {p}]
  /\ UNCHANGED <<logvars, disk, inflight, sb, sb_disk, next_txid, up, opens, histvars>>

------------------------------------------------------------------------------
(* delete_node writes the tombstone into the node's page, keeping its      *)
(* page_lsn, and then logs a NodeDelete and commits.                       *)

NodePage(n) == Greatest(pages[n])

delete_node(n) ==
  /\ Steal /\ Idle
  /\ pages[n] # {} /\ n \in View(NodePage(n)).recs
  /\ set_dirty(NodePage(n), [View(NodePage(n)) EXCEPT !.recs = @ \ {n}])
  /\ op' = [NoOp EXCEPT !.kind = "delete", !.node = n, !.txid = next_txid,
                        !.stage = "log"]
  /\ deleting' = deleting \cup {n}
  /\ next_txid' = next_txid + 1
  /\ UNCHANGED <<logvars, disk, inflight, sb, sb_disk, up, opens,
                 pages, asked, created, failed, deleted, exposed>>

log_delete ==
  /\ op.kind = "delete" /\ op.stage = "log"
  /\ log("NodeDelete", op.txid, 0, {})
  /\ op' = [op EXCEPT !.stage = "commit"]
  /\ UNCHANGED <<pagevars, sb_disk, next_txid, up, opens, histvars>>

(* put_property writes the record and logs it with txid 1; there is no     *)
(* transaction.                                                            *)
put_property(p) ==
  /\ Steal /\ Idle
  /\ 0 \notin View(p).recs      \* bound: a page takes one property
  /\ set_dirty(p, [View(p) EXCEPT !.recs = @ \cup {0}])
  /\ log("PropertyInsert", 1, 0, {})
  /\ UNCHANGED <<disk, inflight, sb_disk, next_txid, op, up, opens, histvars>>

(* begin_transaction and rollback_transaction: a transaction that logged   *)
(* nothing is rolled back.                                                 *)
rollback_transaction ==
  /\ Idle
  /\ append(Record("Abort", next_txid, 0, 0, {}, {}))
  /\ next_txid' = next_txid + 1
  /\ UNCHANGED <<pagevars, sb, sb_disk, op, up, opens, histvars>>

------------------------------------------------------------------------------
(* The flusher claims a dirty frame, writes it and marks it clean; when    *)
(* the write fails it gives the claim up, and the page in the file is the  *)
(* old or the new one.  Its gate compares rec_lsn with durable_lsn, which  *)
(* is the lsn of the first record that is not durable: that record itself  *)
(* passes.  A failed fsync, after which the pool refuses every flush, is   *)
(* the behaviour in which no later frame is flushed and no sync succeeds.  *)

flusher_claim(p) ==
  /\ up /\ p \notin inflight /\ pool[p] # Clean
  /\ \A r \in buffer : rec_lsn[p] <= r.lsn
  /\ inflight' = inflight \cup {p}
  /\ UNCHANGED <<logvars, disk, pool, rec_lsn, sb, sb_disk, next_txid, op, up, opens,
                 histvars>>

flusher_write(p) ==
  /\ up /\ p \in inflight
  /\ disk' = [disk EXCEPT ![p] = pool[p]]
  /\ pool' = [pool EXCEPT ![p] = Clean]
  /\ rec_lsn' = [rec_lsn EXCEPT ![p] = 0]
  /\ inflight' = inflight \ {p}
  /\ UNCHANGED <<logvars, sb, sb_disk, next_txid, op, up, opens, histvars>>

flusher_fails(p) ==
  /\ up /\ p \in inflight
  /\ \E page \in {disk[p], pool[p]} : disk' = [disk EXCEPT ![p] = page]
  /\ inflight' = inflight \ {p}
  /\ UNCHANGED <<logvars, pool, rec_lsn, sb, sb_disk, next_txid, op, up, opens,
                 histvars>>

------------------------------------------------------------------------------
(* sync: flush the log, take a checkpoint when enough was logged, flush    *)
(* the frames that can be flushed, write the superblock.                   *)

SyncStage(s) == op.kind = "sync" /\ op.stage = s

Candidates == {p \in Page : pool[p] # Clean /\ p \notin inflight}

FlushFrames ==
  /\ disk' = [p \in Page |-> IF p \in Candidates THEN pool[p] ELSE disk[p]]
  /\ pool' = [p \in Page |-> IF p \in Candidates THEN Clean ELSE pool[p]]
  /\ rec_lsn' = [p \in Page |-> IF p \in Candidates THEN 0 ELSE rec_lsn[p]]
  /\ inflight' = inflight

sync ==
  /\ Idle
  /\ flush
  /\ \E s \in {"checkpoint", "flush_all"} : op' = [NoOp EXCEPT !.kind = "sync", !.stage = s]
  /\ UNCHANGED <<pagevars, sb, sb_disk, next_txid, up, opens, histvars>>

(* The flush of the log fails: sync returns the error.                     *)
sync_fails ==
  /\ Idle /\ buffer # {}
  /\ flush_fails
  /\ exposed' = exposed \cup IF broken' THEN {"torn"} ELSE {}
  /\ UNCHANGED <<pagevars, sb, sb_disk, next_txid, op, up, opens,
                 pages, asked, created, failed, deleting, deleted>>

(* Checkpoint::run: CheckpointBegin, the dirty frames, CheckpointEnd with  *)
(* the frames that are dirty still.                                        *)
checkpoint_begin ==
  /\ SyncStage("checkpoint")
  /\ append_and_flush(Record("CheckpointBegin", 0, 0, 0, {}, {}))
  /\ op' = [op EXCEPT !.stage = "frames", !.ckpt = current_lsn]
  /\ UNCHANGED <<pagevars, sb, sb_disk, next_txid, up, opens, histvars>>

checkpoint_flush ==
  /\ SyncStage("frames")
  /\ FlushFrames
  /\ op' = [op EXCEPT !.stage = "end"]
  /\ UNCHANGED <<logvars, sb, sb_disk, next_txid, up, opens, histvars>>

checkpoint_end ==
  /\ SyncStage("end")
  /\ append_and_flush(Record("CheckpointEnd", 0, 0, 0, {},
                             {<<p, rec_lsn[p]>> : p \in Candidates}))
  /\ sb' = [sb EXCEPT !.ckpt = op.ckpt]
  /\ op' = [op EXCEPT !.stage = "flush_all"]
  /\ UNCHANGED <<pagevars, sb_disk, next_txid, up, opens, histvars>>

flush_all ==
  /\ SyncStage("flush_all")
  /\ FlushFrames
  /\ op' = [op EXCEPT !.stage = "superblock"]
  /\ UNCHANGED <<logvars, sb, sb_disk, next_txid, up, opens, histvars>>

sync_superblock ==
  /\ SyncStage("superblock")
  /\ sb_disk' = sb
  /\ op' = NoOp
  /\ exposed' = exposed \cup IF sb.ckpt # sb_disk.ckpt /\ \E p \in Page : pool[p] # Clean
                              THEN {"skipped"} ELSE {}
  /\ UNCHANGED <<logvars, pagevars, sb, next_txid, up, opens,
                 pages, asked, created, failed, deleting, deleted>>
------------------------------------------------------------------------------
(* A crash.  The buffer is lost but for the records of a flush that was    *)
(* under way, which end in a torn record that open removes.  The page that *)
(* the flusher was writing is old or new: the doublewrite buffer repairs a *)
(* torn one.                                                               *)
crash ==
  /\ up /\ opens < MaxOpens
  /\ \E k \in 0 .. current_lsn : wal' = Flushed({r \in buffer : r.lsn < k})
  /\ \E W \in SUBSET inflight : disk' = [p \in Page |-> IF p \in W THEN pool[p] ELSE disk[p]]
  /\ buffer' = {} /\ broken' = FALSE
  /\ current_lsn' = MaxLsn(wal') + 1
  /\ pool' = [p \in Page |-> Clean]
  /\ rec_lsn' = [p \in Page |-> 0]
  /\ inflight' = {}
  /\ sb' = sb_disk
  /\ op' = NoOp
  /\ next_txid' = 1
  /\ up' = FALSE
  /\ opens' = opens + 1
  /\ UNCHANGED <<sb_disk, histvars>>

(* A txid that was used again: txids start at 1 in every session, the last *)
(* record of the session before is scanned with this one's, and            *)
(* put_property borrows txid 1.                                            *)
UsedAgain(S) ==
  \E f \in S : /\ f.txid # 0
               /\ f.type \in Lifecycle \/ f.lsn = sb.ckpt
               /\ \E r \in S : r.txid = f.txid /\ r.lsn > f.lsn

(* open: recovery, then the checkpoint is moved to the last record that    *)
(* was read, and the superblock written.                                   *)
recover ==
  /\ ~up
  /\ LET S == Scanned(wal, sb.ckpt)
         new == Clrs(wal, S, current_lsn)
     IN  /\ \A t \in Losers(S) : Ends(wal, att(S)[t].last_lsn)
         /\ disk' = undo(wal, S, redo(wal, S, disk))
         /\ wal' = wal \cup new
         /\ current_lsn' = MaxLsn(wal') + 1
         /\ sb' = IF MaxLsn(S) > 0 THEN [wal |-> MaxLsn(S), ckpt |-> MaxLsn(S)] ELSE sb
         /\ sb_disk' = sb'
         /\ exposed' = exposed \cup (IF UsedAgain(S) THEN {"reused"} ELSE {})
  /\ up' = TRUE
  /\ UNCHANGED <<broken, buffer, pool, rec_lsn, inflight, next_txid, op, opens,
                 pages, asked, created, failed, deleting, deleted>>

(* A crash in recovery: some pages are redone, some undone, and some       *)
(* compensation records are durable; the superblock is the old one.        *)
crash_in_recovery ==
  /\ ~up /\ opens < MaxOpens
  /\ LET S == Scanned(wal, sb.ckpt)
         redone == redo(wal, S, disk)
         new == Clrs(wal, S, current_lsn)
     IN  /\ \E A \in SUBSET Page, B \in SUBSET Page :
              disk' = [p \in Page |-> IF p \in B THEN undo(wal, S, redone)[p]
                                      ELSE IF p \in A THEN redone[p] ELSE disk[p]]
         /\ \E k \in current_lsn .. current_lsn + Cardinality(new) :
              wal' = wal \cup {r \in new : r.lsn < k}
         /\ current_lsn' = MaxLsn(wal') + 1
         /\ exposed' = exposed \cup (IF UsedAgain(S) THEN {"reused"} ELSE {})
  /\ opens' = opens + 1
  /\ UNCHANGED <<broken, buffer, pool, rec_lsn, inflight, sb, sb_disk, next_txid, op, up,
                 pages, asked, created, failed, deleting, deleted>>

------------------------------------------------------------------------------
GNext ==
  \/ \E S \in Footprint : begin_create(S)
  \/ log_page \/ rollback \/ commit_append \/ commit_flush \/ commit_flush_fails
  \/ write_page
  \/ \E n \in Node : delete_node(n)
  \/ log_delete
  \/ \E p \in PropertyPage : put_property(p)
  \/ rollback_transaction
  \/ \E p \in Page : flusher_claim(p) \/ flusher_write(p) \/ flusher_fails(p)
  \/ sync \/ sync_fails \/ checkpoint_begin \/ checkpoint_flush \/ checkpoint_end
  \/ flush_all \/ sync_superblock
  \/ crash \/ recover \/ crash_in_recovery

GSpec == GInit /\ [][GNext]_gvars
------------------------------------------------------------------------------
PageType == [lsn : Int, recs : SUBSET (0 .. MaxNode)]

LogType ==
  [type : {"PageInsert", "Clr", "CheckpointBegin", "CheckpointEnd"} \cup Lifecycle \cup Logical,
   txid : Nat, prev : Nat, page : Nat, image : SUBSET (0 .. MaxNode),
   table : SUBSET (Page \X Nat), lsn : Nat \ {0}]

(* The type invariant.  A frame that the flusher has claimed is dirty, and *)
(* what was answered was asked for.                                        *)
GTypeOK ==
  /\ wal \subseteq LogType /\ buffer \subseteq LogType
  /\ broken \in BOOLEAN /\ current_lsn \in Nat \ {0}
  /\ disk \in [Page -> PageType] /\ pool \in [Page -> PageType]
  /\ rec_lsn \in [Page -> Nat] /\ inflight \subseteq {p \in Page : pool[p] # Clean}
  /\ sb \in [wal : Nat, ckpt : Nat] /\ sb_disk \in [wal : Nat, ckpt : Nat]
  /\ next_txid \in Nat \ {0} /\ up \in BOOLEAN /\ opens \in 0 .. MaxOpens
  /\ pages \in [Node -> SUBSET Page]
  /\ created \subseteq asked /\ failed \subseteq asked /\ deleted \subseteq deleting
  /\ exposed \subseteq {"reused", "skipped", "torn"}

(* The engine is open and met none of the three hazards that are known to  *)
(* break recovery.                                                         *)
Sound == up /\ exposed = {}

Settled(n) == op.node # n

(* A creation that create_node_atomic committed is there, on every page it *)
(* wrote, after any crash and recovery, whatever the flusher and the       *)
(* checkpoints did in between ("a committed create is fully                *)
(* reconstructable by REDO").                                              *)
CreatedSurvives ==
  Sound => \A n \in created \ deleting :
             Settled(n) => \A p \in pages[n] : n \in View(p).recs

(* A node whose creation was rolled back, or cut short by a crash before   *)
(* its Commit record was appended, is on no page: REDO skips its images.   *)
NothingResurrected ==
  Sound => \A n \in Node \ asked : \A p \in Page : n \notin View(p).recs

(* A creation is on all of its pages or on none, also when the crash came  *)
(* while the Commit record was on its way to the file, or between two page *)
(* writes.  Creations that were answered with a flush error are left out:  *)
(* their Commit record stays in the buffer and their pages are not written *)
(* in this session.                                                        *)
AllOrNothing ==
  Sound => \A n \in Node \ (failed \cup deleting) :
             Settled(n) => \/ \A p \in pages[n] : n \in View(p).recs
                           \/ \A p \in pages[n] : n \notin View(p).recs

(* No page in the file carries a page_lsn that the log does not reach: the *)
(* commit's flush and the flusher's durable-lsn gate put the log first.    *)
WriteAhead ==
  "torn" \notin exposed => \A p \in Page : disk[p].lsn <= MaxLsn(wal)

Recovered ==
  LET S == Scanned(wal, sb.ckpt)
      end == undo(wal, S, redo(wal, S, disk))
  IN  [p \in Page |-> end[p].recs]

(* Recovery can be interrupted: a crash between any two page writes of     *)
(* REDO or UNDO, with any prefix of the compensation records durable,      *)
(* does not change the pages that recovery arrives at in the end.          *)
RecoveryConverges == [][~up /\ ~up' => Recovered' = Recovered]_gvars

(* A deletion that delete_node committed and answered is not undone by a   *)
(* crash ("a commit is acknowledged only after ... the commit record is    *)
(* durable on disk").                                                      *)
DeletesSurvive ==
  up => \A n \in deleted : n \notin View(NodePage(n)).recs

(* NothingResurrected with no hazard excepted: "a crash before commit      *)
(* leaves nothing on the heap".                                            *)
CrashLeavesNothing ==
  up => \A n \in Node \ asked : \A p \in Page : n \notin View(p).recs
==============================================================================
