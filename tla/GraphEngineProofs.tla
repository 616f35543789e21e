-------------------------- MODULE GraphEngineProofs --------------------------
(***************************************************************************)
(* The log is written ahead of the pages, for every set of pages, every    *)
(* footprint of an operation and every number of crashes.  The invariant   *)
(* follows a page_lsn from the record that gives it out: to the image that *)
(* the operation keeps (the record is appended, perhaps not flushed), to   *)
(* the frame (the commit has flushed it), to the file, and through REDO    *)
(* and UNDO, which take it from a record that was read back.               *)
(***************************************************************************)
EXTENDS GraphEngine, FiniteSetTheorems, WellFoundedInduction, TLAPS

(* The log R has a record with lsn n or a later one.                       *)
Reaches(R, n) == n <= 0 \/ \E r \in R : n <= r.lsn

(* The lsns of the log have been given out, and its images are contents.   *)
LogOK(R) ==
  /\ IsFiniteSet(R)
  /\ \A r \in R : r.lsn \in Nat \ {0} /\ r.lsn < current_lsn /\ r.image \in SUBSET (0 .. MaxNode)

Operations ==
  [kind : {"none", "create", "delete", "sync"}, node : 0 .. MaxNode, txid : Nat,
   stage : {"none", "log", "commit", "flush", "write", "checkpoint", "frames", "end",
            "flush_all", "superblock"},
   left : SUBSET Page, images : [Page -> PageType], ckpt : Nat]

EngineTypes ==
  /\ current_lsn \in Nat \ {0} /\ next_txid \in Nat /\ broken \in BOOLEAN
  /\ LogOK(wal) /\ LogOK(buffer)
  /\ disk \in [Page -> PageType] /\ pool \in [Page -> PageType]
  /\ op \in Operations /\ (op.kind = "create" => op.node \in Node)
  /\ pages \in [Node -> SUBSET Page]

(* Where a page_lsn can be, and how far the log is there.                  *)
LogFirst ==
  \A p \in Page :
    /\ Reaches(wal, disk[p].lsn) /\ Reaches(wal, pool[p].lsn)
    /\ Reaches(wal \cup buffer, op.images[p].lsn)
    /\ op.stage = "write" => Reaches(wal, op.images[p].lsn)

AheadInv ==
  /\ EngineTypes
  /\ broken => "torn" \in exposed
  /\ "torn" \notin exposed => LogFirst

------------------------------------------------------------------------------
(* A nonempty set of naturals has a least element.                         *)
LEMMA LeastExists ==
  ASSUME NEW S, S \subseteq Nat, S # {}
  PROVE  \E x \in S : \A y \in S : x <= y
<1>. DEFINE L == {ss \in Nat \X Nat : ss[1] < ss[2]}
<1>1. IsWellFoundedOn(L, Nat)
  BY NatLessThanWellFounded, Zenon DEF OpToRel
<1>2. PICK x \in S : \A y \in S : ~(<<y, x>> \in L)
  <2>. HIDE DEF L
  <2>. QED
    BY <1>1, WFMin, Zenon
<1>3. \A a, b \in Nat : a < b => <<a, b>> \in L
  OBVIOUS
<1>4. \A y \in S : ~(y < x)
  <2>. HIDE DEF L
  <2>. QED
    BY <1>2, <1>3, Zenon
<1>. QED
  BY <1>4

(* A log whose lsns are bounded has a newest record.                       *)
LEMMA NewestIs ==
  ASSUME NEW R, R # {}, NEW b \in Nat, \A r \in R : r.lsn \in Nat /\ r.lsn <= b
  PROVE  Newest(R) \in R /\ \A q \in R : q.lsn <= Newest(R).lsn
<1>. DEFINE D == {b - r.lsn : r \in R}
<1>1. D \subseteq Nat /\ D # {}
  OBVIOUS
<1>2. PICK d \in D : \A e \in D : d <= e
  <2>. HIDE DEF D
  <2>. QED
    BY <1>1, LeastExists, Zenon
<1>5. PICK r \in R : d = b - r.lsn
  OBVIOUS
<1>6. \A q \in R : q.lsn <= r.lsn
  <2>. SUFFICES ASSUME NEW q \in R PROVE q.lsn <= r.lsn
    OBVIOUS
  <2>1. b - r.lsn <= b - q.lsn
    BY <1>2, <1>5
  <2>. QED
    BY <2>1
<1>. QED
  BY <1>6 DEF Newest

(* MaxLsn is how far a log reaches.                                        *)
LEMMA MaxLsnIs ==
  ASSUME NEW R, NEW b \in Nat, \A r \in R : r.lsn \in Nat \ {0} /\ r.lsn <= b
  PROVE  /\ MaxLsn(R) \in Nat /\ MaxLsn(R) <= b /\ \A r \in R : r.lsn <= MaxLsn(R)
         /\ \A n \in Int : Reaches(R, n) => n <= MaxLsn(R)
<1>1. CASE R = {}
  BY <1>1 DEF MaxLsn, Reaches
<1>2. CASE R # {}
  <2>1. Newest(R) \in R /\ \A q \in R : q.lsn <= Newest(R).lsn
    BY <1>2, NewestIs
  <2>2. MaxLsn(R) = Newest(R).lsn
    BY <1>2 DEF MaxLsn
  <2>. QED
    BY <2>1, <2>2 DEF Reaches
<1>. QED
  BY <1>1, <1>2

(* A log that grows reaches at least as far.                               *)
LEMMA ReachesMore ==
  ASSUME NEW R, NEW T, R \subseteq T, NEW n, Reaches(R, n)
  PROVE  Reaches(T, n)
  BY DEF Reaches

(* The idle operation.                                                     *)
LEMMA NoOpIs ==
  /\ NoOp \in Operations /\ NoOp.kind = "none" /\ NoOp.stage = "none" /\ NoOp.images = [p \in Page |-> Clean]
  /\ Clean \in PageType /\ Clean.lsn = -1
  /\ ZeroPage \in PageType /\ ZeroPage.lsn = 0
  BY EngineAssumption DEF NoOp, Operations, ZeroPage, Clean, PageType

\* A new engine: the pages carry lsn 0, which every log reaches.
LEMMA InitAhead == GInit => AheadInv
<1>. SUFFICES ASSUME GInit PROVE AheadInv
  OBVIOUS
<1>3. EngineTypes
  <2>1. IsFiniteSet({})
    BY FS_EmptySet
  <2>2. LogOK(wal) /\ LogOK(buffer)
    BY <2>1 DEF GInit, LogOK
  <2>3. disk \in [Page -> PageType] /\ pool \in [Page -> PageType]
    BY NoOpIs DEF GInit
  <2>4. op \in Operations /\ (op.kind = "create" => op.node \in Node)
    BY NoOpIs DEF GInit
  <2>5. current_lsn \in Nat \ {0} /\ next_txid \in Nat /\ pages \in [Node -> SUBSET Page]
    BY DEF GInit
  <2>6. broken \in BOOLEAN
    BY Zenon DEF GInit
  <2>. QED
    BY <2>2, <2>3, <2>4, <2>5, <2>6, SMTT(30) DEF EngineTypes
<1>4. LogFirst
  BY NoOpIs, SMTT(30) DEF GInit, LogFirst, Reaches
<1>. QED
  BY <1>3, <1>4 DEF GInit, AheadInv

(* What a step has to show: the page_lsns move along the path of the       *)
(* invariant, or the log reaches them.                                     *)
LEMMA AheadStep ==
  ASSUME AheadInv, EngineTypes', exposed \subseteq exposed', broken' => "torn" \in exposed',
         "torn" \notin exposed' =>
           /\ wal \subseteq wal'
           /\ \A p \in Page :
                /\ disk'[p].lsn \in {disk[p].lsn, pool[p].lsn} \/ Reaches(wal', disk'[p].lsn)
                /\ \/ pool'[p].lsn \in {disk[p].lsn, pool[p].lsn, -1}
                   \/ op.stage = "write" /\ pool'[p].lsn = op.images[p].lsn
                /\ Reaches(wal' \cup buffer', op'.images[p].lsn)
                /\ op'.stage = "write" => Reaches(wal', op'.images[p].lsn)
  PROVE  AheadInv'
<1>1. ASSUME "torn" \notin exposed' PROVE LogFirst'
  <2>1. LogFirst /\ wal \subseteq wal'
    BY <1>1, Zenon DEF AheadInv
  <2>2. \A p \in Page : /\ Reaches(wal', disk[p].lsn) /\ Reaches(wal', pool[p].lsn)
                        /\ op.stage = "write" => Reaches(wal', op.images[p].lsn)
    BY <2>1, SMTT(30) DEF LogFirst, Reaches
  <2>3. Reaches(wal', -1)
    BY DEF Reaches
  <2>. QED
    BY <1>1, <2>2, <2>3, Zenon DEF LogFirst
<1>. QED
  BY <1>1, Zenon DEF AheadInv

(* What the operations of the WalWriter do to the log.                     *)
LEMMA AppendIs ==
  ASSUME EngineTypes, NEW r, r.lsn = current_lsn, r.image \in SUBSET (0 .. MaxNode), append(r)
  PROVE  /\ current_lsn' \in Nat \ {0} /\ LogOK(wal)' /\ LogOK(buffer)' /\ broken' = broken
         /\ wal' = wal /\ buffer' = buffer \cup {r}
<1>1. current_lsn \in Nat \ {0} /\ current_lsn' = current_lsn + 1 /\ LogOK(wal) /\ LogOK(buffer)
  BY DEF EngineTypes, append
<1>2. IsFiniteSet(buffer \cup {r})
  BY <1>1, FS_AddElement DEF LogOK
<1>. QED
  BY <1>1, <1>2 DEF append, LogOK

\* WalWriter::flush: unless an earlier write left a torn record, the buffer is in the log.
LEMMA FlushIs ==
  ASSUME EngineTypes, flush
  PROVE  /\ current_lsn' \in Nat \ {0} /\ LogOK(wal)' /\ LogOK(buffer)' /\ broken' = broken
         /\ wal \subseteq wal' /\ (~ broken => wal' = wal \cup buffer)
<1>1. current_lsn \in Nat \ {0} /\ current_lsn' = current_lsn /\ LogOK(wal) /\ LogOK(buffer)
  BY DEF EngineTypes, flush
<1>2. IsFiniteSet(wal \cup buffer) /\ IsFiniteSet({})
  BY <1>1, FS_Union, FS_EmptySet, Zenon DEF LogOK
<1>. QED
  BY <1>1, <1>2 DEF flush, Flushed, LogOK

\* append followed by flush, as commit and sync do.
LEMMA AppendAndFlushIs ==
  ASSUME EngineTypes, NEW r, r.lsn = current_lsn, r.image \in SUBSET (0 .. MaxNode), append_and_flush(r)
  PROVE  /\ current_lsn' \in Nat \ {0} /\ LogOK(wal)' /\ LogOK(buffer)' /\ broken' = broken
         /\ wal \subseteq wal' /\ (~ broken => wal \cup buffer \subseteq wal')
<1>1. current_lsn \in Nat \ {0} /\ current_lsn' = current_lsn + 1 /\ LogOK(wal) /\ LogOK(buffer)
  BY DEF EngineTypes, append_and_flush
<1>2. IsFiniteSet(wal \cup (buffer \cup {r})) /\ IsFiniteSet({})
  BY <1>1, FS_Union, FS_EmptySet, FS_AddElement, Zenon DEF LogOK
<1>. QED
  BY <1>1, <1>2, SMTT(30) DEF append_and_flush, Flushed, LogOK

\* A flush that returns an error leaves the log alone or breaks it.
LEMMA FlushFailsIs ==
  ASSUME EngineTypes, flush_fails
  PROVE  /\ current_lsn' \in Nat \ {0} /\ LogOK(wal)' /\ LogOK(buffer)' /\ broken' \in BOOLEAN
         /\ ~ broken' => ~ broken /\ wal' = wal /\ buffer' = buffer
<1>1. /\ current_lsn \in Nat \ {0} /\ current_lsn' = current_lsn /\ LogOK(wal) /\ LogOK(buffer)
      /\ buffer' = buffer /\ broken \in BOOLEAN
  BY DEF EngineTypes, flush_fails
<1>2. CASE UNCHANGED <<wal, broken>>
  BY <1>1, <1>2 DEF LogOK
<1>3. CASE broken' = TRUE /\ \E r \in buffer : wal' = Flushed({q \in buffer : q.lsn < r.lsn})
  <2>1. PICK r \in buffer : wal' = Flushed({q \in buffer : q.lsn < r.lsn})
    BY <1>3
  <2>2. IsFiniteSet({q \in buffer : q.lsn < r.lsn})
    BY <1>1, FS_Subset DEF LogOK
  <2>3. IsFiniteSet(wal \cup {q \in buffer : q.lsn < r.lsn})
    BY <1>1, <2>2, FS_Union, ZenonT(30) DEF LogOK
  <2>. QED
    BY <1>1, <1>3, <2>1, <2>3, Zenon DEF Flushed, LogOK
<1>. QED
  BY <1>2, <1>3, Zenon DEF flush_fails

------------------------------------------------------------------------------
(* The steps that leave the pages and the frames alone.                    *)
LEMMA QuietStep ==
  ASSUME AheadInv, current_lsn' \in Nat \ {0}, LogOK(wal)', LogOK(buffer)', next_txid' \in Nat,
         broken' \in BOOLEAN, disk' = disk, pool' = pool, pages' \in [Node -> SUBSET Page],
         op' \in Operations, op'.kind = "create" => op'.node \in Node,
         exposed \subseteq exposed', broken' => "torn" \in exposed',
         "torn" \notin exposed' =>
           /\ wal \subseteq wal'
           /\ \/ op'.images = [p \in Page |-> Clean]
              \/ op'.images = op.images /\ wal \cup buffer \subseteq wal' \cup buffer'
           /\ op'.stage = "write" =>
                op'.images = op.images /\ (op.stage = "write" \/ wal' = wal \cup buffer)
  PROVE  AheadInv'
<1>1. EngineTypes'
  BY Zenon DEF AheadInv, EngineTypes
<1>2. ASSUME "torn" \notin exposed', NEW p \in Page
      PROVE  /\ Reaches(wal' \cup buffer', op'.images[p].lsn)
             /\ op'.stage = "write" => Reaches(wal', op'.images[p].lsn)
  <2>1. /\ Reaches(wal \cup buffer, op.images[p].lsn)
        /\ op.stage = "write" => Reaches(wal, op.images[p].lsn)
    BY <1>2, Zenon DEF AheadInv, LogFirst
  <2>2. op'.images = [q \in Page |-> Clean] => Reaches(wal' \cup buffer', op'.images[p].lsn)
    BY NoOpIs, SMTT(30) DEF Reaches
  <2>. QED
    BY <1>2, <2>1, <2>2, Zenon DEF Reaches
<1>. QED
  BY <1>1, <1>2, AheadStep, SMTT(30)

\* begin_create and its kin keep no image yet.
LEMMA BeginKeeps ==
  ASSUME AheadInv, NEW S \in Footprint, begin_create(S)
  PROVE  AheadInv'
<1>1. PICK n \in Node : /\ pages' = [pages EXCEPT ![n] = S]
                        /\ op' = [NoOp EXCEPT !.kind = "create", !.node = n, !.txid = next_txid,
                                              !.stage = "log", !.left = S]
  BY Zenon DEF begin_create
<1>2. S \in SUBSET Page /\ n \in 0 .. MaxNode /\ next_txid \in Nat
  BY EngineAssumption DEF Node, AheadInv, EngineTypes
<1>3. op' \in Operations
  BY <1>1, <1>2, NoOpIs, Zenon DEF Operations
<1>4. op'.kind = "create" /\ op'.node = n /\ op'.stage = "log" /\ op'.images = [p \in Page |-> Clean]
  BY <1>1, NoOpIs DEF Operations
<1>5. pages' \in [Node -> SUBSET Page] /\ next_txid' \in Nat
  BY <1>1, <1>2, SMTT(30) DEF begin_create, AheadInv, EngineTypes
<1>6. LogOK(wal)' /\ LogOK(buffer)'
  BY Zenon DEF begin_create, logvars, AheadInv, EngineTypes, LogOK
<1>. QED
  BY <1>3, <1>4, <1>5, <1>6, QuietStep, Zenon DEF begin_create, logvars, pagevars, AheadInv, EngineTypes

(* The Abort and Commit records, and the record of a deletion.             *)
LEMMA AppendKeeps ==
  ASSUME AheadInv, rollback \/ commit_append \/ log_delete \/ rollback_transaction
  PROVE  AheadInv'
<1>1. PICK type, txid, prev : append(Record(type, txid, prev, 0, {}, {}))
  BY Zenon DEF rollback, commit_append, log_delete, rollback_transaction, log
<1>2. /\ current_lsn' \in Nat \ {0} /\ LogOK(wal)' /\ LogOK(buffer)' /\ broken' = broken
      /\ wal' = wal /\ buffer \subseteq buffer'
  BY <1>1, AppendIs, Zenon DEF Record, AheadInv
<1>3. op \in Operations /\ (op.kind = "create" => op.node \in Node) /\ next_txid \in Nat
  BY DEF AheadInv, EngineTypes
<1>4. /\ op' \in Operations /\ (op'.kind = "create" => op'.node \in Node) /\ op'.stage # "write"
      /\ op'.images = op.images \/ op'.images = [p \in Page |-> Clean]
  <2>1. op' = NoOp \/ op' = [op EXCEPT !.stage = "flush"] \/ op' = [op EXCEPT !.stage = "commit"]
        \/ (op' = op /\ op = NoOp)
    BY Zenon DEF rollback, commit_append, log_delete, rollback_transaction, Idle
  <2>. QED
    BY <1>3, <2>1, NoOpIs, SMTT(30) DEF Operations
<1>5. /\ disk' = disk /\ pool' = pool /\ pages' = pages /\ exposed' = exposed /\ next_txid' \in Nat
  BY <1>3, SMTT(30) DEF rollback, commit_append, log_delete, rollback_transaction, pagevars, histvars
<1>. QED
  BY <1>2, <1>4, <1>5, QuietStep, Zenon DEF AheadInv, EngineTypes

(* The commit's flush makes the images of the operation safe to write.     *)
LEMMA FlushKeeps ==
  ASSUME AheadInv, commit_flush \/ sync
  PROVE  AheadInv'
<1>1. flush
  BY DEF commit_flush, sync
<1>2. /\ current_lsn' \in Nat \ {0} /\ LogOK(wal)' /\ LogOK(buffer)' /\ broken' = broken
      /\ wal \subseteq wal' /\ (~ broken => wal' = wal \cup buffer)
  BY <1>1, FlushIs, Zenon DEF AheadInv
<1>3. op \in Operations /\ (op.kind = "create" => op.node \in Node) /\ pages \in [Node -> SUBSET Page]
  BY DEF AheadInv, EngineTypes
<1>4. /\ op' \in Operations /\ (op'.kind = "create" => op'.node \in Node)
      /\ op'.images = op.images \/ op'.images = [p \in Page |-> Clean]
      /\ op'.stage = "write" => op'.images = op.images
  <2>1. CASE op' = NoOp
    BY <2>1, NoOpIs
  <2>2. CASE op.kind = "create" /\ op' = [op EXCEPT !.left = pages[op.node], !.stage = "write"]
    <3>1. pages[op.node] \in SUBSET Page /\ op.node \in Node
      BY <1>3, <2>2
    <3>2. op' \in Operations
      BY <1>3, <2>2, <3>1, Zenon DEF Operations
    <3>3. op'.kind = "create" /\ op'.node = op.node /\ op'.images = op.images
      BY <1>3, <2>2 DEF Operations
    <3>. QED
      BY <3>1, <3>2, <3>3, Zenon
  <2>3. ASSUME NEW st \in {"checkpoint", "flush_all"}, op' = [NoOp EXCEPT !.kind = "sync", !.stage = st]
        PROVE  op' \in Operations /\ op'.kind = "sync" /\ op'.stage # "write" /\ op'.images = [p \in Page |-> Clean]
    <3>1. op' \in Operations
      BY <2>3, NoOpIs, Zenon DEF Operations
    <3>. QED
      BY <2>3, <3>1, NoOpIs, Zenon DEF Operations
  <2>. QED
    BY <2>1, <2>2, <2>3, Zenon DEF commit_flush, sync
<1>5. /\ disk' = disk /\ pool' = pool /\ pages' = pages /\ exposed' = exposed /\ next_txid' \in Nat
  BY DEF commit_flush, sync, pagevars, histvars, AheadInv, EngineTypes
<1>6. "torn" \notin exposed' => ~ broken
  BY <1>5, Zenon DEF AheadInv
<1>. QED
  BY <1>2, <1>3, <1>4, <1>5, <1>6, QuietStep, Zenon DEF AheadInv, EngineTypes

\* A commit or sync whose flush fails writes no page.
LEMMA FlushFailsKeeps ==
  ASSUME AheadInv, commit_flush_fails \/ sync_fails
  PROVE  AheadInv'
<1>1. /\ current_lsn' \in Nat \ {0} /\ LogOK(wal)' /\ LogOK(buffer)' /\ broken' \in BOOLEAN
      /\ ~ broken' => ~ broken /\ wal' = wal /\ buffer' = buffer
  BY FlushFailsIs DEF commit_flush_fails, sync_fails, AheadInv
<1>2. op' = NoOp
  BY DEF commit_flush_fails, sync_fails, Idle
<1>3. /\ disk' = disk /\ pool' = pool /\ pages' = pages /\ next_txid' = next_txid
      /\ exposed' = exposed \cup IF broken' THEN {"torn"} ELSE {}
  BY DEF commit_flush_fails, sync_fails, pagevars
<1>4. exposed \subseteq exposed' /\ (broken' => "torn" \in exposed')
  BY <1>3, Zenon
<1>. QED
  BY <1>1, <1>2, <1>3, <1>4, QuietStep, NoOpIs, Zenon DEF AheadInv, EngineTypes

\* The begin and the end record of a checkpoint write no page.
LEMMA CheckpointKeeps ==
  ASSUME AheadInv, checkpoint_begin \/ checkpoint_end
  PROVE  AheadInv'
<1>1. PICK type, table : append_and_flush(Record(type, 0, 0, 0, {}, table))
  BY Zenon DEF checkpoint_begin, checkpoint_end
<1>2. /\ current_lsn' \in Nat \ {0} /\ LogOK(wal)' /\ LogOK(buffer)' /\ broken' = broken
      /\ wal \subseteq wal' /\ (~ broken => wal \cup buffer \subseteq wal')
  BY <1>1, AppendAndFlushIs DEF AheadInv, Record
<1>3. op \in Operations /\ op.kind = "sync" /\ current_lsn \in Nat
  BY DEF AheadInv, EngineTypes, checkpoint_begin, checkpoint_end, SyncStage
<1>4. op' \in Operations /\ op'.kind = "sync" /\ op'.stage # "write" /\ op'.images = op.images
  <2>1. CASE op' = [op EXCEPT !.stage = "frames", !.ckpt = current_lsn]
    <3>1. op' \in Operations
      BY <1>3, <2>1, Zenon DEF Operations
    <3>. QED
      BY <1>3, <2>1, <3>1 DEF Operations
  <2>2. CASE op' = [op EXCEPT !.stage = "flush_all"]
    BY <1>3, <2>2 DEF Operations
  <2>. QED
    BY <2>1, <2>2 DEF checkpoint_begin, checkpoint_end
<1>5. /\ disk' = disk /\ pool' = pool /\ pages' = pages /\ next_txid' = next_txid /\ exposed' = exposed
  BY DEF checkpoint_begin, checkpoint_end, pagevars, histvars
<1>6. "torn" \notin exposed' => ~ broken
  BY <1>5, Zenon DEF AheadInv
<1>. QED
  BY <1>2, <1>4, <1>5, <1>6, QuietStep, Zenon DEF AheadInv, EngineTypes

\* Steps that touch neither a page nor the log.
LEMMA RestKeeps ==
  ASSUME AheadInv, sync_superblock \/ (\E p \in Page : flusher_claim(p)) \/ UNCHANGED gvars
  PROVE  AheadInv'
<1>1. /\ UNCHANGED <<wal, broken, buffer, current_lsn>> /\ disk' = disk /\ pool' = pool
      /\ pages' = pages /\ next_txid' = next_txid /\ exposed \subseteq exposed'
      /\ op' = op \/ op' = NoOp
  BY Zenon DEF sync_superblock, flusher_claim, gvars, logvars, pagevars, histvars
<1>2. LogOK(wal)' /\ LogOK(buffer)'
  BY <1>1 DEF AheadInv, EngineTypes, LogOK
<1>3. broken' => "torn" \in exposed'
  BY <1>1 DEF AheadInv
<1>. QED
  BY <1>1, <1>2, <1>3, QuietStep, NoOpIs, Zenon DEF AheadInv, EngineTypes

------------------------------------------------------------------------------
(* An image gets the lsn of the record that logs it.                       *)
LEMMA LogPageKeeps ==
  ASSUME AheadInv, log_page
  PROVE  AheadInv'
<1>0. PICK q : q = Least(op.left)
  OBVIOUS
<1>. DEFINE image == View(q).recs \cup {op.node}
            r == Record("PageInsert", op.txid, sb.wal, q, image, {})
            new == [lsn |-> current_lsn, recs |-> image]
            stage == IF op.left = {q} THEN "commit" ELSE "log"
<1>1. /\ op \in Operations /\ op.kind = "create" /\ op.left # {}
      /\ op' = [op EXCEPT !.left = @ \ {q}, !.images[q] = new, !.stage = stage]
      /\ append(r) /\ disk' = disk /\ pool' = pool /\ next_txid' = next_txid /\ pages' = pages
      /\ exposed' = exposed
  BY <1>0 DEF log_page, AheadInv, EngineTypes, log, pagevars, histvars
<1>2. CASE q \in Page
  <2>1. View(q) \in PageType /\ current_lsn \in Nat
    BY <1>2 DEF AheadInv, EngineTypes, View
  <2>2. image \in SUBSET (0 .. MaxNode)
    BY <1>1, <2>1, Zenon DEF Operations, PageType
  <2>3. new \in PageType /\ new.lsn = current_lsn
    BY <2>1, <2>2, SMTT(30) DEF PageType
  <2>4. r.lsn = current_lsn /\ r.image = image
    BY DEF Record
  <2>. HIDE DEF image, r, new
  <2>5. /\ current_lsn' \in Nat \ {0} /\ LogOK(wal)' /\ LogOK(buffer)' /\ broken' = broken
        /\ wal' = wal /\ buffer' = buffer \cup {r}
    BY <1>1, <2>2, <2>4, AppendIs, Zenon DEF AheadInv
  <2>. DEFINE I == [op.images EXCEPT ![q] = new]
              left == op.left \ {q}
  <2>6. I \in [Page -> PageType] /\ left \in SUBSET Page /\ stage \in {"commit", "log"}
    BY <1>1, <2>3, Zenon DEF Operations
  <2>7. op' = [op EXCEPT !.left = left, !.images = I, !.stage = stage]
    BY <1>1 DEF Operations
  <2>8. I[q] = new /\ \A p \in Page \ {q} : I[p] = op.images[p]
    BY <1>1, <1>2 DEF Operations
  <2>. HIDE DEF I, left, stage
  <2>9. op' \in Operations
    BY <1>1, <2>6, <2>7, Zenon DEF Operations
  <2>10. op'.images = I /\ op'.stage = stage /\ op'.node = op.node /\ op'.kind = op.kind
    BY <1>1, <2>7, Zenon DEF Operations
  <2>11. EngineTypes'
    BY <1>1, <2>5, <2>9, <2>10, Zenon DEF AheadInv, EngineTypes
  <2>12. ASSUME "torn" \notin exposed', NEW p \in Page
         PROVE  Reaches(wal' \cup buffer', op'.images[p].lsn)
    <3>1. CASE p = q
      BY <2>1, <2>3, <2>4, <2>5, <2>8, <2>10, <3>1, SMTT(30) DEF Reaches
    <3>2. CASE p # q
      <4>1. Reaches(wal \cup buffer, op.images[p].lsn)
        BY <1>1, <2>12, Zenon DEF AheadInv, LogFirst
      <4>. QED
        BY <2>5, <2>8, <2>10, <3>2, <4>1, Zenon DEF Reaches
    <3>. QED
      BY <3>1, <3>2, Zenon
  <2>. QED
    BY <1>1, <2>5, <2>6, <2>10, <2>11, <2>12, AheadStep, Zenon DEF AheadInv
<1>3. q \in Page
  <2>1. op.left \subseteq Nat /\ op.left \subseteq Page
    BY <1>1, EngineAssumption DEF Operations
  <2>2. \E x \in op.left : \A y \in op.left : x <= y
    BY <1>1, <2>1, LeastExists
  <2>. QED
    BY <1>0, <2>1, <2>2, Zenon DEF Least
<1>. QED
  BY <1>2, <1>3

(* Pages move from the images to the frames, from the frames to the file,  *)
(* or change their content and keep their lsn.                             *)
LEMMA MoveKeeps ==
  ASSUME AheadInv, disk' \in [Page -> PageType], pool' \in [Page -> PageType],
         op' \in Operations, op'.kind = "create" => op'.node \in Node,
         op' = NoOp \/ op'.images = op.images,
         op'.stage = "write" => op.stage = "write" /\ op'.images = op.images,
         current_lsn' \in Nat \ {0}, LogOK(wal)', LogOK(buffer)', wal' = wal, buffer \subseteq buffer',
         next_txid' \in Nat, UNCHANGED <<broken, pages, exposed>>,
         \A p \in Page :
           /\ disk'[p].lsn \in {disk[p].lsn, pool[p].lsn}
           /\ \/ pool'[p].lsn \in {disk[p].lsn, pool[p].lsn, -1}
              \/ op.stage = "write" /\ pool'[p].lsn = op.images[p].lsn
  PROVE  AheadInv'
<1>1. EngineTypes'
  BY Zenon DEF AheadInv, EngineTypes
<1>2. ASSUME "torn" \notin exposed', NEW p \in Page
      PROVE  /\ Reaches(wal' \cup buffer', op'.images[p].lsn)
             /\ op'.stage = "write" => Reaches(wal', op'.images[p].lsn)
  <2>1. /\ Reaches(wal \cup buffer, op.images[p].lsn)
        /\ op.stage = "write" => Reaches(wal, op.images[p].lsn)
    BY <1>2, Zenon DEF AheadInv, LogFirst
  <2>. QED
    BY <2>1, NoOpIs DEF Reaches
<1>. QED
  BY <1>1, <1>2, AheadStep, ZenonT(30) DEF AheadInv

\* write_page: the image goes to the frame once the commit record is flushed.
LEMMA WritePageKeeps ==
  ASSUME AheadInv, write_page
  PROVE  AheadInv'
<1>1. PICK q : /\ set_dirty(q, op.images[q])
               /\ op' = IF op.left = {q} THEN NoOp ELSE [op EXCEPT !.left = @ \ {q}]
  BY DEF write_page
<1>2. /\ op \in Operations /\ op.kind = "create" /\ op.stage = "write"
      /\ UNCHANGED <<wal, broken, buffer, current_lsn, disk, next_txid, pages, exposed>>
      /\ pool \in [Page -> PageType] /\ disk \in [Page -> PageType]
  BY DEF write_page, AheadInv, EngineTypes, logvars, histvars
<1>3. pool' = [pool EXCEPT ![q] = op.images[q]]
  BY <1>1 DEF set_dirty
<1>4. \A p \in Page : op.images[p] \in PageType
  BY <1>2, Zenon DEF Operations
<1>5. pool' \in [Page -> PageType] /\ \A p \in Page : pool'[p] \in {pool[p], op.images[p]}
  BY <1>2, <1>3, <1>4, Zenon
<1>6. /\ op' \in Operations /\ (op'.kind = "create" => op'.node \in Node)
      /\ op' = NoOp \/ op'.images = op.images
      /\ op'.stage = "write" => op'.images = op.images
  <2>1. CASE op' = NoOp
    BY <2>1, NoOpIs, Zenon
  <2>2. CASE op' = [op EXCEPT !.left = @ \ {q}]
    <3>1. op.left \ {q} \in SUBSET Page
      BY <1>2 DEF Operations
    <3>2. op' \in Operations
      BY <1>2, <2>2, <3>1, Zenon DEF Operations
    <3>3. op'.images = op.images /\ op'.kind = op.kind /\ op'.node = op.node
      BY <1>2, <2>2, Zenon DEF Operations
    <3>. QED
      BY <3>2, <3>3, Zenon DEF AheadInv, EngineTypes
  <2>. QED
    BY <1>1, <2>1, <2>2, Zenon
<1>7. LogOK(wal)' /\ LogOK(buffer)'
  BY <1>2, Zenon DEF AheadInv, EngineTypes, LogOK
<1>. QED
  BY <1>2, <1>5, <1>6, <1>7, MoveKeeps, Zenon DEF AheadInv, EngineTypes

(* A tombstone or a property changes the content of a frame and keeps its  *)
(* page_lsn.                                                               *)
LEMMA StealKeeps ==
  ASSUME AheadInv, (\E n \in Node : delete_node(n)) \/ (\E p \in PropertyPage : put_property(p))
  PROVE  AheadInv'
<1>0. /\ op = NoOp /\ disk' = disk /\ pool \in [Page -> PageType] /\ disk \in [Page -> PageType]
      /\ next_txid \in Nat /\ UNCHANGED <<exposed, pages>>
      /\ \A p \in Page : View(p) \in PageType /\ View(p).recs \in SUBSET (0 .. MaxNode)
  BY Zenon DEF delete_node, put_property, Idle, AheadInv, EngineTypes, histvars, View, PageType
<1>1. PICK q, Y : /\ pool' = [pool EXCEPT ![q] = [View(q) EXCEPT !.recs = Y]]
                  /\ q \in Page => Y \in SUBSET (0 .. MaxNode)
  <2>1. ASSUME NEW n \in Node, delete_node(n)
        PROVE  \E q, Y : /\ pool' = [pool EXCEPT ![q] = [View(q) EXCEPT !.recs = Y]]
                         /\ q \in Page => Y \in SUBSET (0 .. MaxNode)
    <3>1. pool' = [pool EXCEPT ![NodePage(n)] = [View(NodePage(n)) EXCEPT !.recs = View(NodePage(n)).recs \ {n}]]
      BY <2>1, Zenon DEF delete_node, set_dirty
    <3>2. NodePage(n) \in Page => View(NodePage(n)).recs \ {n} \in SUBSET (0 .. MaxNode)
      BY <1>0
    <3>. QED
      BY <3>1, <3>2, ZenonT(30)
  <2>2. ASSUME NEW p \in PropertyPage, put_property(p)
        PROVE  \E q, Y : /\ pool' = [pool EXCEPT ![q] = [View(q) EXCEPT !.recs = Y]]
                         /\ q \in Page => Y \in SUBSET (0 .. MaxNode)
    <3>1. pool' = [pool EXCEPT ![p] = [View(p) EXCEPT !.recs = View(p).recs \cup {0}]]
      BY <2>2 DEF put_property, set_dirty
    <3>2. p \in Page => View(p).recs \cup {0} \in SUBSET (0 .. MaxNode)
      BY <1>0, EngineAssumption
    <3>. QED
      BY <3>1, <3>2, Zenon
  <2>. QED
    BY <2>1, <2>2, Zenon
<1>2. pool' \in [Page -> PageType] /\ \A p \in Page : pool'[p].lsn \in {disk[p].lsn, pool[p].lsn}
  <2>1. ASSUME q \in Page
        PROVE  [View(q) EXCEPT !.recs = Y] \in PageType /\ [View(q) EXCEPT !.recs = Y].lsn \in {disk[q].lsn, pool[q].lsn}
    <3>1. View(q) \in PageType /\ View(q) \in {disk[q], pool[q]}
      BY <1>0, <2>1 DEF View
    <3>2. [View(q) EXCEPT !.recs = Y] \in PageType /\ [View(q) EXCEPT !.recs = Y].lsn = View(q).lsn
      BY <1>1, <2>1, <3>1, Zenon DEF PageType
    <3>. QED
      BY <3>1, <3>2
  <2>. QED
    BY <1>0, <1>1, <2>1, Zenon
<1>3. /\ current_lsn' \in Nat \ {0} /\ LogOK(wal)' /\ LogOK(buffer)' /\ broken' = broken
      /\ wal' = wal /\ buffer \subseteq buffer'
  <2>1. CASE \E n \in Node : delete_node(n)
    <3>1. UNCHANGED <<wal, broken, buffer, current_lsn>>
      BY <2>1, ZenonT(30) DEF delete_node, logvars
    <3>. QED
      BY <3>1 DEF AheadInv, EngineTypes, LogOK
  <2>2. CASE \E p \in PropertyPage : put_property(p)
    <3>1. append(Record("PropertyInsert", 1, sb.wal, 0, {}, {}))
      BY <2>2, Zenon DEF put_property, log
    <3>. QED
      BY <3>1, AppendIs DEF Record, AheadInv
  <2>. QED
    BY <2>1, <2>2, Zenon
<1>4. /\ op' \in Operations /\ op'.kind # "create" /\ op'.stage # "write"
      /\ op'.images = [p \in Page |-> Clean] /\ next_txid' \in Nat
  <2>1. ASSUME NEW n \in Node, delete_node(n)
        PROVE  /\ op' \in Operations /\ op'.kind = "delete" /\ op'.stage = "log"
               /\ op'.images = [p \in Page |-> Clean] /\ next_txid' \in Nat
    <3>1. /\ op' = [NoOp EXCEPT !.kind = "delete", !.node = n, !.txid = next_txid, !.stage = "log"]
          /\ next_txid' = next_txid + 1
      BY <2>1, Zenon DEF delete_node
    <3>a. n \in 0 .. MaxNode
      BY DEF Node
    <3>2. op' \in Operations
      BY <1>0, <3>1, <3>a, NoOpIs, Zenon DEF Operations
    <3>. QED
      BY <1>0, <3>1, <3>2, NoOpIs, SMTT(30) DEF Operations
  <2>2. ASSUME NEW p \in PropertyPage, put_property(p)
        PROVE  op' = op /\ next_txid' = next_txid
    BY <2>2, Zenon DEF put_property
  <2>. QED
    BY <1>0, <2>1, <2>2, NoOpIs, Zenon
<1>. QED
  BY <1>0, <1>2, <1>3, <1>4, MoveKeeps, NoOpIs, Zenon DEF AheadInv, EngineTypes

(* The flusher and the flushes of sync write frames to the file.           *)
LEMMA FlusherKeeps ==
  ASSUME AheadInv,
         (\E p \in Page : flusher_write(p) \/ flusher_fails(p)) \/ checkpoint_flush \/ flush_all
  PROVE  AheadInv'
<1>1. pool \in [Page -> PageType] /\ disk \in [Page -> PageType] /\ op \in Operations
  BY Zenon DEF AheadInv, EngineTypes
<1>2. /\ disk' \in [Page -> PageType] /\ pool' \in [Page -> PageType]
      /\ \A p \in Page : disk'[p] \in {disk[p], pool[p]} /\ pool'[p] \in {pool[p], Clean}
  BY <1>1, NoOpIs, SMTT(30) DEF flusher_write, flusher_fails, checkpoint_flush, flush_all, FlushFrames
<1>3. UNCHANGED <<wal, broken, buffer, current_lsn, next_txid, pages, exposed>>
  BY DEF flusher_write, flusher_fails, checkpoint_flush, flush_all, logvars, histvars
<1>4. /\ op' \in Operations /\ op'.images = op.images /\ op'.kind = op.kind /\ op'.node = op.node
      /\ op'.stage = "write" => op.stage = "write"
  <2>1. op' = op \/ op' = [op EXCEPT !.stage = "end"] \/ op' = [op EXCEPT !.stage = "superblock"]
    BY Zenon DEF flusher_write, flusher_fails, checkpoint_flush, flush_all
  <2>. QED
    BY <1>1, <2>1 DEF Operations
<1>5. LogOK(wal)' /\ LogOK(buffer)'
  BY <1>3, Zenon DEF AheadInv, EngineTypes, LogOK
<1>. QED
  BY <1>2, <1>3, <1>4, <1>5, MoveKeeps, NoOpIs, Zenon DEF AheadInv, EngineTypes

------------------------------------------------------------------------------
(* Recovery.  What is read back was in the log.                            *)
LEMMA CrashKeeps ==
  ASSUME AheadInv, crash
  PROVE  AheadInv'
<1>1. PICK k \in 0 .. current_lsn : wal' = Flushed({r \in buffer : r.lsn < k})
  BY Zenon DEF crash
<1>2. PICK W \in SUBSET inflight : disk' = [p \in Page |-> IF p \in W THEN pool[p] ELSE disk[p]]
  BY Zenon DEF crash
<1>3. /\ buffer' = {} /\ broken' = FALSE /\ current_lsn' = MaxLsn(wal') + 1
      /\ pool' = [p \in Page |-> Clean] /\ op' = NoOp /\ next_txid' = 1
      /\ pages' = pages /\ exposed' = exposed
  BY DEF crash, histvars
<1>4. /\ current_lsn \in Nat \ {0} /\ LogOK(wal) /\ LogOK(buffer)
      /\ pool \in [Page -> PageType] /\ disk \in [Page -> PageType]
  BY DEF AheadInv, EngineTypes
<1>5. /\ wal \subseteq wal' /\ wal' \subseteq wal \cup buffer
  BY <1>1, Zenon DEF Flushed
<1>6. IsFiniteSet(wal') /\ IsFiniteSet({})
  <2>1. IsFiniteSet(wal \cup buffer)
    BY <1>4, FS_Union, ZenonT(30) DEF LogOK
  <2>. QED
    BY <1>5, <2>1, FS_Subset, FS_EmptySet, Zenon
<1>7. \A r \in wal' : r.lsn \in Nat \ {0} /\ r.lsn <= current_lsn /\ r.image \in SUBSET (0 .. MaxNode)
  BY <1>4, <1>5, SMTT(30) DEF LogOK
<1>8. MaxLsn(wal') \in Nat /\ \A r \in wal' : r.lsn <= MaxLsn(wal')
  BY <1>4, <1>7, MaxLsnIs, Zenon
<1>9. current_lsn' \in Nat \ {0} /\ LogOK(wal)' /\ LogOK(buffer)'
  BY <1>3, <1>6, <1>7, <1>8, SMTT(30) DEF LogOK
<1>10. /\ disk' \in [Page -> PageType] /\ pool' \in [Page -> PageType]
       /\ \A p \in Page : disk'[p] \in {disk[p], pool[p]} /\ pool'[p].lsn = -1
  BY <1>2, <1>3, <1>4, NoOpIs, Zenon
<1>11. EngineTypes'
  BY <1>3, <1>9, <1>10, NoOpIs, Zenon DEF AheadInv, EngineTypes
<1>12. \A p \in Page : Reaches(wal' \cup buffer', op'.images[p].lsn)
  BY <1>3, NoOpIs, SMTT(30) DEF Reaches
<1>. QED
  BY <1>3, <1>5, <1>10, <1>11, <1>12, NoOpIs, AheadStep, Zenon DEF AheadInv

(* The image of a finite set.                                              *)
LEMMA ImageFinite ==
  ASSUME NEW S, IsFiniteSet(S), NEW f, DOMAIN f = S
  PROVE  IsFiniteSet({f[x] : x \in S})
<1>. DEFINE T == {f[x] : x \in S}
            g == [x \in S |-> f[x]]
<1>1. g \in Surjection(S, T)
  BY Zenon DEF Surjection
<1>. QED
  BY <1>1, FS_Surjection, Zenon

(* The compensation records of UNDO are finite in number.                  *)
LEMMA UndoFinite ==
  ASSUME NEW R, NEW S, IsFiniteSet(R), S \subseteq R
  PROVE  IsFiniteSet(UndoSteps(R, S))
<1>. DEFINE Ended == {q \in S : q.type \in Lifecycle}
            Txs == {r.txid : r \in Ended}
            Met(t) == Chain(R, att(S)[t].last_lsn)
            Steps(t) == {[last |-> att(S)[t].last_lsn, rec |-> r] : r \in Met(t)}
<1>1. IsFiniteSet(Txs)
  <2>. DEFINE f == [r \in Ended |-> r.txid]
  <2>1. IsFiniteSet(Ended)
    BY FS_Subset
  <2>2. IsFiniteSet({f[r] : r \in Ended})
    BY <2>1, ImageFinite, Zenon
  <2>3. Txs = {f[r] : r \in Ended}
    BY ZenonT(30)
  <2>. QED
    BY <2>2, <2>3, Zenon
<1>2. Losers(S) \subseteq Txs
  BY Zenon DEF Losers, att
<1>3. IsFiniteSet(Losers(S))
  BY <1>1, <1>2, FS_Subset, Zenon
<1>4. ASSUME NEW t PROVE IsFiniteSet(Steps(t))
  <2>. DEFINE f == [r \in Met(t) |-> [last |-> att(S)[t].last_lsn, rec |-> r]]
  <2>1. IsFiniteSet(Met(t))
    BY FS_Subset, Zenon DEF Chain
  <2>2. IsFiniteSet({f[r] : r \in Met(t)})
    BY <2>1, ImageFinite, ZenonT(30)
  <2>3. Steps(t) = {f[r] : r \in Met(t)}
    OBVIOUS
  <2>. QED
    BY <2>2, <2>3, Zenon
<1>5. IsFiniteSet({Steps(t) : t \in Losers(S)})
  <2>. DEFINE f == [t \in Losers(S) |-> Steps(t)]
  <2>2. IsFiniteSet({f[t] : t \in Losers(S)})
    BY <1>3, ImageFinite, ZenonT(30)
  <2>3. {Steps(t) : t \in Losers(S)} = {f[t] : t \in Losers(S)}
    BY Zenon
  <2>. QED
    BY <2>2, <2>3, Zenon
<1>6. UndoSteps(R, S) = UNION {Steps(t) : t \in Losers(S)}
  BY DEF UndoSteps
<1>. HIDE DEF Steps
<1>7. \A T \in {Steps(t) : t \in Losers(S)} : IsFiniteSet(T)
  BY <1>4, Zenon
<1>. QED
  BY <1>5, <1>6, <1>7, FS_UNION, Zenon

(* What a recovery appends, and where the log ends then.                   *)
LEMMA RecoveredLog ==
  ASSUME AheadInv, NEW S, S \subseteq wal, buffer = {}, UNCHANGED buffer,
         NEW W, W \subseteq Clrs(wal, S, current_lsn), wal' = wal \cup W,
         current_lsn' = MaxLsn(wal') + 1
  PROVE  current_lsn' \in Nat \ {0} /\ LogOK(wal)' /\ LogOK(buffer)' /\ wal \subseteq wal'
<1>. DEFINE U == UndoSteps(wal, S)
            Before(u) == {v \in U : Earlier(v, u)}
            Clr(u) == [type |-> "Clr", txid |-> u.rec.txid, prev |-> u.rec.prev, page |-> u.rec.page,
                       image |-> {}, table |-> {}, lsn |-> current_lsn + Cardinality(Before(u))]
            f == [u \in U |-> Clr(u)]
            b == current_lsn + Cardinality(U)
<1>1. current_lsn \in Nat \ {0} /\ LogOK(wal)
  BY Zenon DEF AheadInv, EngineTypes
<1>2. IsFiniteSet(U) /\ Cardinality(U) \in Nat
  BY <1>1, UndoFinite, FS_CardinalityType, Zenon DEF LogOK
<1>3. ASSUME NEW u \in U
      PROVE  Cardinality(Before(u)) \in Nat /\ Cardinality(Before(u)) <= Cardinality(U)
  <2>1. Before(u) \subseteq U
    BY Zenon
  <2>. QED
    BY <1>2, <2>1, FS_Subset, FS_CardinalityType, Zenon
<1>4. Clrs(wal, S, current_lsn) = {f[u] : u \in U}
  BY Zenon DEF Clrs
<1>5. IsFiniteSet(wal') /\ IsFiniteSet({})
  <2>1. IsFiniteSet({f[u] : u \in U})
    <3>. HIDE DEF U, Clr
    <3>. QED
      BY <1>2, ImageFinite, ZenonT(30)
  <2>2. IsFiniteSet(W)
    BY <1>4, <2>1, FS_Subset, ZenonT(30)
  <2>. QED
    BY <1>1, <2>2, FS_Union, FS_EmptySet, Zenon DEF LogOK
<1>6. ASSUME NEW r \in W
      PROVE  r.lsn \in Nat \ {0} /\ r.lsn <= b /\ r.image \in SUBSET (0 .. MaxNode)
  <2>1. PICK u \in U : r = Clr(u)
    BY <1>4, ZenonT(30)
  <2>2. r.lsn = current_lsn + Cardinality(Before(u)) /\ r.image = {}
    BY <2>1, Zenon
  <2>. QED
    BY <1>1, <1>2, <1>3, <2>2, SMTT(30)
<1>7. \A r \in wal' : r.lsn \in Nat \ {0} /\ r.lsn <= b /\ r.image \in SUBSET (0 .. MaxNode)
  <2>. HIDE DEF U
  <2>. QED
    BY <1>1, <1>2, <1>6, SMTT(30) DEF LogOK
<1>8. MaxLsn(wal') \in Nat /\ \A r \in wal' : r.lsn <= MaxLsn(wal')
  <2>. HIDE DEF U
  <2>. QED
    BY <1>1, <1>2, <1>7, MaxLsnIs, SMTT(30)
<1>9. LogOK(wal)'
  <2>1. current_lsn' \in Nat /\ \A r \in wal' : r.lsn < current_lsn'
    <3>1. PICK m : m = MaxLsn(wal')
      OBVIOUS
    <3>2. m \in Nat /\ current_lsn' = m + 1 /\ \A r \in wal' : r.lsn \in Nat /\ r.lsn <= m
      BY <1>7, <1>8, <3>1, Zenon
    <3>. QED
      BY <3>2, SMTT(30)
  <2>. HIDE DEF b
  <2>. QED
    BY <1>5, <1>7, <2>1, Zenon DEF LogOK
<1>10. LogOK(buffer)'
  BY <1>5, Zenon DEF LogOK
<1>. QED
  BY <1>8, <1>9, <1>10, SMTT(30)

(* REDO and UNDO give a page a page_lsn that the log reaches, or leave it. *)
LEMMA RecoveredPages ==
  ASSUME AheadInv, NEW S
  PROVE  LET redone == redo(wal, S, disk)
             undone == undo(wal, S, redone)
         IN  /\ redone \in [Page -> PageType] /\ undone \in [Page -> PageType]
             /\ \A p \in Page : /\ redone[p].lsn = disk[p].lsn \/ Reaches(wal, redone[p].lsn)
                                /\ undone[p].lsn = disk[p].lsn \/ Reaches(wal, undone[p].lsn)
<1>. DEFINE redone == redo(wal, S, disk)
            undone == undo(wal, S, redone)
            newer(p) == {r \in wal : r.page = p /\ Replayed(S, r) /\ r.lsn > disk[p].lsn}
<1>1. current_lsn \in Nat \ {0} /\ LogOK(wal) /\ disk \in [Page -> PageType] /\ DOMAIN disk = Page
  BY Zenon DEF AheadInv, EngineTypes
<1>2. ASSUME NEW p \in Page
      PROVE  redone[p] \in PageType /\ (redone[p].lsn = disk[p].lsn \/ Reaches(wal, redone[p].lsn))
  <2>1. redone[p] = IF newer(p) = {} THEN disk[p]
                    ELSE [lsn |-> Newest(newer(p)).lsn, recs |-> Newest(newer(p)).image]
    BY <1>1, Zenon DEF redo
  <2>2. CASE newer(p) = {}
    BY <1>1, <2>1, <2>2, ZenonT(30)
  <2>3. CASE newer(p) # {}
    <3>1. newer(p) \subseteq wal
      BY Zenon
    <3>. HIDE DEF newer
    <3>2. Newest(newer(p)) \in wal
      BY <1>1, <2>3, <3>1, NewestIs, SMTT(30) DEF LogOK
    <3>. QED
      BY <1>1, <2>1, <2>3, <3>2, SMTT(30) DEF LogOK, PageType, Reaches
  <2>. QED
    BY <2>2, <2>3, Zenon
<1>3. DOMAIN redone = Page /\ DOMAIN undone = Page /\ redone = [p \in Page |-> redone[p]]
  BY <1>1, Zenon DEF redo, undo
<1>4. redone \in [Page -> PageType]
  <2>. HIDE DEF redone
  <2>. QED
    BY <1>2, <1>3, Zenon
<1>. HIDE DEF redone
<1>5. \A p \in Page : undone[p] \in {ZeroPage, redone[p]}
  BY <1>3, Zenon DEF undo
<1>6. undone = [p \in Page |-> undone[p]]
  BY <1>3 DEF undo
<1>. HIDE DEF undone
<1>7. undone \in [Page -> PageType]
  BY <1>4, <1>5, <1>6, NoOpIs, Zenon
<1>8. \A p \in Page : undone[p].lsn = disk[p].lsn \/ Reaches(wal, undone[p].lsn)
  BY <1>2, <1>5, NoOpIs, SMTT(30) DEF Reaches
<1>. QED
  BY <1>2, <1>4, <1>7, <1>8, Zenon DEF redone, undone

\* Recovery, complete or interrupted: REDO and UNDO stamp pages with lsns of records read from the log.
LEMMA RecoverKeeps ==
  ASSUME AheadInv, buffer = {}, recover \/ crash_in_recovery
  PROVE  AheadInv'
<1>. DEFINE S == Scanned(wal, sb.ckpt)
            redone == redo(wal, S, disk)
            undone == undo(wal, S, redone)
            new == Clrs(wal, S, current_lsn)
<1>1. UNCHANGED <<broken, buffer, pool, next_txid, op, pages>> /\ exposed \subseteq exposed'
  BY ZenonT(30) DEF recover, crash_in_recovery
<1>2. ("torn" \in exposed') = ("torn" \in exposed)
  BY SMTT(30) DEF recover, crash_in_recovery
<1>3. current_lsn' = MaxLsn(wal') + 1
  BY DEF recover, crash_in_recovery
<1>4. PICK W \in SUBSET new : wal' = wal \cup W
  <2>1. CASE recover
    BY <2>1 DEF recover
  <2>2. CASE crash_in_recovery
    <3>1. PICK k \in current_lsn .. current_lsn + Cardinality(new) :
             wal' = wal \cup {r \in new : r.lsn < k}
      BY <2>2, Zenon DEF crash_in_recovery
    <3>. QED
      BY <3>1, Zenon
  <2>. QED
    BY <2>1, <2>2, Zenon
<1>5. S \subseteq wal
  BY DEF Scanned
<1>6. current_lsn' \in Nat \ {0} /\ LogOK(wal)' /\ LogOK(buffer)' /\ wal \subseteq wal'
  <2>. HIDE DEF S
  <2>. QED
    BY <1>1, <1>3, <1>4, <1>5, RecoveredLog, Zenon
<1>7. PICK A, B \in SUBSET Page :
        \A p \in Page : disk'[p] = IF p \in B THEN undone[p] ELSE IF p \in A THEN redone[p] ELSE disk[p]
  <2>1. CASE recover
    <3>1. disk' = undone
      BY <2>1, ZenonT(30) DEF recover
    <3>. QED
      BY <3>1, Zenon
  <2>2. CASE crash_in_recovery
    <3>1. PICK A \in SUBSET Page, B \in SUBSET Page :
            disk' = [p \in Page |-> IF p \in B THEN undone[p] ELSE IF p \in A THEN redone[p] ELSE disk[p]]
      BY <2>2, ZenonT(30) DEF crash_in_recovery
    <3>. HIDE DEF undone, redone
    <3>. QED
      BY <3>1, Zenon
  <2>. QED
    BY <2>1, <2>2, Zenon
<1>. HIDE DEF S
<1>8. /\ redone \in [Page -> PageType] /\ undone \in [Page -> PageType]
      /\ \A p \in Page : /\ redone[p].lsn = disk[p].lsn \/ Reaches(wal, redone[p].lsn)
                         /\ undone[p].lsn = disk[p].lsn \/ Reaches(wal, undone[p].lsn)
  BY RecoveredPages
<1>9. disk' = [p \in Page |-> disk'[p]]
  <2>1. CASE recover
    BY <1>8, <2>1, Zenon DEF recover, S
  <2>2. CASE crash_in_recovery
    BY <2>2, Zenon DEF crash_in_recovery
  <2>. QED
    BY <2>1, <2>2, Zenon
<1>. HIDE DEF redone, undone
<1>10. disk' \in [Page -> PageType]
  BY <1>7, <1>8, <1>9, Zenon DEF AheadInv, EngineTypes
<1>11. \A p \in Page : disk'[p].lsn = disk[p].lsn \/ Reaches(wal', disk'[p].lsn)
  <2>. SUFFICES ASSUME NEW p \in Page
                PROVE  disk'[p].lsn = disk[p].lsn \/ Reaches(wal', disk'[p].lsn)
    BY Zenon
  <2>1. disk'[p] \in {disk[p], redone[p], undone[p]}
    BY <1>7, Zenon
  <2>2. disk'[p].lsn = disk[p].lsn \/ Reaches(wal, disk'[p].lsn)
    <3>1. CASE disk'[p] = disk[p]
      BY <3>1, ZenonT(30)
    <3>2. CASE disk'[p] = redone[p]
      BY <1>8, <3>2, Zenon
    <3>3. CASE disk'[p] = undone[p]
      BY <1>8, <3>3, Zenon
    <3>. QED
      BY <2>1, <3>1, <3>2, <3>3, Zenon
  <2>. QED
    BY <1>6, <2>2, ReachesMore, Zenon
<1>12. EngineTypes'
  BY <1>1, <1>6, <1>10, Zenon DEF AheadInv, EngineTypes
<1>13. "torn" \notin exposed' =>
         \A p \in Page : /\ Reaches(wal' \cup buffer', op'.images[p].lsn)
                         /\ op'.stage = "write" => Reaches(wal', op'.images[p].lsn)
  BY <1>1, <1>2, <1>6, Zenon DEF AheadInv, LogFirst, Reaches
<1>14. broken' => "torn" \in exposed'
  BY <1>1, <1>2, Zenon DEF AheadInv
<1>15. \A p \in Page : /\ disk'[p].lsn \in {disk[p].lsn, pool[p].lsn} \/ Reaches(wal', disk'[p].lsn)
                       /\ pool'[p].lsn \in {disk[p].lsn, pool[p].lsn, -1}
  BY <1>1, <1>11, Zenon
<1>. QED
  <2>1. "torn" \notin exposed' =>
          \A p \in Page :
            /\ disk'[p].lsn \in {disk[p].lsn, pool[p].lsn} \/ Reaches(wal', disk'[p].lsn)
            /\ \/ pool'[p].lsn \in {disk[p].lsn, pool[p].lsn, -1}
               \/ op.stage = "write" /\ pool'[p].lsn = op.images[p].lsn
            /\ Reaches(wal' \cup buffer', op'.images[p].lsn)
            /\ op'.stage = "write" => Reaches(wal', op'.images[p].lsn)
    BY <1>13, <1>15, Zenon
  <2>. QED
    BY <1>1, <1>6, <1>12, <1>14, <2>1, AheadStep, ZenonT(30)

(* Until it is recovered, a crashed engine has an empty buffer and nothing *)
(* in progress.                                                            *)
Down == ~up => buffer = {} /\ op = NoOp

\* Only recovery ends the time in which a crashed engine does nothing.
LEMMA NextDown ==
  ASSUME Down, [GNext]_gvars
  PROVE  Down'
<1>1. CASE crash
  BY <1>1, Zenon DEF crash, Down
<1>2. CASE recover
  BY <1>2, Zenon DEF recover, Down
<1>3. CASE crash_in_recovery
  BY <1>3, Zenon DEF crash_in_recovery, Down
<1>4. CASE \/ \E S \in Footprint : begin_create(S)
           \/ \E n \in Node : delete_node(n)
           \/ \E p \in PropertyPage : put_property(p)
           \/ rollback_transaction \/ sync \/ sync_fails
  <2>1. up /\ up' = up
    <3>1. CASE \E n \in Node : delete_node(n)
      BY <3>1, Zenon DEF delete_node, Idle
    <3>2. CASE \E p \in PropertyPage : put_property(p)
      BY <3>2, Zenon DEF put_property, Idle
    <3>. QED
      BY <1>4, <3>1, <3>2, Zenon DEF begin_create, rollback_transaction, sync, sync_fails, Idle
  <2>. QED
    BY <2>1 DEF Down
<1>5. CASE \E p \in Page : flusher_claim(p) \/ flusher_write(p) \/ flusher_fails(p)
  BY <1>5 DEF flusher_claim, flusher_write, flusher_fails, Down
<1>6. CASE log_page \/ rollback \/ commit_append \/ commit_flush \/ commit_flush_fails \/ write_page \/ log_delete
  <2>1. op # NoOp /\ up' = up
    BY <1>6, NoOpIs, Zenon DEF log_page, rollback, commit_append, commit_flush, commit_flush_fails, write_page, log_delete
  <2>. QED
    BY <2>1, Zenon DEF Down
<1>7. CASE checkpoint_begin \/ checkpoint_flush \/ checkpoint_end \/ flush_all \/ sync_superblock
  <2>1. op # NoOp /\ up' = up
    BY <1>7, NoOpIs, Zenon DEF checkpoint_begin, checkpoint_flush, checkpoint_end, flush_all, sync_superblock, SyncStage
  <2>. QED
    BY <2>1 DEF Down
<1>8. CASE UNCHANGED gvars
  BY <1>8 DEF gvars, logvars, Down
<1>. QED
  BY <1>1, <1>2, <1>3, <1>4, <1>5, <1>6, <1>7, <1>8, Zenon DEF GNext

\* Every step of the engine keeps the invariant.
LEMMA NextAhead ==
  ASSUME AheadInv, Down, [GNext]_gvars
  PROVE  AheadInv'
<1>1. CASE recover \/ crash_in_recovery
  <2>1. buffer = {}
    BY <1>1, Zenon DEF recover, crash_in_recovery, Down
  <2>. QED
    BY <1>1, <2>1, RecoverKeeps, Zenon
<1>2. CASE \E S \in Footprint : begin_create(S)
  BY <1>2, BeginKeeps, Zenon
<1>3. CASE rollback \/ commit_append \/ log_delete \/ rollback_transaction
  BY <1>3, AppendKeeps
<1>4. CASE commit_flush \/ sync
  BY <1>4, FlushKeeps
<1>5. CASE commit_flush_fails \/ sync_fails
  BY <1>5, FlushFailsKeeps, Zenon
<1>6. CASE checkpoint_begin \/ checkpoint_end
  BY <1>6, CheckpointKeeps
<1>7. CASE sync_superblock \/ (\E p \in Page : flusher_claim(p)) \/ UNCHANGED gvars
  BY <1>7, RestKeeps, Zenon
<1>8. CASE (\E p \in Page : flusher_write(p) \/ flusher_fails(p)) \/ checkpoint_flush \/ flush_all
  BY <1>8, FlusherKeeps, Zenon
<1>9. CASE (\E n \in Node : delete_node(n)) \/ (\E p \in PropertyPage : put_property(p))
  BY <1>9, StealKeeps, Zenon
<1>. QED
  BY <1>1, <1>2, <1>3, <1>4, <1>5, <1>6, <1>7, <1>8, <1>9,
     LogPageKeeps, WritePageKeeps, CrashKeeps, ZenonT(30) DEF GNext

\* The invariant says of the pages in the file what WriteAhead asks.
LEMMA AheadIs == AheadInv => WriteAhead
<1>. SUFFICES ASSUME AheadInv, "torn" \notin exposed, NEW p \in Page
              PROVE  disk[p].lsn <= MaxLsn(wal)
  BY Zenon DEF WriteAhead
<1>1. /\ current_lsn \in Nat /\ disk[p].lsn \in Int /\ Reaches(wal, disk[p].lsn)
      /\ \A r \in wal : r.lsn \in Nat \ {0} /\ r.lsn <= current_lsn
  BY DEF AheadInv, EngineTypes, LogFirst, LogOK, PageType
<1>. QED
  BY <1>1, MaxLsnIs, Zenon

(* The file never holds a page that is ahead of the log: no interleaving   *)
(* of operations, flusher, checkpoints, failed flushes, crashes and        *)
(* interrupted recoveries lets a page with a page_lsn be written before    *)
(* the record that gave it out is durable, unless a torn record was        *)
(* written in front of others.                                             *)
THEOREM LogIsWrittenAhead == GSpec => []WriteAhead
<1>1. GInit => Down
  BY DEF GInit, Down
<1>. QED
  BY <1>1, InitAhead, NextAhead, NextDown, AheadIs, PTL DEF GSpec

==============================================================================
