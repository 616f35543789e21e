------------------------------- MODULE WalLog -------------------------------
(***************************************************************************)
(* WalWriter of wal/writer.rs: records are appended to a buffer, flushed   *)
(* behind the physical end of the current segment file, segments are       *)
(* sealed and rotated, old ones archived and reclaimed, and after a crash  *)
(* the writer opens the log again.  The reading side is load_all_segments  *)
(* of wal/aries.rs.                                                        *)
(*                                                                         *)
(* A file is a sequence of items.  A record has an lsn <<segment, offset>> *)
(* and a number that tells the records apart; "block" is the descriptor    *)
(* block of a sealed segment, which is not framed as a record and cannot   *)
(* be decoded; "torn" is what an interrupted write leaves of a record.     *)
(* Sizes are small numbers in the proportions of the code: a torn tail is  *)
(* shorter than a record, the descriptor record longer than its block.     *)
(***************************************************************************)
EXTENDS Integers, Sequences, FiniteSets

CONSTANTS
    MaxAppends,   \* records appended in a behaviour
    MaxSegments,  \* segments that may be opened
    MaxWalFaults  \* I/O errors and crashes together

ASSUME WalAssumption == MaxSegments \in Nat

Retention == 2    \* LIVE_SEGMENT_RETENTION

VARIABLES
    live,      \* segment id -> file, the WAL directory
    archive,   \* segment id -> file, wal-archive/
    link,      \* the segment that wal-current points to, and a stray wal-current.tmp
    writer,    \* the WalWriter of the running process
    walpast    \* counters, and what has happened so far

walvars == <<live, archive, link, writer, walpast>>

Size == [record |-> 2, block |-> 4, sealed |-> 5, torn |-> 1]

Item(kind, n, lsn) == [kind |-> kind, n |-> n, lsn |-> lsn]

TornItem == Item("torn", 0, <<0, 0>>)

Block == Item("block", 0, <<0, 0>>)

\* WalRecord::new of the descriptor record keeps lsn 0
Sealed == Item("sealed", 0, <<0, 0>>)

Count(file, kind) == Cardinality({i \in DOMAIN file : file[i].kind = kind})

FileLen(file) ==
    Size.record * Count(file, "record") + Size.block * Count(file, "block")
      + Size.sealed * Count(file, "sealed") + Size.torn * Count(file, "torn")

Undecodable(item) == item.kind \in {"block", "torn"}

\* WalRecord::decode at successive offsets: everything before the first item that fails
Decoded(file) ==
    SubSeq(file, 1, CHOOSE n \in 0..Len(file) :
                       /\ \A i \in 1..n : ~ Undecodable(file[i])
                       /\ n < Len(file) => Undecodable(file[n + 1]))

(***************************************************************************)
(* open                                                                    *)
(***************************************************************************)

\* probes 0, 1, 2, ... and stops at the first missing id above the highest found
Highest(ids) == CHOOSE n \in ids \cup {0} : 1..n \subseteq ids /\ n + 1 \notin ids

find_highest_segment_id(dir) == Highest(DOMAIN dir)

Opened(seg, offset) ==
    [up |-> TRUE, seg |-> seg, lsn |-> <<seg, offset>>, start |-> <<seg, 0>>, file |-> seg,
     buffer |-> <<>>, durable |-> <<seg, offset>>]

\* a torn tail is left where it is
last_valid_offset_Ignored(file) == file

\* M22: the file up to the last record that decodes
last_valid_offset(file) == Decoded(file)

wal_open ==
    LET seg  == find_highest_segment_id(live)
        kept == IF seg \in DOMAIN live THEN last_valid_offset(live[seg]) ELSE <<>>
        off  == IF seg = 0 /\ FileLen(kept) = 0 THEN 1 ELSE FileLen(kept)
    IN /\ ~ writer.up
       /\ live' = [s \in DOMAIN live \cup {seg} |-> IF s = seg THEN kept ELSE live[s]]
       /\ writer' = Opened(seg, off)
       /\ walpast' = [walpast EXCEPT !.behind = @ \/ \E s \in DOMAIN live \cup DOMAIN archive : s > seg]
       /\ UNCHANGED <<archive, link>>

WALInit ==
    /\ live = [s \in {0} |-> <<>>]
    /\ archive = [s \in {} |-> <<>>]
    /\ link = [to |-> 0, tmp |-> FALSE]
    /\ writer = Opened(0, 1)
    /\ walpast = [count |-> 0, faults |-> 0, acked |-> {}, ckpt |-> 0,
                  behind |-> FALSE, torn |-> FALSE, halfway |-> FALSE, gap |-> FALSE]

(***************************************************************************)
(* append and flush                                                        *)
(***************************************************************************)

Appended(w, n) ==
    [w EXCEPT !.buffer = Append(@, Item("record", n, w.lsn)), !.lsn = <<@[1], @[2] + 2>>]

wal_append ==
    /\ writer.up /\ walpast.count < MaxAppends
    /\ writer' = Appended(writer, walpast.count + 1)
    /\ walpast' = [walpast EXCEPT !.count = @ + 1]
    /\ UNCHANGED <<live, archive, link>>

Flushed(w) ==
    [w EXCEPT !.buffer = <<>>,
              !.durable = IF @[1] < w.lsn[1] \/ (@[1] = w.lsn[1] /\ @[2] < w.lsn[2]) THEN w.lsn ELSE @]

Numbers(items) == {items[i].n : i \in DOMAIN items}

wal_flush ==
    /\ writer.up /\ writer.buffer # <<>>
    /\ live' = [live EXCEPT ![writer.file] = @ \o writer.buffer]
    /\ writer' = Flushed(writer)
    /\ walpast' = [walpast EXCEPT !.acked = @ \cup Numbers(writer.buffer)]
    /\ UNCHANGED <<archive, link>>

\* What a write of `items' that fails or is interrupted leaves behind the file: some of the
\* items, the next one torn or not at all
Remains(file, items) ==
    {file \o SubSeq(items, 1, k) : k \in 0..Len(items)}
      \cup {Append(file \o SubSeq(items, 1, k), TornItem) : k \in 0..Len(items) - 1}

IsTorn(file) == \E i \in DOMAIN file : file[i].kind = "torn"

\* write_at or sync_data returns an error: the buffer is kept for the next flush
flush_fails ==
    /\ writer.up /\ writer.buffer # <<>>
    /\ walpast.faults < MaxWalFaults
    /\ \E file \in Remains(live[writer.file], writer.buffer) :
          /\ live' = [live EXCEPT ![writer.file] = file]
          /\ walpast' = [walpast EXCEPT !.faults = @ + 1, !.torn = @ \/ IsTorn(file)]
    /\ UNCHANGED <<archive, link, writer>>

(***************************************************************************)
(* rotate                                                                  *)
(***************************************************************************)

archive_old_segments(current) ==
    IF current < Retention THEN {} ELSE {s \in DOMAIN live : s < current - (Retention - 1)}

SealedFile(file, buffer) == (file \o buffer) \o <<Block, Sealed>>

Restrict1(f, S) == [x \in S |-> f[x]]

\* the segments of two directories, those of the first one where both have it
Over(f, g) == [x \in DOMAIN f \cup DOMAIN g |-> IF x \in DOMAIN f THEN f[x] ELSE g[x]]

\* the files once the current one is sealed and the next one open, which may exist already
Rotated(w) ==
    Over([live EXCEPT ![w.file] = SealedFile(@, w.buffer)], [s \in {w.seg + 1} |-> <<>>])

\* flush, descriptor, descriptor record, next segment, symlink, archive
rotate ==
    LET w   == writer
        dir == Rotated(w)
        old == archive_old_segments(w.seg)
    IN /\ w.up /\ w.seg < MaxSegments /\ ~ link.tmp
       /\ live' = Restrict1(dir, DOMAIN dir \ old)
       /\ archive' = Over(Restrict1(dir, old), archive)
       /\ link' = [link EXCEPT !.to = w.seg + 1]
       /\ writer' = [Flushed(w) EXCEPT !.seg = w.seg + 1, !.file = w.seg + 1,
                                       !.lsn = <<w.seg + 1, 0>>, !.start = <<w.seg + 1, 0>>]
       /\ walpast' = [walpast EXCEPT !.acked = @ \cup Numbers(w.buffer)]

\* an error once the descriptor block is in the file: the segment stays in use
rotate_fails_sealing ==
    LET w == writer
    IN /\ w.up /\ walpast.faults < MaxWalFaults
       /\ \E extra \in {<<Block>>, <<Block, Sealed>>} :
             /\ live' = [live EXCEPT ![w.file] = (@ \o w.buffer) \o extra]
             /\ writer' = [Flushed(w) EXCEPT !.lsn = <<@[1], @[2] + IF Len(extra) = 2 THEN 5 ELSE 0>>]
       /\ walpast' = [walpast EXCEPT !.faults = @ + 1, !.halfway = TRUE,
                                     !.acked = @ \cup Numbers(w.buffer)]
       /\ UNCHANGED <<archive, link>>

\* symlink or rename fails, always when a crash has left wal-current.tmp: the next file is in
\* use already, the segment number and the lsn are not (bounded to one free failure)
rotate_fails_linking ==
    LET w == writer
    IN /\ w.up /\ w.seg < MaxSegments
       /\ (link.tmp /\ ~ walpast.halfway) \/ walpast.faults < MaxWalFaults
       /\ live' = Rotated(w)
       /\ \E tmp \in {link.tmp, TRUE} : link' = [link EXCEPT !.tmp = tmp]
       /\ writer' = [Flushed(w) EXCEPT !.file = w.seg + 1, !.lsn = <<@[1], @[2] + 5>>]
       /\ walpast' = [walpast EXCEPT !.faults = IF link.tmp /\ ~ walpast.halfway THEN @ ELSE @ + 1, !.halfway = TRUE,
                                     !.acked = @ \cup Numbers(w.buffer)]
       /\ UNCHANGED archive

(***************************************************************************)
(* Checkpoint::run ends with update_symlink; the caller publishes the lsn  *)
(* and reclaims the archive below its segment.                             *)
(***************************************************************************)

reclaim_archived_segments_before(seg) == {s \in DOMAIN archive : s < seg}

wal_checkpoint ==
    /\ writer.up /\ writer.buffer = <<>> /\ ~ link.tmp /\ walpast.ckpt < writer.seg
    /\ walpast' = [walpast EXCEPT !.ckpt = writer.seg,
                                  !.gap = @ \/ reclaim_archived_segments_before(writer.seg) # {}]
    /\ archive' = Restrict1(archive, DOMAIN archive \ reclaim_archived_segments_before(writer.seg))
    /\ link' = [link EXCEPT !.to = writer.file]
    /\ UNCHANGED <<live, writer>>

\* The process dies, possibly in a flush or between symlink and rename
wal_crash ==
    /\ writer.up /\ walpast.faults < MaxWalFaults
    /\ \E file \in Remains(live[writer.file], writer.buffer) :
          live' = [live EXCEPT ![writer.file] = file]
    /\ \E tmp \in {link.tmp, TRUE} : link' = [link EXCEPT !.tmp = tmp]
    /\ writer' = [writer EXCEPT !.up = FALSE, !.buffer = <<>>]
    /\ walpast' = [walpast EXCEPT !.faults = @ + 1]
    /\ UNCHANGED archive

WALNext ==
    \/ wal_open \/ wal_append \/ wal_flush \/ flush_fails
    \/ rotate \/ rotate_fails_sealing \/ rotate_fails_linking
    \/ wal_checkpoint \/ wal_crash

WALSpec == WALInit /\ [][WALNext]_walvars

(***************************************************************************)
(* load_all_segments: from the segment of the checkpoint to the highest of *)
(* both directories.                                                       *)
(***************************************************************************)

highest_segment_id == Highest(DOMAIN live \cup DOMAIN archive)

load_single_segment(file) == Decoded(file)

load_all_segments ==
    UNION {Numbers(load_single_segment(IF s \in DOMAIN live THEN live[s] ELSE archive[s])) :
             s \in {x \in walpast.ckpt..highest_segment_id : x \in DOMAIN live \cup DOMAIN archive}}

(***************************************************************************)
(* Properties.                                                             *)
(***************************************************************************)

Before(a, b) == a[1] < b[1] \/ (a[1] = b[1] /\ a[2] < b[2])

Files == {live[s] : s \in DOMAIN live} \cup {archive[s] : s \in DOMAIN archive} \cup {writer.buffer}

InSegments(from) ==
    UNION {Numbers(Over(live, archive)[s]) : s \in {x \in DOMAIN live \cup DOMAIN archive : x >= from}}

\* Types: the current file is in the directory and the writer holds the segment of its lsn
WALTypeOK ==
    /\ writer.up => writer.file \in DOMAIN live /\ writer.lsn[1] = writer.seg
    /\ \A f \in Files : \A i \in DOMAIN f : f[i].kind \in {"record", "block", "sealed", "torn"}
    /\ link.to \in 0..MaxSegments /\ walpast.count <= MaxAppends

\* Every record whose flush or rotation returned Ok, from the segment of the checkpoint on, is
\* read again by load_all_segments, whatever was rotated, archived, torn by a crash and
\* truncated by open in between.  Excepted are logs in which a failed flush left a torn record,
\* a rotation failed half way, the archive was reclaimed, or open fell behind (see below).
AckedReadable ==
    (~ walpast.torn /\ ~ walpast.halfway /\ ~ walpast.gap /\ ~ walpast.behind)
       => \A n \in walpast.acked : n \in InSegments(walpast.ckpt) => n \in load_all_segments

\* durable_lsn, the gate of the page flusher, never passes a record that is still only in the
\* buffer, after failed flushes and failed rotations too
DurableIsWritten ==
    \A i \in DOMAIN writer.buffer : ~ Before(writer.buffer[i].lsn, writer.durable)

\* No two records of the log carry the same lsn, over restarts and rotations: page_lsn is
\* compared with it in REDO
LsnUnique ==
    ~ walpast.behind =>
      \A f, g \in Files : \A i \in DOMAIN f, j \in DOMAIN g :
         (f[i].kind = "record" /\ g[j].kind = "record" /\ f[i].lsn = g[j].lsn) => f[i].n = g[j].n

\* The log keeps what it acknowledged: acknowledged records are read again, the durable watermark
\* passes no record that is only in memory, and no lsn is given out twice (flush, rotate, archive,
\* open and load_all_segments, under errors and crashes).
LogKeepsAcked == AckedReadable /\ DurableIsWritten /\ LsnUnique

\* Refuted: open "picks up exactly where it left off - including after a rotation"
OpensNewest == ~ walpast.behind

\* Refuted: load_all_segments reads what is needed after the archive was reclaimed
ReclaimHarmless ==
    (~ walpast.torn /\ ~ walpast.halfway /\ ~ walpast.behind)
       => \A n \in walpast.acked : n \in InSegments(walpast.ckpt) => n \in load_all_segments

\* Refuted: a rotation that fails leaves a log that loses nothing
FailedRotationHarmless ==
    (~ walpast.torn /\ ~ walpast.gap /\ ~ walpast.behind)
       => \A n \in walpast.acked : n \in InSegments(walpast.ckpt) => n \in load_all_segments

\* Refuted: the atomic replacement of wal-current survives a crash in it, so that checkpoints
\* and rotations of the next process can complete
LinkReplaceable == writer.up => ~ link.tmp
=============================================================================
