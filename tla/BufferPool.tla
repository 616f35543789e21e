----------------------------- MODULE BufferPool -----------------------------
(***************************************************************************)
(* The buffer pool (buffer/pool.rs, buffer/frame.rs, buffer/readahead.rs)  *)
(* and its background flusher (buffer/flusher.rs).                         *)
(*                                                                         *)
(* Clients fix pages (two-phase load behind LOADING_SENTINEL), write them  *)
(* through a PageGuard, free them (invalidate) and flush the pool; the     *)
(* flusher claims dirty frames and writes them back in extents.  Every     *)
(* atomic flag of a frame is a field, every place where another thread can *)
(* run between two accesses to a flag is a step of its own, but for two    *)
(* groups of stores that are one step each: the fields that reset clears,  *)
(* and the fields and the table entry by which a load or a prefetch        *)
(* publishes a frame.  (A sweep of another thread that meets the frame     *)
(* between those stores, Clean and not yet pinned or mapped, is one more   *)
(* way to the clash described below, and is left out.)                     *)
(*                                                                         *)
(* Abstracted: page bytes are <<page, version>>; the ghost queue, the hit  *)
(* counters and NUMA placement decide nothing; `dirty` always equals       *)
(* state = "Dirty"; rec_lsn is kept as "set or u64::MAX"; the stride       *)
(* tracker may ask for a prefetch at any page above the one just loaded.   *)
(***************************************************************************)
EXTENDS Integers, Sequences, FiniteSets

CONSTANTS
  Clients,        \* threads calling the pool
  NumFrames,      \* BufferPool::frame_count
  FilePages,      \* the data file holds pages 1..FilePages
  LastPage,       \* highest page id a prefetch may ask for (>= FilePages)
  ClientOps,      \* subset of {"read", "write", "invalidate", "flush_all"}
  FaultKinds,     \* subset of {"read", "stage", "write", "fsync"}
  MaxOps,         \* bound: operations started by the clients
  MaxFaults,      \* bound: injected I/O errors
  MaxStride,      \* bound: stride of the sequential access pattern
  MaxSweeps       \* find_free_frame's MAX_SWEEPS

\* A pool has a frame, a prefetch may go past the end of the file, there are finitely many threads.
ASSUME PoolAssumption ==
  /\ IsFiniteSet(Clients)
  /\ NumFrames \in Nat \ {0}
  /\ FilePages \in Nat /\ LastPage \in Nat /\ FilePages <= LastPage

VARIABLES
  table,     \* page -> frame, Loading or Unmapped (the shards)
  frame,     \* frame -> descriptor
  bytes,     \* frame -> <<page, version>> in the frame's buffer
  disk,      \* page -> <<page, version>> in the data file
  hand,      \* clock_hand
  ioFailed,  \* io_failed
  cl,        \* client -> its program counter and locals
  fl,        \* the flusher's program counter and locals
  latest,    \* history: page -> version last written through a guard
  stale,     \* history: the flusher claimed a frame that was recycled, or a prefetch
             \*   published bytes that the file no longer holds
  stuck,     \* history: flush_single_frame returned by `?` holding its claim
  clash,     \* history: a frame that a sweep chose, or a page that is being freed, was
             \*   used by another thread as well
  faults,    \* I/O errors injected so far
  ops        \* operations started so far

bpvars == <<table, frame, bytes, disk, hand, ioFailed, cl, fl,
            latest, stale, stuck, faults, ops>>

Frames == 0 .. NumFrames - 1
PoolPages == 1 .. LastPage
NoPg == 0
Loading == -1          \* LOADING_SENTINEL
Unmapped == -2         \* no entry in the shard
Zeroed == <<0, 0>>

\* FrameDescriptor::reset.
EmptyDesc == [page |-> NoPg, pins |-> 0, state |-> "Empty",
              inflight |-> FALSE, ref |-> FALSE, rec |-> FALSE]

\* A frame reserved by a load: reset, Loading, page id stored, I/O in flight.
ReservedDesc(p) == [EmptyDesc EXCEPT !.page = p, !.state = "Loading", !.inflight = TRUE]

IdleClient == [pc |-> "idle", op |-> "none", page |-> NoPg, guard |-> -1,
               ret |-> "none", f |-> -1, fp |-> NoPg, scanned |-> 0, sweeps |-> 0,
               next |-> NoPg, batch |-> <<>>, todo |-> {}]

IdleFlusher == [pc |-> "rest", cand |-> {}, f |-> -1, page |-> NoPg,
                pend |-> {}, ext |-> {}]

BPInit ==
  /\ table = [p \in PoolPages |-> Unmapped]
  /\ frame = [f \in Frames |-> EmptyDesc]
  /\ bytes = [f \in Frames |-> Zeroed]
  /\ disk = [p \in 1 .. FilePages |-> <<p, 0>>]
  /\ hand = 0
  /\ ioFailed = FALSE
  /\ cl = [c \in Clients |-> IdleClient]
  /\ fl = IdleFlusher
  /\ latest = [p \in 1 .. FilePages |-> 0]
  /\ stale = FALSE
  /\ stuck = FALSE
  /\ clash = FALSE
  /\ faults = 0
  /\ ops = 0

-----------------------------------------------------------------------------
Lowest(S) == CHOOSE x \in S : \A y \in S : x <= y

Goto(c, r) == cl' = [cl EXCEPT ![c] = r]

Moves(c, pc) == Goto(c, [cl[c] EXCEPT !.pc = pc])

\* The operation of client c ends (with a result or an error).
Done(c) == Goto(c, IdleClient)

Fault(kind) ==
  /\ kind \in FaultKinds
  /\ faults < MaxFaults
  /\ faults' = faults + 1

NoFault == faults' = faults

is_pinned(f) == frame[f].pins > 0

dirty_candidates ==
  {f \in Frames : frame[f].state = "Dirty" /\ ~is_pinned(f) /\ ~frame[f].inflight}

\* fix_page returns: the caller holds a PageGuard on frame f.
HoldsGuard(c, f) ==
  Goto(c, [IdleClient EXCEPT !.pc = "guard", !.op = cl[c].op, !.page = cl[c].page, !.guard = f])

Pin(c, f) ==
  /\ frame' = [frame EXCEPT ![f].pins = @ + 1, ![f].ref = TRUE]
  /\ HoldsGuard(c, f)

-----------------------------------------------------------------------------
(* fix_page: the lookup under the shard lock.                              *)
FixPage(c, p, op) ==
  /\ cl[c].pc = "idle"
  /\ op \in ClientOps \cap {"read", "write"}
  /\ ops < MaxOps
  /\ ops' = ops + 1
  /\ LET entry == table[p] IN
       \/ /\ entry \in Frames
          /\ frame' = [frame EXCEPT ![entry].pins = @ + 1, ![entry].ref = TRUE]
          /\ Goto(c, [cl[c] EXCEPT !.pc = "guard", !.op = op, !.page = p, !.guard = entry])
       \/ /\ entry = Loading
          /\ Goto(c, [cl[c] EXCEPT !.pc = "wait", !.op = op, !.page = p])
          /\ UNCHANGED frame
       \/ /\ entry = Unmapped
          /\ Goto(c, [cl[c] EXCEPT !.pc = "sweep", !.op = op, !.page = p, !.ret = "fix"])
          /\ UNCHANGED frame
  /\ UNCHANGED <<table, bytes, disk, hand, ioFailed, fl, latest, stale, stuck, faults>>

(* wait_for_loading: one round of the spin.                                *)
WaitForLoading(c) ==
  /\ cl[c].pc = "wait"
  /\ table[cl[c].page] # Loading
  /\ \/ /\ table[cl[c].page] \in Frames
        /\ Pin(c, table[cl[c].page])
     \/ /\ table[cl[c].page] = Unmapped
        /\ Goto(c, [cl[c] EXCEPT !.pc = "sweep", !.ret = "fix"])
        /\ UNCHANGED frame
  /\ UNCHANGED <<table, bytes, disk, hand, ioFailed, fl, latest, stale, stuck, faults, ops>>

-----------------------------------------------------------------------------
(* sweep_for_victim, first pass: an Empty idle frame, in clock order; it is*)
(* returned without being reserved.                                        *)
InClockOrder(S) ==
  CHOOSE f \in S : \A g \in S : (f - hand) % NumFrames <= (g - hand) % NumFrames

FirstPass(c) ==
  LET empty == {f \in Frames : frame[f].state = "Empty" /\ ~frame[f].inflight} IN
  /\ cl[c].pc = "sweep"
  /\ \/ /\ empty # {}
        /\ hand' = InClockOrder(empty)
        /\ Goto(c, [cl[c] EXCEPT !.pc = "got", !.f = InClockOrder(empty)])
     \/ /\ empty = {}
        /\ Goto(c, [cl[c] EXCEPT !.pc = "clock", !.scanned = 0])
        /\ UNCHANGED hand
  /\ UNCHANGED <<table, frame, bytes, disk, ioFailed, fl, latest, stale, stuck, faults, ops>>

(* Second pass: the frame under the hand.  A clean frame is evicted, a     *)
(* referenced dirty one loses its reference bit, an unreferenced dirty one *)
(* is flushed inline.                                                      *)
ClockStep(c) ==
  LET f == hand
      d == frame[f]
      busy == is_pinned(f) \/ d.inflight IN
  /\ cl[c].pc = "clock"
  /\ cl[c].scanned < 2 * NumFrames
  /\ hand' = (hand + 1) % NumFrames
  /\ frame' = IF ~busy /\ d.state = "Dirty" THEN [frame EXCEPT ![f].ref = FALSE] ELSE frame
  /\ CASE ~busy /\ d.state \in {"Clean", "Empty"} -> Goto(c, [cl[c] EXCEPT !.pc = "evict", !.f = f])
       [] ~busy /\ d.state = "Dirty" /\ ~d.ref ->
            Goto(c, [cl[c] EXCEPT !.pc = "flush", !.f = f, !.scanned = cl[c].scanned + 1])
       [] OTHER -> Goto(c, [cl[c] EXCEPT !.scanned = cl[c].scanned + 1])
  /\ UNCHANGED <<table, bytes, disk, ioFailed, fl, latest, stale, stuck, faults, ops>>

(* The sweep found nothing: find_free_frame tries again up to MAX_SWEEPS   *)
(* times and then fails with WouldBlock; the prefetch stops reserving.     *)
SweepFailed(c) ==
  /\ cl[c].pc = "clock"
  /\ cl[c].scanned = 2 * NumFrames
  /\ CASE cl[c].ret = "prefetch" -> Goto(c, [cl[c] EXCEPT !.pc = "fill", !.next = NoPg])
       [] cl[c].ret = "fix" /\ cl[c].sweeps + 1 < MaxSweeps ->
            Goto(c, [cl[c] EXCEPT !.pc = "sweep", !.sweeps = cl[c].sweeps + 1])
       [] OTHER -> Done(c)
  /\ UNCHANGED <<table, frame, bytes, disk, hand, ioFailed, fl, latest, stale, stuck, faults, ops>>

(* Eviction: unmap the page if this frame still owns it ...                *)
Evict(c) ==
  LET f == cl[c].f
      old == frame[f].page IN
  /\ cl[c].pc = "evict"
  /\ table' = IF old # NoPg /\ table[old] = f THEN [table EXCEPT ![old] = Unmapped] ELSE table
  /\ Moves(c, "reset")
  /\ UNCHANGED <<frame, bytes, disk, hand, ioFailed, fl, latest, stale, stuck, faults, ops>>

(* ... then reset the descriptor and hand the frame to the caller.         *)
EvictReset(c) ==
  /\ cl[c].pc = "reset"
  /\ frame' = [frame EXCEPT ![cl[c].f] = EmptyDesc]
  /\ Goto(c, [cl[c] EXCEPT !.pc = "got", !.scanned = 0, !.sweeps = 0])
  /\ UNCHANGED <<table, bytes, disk, hand, ioFailed, fl, latest, stale, stuck, faults, ops>>

-----------------------------------------------------------------------------
(* flush_single_frame, called by the sweep and by flush_all.               *)
FlushReturn(c) ==
  Goto(c, [cl[c] EXCEPT !.pc = IF cl[c].ret = "flush_all" THEN "flushing" ELSE "clock",
                        !.f = -1, !.fp = NoPg])

\* `?` on the flush: fix_page and flush_all fail, a prefetch gives up (its
\* error is ignored by fix_page, which already holds its guard).
FlushError(c) ==
  IF cl[c].ret = "prefetch" THEN HoldsGuard(c, cl[c].guard) ELSE Done(c)

FlushClaim(c) ==
  LET d == frame[cl[c].f] IN
  /\ cl[c].pc = "flush"
  /\ \/ /\ d.page = NoPg
        /\ FlushReturn(c)
        /\ UNCHANGED frame
     \/ /\ d.page # NoPg /\ ioFailed
        /\ FlushError(c)
        /\ UNCHANGED frame
     \/ /\ d.page # NoPg /\ ~ioFailed /\ d.inflight
        /\ FlushReturn(c)
        /\ UNCHANGED frame
     \/ /\ d.page # NoPg /\ ~ioFailed /\ ~d.inflight
        /\ frame' = [frame EXCEPT ![cl[c].f].inflight = TRUE]
        /\ Goto(c, [cl[c] EXCEPT !.pc = "fpin", !.fp = d.page])
  /\ UNCHANGED <<table, bytes, disk, hand, ioFailed, fl, latest, stale, stuck, faults, ops>>

FlushPinCheck(c) ==
  /\ cl[c].pc = "fpin"
  /\ \/ /\ is_pinned(cl[c].f)
        /\ frame' = [frame EXCEPT ![cl[c].f].inflight = FALSE]
        /\ FlushReturn(c)
     \/ /\ ~is_pinned(cl[c].f)
        /\ Moves(c, "fwrite")
        /\ UNCHANGED frame
  /\ UNCHANGED <<table, bytes, disk, hand, ioFailed, fl, latest, stale, stuck, faults, ops>>

\* Mutation: the result of the fsync is ignored.
FlushWriteUnsynced(c) ==
  LET f == cl[c].f IN
  /\ cl[c].pc = "fwrite"
  /\ NoFault \/ Fault("fsync")
  /\ disk' \in IF faults' = faults THEN {[disk EXCEPT ![cl[c].fp] = bytes[f]]} ELSE {disk}
  /\ Moves(c, "fclean")
  /\ UNCHANGED <<table, frame, bytes, hand, ioFailed, stuck, fl, latest, stale, ops>>

\* Stage, write and fsync under io_mutex.  A staging or write error returns
\* with io_inflight still set; an fsync error poisons the pool.
FlushWrite(c) ==
  LET f == cl[c].f IN
  /\ cl[c].pc = "fwrite"
  /\ \/ /\ NoFault
        /\ disk' = [disk EXCEPT ![cl[c].fp] = bytes[f]]
        /\ Moves(c, "fclean")
        /\ UNCHANGED <<frame, ioFailed, stuck>>
     \/ /\ \E k \in {"stage", "write"} : Fault(k)
        /\ stuck' = TRUE
        /\ FlushError(c)
        /\ UNCHANGED <<disk, frame, ioFailed>>
     \/ /\ Fault("fsync")
        /\ ioFailed' = TRUE
        /\ frame' = [frame EXCEPT ![f].inflight = FALSE]
        /\ disk' \in {disk, [disk EXCEPT ![cl[c].fp] = bytes[f]]}
        /\ FlushError(c)
        /\ UNCHANGED stuck
  /\ UNCHANGED <<table, bytes, hand, fl, latest, stale, ops>>

FlushClean(c) ==
  /\ cl[c].pc = "fclean"
  /\ frame' = [frame EXCEPT ![cl[c].f].state = "Clean", ![cl[c].f].inflight = FALSE]
  /\ Moves(c, "frec")
  /\ UNCHANGED <<table, bytes, disk, hand, ioFailed, fl, latest, stale, stuck, faults, ops>>

FlushRecLsn(c) ==
  /\ cl[c].pc = "frec"
  /\ frame' = [frame EXCEPT ![cl[c].f].rec = FALSE]
  /\ FlushReturn(c)
  /\ UNCHANGED <<table, bytes, disk, hand, ioFailed, fl, latest, stale, stuck, faults, ops>>

FlushSingleFrame(c) ==
  \/ FlushClaim(c) \/ FlushPinCheck(c) \/ FlushWrite(c) \/ FlushClean(c) \/ FlushRecLsn(c)

(* flush_all: the candidates are collected once, then flushed in turn.     *)
FlushAll(c) ==
  \/ /\ cl[c].pc = "idle"
     /\ "flush_all" \in ClientOps
     /\ ops < MaxOps
     /\ ops' = ops + 1
     /\ Goto(c, [cl[c] EXCEPT !.pc = "flushing", !.op = "flush_all", !.ret = "flush_all",
                 !.todo = dirty_candidates])
     /\ UNCHANGED <<table, frame, bytes, disk, hand, ioFailed, fl, latest, stale, stuck, faults>>
  \/ /\ cl[c].pc = "flushing"
     /\ IF cl[c].todo = {} THEN Done(c)
        ELSE Goto(c, [cl[c] EXCEPT !.pc = "flush", !.f = Lowest(cl[c].todo),
                      !.todo = cl[c].todo \ {Lowest(cl[c].todo)}])
     /\ UNCHANGED <<table, frame, bytes, disk, hand, ioFailed, fl, latest, stale, stuck, faults, ops>>

-----------------------------------------------------------------------------
(* fix_page, phase 1: publish the sentinel, or back out when another       *)
(* thread has the page or is loading it.                                   *)
Reserve(c) ==
  LET f == cl[c].f
      p == cl[c].page IN
  /\ cl[c].pc = "got"
  /\ cl[c].ret = "fix"
  /\ \/ /\ table[p] = Loading
        /\ frame' = [frame EXCEPT ![f] = EmptyDesc]
        /\ Moves(c, "wait")
        /\ UNCHANGED table
     \/ /\ table[p] \in Frames
        /\ frame' = LET r == [frame EXCEPT ![f] = EmptyDesc]
                    IN [r EXCEPT ![table[p]].pins = @ + 1, ![table[p]].ref = TRUE]
        /\ HoldsGuard(c, table[p])
        /\ UNCHANGED table
     \/ /\ table[p] = Unmapped
        /\ table' = [table EXCEPT ![p] = Loading]
        /\ frame' = [frame EXCEPT ![f] = ReservedDesc(p)]
        /\ Moves(c, "load")
  /\ UNCHANGED <<bytes, disk, hand, ioFailed, fl, latest, stale, stuck, faults, ops>>

(* Phase 2: the read under io_mutex (short reads and checksum mismatches   *)
(* are errors).                                                            *)
Load(c) ==
  /\ cl[c].pc = "load"
  /\ \/ /\ NoFault
        /\ bytes' = [bytes EXCEPT ![cl[c].f] = disk[cl[c].page]]
        /\ Moves(c, "publish")
     \/ /\ Fault("read")
        /\ Moves(c, "unpublish")
        /\ UNCHANGED bytes
  /\ UNCHANGED <<table, frame, disk, hand, ioFailed, fl, latest, stale, stuck, ops>>

\* track_access: nothing, or the page at which to start a prefetch.
track_access(p) == {NoPg} \cup {q \in PoolPages : q > p /\ q <= p + MaxStride}

(* Publish the frame, or remove the sentinel when the read failed.         *)
Publish(c) ==
  LET f == cl[c].f
      p == cl[c].page IN
  \/ /\ cl[c].pc = "publish"
     /\ frame' = [frame EXCEPT ![f].inflight = FALSE, ![f].state = "Clean",
                               ![f].pins = 1, ![f].ref = TRUE]
     /\ table' = [table EXCEPT ![p] = f]
     /\ \E q \in track_access(p) :
          IF q = NoPg THEN HoldsGuard(c, f)
          ELSE Goto(c, [cl[c] EXCEPT !.pc = "prefetch", !.guard = f, !.ret = "prefetch",
                                     !.next = q, !.f = -1])
     /\ UNCHANGED <<bytes, disk, hand, ioFailed, fl, latest, stale, stuck, faults, ops>>
  \/ /\ cl[c].pc = "unpublish"
     /\ frame' = [frame EXCEPT ![f] = EmptyDesc]
     /\ table' = [table EXCEPT ![p] = Unmapped]
     /\ Done(c)
     /\ UNCHANGED <<bytes, disk, hand, ioFailed, fl, latest, stale, stuck, faults, ops>>

-----------------------------------------------------------------------------
(* prefetch_range.  At most half of the pool (at least one frame) is       *)
(* reserved, pages already resident are skipped, no sentinel is published. *)
budget == IF NumFrames \div 2 > 1 THEN NumFrames \div 2 ELSE 1

PrefetchPick(c) ==
  LET q == cl[c].next IN
  /\ cl[c].pc = "prefetch"
  /\ IF Len(cl[c].batch) >= budget \/ q > LastPage THEN Moves(c, "fill")
     ELSE IF table[q] # Unmapped THEN Goto(c, [cl[c] EXCEPT !.next = q + 1])
     ELSE Moves(c, "sweep")
  /\ UNCHANGED <<table, frame, bytes, disk, hand, ioFailed, fl, latest, stale, stuck, faults, ops>>

PrefetchReserve(c) ==
  LET q == cl[c].next IN
  /\ cl[c].pc = "got"
  /\ cl[c].ret = "prefetch"
  /\ frame' = [frame EXCEPT ![cl[c].f] = ReservedDesc(q)]
  /\ Goto(c, [cl[c] EXCEPT !.pc = "prefetch", !.f = -1, !.next = q + 1,
                           !.batch = Append(cl[c].batch, <<cl[c].f, q>>)])
  /\ UNCHANGED <<table, bytes, disk, hand, ioFailed, fl, latest, stale, stuck, faults, ops>>

\* All reserved pages are read, each at its own offset.  A short read (a page
\* past the end of the file) or an I/O error returns by `?` at once: the error
\* is ignored by fix_page and the reserved frames stay as they are.
PrefetchRead(c) ==
  LET b == cl[c].batch
      readable == \A i \in DOMAIN b : b[i][2] <= FilePages IN
  /\ cl[c].pc = "fill"
  /\ \/ /\ readable
        /\ NoFault
        /\ bytes' = [f \in Frames |->
             IF \E i \in DOMAIN b : b[i][1] = f
             THEN disk[b[CHOOSE i \in DOMAIN b : b[i][1] = f][2]] ELSE bytes[f]]
        /\ Moves(c, "pub")
     \/ /\ (~readable /\ NoFault) \/ (b # <<>> /\ Fault("read"))
        /\ HoldsGuard(c, cl[c].guard)
        /\ UNCHANGED bytes
  /\ UNCHANGED <<table, frame, disk, hand, ioFailed, fl, latest, stale, stuck, ops>>

\* Publish the reserved frames one by one: only a page whose header carries
\* the id that was asked for, and only if nobody maps it.  Somebody may have
\* loaded, written, flushed and evicted it since it was read.
PrefetchPublish(c) ==
  LET b == cl[c].batch
      f == b[1][1]
      q == b[1][2]
      valid == bytes[f][1] = q IN
  /\ cl[c].pc = "pub"
  /\ IF b = <<>>
     THEN HoldsGuard(c, cl[c].guard) /\ UNCHANGED <<table, frame, stale>>
     ELSE /\ Goto(c, [cl[c] EXCEPT !.batch = Tail(b)])
          /\ IF valid /\ table[q] = Unmapped
             THEN /\ frame' = [frame EXCEPT ![f].inflight = FALSE, ![f].state = "Clean",
                                            ![f].pins = 0, ![f].ref = FALSE]
                  /\ table' = [table EXCEPT ![q] = f]
                  /\ stale' = (stale \/ bytes[f] # disk[q])
             ELSE frame' = [frame EXCEPT ![f] = EmptyDesc] /\ UNCHANGED <<table, stale>>
  /\ UNCHANGED <<bytes, disk, hand, ioFailed, fl, latest, stuck, faults, ops>>

-----------------------------------------------------------------------------
(* Use of the guard.  buf_mut spins until no I/O is in flight on the frame *)
(* (wait_io_quiescent), the bytes change, set_dirty, and the drop unpins.  *)
BufMut(c) ==
  /\ cl[c].pc = "guard"
  /\ cl[c].op = "write"
  /\ ~frame[cl[c].guard].inflight
  /\ Moves(c, "writing")
  /\ UNCHANGED <<table, frame, bytes, disk, hand, ioFailed, fl, latest, stale, stuck, faults, ops>>

WriteBytes(c) ==
  LET p == cl[c].page
      v == latest[p] + 1 IN
  /\ cl[c].pc = "writing"
  /\ bytes' = [bytes EXCEPT ![cl[c].guard] = <<p, v>>]
  /\ latest' = [latest EXCEPT ![p] = v]
  /\ Moves(c, "written")
  /\ UNCHANGED <<table, frame, disk, hand, ioFailed, fl, stale, stuck, faults, ops>>

set_dirty(c) ==
  /\ cl[c].pc = "written"
  /\ frame' = [frame EXCEPT ![cl[c].guard].state = "Dirty", ![cl[c].guard].rec = TRUE]
  /\ Moves(c, "unfix")
  /\ UNCHANGED <<table, bytes, disk, hand, ioFailed, fl, latest, stale, stuck, faults, ops>>

\* PageGuard::drop -> unfix_page: a saturating decrement.
unfix_page(c) ==
  /\ \/ cl[c].pc = "unfix"
     \/ cl[c].pc = "guard" /\ cl[c].op = "read"
  /\ frame' = [frame EXCEPT ![cl[c].guard].pins = IF @ = 0 THEN 0 ELSE @ - 1]
  /\ Done(c)
  /\ UNCHANGED <<table, bytes, disk, hand, ioFailed, fl, latest, stale, stuck, faults, ops>>

(* invalidate, called by free_page: unmap the page (a load in progress is  *)
(* left alone), spin while I/O is in flight, zero the bytes, reset.  What  *)
(* was written to a freed page need not survive.                           *)
Invalidate(c, p) ==
  /\ cl[c].pc = "idle"
  /\ "invalidate" \in ClientOps
  /\ ops < MaxOps
  /\ ops' = ops + 1
  /\ table[p] \in Frames
  /\ table' = [table EXCEPT ![p] = Unmapped]
  /\ Goto(c, [cl[c] EXCEPT !.pc = "drain", !.op = "invalidate", !.page = p, !.f = table[p]])
  /\ UNCHANGED <<frame, bytes, disk, hand, ioFailed, fl, latest, stale, stuck, faults>>

InvalidateReset(c) ==
  /\ cl[c].pc = "drain"
  /\ ~frame[cl[c].f].inflight
  /\ bytes' = [bytes EXCEPT ![cl[c].f] = Zeroed]
  /\ frame' = [frame EXCEPT ![cl[c].f] = EmptyDesc]
  /\ latest' = [latest EXCEPT ![cl[c].page] = disk[cl[c].page][2]]
  /\ Done(c)
  /\ UNCHANGED <<table, disk, hand, ioFailed, fl, stale, stuck, faults, ops>>

ClientStep(c) ==
  \/ WaitForLoading(c) \/ FirstPass(c) \/ ClockStep(c) \/ SweepFailed(c)
  \/ Evict(c) \/ EvictReset(c) \/ FlushSingleFrame(c)
  \/ Reserve(c) \/ Load(c) \/ Publish(c)
  \/ PrefetchPick(c) \/ PrefetchReserve(c) \/ PrefetchRead(c) \/ PrefetchPublish(c)
  \/ BufMut(c) \/ WriteBytes(c) \/ set_dirty(c) \/ unfix_page(c) \/ InvalidateReset(c)

-----------------------------------------------------------------------------
(* The flusher thread (Flusher::spawn, flush_batch, write_extent).         *)
\* A batch that has nothing left to do goes back to sleep.
FlStep(r) == fl' = IF r.pc = "rest" THEN IdleFlusher ELSE r

\* The dirty ratio is above the threshold: collect the candidates.
FlCollect ==
  /\ fl.pc = "rest"
  /\ dirty_candidates # {}
  /\ ~ioFailed
  /\ FlStep([fl EXCEPT !.pc = "read", !.cand = dirty_candidates])
  /\ UNCHANGED <<table, frame, bytes, disk, hand, ioFailed, cl, latest, stale, stuck, faults, ops>>

\* The next candidate: its page id and rec_lsn are read before the claim; a
\* record the log has not made durable yet defers the frame.
FlRead ==
  LET f == Lowest(fl.cand) IN
  /\ fl.pc = "read"
  /\ fl.cand # {}
  /\ \/ /\ frame[f].page # NoPg
        /\ FlStep([fl EXCEPT !.pc = "swap", !.f = f, !.page = frame[f].page, !.cand = fl.cand \ {f}])
     \/ /\ frame[f].page = NoPg \/ frame[f].rec
        /\ FlStep([fl EXCEPT !.cand = fl.cand \ {f}])
  /\ UNCHANGED <<table, frame, bytes, disk, hand, ioFailed, cl, latest, stale, stuck, faults, ops>>

FlClaim ==
  /\ fl.pc = "swap"
  /\ \/ /\ frame[fl.f].inflight
        /\ FlStep([fl EXCEPT !.pc = "read", !.f = -1, !.page = NoPg])
        /\ UNCHANGED <<frame, stale>>
     \/ /\ ~frame[fl.f].inflight
        /\ frame' = [frame EXCEPT ![fl.f].inflight = TRUE]
        /\ stale' = (stale \/ frame[fl.f].page # fl.page \/ frame[fl.f].state # "Dirty")
        /\ FlStep([fl EXCEPT !.pc = "pin"])
  /\ UNCHANGED <<table, bytes, disk, hand, ioFailed, cl, latest, stuck, faults, ops>>

\* Mutation: the pin is not checked again after the claim.
FlPinUnchecked ==
  /\ fl.pc = "pin"
  /\ FlStep([fl EXCEPT !.pc = "read", !.f = -1, !.page = NoPg, !.pend = fl.pend \cup {<<fl.f, fl.page>>}])
  /\ UNCHANGED <<table, frame, bytes, disk, hand, ioFailed, cl, latest, stale, stuck, faults, ops>>

FlPinCheck ==
  /\ fl.pc = "pin"
  /\ \/ /\ is_pinned(fl.f)
        /\ frame' = [frame EXCEPT ![fl.f].inflight = FALSE]
        /\ FlStep([fl EXCEPT !.pc = "read", !.f = -1, !.page = NoPg])
     \/ /\ ~is_pinned(fl.f)
        /\ FlStep([fl EXCEPT !.pc = "read", !.f = -1, !.page = NoPg,
                             !.pend = fl.pend \cup {<<fl.f, fl.page>>}])
        /\ UNCHANGED frame
  /\ UNCHANGED <<table, bytes, disk, hand, ioFailed, cl, latest, stale, stuck, faults, ops>>

Release(S) == frame' = [f \in Frames |-> IF f \in S THEN [frame[f] EXCEPT !.inflight = FALSE]
                                         ELSE frame[f]]

\* All claimed pages are staged in one double-write batch.
FlStage ==
  /\ fl.pc = "read"
  /\ fl.cand = {}
  /\ \/ /\ NoFault
        /\ FlStep([fl EXCEPT !.pc = IF fl.pend = {} THEN "rest" ELSE "write"])
        /\ UNCHANGED frame
     \/ /\ fl.pend # {}
        /\ Fault("stage")
        /\ Release({x[1] : x \in fl.pend})
        /\ fl' = IdleFlusher
  /\ UNCHANGED <<table, bytes, disk, hand, ioFailed, cl, latest, stale, stuck, ops>>

\* The extent: the longest run of adjacent pages from the lowest one pending.
Extent ==
  LET pages == {x[2] : x \in fl.pend}
      lo == Lowest(pages)
  IN {x \in fl.pend : lo .. x[2] \subseteq pages}

Written(S) ==
  [p \in DOMAIN disk |-> IF \E x \in S : x[2] = p
                         THEN bytes[(CHOOSE x \in S : x[2] = p)[1]] ELSE disk[p]]

\* Mutation: a failed extent keeps its claims.
FlWriteKeepsClaims ==
  LET rest == fl.pend \ Extent IN
  /\ fl.pc = "write"
  /\ \/ /\ NoFault
        /\ disk' = Written(Extent)
        /\ FlStep([fl EXCEPT !.pc = "mark", !.ext = Extent, !.pend = rest])
     \/ /\ Fault("write")
        /\ FlStep([fl EXCEPT !.pend = rest, !.pc = IF rest = {} THEN "rest" ELSE "write"])
        /\ UNCHANGED disk
  /\ UNCHANGED <<table, frame, bytes, hand, ioFailed, cl, latest, stale, stuck, ops>>

\* write_extent: a vectored write and an fsync.  A failure releases the
\* claims and leaves the frames dirty; an fsync error poisons the pool.
FlWrite ==
  LET ext == Extent
      rest == fl.pend \ ext
      failed == /\ Release({x[1] : x \in ext})
                /\ FlStep([fl EXCEPT !.pend = rest, !.pc = IF rest = {} THEN "rest" ELSE "write"]) IN
  /\ fl.pc = "write"
  /\ \/ /\ ~ioFailed
        /\ NoFault
        /\ disk' = Written(ext)
        /\ FlStep([fl EXCEPT !.pc = "mark", !.ext = ext, !.pend = rest])
        /\ UNCHANGED <<frame, ioFailed>>
     \/ /\ (ioFailed /\ NoFault) \/ (~ioFailed /\ Fault("write"))
        /\ failed
        /\ UNCHANGED <<disk, ioFailed>>
     \/ /\ ~ioFailed
        /\ Fault("fsync")
        /\ ioFailed' = TRUE
        /\ failed
        /\ \E S \in SUBSET ext : disk' = Written(S)
  /\ UNCHANGED <<table, bytes, hand, cl, latest, stale, stuck, ops>>

\* The descriptors of a written extent: Clean and no longer in flight ...
FlMarkClean ==
  LET f == Lowest({x[1] : x \in fl.ext}) IN
  /\ fl.pc = "mark"
  /\ frame' = [frame EXCEPT ![f].state = "Clean", ![f].inflight = FALSE]
  /\ FlStep([fl EXCEPT !.pc = "rec", !.f = f])
  /\ UNCHANGED <<table, bytes, disk, hand, ioFailed, cl, latest, stale, stuck, faults, ops>>

\* ... and only then rec_lsn = u64::MAX.
FlClearRecLsn ==
  LET rest == {x \in fl.ext : x[1] # fl.f} IN
  /\ fl.pc = "rec"
  /\ frame' = [frame EXCEPT ![fl.f].rec = FALSE]
  /\ FlStep([fl EXCEPT !.ext = rest,
             !.pc = CASE rest # {} -> "mark"
                      [] rest = {} /\ fl.pend # {} -> "write"
                      [] OTHER -> "rest"])
  /\ UNCHANGED <<table, bytes, disk, hand, ioFailed, cl, latest, stale, stuck, faults, ops>>

FlusherStep ==
  \/ FlRead \/ FlClaim \/ FlPinCheck \/ FlStage \/ FlWrite \/ FlMarkClean \/ FlClearRecLsn

-----------------------------------------------------------------------------
\* The frames that the sweep of client c has chosen and that nothing reserves yet: it looks for an
\* Empty or an unpinned Clean frame and takes it in a later step.
Chosen(c) == IF cl[c].pc \in {"evict", "reset", "got"} THEN {cl[c].f} ELSE {}

\* The frame that an invalidate of client c has unmapped and will reset.
Drained(c) == IF cl[c].pc = "drain" THEN {cl[c].f} ELSE {}

Uses(c, p) == cl[c].page = p \/ \E i \in DOMAIN cl[c].batch : cl[c].batch[i][2] = p

Clashing ==
  \E c \in Clients :
    \/ \E f \in Chosen(c) :
         is_pinned(f) \/ frame[f].inflight \/ \E d \in Clients \ {c} : f \in Chosen(d)
    \/ \E f \in Drained(c) :
         is_pinned(f) \/ \E d \in Clients \ {c} : f \in Chosen(d) \/ Uses(d, cl[c].page)

PoolStep(active) ==
  \/ \E c \in active :
       \/ \E p \in 1 .. FilePages :
            \/ \E op \in {"read", "write"} : FixPage(c, p, op)
            \/ Invalidate(c, p)
       \/ FlushAll(c)
       \/ ClientStep(c)
  \/ FlCollect
  \/ FlusherStep

Noted == clash' = (clash \/ Clashing')

BPNext == PoolStep(Clients) /\ Noted

\* A thread inside the pool keeps running; the flusher finishes a batch it
\* started.  Nothing obliges a client to start an operation.
BPFairness ==
  /\ \A c \in Clients : WF_bpvars(ClientStep(c) \/ (cl[c].pc # "idle" /\ FlushAll(c)))
  /\ WF_bpvars(FlusherStep)

BPSpec == BPInit /\ [][BPNext]_<<bpvars, clash>> /\ BPFairness

-----------------------------------------------------------------------------
(* Every variable keeps its shape: descriptors, locals and page versions   *)
(* of buffer/pool.rs, buffer/frame.rs and buffer/flusher.rs.               *)
BPTypeOK ==
  /\ table \in [PoolPages -> Frames \cup {Loading, Unmapped}]
  /\ \A f \in Frames :
       /\ frame[f].page \in PoolPages \cup {NoPg}
       /\ frame[f].pins \in 0 .. Cardinality(Clients)
       /\ frame[f].state \in {"Empty", "Loading", "Clean", "Dirty"}
       /\ {frame[f].inflight, frame[f].ref, frame[f].rec} \subseteq BOOLEAN
  /\ hand \in Frames
  /\ {ioFailed, stale, stuck} \subseteq BOOLEAN
  /\ faults \in 0 .. MaxFaults
  /\ ops \in 0 .. MaxOps

(* A page that is mapped is mapped to a frame that carries its id and its  *)
(* bytes, and no frame serves two pages: what fix_page returns is the page *)
(* that was asked for.  The premise leaves out what the code does not      *)
(* exclude: the flusher reads a page id before it claims the frame, a      *)
(* prefetch publishes bytes it read without a sentinel (stale), and a      *)
(* frame that a sweep chose or a page that is being freed may be taken by  *)
(* another thread (clash).                                                 *)
MappedFrameOwnsPage ==
  ~stale /\ ~clash => \A p \in PoolPages : table[p] \in Frames =>
    /\ frame[table[p]].page = p
    /\ bytes[table[p]][1] = p
    /\ \A q \in PoolPages \ {p} : table[q] # table[p]

\* Frames whose bytes a flush may be reading right now.
BeingWrittenBack ==
  {cl[c].f : c \in {d \in Clients : cl[d].pc = "fwrite"}}
    \cup {x[1] : x \in fl.pend}

(* The pin / io_inflight handshake of buf_mut and the flush paths: while a *)
(* guard holder mutates a frame, neither flush path is past its pin check  *)
(* on that frame (with the same premise).                                  *)
WriterExcludesFlush ==
  ~stale /\ ~clash => \A c \in Clients :
    cl[c].pc \in {"writing", "written"} => cl[c].guard \notin BeingWrittenBack

(* A frame serves one page and one party at a time: what is mapped is the  *)
(* page asked for, and nobody writes it back while a guard changes it.     *)
FramesExclusive == MappedFrameOwnsPage /\ WriterExcludesFlush

(* No write through a guard is lost while the process runs: the last       *)
(* version of a page is in the frame it is mapped to or, when it is not    *)
(* resident, on disk, so that no eviction loses it, I/O errors and a       *)
(* failed fsync included; with the premise of MappedFrameOwnsPage.         *)
NoLostWrite ==
  ~stale /\ ~clash => \A p \in 1 .. FilePages :
    /\ table[p] \in Frames => bytes[table[p]] = <<p, latest[p]>>
    /\ (table[p] = Unmapped /\ \A c \in Clients : cl[c].pc # "drain")
         => disk[p] = <<p, latest[p]>>

(* Every operation on the pool ends (with a result or an error): no spin   *)
(* in wait_for_loading, find_free_frame, buf_mut or invalidate goes on for *)
(* ever, unless flush_single_frame has left a frame claimed.  The clients  *)
(* make at most MaxOps calls, so the pool comes to rest.                   *)
OperationEnds == []<>(stuck \/ \A c \in Clients : cl[c].pc = "idle")

(* A prefetch leaves no frame reserved: when no thread is inside the pool, *)
(* no frame is Loading.  ("if free frames run out, a page is already       *)
(* resident, or a page fails its checksum, the method simply skips it".)   *)
(* Refuted: README, section 5.                                             *)
NoFrameLeak ==
  (\A c \in Clients : cl[c].pc = "idle") => \A f \in Frames : frame[f].state # "Loading"

====
