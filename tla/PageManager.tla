---------------------------- MODULE PageManager ----------------------------
(***************************************************************************)
(* The page allocator (storage/manager.rs, storage/bitmap.rs) with the     *)
(* steps of the engine that drive it: a mutation allocates the pages it    *)
(* needs, commits, then writes them in page-id order; sync() persists the  *)
(* superblock and the first bitmap; a crash loses what was not persisted;  *)
(* open() rebuilds the free-list cache from the persisted bitmaps, replays *)
(* the WAL and reconciles the allocator with the file.  A superblock write *)
(* is atomic here (module Superblock).  free_page_count and                *)
(* total_page_count are statistics and left out.                           *)
(***************************************************************************)
EXTENDS Integers, Sequences, SequencesExt, FiniteSets

CONSTANTS
  PagesPerBitmap,  \* PAGES_PER_BITMAP: pages tracked by one bitmap page
  CacheBatch,      \* CACHE_BATCH: most pages rebuild_cache prefetches
  MaxPage,         \* MAX_ADDRESSABLE_PAGE_ID
  MaxOpens,        \* bound on the number of reopens
  Crashes          \* may the process die before its state is persisted?

ASSUME PageAssumption ==
  /\ PagesPerBitmap \in Nat /\ PagesPerBitmap > 3
  /\ CacheBatch \in Nat
  /\ MaxPage \in Nat
  /\ MaxOpens \in Nat
  /\ Crashes \in BOOLEAN

VARIABLES
  bits,        \* the set bits of the in-memory bitmaps
  slots,       \* bitmaps.len()
  next_free,   \* superblock.next_free_page_id
  free_cache,  \* FreeListCache.pages, popped from the end
  disk_bits,   \* the set bits of bitmap slot 0 as last persisted
  disk_next,   \* next_free_page_id of the persisted superblock
  file,        \* per page: absent (past the end), zero (a hole), blank, record
  dirty,       \* pages whose record is in the buffer pool but not in the file
  pending,     \* pages the running mutation allocated and has not written
  phase,       \* prepare, write (the commit is durable), sync, down
  handed,      \* history: owners of each page
  refused,     \* history: a write of a committed page found a bad checksum
  opens        \* reopens so far

pmvars == <<bits, slots, next_free, free_cache, disk_bits, disk_next, file,
            dirty, pending, phase, handed, refused, opens>>

Page == 0 .. MaxPage
FirstData == 3

is_bitmap_page(p) == p = 2 \/ (p # 0 /\ p % PagesPerBitmap = 0)

\* A page an allocation may return: no superblock copy, no region bitmap.
IsData(p) == p >= FirstData /\ ~is_bitmap_page(p)

SlotOf(p) == p \div PagesPerBitmap

bitmap_physical_page_id(s) == IF s = 0 THEN 2 ELSE s * PagesPerBitmap

\* The pages ensure_bitmap reserves when it extends the chain to n slots.
Reserved(n) ==
  {p \in Page : (p < FirstData /\ slots = 0) \/
                \E s \in slots .. n - 1 : p = bitmap_physical_page_id(s)}

PMInit ==
  /\ bits = {0, 1, 2}
  /\ slots = 1
  /\ next_free = FirstData
  /\ free_cache = <<>>
  /\ disk_bits = {0, 1, 2}
  /\ disk_next = FirstData
  /\ file = [p \in Page |-> IF p < FirstData THEN "blank" ELSE "absent"]
  /\ dirty = {}
  /\ pending = {}
  /\ phase = "prepare"
  /\ handed = [p \in Page |-> 0]
  /\ refused = FALSE
  /\ opens = 0

HandOut(p) ==
  /\ handed' = [handed EXCEPT ![p] = @ + 1]
  /\ pending' = pending \cup {p}

\* try_allocate_page with a page in the cache.
allocate_cached ==
  /\ phase = "prepare"
  /\ free_cache # <<>>
  /\ LET p == Last(free_cache) IN
     /\ bits' = IF SlotOf(p) < slots THEN bits \cup {p} ELSE bits
     /\ HandOut(p)
  /\ free_cache' = Front(free_cache)
  /\ UNCHANGED <<slots, next_free, disk_bits, disk_next, file, dirty, phase,
                 refused, opens>>

\* try_allocate_page with an empty cache: take next_free_page_id, skipping
\* and reserving the bitmap pages on the way.
extend ==
  /\ phase = "prepare"
  /\ free_cache = <<>>
  /\ \E p \in Page :
       /\ p >= next_free
       /\ IsData(p)
       /\ \A q \in next_free .. p - 1 : ~IsData(q)
       /\ next_free' = p + 1
       /\ slots' = IF SlotOf(p) < slots THEN slots ELSE SlotOf(p) + 1
       /\ bits' = bits \cup (next_free .. p) \cup Reserved(SlotOf(p) + 1)
       /\ HandOut(p)
  /\ UNCHANGED <<free_cache, disk_bits, disk_next, file, dirty, phase, refused, opens>>

\* Mutant: free_page trusts its caller.
free_page_Unchecked(p) ==
  /\ phase = "prepare"
  /\ p \notin pending
  /\ file[p] \in {"blank", "record"}
  /\ IsData(p)
  /\ bits' = bits \ {p}
  /\ free_cache' = Append(free_cache, p)
  /\ dirty' = dirty \ {p}
  /\ handed' = [handed EXCEPT ![p] = IF @ > 0 THEN @ - 1 ELSE 0]
  /\ UNCHANGED <<slots, next_free, disk_bits, disk_next, file, pending, phase,
                 refused, opens>>

\* free_page of a page that was written, owned or freed before: the bitmap is
\* authoritative, a page whose bit is clear is left alone.  (The engine frees no
\* page; one that a failed mutation never wrote is dropped by rollback.)
free_page(p) ==
  /\ phase = "prepare"
  /\ p \notin pending
  /\ file[p] \in {"blank", "record"}
  /\ IF IsData(p) /\ SlotOf(p) < slots /\ p \in bits
     THEN /\ bits' = bits \ {p}
          /\ free_cache' = Append(free_cache, p)
          /\ dirty' = dirty \ {p}
     ELSE UNCHANGED <<bits, free_cache, dirty>>
  /\ handed' = [handed EXCEPT ![p] = IF @ > 0 THEN @ - 1 ELSE 0]
  /\ UNCHANGED <<slots, next_free, disk_bits, disk_next, file, pending, phase,
                 refused, opens>>

\* The mutation's commit record is durable: its pages are to be written.
commit ==
  /\ phase = "prepare"
  /\ pending # {}
  /\ phase' = "write"
  /\ UNCHANGED <<bits, slots, next_free, free_cache, disk_bits, disk_next, file,
                 dirty, pending, handed, refused, opens>>

\* The mutation fails before its commit: its pages stay allocated, unwritten.
rollback ==
  /\ phase = "prepare"
  /\ pending # {}
  /\ pending' = {}
  /\ UNCHANGED <<bits, slots, next_free, free_cache, disk_bits, disk_next, file,
                 dirty, phase, handed, refused, opens>>

\* The file after set_len has made room for page p: what lay past the end and
\* before p reads as zeros, p itself gets write_page's placeholder.
Extended(p) ==
  IF file[p] = "absent"
  THEN [q \in Page |-> IF q = p THEN "blank"
                       ELSE IF q < p /\ file[q] = "absent" THEN "zero"
                       ELSE file[q]]
  ELSE file

\* write_page of the next pending page, lowest id first.  fix_page loads the
\* page unless it is resident, and rejects a hole: its checksum is wrong.
write_page ==
  /\ phase = "write"
  /\ \E p \in pending :
       /\ \A q \in pending : p <= q
       /\ file' = Extended(p)
       /\ IF p \notin dirty /\ file'[p] = "zero"
          THEN /\ refused' = TRUE
               /\ pending' = {}
               /\ phase' = "prepare"
               /\ UNCHANGED dirty
          ELSE /\ dirty' = dirty \cup {p}
               /\ pending' = pending \ {p}
               /\ phase' = IF pending = {p} THEN "prepare" ELSE "write"
               /\ UNCHANGED refused
  /\ UNCHANGED <<bits, slots, next_free, free_cache, disk_bits, disk_next,
                 handed, opens>>

\* The flusher writes a dirty frame back.
flush(p) ==
  /\ phase \in {"prepare", "write"}
  /\ p \in dirty
  /\ dirty' = dirty \ {p}
  /\ file' = [file EXCEPT ![p] = "record"]
  /\ UNCHANGED <<bits, slots, next_free, free_cache, disk_bits, disk_next,
                 pending, phase, handed, refused, opens>>

\* GraphStorageEngine::sync: flush_all, then the superblock.
sync_superblock ==
  /\ phase = "prepare"
  /\ pending = {}
  /\ file' = [p \in Page |-> IF p \in dirty THEN "record" ELSE file[p]]
  /\ dirty' = {}
  /\ disk_next' = next_free
  /\ phase' = "sync"
  /\ UNCHANGED <<bits, slots, next_free, free_cache, disk_bits, pending, handed,
                 refused, opens>>

\* ... then the bitmap of slot 0, and no other.
sync_bitmap ==
  /\ phase = "sync"
  /\ disk_bits' = {p \in bits : SlotOf(p) = 0}
  /\ phase' = "prepare"
  /\ UNCHANGED <<bits, slots, next_free, free_cache, disk_next, file, dirty,
                 pending, handed, refused, opens>>

Synced ==
  /\ pending = {} /\ dirty = {}
  /\ disk_next = next_free
  /\ disk_bits = {p \in bits : SlotOf(p) = 0}

\* What REDO puts back: the pages of durable commits that were not flushed.
Redone == dirty \cup (IF phase = "write" THEN pending ELSE {})

\* The process ends: after a sync (Drop), or anywhere when it may crash.  The
\* WAL holds an image of each page in Redone; REDO writes them into the file.
stop ==
  /\ phase # "down"
  /\ (phase = "prepare" /\ Synced) \/ Crashes
  /\ opens < MaxOpens
  /\ phase' = "down"
  /\ file' = [p \in Page |->
                IF p \in Redone THEN "record"
                ELSE IF file[p] = "absent" /\ \E q \in Redone : q > p THEN "zero"
                ELSE file[p]]
  /\ handed' = [p \in Page |-> IF file'[p] = "record" THEN handed[p] ELSE 0]
  /\ dirty' = {}
  /\ pending' = {}
  /\ UNCHANGED <<bits, slots, next_free, free_cache, disk_bits, disk_next,
                 refused, opens>>

\* rebuild_cache: the first CacheBatch data pages, in ascending order, whose
\* bit is clear in one of the n bitmaps that were read.
rebuild_cache(n) ==
  LET free == SetToSortSeq({p \in Page : IsData(p) /\ SlotOf(p) < n /\ p \notin disk_bits},
                           LAMBDA a, b : a < b)
  IN SubSeq(free, 1, IF Len(free) < CacheBatch THEN Len(free) ELSE CacheBatch)

num_bitmap_pages(next) == (next + PagesPerBitmap - 1) \div PagesPerBitmap

\* The pages reconcile_from_disk finds in use.
InUse == {p \in Page : IsData(p) /\ file[p] = "record"}

\* Mutant: the bitmaps are not reconciled, only next_free_page_id is.
open_OnlyHighWater ==
  /\ phase = "down"
  /\ LET n == num_bitmap_pages(disk_next) IN
     /\ free_cache' = rebuild_cache(n)
     /\ slots' = n
     /\ bits' = disk_bits
  /\ next_free' = IF \E p \in InUse : p >= disk_next
                  THEN 1 + CHOOSE p \in InUse : \A q \in InUse : q <= p
                  ELSE disk_next
  /\ phase' = "prepare"
  /\ opens' = opens + 1
  /\ UNCHANGED <<disk_bits, disk_next, file, dirty, pending, handed, refused>>

\* GraphStorageEngine::open: load the superblock and the bitmaps, rebuild the
\* cache, recover, then reconcile_from_disk.
open ==
  /\ phase = "down"
  /\ LET n == num_bitmap_pages(disk_next)
         covered == {n} \cup {SlotOf(p) + 1 : p \in InUse}
     IN
     /\ free_cache' = rebuild_cache(n)
     /\ slots' = CHOOSE m \in covered : \A k \in covered : k <= m
     /\ bits' = disk_bits \cup InUse
                \cup {p \in Page : \E s \in n .. slots' - 1 : p = bitmap_physical_page_id(s)}
  /\ next_free' = IF \E p \in InUse : p >= disk_next
                  THEN 1 + CHOOSE p \in InUse : \A q \in InUse : q <= p
                  ELSE disk_next
  /\ phase' = "prepare"
  /\ opens' = opens + 1
  /\ UNCHANGED <<disk_bits, disk_next, file, dirty, pending, handed, refused>>

PMNext ==
  \/ allocate_cached
  \/ extend
  \/ \E p \in Page : free_page(p)
  \/ commit
  \/ rollback
  \/ write_page
  \/ \E p \in Page : flush(p)
  \/ sync_superblock
  \/ sync_bitmap
  \/ stop
  \/ open

PMSpec == PMInit /\ [][PMNext]_pmvars

-----------------------------------------------------------------------------

\* The variables hold values of their types.
PMTypeOK ==
  /\ bits \subseteq Nat
  /\ slots \in Nat
  /\ next_free \in Nat
  /\ free_cache \in Seq(Page)
  /\ disk_bits \subseteq Nat
  /\ disk_next \in Nat
  /\ file \in [Page -> {"absent", "zero", "blank", "record"}]
  /\ dirty \subseteq Page
  /\ pending \subseteq Page
  /\ phase \in {"prepare", "write", "sync", "down"}
  /\ handed \in [Page -> Nat]
  /\ refused \in BOOLEAN
  /\ opens \in Nat

\* No page is handed to two callers (the concern of free_page's double-free
\* check and of reconcile_from_disk).
NoDoubleHandOut == \A p \in Page : handed[p] <= 1

\* In the session that creates the database the allocator is exclusive,
\* whatever is freed, freed twice, written or abandoned in between.
FirstSessionExclusive == opens = 0 => NoDoubleHandOut

\* When the database has been opened, every page that holds a committed record
\* is marked in the bitmaps and below next_free_page_id, so that the index
\* rebuild, which scans bitmap-allocated pages, finds it: also after a crash
\* that lost the bitmaps and with records in regions whose bitmap was never
\* written.
RecordsDiscoverable ==
  [][phase = "down" /\ phase' = "prepare" =>
       \A p \in Page : handed[p] > 0 => p \in bits' /\ p < next_free']_pmvars

\* "stops the next allocation from re-handing-out an in-use page": the cache
\* from which the next allocation is served holds no page that is in use.
\* Refuted: README, section 5.
CacheHoldsNoInUse ==
  phase # "down" => \A i \in 1 .. Len(free_cache) : handed[free_cache[i]] = 0

\* The page that write_page must fill passes the checksum test of fix_page
\* ("Write a zeroed placeholder so fix_page can verify its checksum").
\* Refuted: README, section 5.
WritesFindPage == ~refused

=============================================================================
