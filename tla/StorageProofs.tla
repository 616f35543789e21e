--------------------------- MODULE StorageProofs ----------------------------
(***************************************************************************)
(* Proofs about the pages of a database file: the superblock and its       *)
(* mirror, and the page allocator.                                         *)
(***************************************************************************)
EXTENDS Superblock, PageManager, TLAPS

-----------------------------------------------------------------------------
(***************************************************************************)
(* Proofs about Superblock, for every bound on versions and generations.   *)
(* The inductive invariant relates both copies to the in-memory generation *)
(* and to what the history variables promise.                              *)
(***************************************************************************)
Running == pc \in {"idle", "mirror", "primary"}

\* Every valid copy holds at least the acknowledged version.
CopiesAcked ==
  /\ primary.valid => primary.version >= acked
  /\ mirror.valid => mirror.version >= acked
  /\ Running => version >= acked /\ version >= reached

\* gen+1 is free for the mirror, and no two valid copies tie.
GenerationFree ==
  /\ GenerationsDiffer
  /\ Running /\ primary.valid => primary.generation # generation + 1

\* Between the two writes the mirror is complete.
MirrorDone ==
  pc = "primary" => /\ mirror = encode(generation + 1)
                    /\ reached = version

\* The sound primary of a sync stays in place until the mirror is durable.
PrimaryKept ==
  primaryOk /\ pc \in {"mirror", "primary"} =>
    primary.valid /\ primary.generation = generation

\* A copy that a running process would prefer or fall back to is not older
\* than what has been reached.
NewerCopies ==
  pc \in {"idle", "mirror"} =>
    /\ primary.valid /\ primary.generation = generation => primary.version >= reached
    /\ mirror.valid /\ mirror.generation > generation => mirror.version >= reached

\* After a sync that began soundly, load_superblock finds the newest version.
Loadable ==
  pc \in {"idle", "down"} /\ primaryOk =>
    /\ primary.valid \/ mirror.valid
    /\ Chosen.version >= reached

SBIInv ==
  /\ SBTypeOK
  /\ CopiesAcked
  /\ GenerationFree
  /\ MirrorDone
  /\ PrimaryKept
  /\ NewerCopies
  /\ Loadable
  /\ OpensAfterSoundSync

\* The initial state, after init's first sync, satisfies the invariant.
LEMMA InitSBIInv == SBInit => SBIInv
  BY SMTT(30) DEF SBInit, SBIInv, SBTypeOK, Copies, CopiesAcked, GenerationFree,
     GenerationsDiffer, MirrorDone, PrimaryKept, NewerCopies, Loadable, Chosen,
     Running, OpensAfterSoundSync

\* Every step of sync_superblock, load_superblock, a crash or an I/O error
\* preserves the invariant.
LEMMA StepSBIInv == SBIInv /\ [SBNext]_sbvars => SBIInv'
<1> SUFFICES ASSUME SBIInv, [SBNext]_sbvars
             PROVE  SBIInv'
  BY Zenon
<1> USE DEF SBIInv, SBTypeOK, Copies, CopiesAcked, GenerationFree,
        GenerationsDiffer, MirrorDone, PrimaryKept, NewerCopies, Loadable, Chosen,
        Running, OpensAfterSoundSync
<1>1. CASE update
  BY <1>1, SMTT(30) DEF update
<1>2. CASE sync_begin
  BY <1>2, ZenonT(30) DEF sync_begin
<1>3. CASE sync_mirror
  BY <1>3, SMTT(30) DEF sync_mirror, encode
<1>4. CASE sync_primary
  BY <1>4, SMTT(30) DEF sync_primary, encode
<1>5. CASE sync_fails
  <2>1. UNCHANGED <<generation, version, acked, primaryOk>>
    BY <1>5, Zenon DEF sync_fails, Interrupt
  <2>2. pc' = "idle" /\ reached' = acked
    BY <1>5, Zenon DEF sync_fails, Interrupt
  <2>3. CASE pc = "mirror" /\ UNCHANGED primary /\ mirror' = mirror
    BY <2>1, <2>2, <2>3, ZenonT(30) DEF encode, Torn
  <2>4. CASE pc = "mirror" /\ UNCHANGED primary /\ mirror' = encode(generation + 1)
    BY <2>1, <2>2, <2>4, SMTT(30) DEF encode, Torn
  <2>5. CASE pc = "mirror" /\ UNCHANGED primary /\ mirror' = Torn
    BY <2>1, <2>2, <2>5, Zenon DEF encode, Torn
  <2>6. CASE pc = "primary" /\ UNCHANGED mirror /\ primary' = primary
    BY <2>1, <2>2, <2>6, ZenonT(30) DEF encode, Torn
  <2>7. CASE pc = "primary" /\ UNCHANGED mirror /\ primary' = encode(generation + 2)
    BY <2>1, <2>2, <2>7, SMTT(30) DEF encode, Torn
  <2>8. CASE pc = "primary" /\ UNCHANGED mirror /\ primary' = Torn
    BY <2>1, <2>2, <2>8, SMTT(30) DEF encode, Torn
  <2> QED
    BY <1>5, <2>3, <2>4, <2>5, <2>6, <2>7, <2>8, Zenon DEF sync_fails, Interrupt, Interrupted
<1>6. CASE crash_in_sync
  <2>1. UNCHANGED <<generation, version, acked, primaryOk>>
    BY <1>6, Zenon DEF crash_in_sync, Interrupt
  <2>2. pc' = "down" /\ reached' = reached
    BY <1>6, Zenon DEF crash_in_sync, Interrupt
  <2>3. CASE pc = "mirror" /\ UNCHANGED primary /\ mirror' = mirror
    BY <2>1, <2>2, <2>3, Zenon DEF encode, Torn
  <2>4. CASE pc = "mirror" /\ UNCHANGED primary /\ mirror' = encode(generation + 1)
    BY <2>1, <2>2, <2>4, SMTT(30) DEF encode, Torn
  <2>5. CASE pc = "mirror" /\ UNCHANGED primary /\ mirror' = Torn
    BY <2>1, <2>2, <2>5, ZenonT(30) DEF encode, Torn
  <2>6. CASE pc = "primary" /\ UNCHANGED mirror /\ primary' = primary
    BY <2>1, <2>2, <2>6, SMTT(30) DEF encode, Torn
  <2>7. CASE pc = "primary" /\ UNCHANGED mirror /\ primary' = encode(generation + 2)
    BY <2>1, <2>2, <2>7, SMTT(30) DEF encode, Torn
  <2>8. CASE pc = "primary" /\ UNCHANGED mirror /\ primary' = Torn
    BY <2>1, <2>2, <2>8, SMTT(30) DEF encode, Torn
  <2> QED
    BY <1>6, <2>3, <2>4, <2>5, <2>6, <2>7, <2>8, ZenonT(30) DEF crash_in_sync, Interrupt, Interrupted
<1>7. CASE crash_idle
  BY <1>7, Zenon DEF crash_idle
<1>8. CASE load_superblock
  BY <1>8, SMTT(30) DEF load_superblock
<1>9. CASE load_fails
  BY <1>9, Zenon DEF load_fails
<1>10. CASE UNCHANGED sbvars
  BY <1>10, SMTT(30) DEF sbvars, encode
<1> QED
  BY <1>1, <1>2, <1>3, <1>4, <1>5, <1>6, <1>7, <1>8, <1>9, <1>10, ZenonT(30) DEF SBNext

\* The inductive invariant holds in every reachable state.
THEOREM SBIInvInvariant == SBSpec => []SBIInv
  BY InitSBIInv, StepSBIInv, PTL DEF SBSpec

\* A sync that starts from a sound primary never costs the database its last
\* valid superblock.
THEOREM SoundSyncOpens == SBSpec => []OpensAfterSoundSync
<1>1. SBIInv => OpensAfterSoundSync
  BY Zenon DEF SBIInv
<1> QED
  BY <1>1, SBIInvInvariant, PTL

\* No crash, failed sync or retry rolls an acknowledged superblock back.
THEOREM AckedNeverLost == SBSpec => []AckedSurvives
<1>1. SBIInv => AckedSurvives
  BY Zenon DEF SBIInv, SBTypeOK, CopiesAcked, Running, AckedSurvives
<1> QED
  BY <1>1, SBIInvInvariant, PTL

\* load_superblock never meets two valid copies of one generation.
THEOREM NoTie == SBSpec => []GenerationsDiffer
<1>1. SBIInv => GenerationsDiffer
  BY DEF SBIInv, GenerationFree
<1> QED
  BY <1>1, SBIInvInvariant, PTL

\* After a sync that began soundly, the next process loads the newest
\* superblock that was durable.
THEOREM NewestIsLoaded == SBSpec => MirrorFallback
<1>1. SBIInv /\ [SBNext]_sbvars =>
        [pc = "down" /\ pc' = "idle" /\ primaryOk => version' >= reached]_sbvars
  BY DEF SBIInv, Loadable, SBNext, update, sync_begin, sync_mirror, sync_primary,
     sync_fails, crash_in_sync, Interrupt, crash_idle, load_superblock, load_fails,
     sbvars
<1> QED
  BY <1>1, SBIInvInvariant, PTL DEF SBSpec, MirrorFallback

-----------------------------------------------------------------------------
(***************************************************************************)
(* Proof that the allocator hands no page to two callers in the session    *)
(* that creates a database, for every region size, cache size and number   *)
(* of pages.  The bitmap is the witness: an owned page has its bit set, a  *)
(* cached page has it clear, and next_free_page_id is above both.          *)
(***************************************************************************)
TypeInv ==
  /\ slots \in Nat \ {0}
  /\ next_free \in Nat
  /\ free_cache \in Seq(Page)
  /\ handed \in [Page -> Nat]

\* An owned page has one owner, its bit set, and an id below next_free.
OwnedMarked ==
  \A p \in Page : handed[p] > 0 => handed[p] = 1 /\ p \in bits /\ p < next_free

\* A data page whose bit is set is below next_free.
MarkedBelow == \A p \in Page : p \in bits /\ IsData(p) => p < next_free

\* A cached page is free, its region is tracked, and it is cached once.
CachedFree ==
  /\ \A i \in 1 .. Len(free_cache) :
       /\ free_cache[i] \notin bits
       /\ SlotOf(free_cache[i]) < slots
       /\ free_cache[i] < next_free
  /\ \A i, j \in 1 .. Len(free_cache) : free_cache[i] = free_cache[j] => i = j

PMIInv ==
  /\ opens \in Nat
  /\ opens = 0 => TypeInv /\ OwnedMarked /\ MarkedBelow /\ CachedFree

\* The page of a later region's bitmap is recognised as a bitmap page.
LEMMA BitmapPageRecognised ==
  ASSUME NEW s \in Nat \ {0}
  PROVE  /\ bitmap_physical_page_id(s) \in Nat
         /\ is_bitmap_page(bitmap_physical_page_id(s))
<1> DEFINE B == PagesPerBitmap
<1>1. B \in Nat /\ B > 3
  BY PageAssumption, SMTT(30)
<1>2. s * B \in Nat /\ s * B # 0
  BY <1>1, SMTT(30)
<1>3. (s * B) % B = 0
  BY <1>1, SMTT(30)
<1> QED
  BY <1>1, <1>2, <1>3, SMTT(30) DEF bitmap_physical_page_id, is_bitmap_page

\* A slot number is a natural number.
LEMMA SlotIsNat == \A p \in Page : SlotOf(p) \in Nat
  BY PageAssumption, SMTT(30) DEF Page, SlotOf

\* A freshly initialised allocator satisfies the invariant.
LEMMA InitPMIInv == PMInit => PMIInv
<1> SUFFICES ASSUME PMInit PROVE PMIInv
  OBVIOUS
<1>1. TypeInv
  BY PageAssumption, SMTT(30) DEF PMInit, TypeInv, FirstData, Page
<1>2. OwnedMarked
  BY DEF PMInit, OwnedMarked
<1>3. MarkedBelow
  BY DEF PMInit, MarkedBelow, IsData, FirstData
<1>4. CachedFree
  <2>1. free_cache = <<>> /\ Len(free_cache) = 0
    BY DEF PMInit
  <2> QED
    BY <2>1, SMTT(30) DEF CachedFree
<1> QED
  BY <1>1, <1>2, <1>3, <1>4, Zenon DEF PMIInv, PMInit

\* try_allocate_page from the cache keeps the invariant.
LEMMA CachedPreserves ==
  ASSUME TypeInv, OwnedMarked, MarkedBelow, CachedFree, allocate_cached
  PROVE  TypeInv' /\ OwnedMarked' /\ MarkedBelow' /\ CachedFree'
<1> PICK n \in Nat : n = Len(free_cache)
  BY SMTT(30) DEF TypeInv
<1> PICK p : p = Last(free_cache)
  BY Zenon
<1>1. n > 0 /\ p = free_cache[n] /\ p \in Page
  BY SMTT(30) DEF allocate_cached, TypeInv, Last
<1>2. p \notin bits /\ SlotOf(p) < slots /\ p < next_free
  BY <1>1, SMTT(30) DEF CachedFree
<1>3. bits' = bits \cup {p} /\ handed' = [handed EXCEPT ![p] = @ + 1]
  BY <1>2, Zenon DEF allocate_cached, HandOut
<1>4. slots' = slots /\ next_free' = next_free /\ opens' = opens
  BY Zenon DEF allocate_cached
<1>5. free_cache' = SubSeq(free_cache, 1, n - 1)
  BY Zenon DEF allocate_cached, Front
<1>6. /\ free_cache' \in Seq(Page)
      /\ Len(free_cache') = n - 1
      /\ \A i \in 1 .. n - 1 : free_cache'[i] = free_cache[i]
  BY <1>1, <1>5, SMTT(30) DEF TypeInv
<1>7. handed[p] = 0
  BY <1>1, <1>2, SMTT(30) DEF OwnedMarked, TypeInv
<1>8. TypeInv'
  BY <1>1, <1>3, <1>4, <1>6, SMTT(30) DEF TypeInv
<1>9. OwnedMarked'
  BY <1>1, <1>2, <1>3, <1>4, <1>7, SMTT(30) DEF OwnedMarked, TypeInv
<1>10. MarkedBelow'
  BY <1>2, <1>3, <1>4, ZenonT(30) DEF MarkedBelow
<1>11. CachedFree'
  <2>1. \A i \in 1 .. n - 1 : free_cache[i] # p
    BY <1>1, SMTT(30) DEF CachedFree
  <2> QED
    BY <1>1, <1>3, <1>4, <1>6, <2>1, SMTT(30) DEF CachedFree
<1> QED
  BY <1>8, <1>9, <1>10, <1>11, ZenonT(30)

\* try_allocate_page from next_free_page_id keeps the invariant.
LEMMA ExtendPreserves ==
  ASSUME TypeInv, OwnedMarked, MarkedBelow, CachedFree, extend
  PROVE  TypeInv' /\ OwnedMarked' /\ MarkedBelow' /\ CachedFree'
<1> PICK p \in Page :
      /\ p >= next_free
      /\ next_free' = p + 1
      /\ slots' = IF SlotOf(p) < slots THEN slots ELSE SlotOf(p) + 1
      /\ bits' = bits \cup (next_free .. p) \cup Reserved(SlotOf(p) + 1)
      /\ HandOut(p)
  BY SMTT(30) DEF extend
<1>1. p \in Nat /\ SlotOf(p) \in Nat
  BY SlotIsNat, SMTT(30) DEF Page
<1>2. handed' = [handed EXCEPT ![p] = @ + 1] /\ handed[p] = 0
  BY <1>1, SMTT(30) DEF HandOut, OwnedMarked, TypeInv
<1>3. free_cache = <<>> /\ free_cache' = free_cache /\ opens' = opens
  BY SMTT(30) DEF extend
<1>4. TypeInv'
  BY <1>1, <1>2, <1>3, SMTT(30) DEF TypeInv
<1>5. p \in bits' /\ bits \subseteq bits'
  BY <1>1, SMTT(30) DEF TypeInv
<1>6. OwnedMarked'
  BY <1>1, <1>2, <1>5, SMTT(30) DEF OwnedMarked, TypeInv
<1>7. \A q \in Reserved(SlotOf(p) + 1) : ~IsData(q)
  <2> SUFFICES ASSUME NEW q \in Reserved(SlotOf(p) + 1) PROVE ~IsData(q)
    BY SMTT(30)
  <2>1. PICK s \in slots .. (SlotOf(p) + 1) - 1 : q = bitmap_physical_page_id(s)
    BY SMTT(30) DEF Reserved, TypeInv
  <2>2. s \in Nat \ {0}
    BY <1>1, <2>1, SMTT(30) DEF TypeInv
  <2> QED
    BY <2>1, <2>2, BitmapPageRecognised, SMTT(30) DEF IsData
<1>8. MarkedBelow'
  <2> SUFFICES ASSUME NEW q \in Page, q \in bits', IsData(q) PROVE q < next_free'
    BY SMTT(30) DEF MarkedBelow
  <2>1. q \in Nat
    BY SMTT(30) DEF Page
  <2>2. CASE q \in bits
    BY <1>1, <2>1, <2>2, SMTT(30) DEF MarkedBelow, TypeInv
  <2>3. CASE q \in next_free .. p
    BY <1>1, <2>1, <2>3, SMTT(30) DEF TypeInv
  <2> QED
    BY <1>7, <2>2, <2>3, ZenonT(30)
<1>9. CachedFree'
  BY <1>3, SMTT(30) DEF CachedFree
<1> QED
  BY <1>4, <1>6, <1>8, <1>9, ZenonT(30)

\* free_page, also of a page freed before, keeps the invariant.
LEMMA FreePreserves ==
  ASSUME TypeInv, OwnedMarked, MarkedBelow, CachedFree,
         NEW p \in Page, free_page(p)
  PROVE  TypeInv' /\ OwnedMarked' /\ MarkedBelow' /\ CachedFree'
<1>1. handed' = [handed EXCEPT ![p] = IF @ > 0 THEN @ - 1 ELSE 0]
  BY SMTT(30) DEF free_page
<1>2. slots' = slots /\ next_free' = next_free /\ opens' = opens
  BY SMTT(30) DEF free_page
<1>3. /\ handed' \in [Page -> Nat]
      /\ handed'[p] = 0
      /\ \A q \in Page : q # p => handed'[q] = handed[q]
  BY <1>1, SMTT(30) DEF TypeInv, OwnedMarked
<1>4. CASE IsData(p) /\ SlotOf(p) < slots /\ p \in bits
  <2> PICK n \in Nat : n = Len(free_cache)
    BY SMTT(30) DEF TypeInv
  <2>1. bits' = bits \ {p} /\ free_cache' = Append(free_cache, p)
    BY <1>4, Zenon DEF free_page
  <2>2. /\ free_cache' \in Seq(Page)
        /\ Len(free_cache') = n + 1
        /\ free_cache'[n + 1] = p
        /\ \A i \in 1 .. n : free_cache'[i] = free_cache[i]
    BY <2>1, SMTT(30) DEF TypeInv
  <2>3. p < next_free
    BY <1>4, SMTT(30) DEF MarkedBelow
  <2>4. \A i \in 1 .. n : free_cache[i] # p
    BY <1>4, SMTT(30) DEF CachedFree
  <2>5. TypeInv'
    BY <1>2, <1>3, <2>2, SMTT(30) DEF TypeInv
  <2>6. OwnedMarked'
    BY <1>2, <1>3, <2>1, SMTT(30) DEF OwnedMarked
  <2>7. MarkedBelow'
    BY <1>2, <2>1, Zenon DEF MarkedBelow
  <2>8. CachedFree'
    <3>1. \A i \in 1 .. n + 1 : i \in 1 .. n \/ i = n + 1
      BY SMTT(30)
    <3> QED
      BY <1>2, <1>4, <2>1, <2>2, <2>3, <2>4, <3>1, SMTT(30) DEF CachedFree
  <2> QED
    BY <2>5, <2>6, <2>7, <2>8, SMTT(30)
<1>5. CASE ~(IsData(p) /\ SlotOf(p) < slots /\ p \in bits)
  <2>1. bits' = bits /\ free_cache' = free_cache
    BY <1>5, ZenonT(30) DEF free_page
  <2>2. TypeInv'
    BY <1>2, <1>3, <2>1, SMTT(30) DEF TypeInv
  <2>3. OwnedMarked'
    BY <1>2, <1>3, <2>1, SMTT(30) DEF OwnedMarked
  <2>4. MarkedBelow' /\ CachedFree'
    BY <1>2, <2>1, SMTT(30) DEF MarkedBelow, CachedFree
  <2> QED
    BY <2>2, <2>3, <2>4, SMTT(30)
<1> QED
  BY <1>4, <1>5, Zenon

\* The end of the process: owners of unwritten pages disappear.
LEMMA StopPreserves ==
  ASSUME TypeInv, OwnedMarked, MarkedBelow, CachedFree, stop
  PROVE  TypeInv' /\ OwnedMarked' /\ MarkedBelow' /\ CachedFree'
<1>1. /\ handed' \in [Page -> Nat]
      /\ \A p \in Page : handed'[p] = handed[p] \/ handed'[p] = 0
  BY Zenon DEF stop, TypeInv
<1>2. UNCHANGED <<bits, slots, next_free, free_cache, opens>>
  BY Zenon DEF stop
<1>3. TypeInv'
  BY <1>1, <1>2, SMTT(30) DEF TypeInv
<1>4. OwnedMarked'
  BY <1>1, <1>2, SMTT(30) DEF OwnedMarked
<1> QED
  BY <1>2, <1>3, <1>4, SMTT(30) DEF MarkedBelow, CachedFree

\* Every step preserves the invariant; open leaves the first session.
LEMMA StepPMIInv == PMIInv /\ [PMNext]_pmvars => PMIInv'
<1> SUFFICES ASSUME PMIInv, [PMNext]_pmvars
             PROVE  PMIInv'
  OBVIOUS
<1> DEFINE J == TypeInv /\ OwnedMarked /\ MarkedBelow /\ CachedFree
<1>0. opens \in Nat /\ (opens = 0 => J)
  BY SMTT(30) DEF PMIInv
<1>1. CASE open
  <2>1. opens' = opens + 1
    BY <1>1, Zenon DEF open
  <2> QED
    BY <1>0, <2>1, SMTT(30) DEF PMIInv
<1>2. CASE ~open
  <2>1. opens' = opens
    BY <1>2, SMTT(30) DEF PMNext, pmvars, allocate_cached, extend, free_page, commit, rollback,
       write_page, flush, sync_superblock, sync_bitmap, stop
  <2>2. ASSUME J PROVE J'
    <3>1. CASE allocate_cached
      BY <2>2, <3>1, CachedPreserves, SMTT(30)
    <3>2. CASE extend
      BY <2>2, <3>2, ExtendPreserves, SMTT(30)
    <3>3. ASSUME NEW p \in Page, free_page(p) PROVE J'
      BY <2>2, <3>3, FreePreserves, SMTT(30)
    <3>4. CASE stop
      BY <2>2, <3>4, StopPreserves
    <3>5. CASE UNCHANGED <<bits, slots, next_free, free_cache, handed>>
      BY <2>2, <3>5, SMTT(30) DEF TypeInv, OwnedMarked, MarkedBelow, CachedFree
    <3>6. CASE \/ commit \/ rollback \/ write_page \/ (\E p \in Page : flush(p))
               \/ sync_superblock \/ sync_bitmap \/ UNCHANGED pmvars
      BY <3>5, <3>6, SMTT(30) DEF commit, rollback, write_page, flush, sync_superblock,
         sync_bitmap, pmvars
    <3> QED
      BY <1>2, <3>1, <3>2, <3>3, <3>4, <3>6, SMTT(30) DEF PMNext
  <2> QED
    BY <1>0, <2>1, <2>2, SMTT(30) DEF PMIInv
<1> QED
  BY <1>1, <1>2, ZenonT(30)

\* In the session that creates the database, no page is handed to two callers.
THEOREM AllocatorExclusive == PMSpec => []FirstSessionExclusive
<1>1. PMIInv => FirstSessionExclusive
  BY DEF PMIInv, TypeInv, OwnedMarked, FirstSessionExclusive, NoDoubleHandOut
<1> QED
  BY <1>1, InitPMIInv, StepPMIInv, PTL DEF PMSpec
=============================================================================
