---------------------------- MODULE IndexProofs -----------------------------
(***************************************************************************)
(* Proofs about the structures an index search walks: the list of the      *)
(* edges of a node, and the latch under which the tree is read and         *)
(* written.                                                                *)
(***************************************************************************)
EXTENDS AdjacencyList, IndexLatch, FiniteSetTheorems, TLAPS

-----------------------------------------------------------------------------
(***************************************************************************)
(* The version latch of an index, for every number of threads of each      *)
(* kind.  The invariant says who holds what at each place of the code,     *)
(* that the reader count counts the threads between the increment and the  *)
(* decrement, and that a version an optimist remembers is behind the latch *)
(* as soon as a writer has been in.                                        *)
(***************************************************************************)
Searchers == LatchedReaders \cup Optimists

(* Where a thread can be, by the part it plays.                            *)
PlacesOf(t) ==
    IF t \in Writers THEN {"idle", "latch", "asleep", "write", "release"}
    ELSE IF t \in Intenders THEN {"idle", "latch", "asleep", "release"}
    ELSE IF t \in Defragmenters THEN {"idle", "get", "put"}
    ELSE {"idle", "latch", "asleep", "read", "found", "release"}
           \cup (IF t \in LatchedReaders THEN {}
                 ELSE {"check", "version", "probe", "validate", "unlatched", "returned"})

ThreadPlaces ==
    {"idle", "latch", "asleep", "write", "release", "get", "put", "read", "found",
     "check", "version", "probe", "validate", "unlatched", "returned"}

ThreadRecords ==
    [pc : ThreadPlaces,
     page : TreePages, seen : SUBSET Nat, before : Nat, tries : Nat, late : BOOLEAN, runs : Nat]

LatchEntries == [readers : Nat, writer : BOOLEAN, intention : BOOLEAN, version : Nat]

ILTypes ==
    /\ latch \in LatchEntries
    /\ stamp \in [TreePages -> Nat]
    /\ thread \in [LatchThreads -> ThreadRecords]
    /\ clobbered \in BOOLEAN

Holding(r) == r.pc \in {"write", "read", "found", "release"}

ReadHolders == {t \in Searchers : Holds(t)}

(* The entry of the latch tells who holds it.                              *)
EntryTrue ==
    /\ latch.readers = Cardinality(ReadHolders)
    /\ latch.writer = (\E t \in Writers : Holds(t))
    /\ \A t \in Intenders : Holds(t) => latch.intention
    /\ \A t \in Writers : Holds(t) => \A u \in LatchThreads \ {t} : ~ Holds(u)

(* No mutation is under way: every page has the same stamp.                *)
Whole == \A p, q \in TreePages : stamp[p] = stamp[q]

(* A mutation has written the pages below page.                            *)
Written(page) ==
    \A p, q \in TreePages :
       stamp[p] + (IF p < page THEN 0 ELSE 1) = stamp[q] + (IF q < page THEN 0 ELSE 1)

(* What was seen is what the pages hold.                                   *)
Current(seen) == \A x \in seen : \A p \in TreePages : x = stamp[p]

(* What thread t knows when its record is r.                               *)
Knows(t, r) ==
    /\ r.pc \in PlacesOf(t)
    /\ t \in Writers /\ r.pc # "write" => r.page = 1
    /\ t \in Searchers /\ r.pc \in {"idle", "latch", "asleep", "check", "version", "release"}
         => r.seen = {}
    /\ r.pc \in {"probe", "validate"} => r.before <= latch.version
    /\ r.pc \in {"validate", "unlatched", "returned"} => r.seen # {}
    /\ ~ clobbered =>
         /\ r.pc = "write" => Written(r.page)
         /\ t \in Writers /\ r.pc = "release" => Whole
         /\ r.pc \in {"read", "found"} => Current(r.seen)
         /\ r.pc \in {"probe", "validate"} /\ r.before = latch.version /\ ~ latch.writer
              => Current(r.seen)
         /\ r.pc = "unlatched" /\ ~ r.late /\ ~ latch.writer => Current(r.seen)
         /\ r.pc = "returned" /\ ~ r.late => \A x, y \in r.seen : x = y

LatchInv ==
    /\ ILTypes /\ EntryTrue
    /\ ~ clobbered /\ ~ latch.writer => Whole
    /\ \A t \in LatchThreads : Knows(t, thread[t])

-----------------------------------------------------------------------------

\* A new latch table: nobody holds anything.
LEMMA InitLatchInv == ILInit => LatchInv
<1>. SUFFICES ASSUME ILInit PROVE LatchInv
    OBVIOUS
<1>1. 1 \in TreePages
    BY FS_CardinalityType, FS_EmptySet, LatchAssumption
<1>2. ILTypes /\ \A t \in LatchThreads : thread[t].pc = "idle" /\ thread[t].page = 1 /\ thread[t].seen = {}
  <2>1. PICK cast \in Casts :
           thread = [t \in LatchThreads |->
                      [pc |-> "idle", page |-> 1, seen |-> {}, before |-> 0, tries |-> 0,
                       late |-> FALSE, runs |-> IF t \in cast THEN 0 ELSE MaxLatchings]]
      BY Zenon DEF ILInit
  <2>2. \A t \in LatchThreads : (IF t \in cast THEN 0 ELSE MaxLatchings) \in Nat
      BY LatchAssumption
  <2>3. thread \in [LatchThreads -> ThreadRecords]
      BY <1>1, <2>1, <2>2 DEF ThreadRecords, ThreadPlaces
  <2>4. latch \in LatchEntries
      BY DEF ILInit, LatchEntries
  <2>5. stamp \in [TreePages -> Nat] /\ clobbered \in BOOLEAN
      BY Zenon DEF ILInit
  <2>. QED
      BY <2>1, <2>3, <2>4, <2>5 DEF ILTypes
<1>3. \A t \in LatchThreads : ~ Holds(t)
    BY <1>2 DEF Holds
<1>4. ReadHolders = {}
    BY <1>3 DEF ReadHolders, Searchers, LatchThreads
<1>5. EntryTrue
    BY <1>3, <1>4, FS_EmptySet, Zenon DEF EntryTrue, ILInit, LatchThreads
<1>6. \A t \in LatchThreads : Knows(t, thread[t])
    BY <1>2 DEF Knows, PlacesOf
<1>7. Whole
    BY DEF ILInit, Whole
<1>. QED
    BY <1>2, <1>5, <1>6, <1>7 DEF LatchInv

(* A step that changes what one thread knows, and neither who holds the    *)
(* latch nor, unless the defragmenter clobbers a page, the pages.          *)
LEMMA LocalStep ==
    ASSUME LatchInv, NEW t \in LatchThreads,
           thread' \in [LatchThreads -> ThreadRecords],
           \A u \in LatchThreads \ {t} : thread'[u] = thread[u],
           latch' = latch, stamp' \in [TreePages -> Nat], clobbered' \in BOOLEAN,
           ~ clobbered' => ~ clobbered /\ stamp' = stamp,
           Holding(thread'[t]) <=> Holding(thread[t]),
           Knows(t, thread'[t])
    PROVE  LatchInv'
<1>1. ILTypes'
    BY DEF LatchInv, ILTypes
<1>2. \A u \in LatchThreads : Holds(u)' <=> Holds(u)
    BY DEF Holds, Holding
<1>3. ReadHolders' = ReadHolders
    BY <1>2 DEF ReadHolders, Searchers, LatchThreads
<1>4. EntryTrue'
    BY <1>2, <1>3, Zenon DEF LatchInv, EntryTrue, LatchThreads
<1>5. (~ clobbered /\ ~ latch.writer => Whole)'
    BY Zenon DEF LatchInv, Whole
<1>6. ASSUME NEW u \in LatchThreads PROVE Knows(u, thread[u])'
  <2>1. Knows(u, thread'[u])
      BY DEF LatchInv
  <2>. QED
      BY <2>1 DEF Knows, Written, Whole, Current
<1>. QED
    BY <1>1, <1>4, <1>5, <1>6, Zenon DEF LatchInv

(* The parts of the threads exclude each other.                            *)
LEMMA Parts ==
    ASSUME NEW t \in LatchThreads
    PROVE  /\ t \in Writers => t \notin Searchers /\ t \notin Intenders /\ t \notin Defragmenters
           /\ t \in Searchers => t \notin Intenders /\ t \notin Defragmenters
           /\ t \in LatchedReaders => t \notin Optimists
           /\ t \in Intenders => t \notin Defragmenters
           /\ t \in Writers \/ t \in Intenders \/ t \in Defragmenters \/ t \in LatchedReaders
              \/ t \in Optimists
    BY LatchAssumption DEF LatchThreads, Searchers, Disjoint

(* The page after the one a thread is at, round the path.                  *)
LEMMA NextPage ==
    ASSUME NEW p \in TreePages
    PROVE  /\ 1 \in TreePages
           /\ (IF p + 1 \in TreePages THEN p + 1 ELSE 1) \in TreePages
           /\ \A q \in TreePages : q \in Nat /\ q >= 1
           /\ p + 1 \notin TreePages => \A q \in TreePages : q <= p
<1>1. PICK n \in Nat : TreePages = 1..n
    BY FS_CardinalityType, LatchAssumption, Zenon
<1>. QED
    BY <1>1

(* What a thread does without touching the latch or a page.                *)
LEMMA StartKeeps ==
    ASSUME LatchInv, NEW t \in LatchThreads, Start(t)
    PROVE  LatchInv'
<1>1. thread[t] \in ThreadRecords /\ thread[t].pc = "idle" /\ Knows(t, thread[t])
    BY DEF LatchInv, ILTypes, Start, At
<1>2. thread' = [thread EXCEPT ![t].runs = @ + 1, ![t].pc = StartAt(t)]
    BY DEF Start
<1>3. StartAt(t) \in PlacesOf(t) /\ StartAt(t) \in {"check", "get", "latch"}
      /\ StartAt(t) \in ThreadPlaces
    BY Parts DEF StartAt, PlacesOf, Searchers, ThreadPlaces
<1>4. thread'[t] = [thread[t] EXCEPT !.runs = @ + 1, !.pc = StartAt(t)]
    BY <1>1, <1>2 DEF LatchInv, ILTypes
<1>5. thread'[t] \in ThreadRecords
  <2>1. thread[t].runs + 1 \in Nat
      BY <1>1 DEF ThreadRecords
  <2>. QED
      BY <1>1, <1>3, <1>4, <2>1, Zenon DEF ThreadRecords
<1>6. thread' \in [LatchThreads -> ThreadRecords] /\ \A u \in LatchThreads \ {t} : thread'[u] = thread[u]
    BY <1>2, <1>4, <1>5 DEF LatchInv, ILTypes
<1>7. Holding(thread'[t]) <=> Holding(thread[t])
    BY <1>1, <1>3, <1>4, Zenon DEF Holding, ThreadRecords
<1>8. Knows(t, thread'[t])
    BY <1>1, <1>3, <1>4, Zenon DEF Knows, ThreadRecords
<1>. QED
    BY <1>6, <1>7, <1>8, LocalStep, Zenon DEF Start, LatchInv, ILTypes

(* optimistic_search starts again, or gives up and latches.                *)
LEMMA RetryKeeps ==
    ASSUME LatchInv, NEW t \in Optimists, thread' = Retry(t), UNCHANGED <<latch, stamp, clobbered>>,
           ~ Holding(thread[t])
    PROVE  LatchInv'
<1>0. t \in LatchThreads /\ thread \in [LatchThreads -> ThreadRecords]
    BY DEF LatchThreads, LatchInv, ILTypes
<1>1. thread[t] \in ThreadRecords /\ thread[t].tries \in Nat
    BY <1>0 DEF ThreadRecords
<1>. DEFINE tries == IF thread[t].tries < optimistic_retry THEN thread[t].tries + 1 ELSE 0
            pc == IF thread[t].tries < optimistic_retry THEN "check" ELSE "latch"
<1>2. thread'[t] = [thread[t] EXCEPT !.seen = {}, !.late = FALSE, !.before = 0, !.tries = tries, !.pc = pc]
    BY <1>0, <1>1 DEF Retry
<1>3. tries \in Nat /\ pc \in {"check", "latch"} /\ pc \in ThreadPlaces
    BY <1>1 DEF ThreadPlaces
<1>4. \A u \in LatchThreads \ {t} : thread'[u] = thread[u]
    BY <1>0 DEF Retry
<1>. HIDE DEF tries, pc
<1>5. thread'[t] \in ThreadRecords
  <2>1. {} \in SUBSET Nat /\ FALSE \in BOOLEAN /\ 0 \in Nat
      OBVIOUS
  <2>. QED
      BY <1>1, <1>2, <1>3, <2>1, ZenonT(30) DEF ThreadRecords
<1>6. thread' \in [LatchThreads -> ThreadRecords]
    BY <1>0, <1>5 DEF Retry
<1>7. thread'[t].pc = pc /\ thread'[t].seen = {}
    BY <1>1, <1>2 DEF ThreadRecords
<1>8. Knows(t, thread'[t])
    BY <1>0, <1>3, <1>7, Parts, Zenon DEF Knows, PlacesOf, Searchers
<1>9. Holding(thread'[t]) <=> Holding(thread[t])
    BY <1>3, <1>7, Zenon DEF Holding
<1>. QED
    BY <1>0, <1>4, <1>6, <1>8, <1>9, LocalStep, Zenon DEF LatchInv, ILTypes

(* A read of a page, latched or not.                                       *)
LEMMA ReadKeeps ==
    ASSUME LatchInv, NEW t \in LatchThreads, ReadPage(t) \/ ProbePage(t)
    PROVE  LatchInv'
<1>. DEFINE p == thread[t].page
            pc == IF p + 1 \in TreePages THEN thread[t].pc ELSE IF thread[t].pc = "read" THEN "found" ELSE "validate"
            page == IF p + 1 \in TreePages THEN p + 1 ELSE 1
            seen == thread[t].seen \cup {stamp[p]}
<1>0. thread \in [LatchThreads -> ThreadRecords] /\ thread[t] \in ThreadRecords /\ stamp \in [TreePages -> Nat]
    BY Zenon DEF LatchInv, ILTypes
<1>1. thread[t].pc \in {"read", "probe"} /\ p \in TreePages /\ thread[t].seen \in SUBSET Nat
    BY <1>0 DEF ReadPage, ProbePage, At, ThreadRecords
<1>2. thread'[t] = [thread[t] EXCEPT !.seen = seen, !.page = page, !.pc = pc]
    BY <1>0, <1>1, ZenonT(30) DEF ReadPage, ProbePage, At
<1>3. \A u \in LatchThreads \ {t} : thread'[u] = thread[u]
    BY <1>0 DEF ReadPage, ProbePage
<1>4. seen \in SUBSET Nat /\ page \in TreePages /\ pc \in ThreadPlaces
    BY <1>0, <1>1, NextPage DEF ThreadPlaces
<1>5. \/ thread[t].pc = "read" /\ pc \in {"read", "found"}
      \/ thread[t].pc = "probe" /\ pc \in {"probe", "validate"}
    BY <1>1
<1>6. seen # {} /\ (\A x \in seen : x \in thread[t].seen \/ x = stamp[p])
    OBVIOUS
<1>. HIDE DEF pc, page, seen
<1>7. thread'[t] \in ThreadRecords
    BY <1>0, <1>2, <1>4, Zenon DEF ThreadRecords
<1>8. thread' \in [LatchThreads -> ThreadRecords]
    BY <1>0, <1>7 DEF ReadPage, ProbePage
<1>9. /\ thread'[t].pc = pc /\ thread'[t].seen = seen /\ thread'[t].page = page
      /\ thread'[t].before = thread[t].before
    BY <1>0, <1>2, Zenon DEF ThreadRecords
<1>10. t \in Searchers /\ pc \in PlacesOf(t) /\ Knows(t, thread[t])
    BY <1>5, Parts, Zenon DEF LatchInv, Knows, PlacesOf, Searchers
<1>11. thread[t].pc = "read" => ~ latch.writer
  <2>1. thread[t].pc = "read" => Holds(t) /\ t \notin Writers
      BY <1>10, Parts, Zenon DEF Holds
  <2>. QED
      BY <2>1, Zenon DEF LatchInv, EntryTrue, LatchThreads
<1>12. ~ clobbered /\ Current(thread[t].seen) /\ ~ latch.writer => Current(seen)
    BY <1>1, <1>6 DEF LatchInv, Whole, Current
<1>13. Knows(t, thread'[t])
    BY <1>5, <1>6, <1>9, <1>10, <1>11, <1>12, Parts, Zenon DEF Knows
<1>14. Holding(thread'[t]) <=> Holding(thread[t])
    BY <1>5, <1>9, Zenon DEF Holding
<1>. QED
    BY <1>3, <1>8, <1>13, <1>14, LocalStep, Zenon DEF LatchInv, ILTypes, ReadPage, ProbePage

(* A step that only moves a thread on, or has it remember or forget.       *)
LEMMA MoveKeeps ==
    ASSUME LatchInv, NEW t \in LatchThreads, UNCHANGED <<latch, stamp, clobbered>>,
           NEW r \in ThreadRecords, thread' = [thread EXCEPT ![t] = r],
           Holding(r) <=> Holding(thread[t]), Knows(t, r)
    PROVE  LatchInv'
<1>1. /\ thread' \in [LatchThreads -> ThreadRecords] /\ thread'[t] = r
      /\ \A u \in LatchThreads \ {t} : thread'[u] = thread[u]
    BY DEF LatchInv, ILTypes
<1>. QED
    BY <1>1, LocalStep, Zenon DEF LatchInv, ILTypes

\* A thread whose try_acquire failed goes to sleep, holding nothing.
LEMMA WaitKeeps ==
    ASSUME LatchInv, NEW t \in LatchThreads, Wait(t)
    PROVE  LatchInv'
<1>. DEFINE r == [thread[t] EXCEPT !.pc = "asleep"]
<1>1. thread[t] \in ThreadRecords /\ thread[t].pc = "latch" /\ Knows(t, thread[t])
    BY DEF LatchInv, ILTypes, Wait, At
<1>2. r \in ThreadRecords /\ thread' = [thread EXCEPT ![t] = r]
    BY <1>1 DEF Wait, To, ThreadRecords, ThreadPlaces
<1>3. /\ r.pc = "asleep" /\ r.page = thread[t].page /\ r.seen = thread[t].seen
    BY <1>1, Zenon DEF ThreadRecords
<1>. HIDE DEF r
<1>4. Knows(t, r) /\ (Holding(r) <=> Holding(thread[t]))
    BY <1>1, <1>3, Parts, Zenon DEF Knows, PlacesOf, Holding
<1>. QED
    BY <1>2, <1>4, MoveKeeps, Zenon DEF Wait

\* A latched reader that has its answer goes on to release.
LEMMA FoundKeeps ==
    ASSUME LatchInv, NEW t \in LatchThreads, Found(t)
    PROVE  LatchInv'
<1>. DEFINE r == [thread[t] EXCEPT !.pc = "release", !.seen = {}]
<1>1. thread[t] \in ThreadRecords /\ thread[t].pc = "found" /\ Knows(t, thread[t])
    BY DEF LatchInv, ILTypes, Found, At
<1>2. "release" \in ThreadPlaces /\ {} \in SUBSET Nat
    BY DEF ThreadPlaces
<1>3. r \in ThreadRecords
    BY <1>1, <1>2, Zenon DEF ThreadRecords
<1>4. thread' = [thread EXCEPT ![t] = r]
    BY <1>1, ZenonT(30) DEF Found
<1>5. /\ r.pc = "release" /\ r.page = thread[t].page /\ r.seen = {}
    BY <1>1, Zenon DEF ThreadRecords
<1>. HIDE DEF r
<1>6. Knows(t, r) /\ (Holding(r) <=> Holding(thread[t]))
    BY <1>1, <1>5, Parts, Zenon DEF Knows, PlacesOf, Holding, Searchers
<1>. QED
    BY <1>3, <1>4, <1>6, MoveKeeps, Zenon DEF Found

(* The calls of optimistic_search on the latch manager.                    *)
LEMMA OptimistKeeps ==
    ASSUME LatchInv, NEW t \in LatchThreads,
           CheckUnlatched(t) \/ ReadVersion(t) \/ ReadVersionAgain(t) \/ Validated(t)
    PROVE  LatchInv'
<1>1. /\ thread[t] \in ThreadRecords /\ Knows(t, thread[t])
      /\ thread[t].pc \in {"check", "version", "validate", "unlatched"}
      /\ UNCHANGED <<latch, stamp, clobbered>> /\ latch.version \in Nat
    BY Zenon DEF LatchInv, ILTypes, LatchEntries, CheckUnlatched, ReadVersion, ReadVersionAgain, Validated, At
<1>2. t \in Optimists /\ ~ Holding(thread[t])
    BY <1>1, Parts DEF Knows, PlacesOf, Holding
<1>3. CASE thread' = Retry(t)
    BY <1>1, <1>2, <1>3, RetryKeeps, Zenon
<1>4. CASE ReadVersion(t)
  <2>. DEFINE r == [thread[t] EXCEPT !.before = latch.version, !.pc = "probe"]
  <2>1. "probe" \in ThreadPlaces
      BY DEF ThreadPlaces
  <2>2. r \in ThreadRecords
      BY <1>1, <2>1, Zenon DEF ThreadRecords
  <2>3. thread' = [thread EXCEPT ![t] = r] /\ thread[t].pc = "version"
      BY <1>1, <1>4, ZenonT(30) DEF ReadVersion, At
  <2>4. r.pc = "probe" /\ r.page = thread[t].page /\ r.seen = thread[t].seen /\ r.before = latch.version
      BY <1>1, Zenon DEF ThreadRecords
  <2>. HIDE DEF r
  <2>5. r.seen = {}
      BY <1>1, <1>2, <2>3, <2>4, Zenon DEF Knows, Searchers
  <2>6. Knows(t, r) /\ (Holding(r) <=> Holding(thread[t]))
      BY <1>1, <1>2, <2>3, <2>4, <2>5, Parts, SMTT(30) DEF Knows, PlacesOf, Holding, Searchers, Current
  <2>. QED
      BY <1>1, <2>2, <2>3, <2>6, MoveKeeps, Zenon
<1>5. CASE thread' # Retry(t) /\ ~ ReadVersion(t)
  <2>1. PICK pc \in {"version", "unlatched", "returned"} :
           /\ thread' = [thread EXCEPT ![t].pc = pc]
           /\ \/ pc = "version" /\ thread[t].pc = "check"
              \/ pc = "unlatched" /\ thread[t].pc = "validate" /\ thread[t].before = latch.version
              \/ pc = "returned" /\ thread[t].pc = "unlatched" /\ ~ latch.writer
      BY <1>5, Zenon DEF CheckUnlatched, ReadVersionAgain, Validated, At
  <2>. DEFINE r == [thread[t] EXCEPT !.pc = pc]
  <2>2. r \in ThreadRecords /\ thread' = [thread EXCEPT ![t] = r]
      BY <1>1, <2>1, Zenon DEF ThreadRecords, ThreadPlaces
  <2>3. /\ r.pc = pc /\ r.page = thread[t].page /\ r.seen = thread[t].seen
        /\ r.before = thread[t].before /\ r.late = thread[t].late
      BY <1>1, Zenon DEF ThreadRecords
  <2>. HIDE DEF r
  <2>4. 1 \in TreePages
      BY <1>1, NextPage, Zenon DEF ThreadRecords
  <2>5. Current(r.seen) => \A x, y \in r.seen : x = y
      BY <2>4, Zenon DEF Current
  <2>6. Knows(t, r) /\ (Holding(r) <=> Holding(thread[t]))
      BY <1>1, <1>2, <2>1, <2>3, <2>5, Parts, Zenon DEF Knows, PlacesOf, Holding, Searchers
  <2>. QED
      BY <1>1, <2>2, <2>6, MoveKeeps, Zenon
<1>. QED
    BY <1>3, <1>4, <1>5, Zenon

(* The defragmenter puts back what it read: it changes no page, or it      *)
(* clobbers one.                                                           *)
LEMMA DefragKeeps ==
    ASSUME LatchInv, NEW t \in LatchThreads, GetLeaf(t) \/ PutLeaf(t)
    PROVE  LatchInv'
<1>. DEFINE p == thread[t].page
<1>1. /\ thread[t] \in ThreadRecords /\ Knows(t, thread[t]) /\ thread[t].pc \in {"get", "put"}
      /\ stamp \in [TreePages -> Nat] /\ thread \in [LatchThreads -> ThreadRecords]
    BY Zenon DEF LatchInv, ILTypes, GetLeaf, PutLeaf, At
<1>2. t \in Defragmenters /\ ~ Holding(thread[t])
    BY <1>1, Parts, Zenon DEF Knows, PlacesOf, Holding
<1>3. p \in TreePages /\ stamp[p] \in Nat /\ thread[t].before \in Nat /\ thread[t].runs \in Nat
    BY <1>1, Zenon DEF ThreadRecords
<1>4. PICK r \in ThreadRecords : thread' = [thread EXCEPT ![t] = r] /\ r.pc \in {"idle", "get", "put"}
  <2>1. {"idle", "get", "put"} \subseteq ThreadPlaces /\ 0 \in Nat /\ {} \in SUBSET Nat /\ FALSE \in BOOLEAN
      BY DEF ThreadPlaces
  <2>2. CASE GetLeaf(t)
    <3>. DEFINE r == [thread[t] EXCEPT !.before = stamp[p], !.pc = "put"]
    <3>1. r \in ThreadRecords
        BY <1>1, <1>3, <2>1, Zenon DEF ThreadRecords
    <3>2. r.pc = "put" /\ thread' = [thread EXCEPT ![t] = r]
        BY <1>1, <2>2, Zenon DEF GetLeaf, ThreadRecords
    <3>. QED
        BY <3>1, <3>2, Zenon
  <2>3. CASE PutLeaf(t) /\ p + 1 \in TreePages
    <3>. DEFINE r == [thread[t] EXCEPT !.page = p + 1, !.before = 0, !.pc = "get"]
    <3>1. r \in ThreadRecords
        BY <1>1, <2>1, <2>3, Zenon DEF ThreadRecords
    <3>2. r.pc = "get" /\ thread' = [thread EXCEPT ![t] = r]
        BY <1>1, <2>3, Zenon DEF PutLeaf, ThreadRecords
    <3>. QED
        BY <3>1, <3>2, Zenon
  <2>4. CASE PutLeaf(t) /\ p + 1 \notin TreePages
    <3>1. Rest(t) \in ThreadRecords /\ Rest(t).pc = "idle"
        BY <1>3, <2>1, NextPage, Zenon DEF Rest, ThreadRecords
    <3>2. thread' = [thread EXCEPT ![t] = Rest(t)]
        BY <2>4 DEF PutLeaf
    <3>. QED
        BY <3>1, <3>2, Zenon
  <2>. QED
      BY <2>2, <2>3, <2>4, Zenon
<1>5. /\ thread' \in [LatchThreads -> ThreadRecords] /\ thread'[t] = r
      /\ \A u \in LatchThreads \ {t} : thread'[u] = thread[u]
    BY <1>1, <1>4, Zenon
<1>6. latch' = latch /\ stamp' \in [TreePages -> Nat] /\ clobbered' \in BOOLEAN
    BY <1>1, <1>3, Zenon DEF GetLeaf, PutLeaf, LatchInv, ILTypes
<1>7. ~ clobbered' => ~ clobbered /\ stamp' = stamp
  <2>1. PutLeaf(t) /\ stamp[p] = thread[t].before => stamp' = stamp
      BY <1>1, <1>3, Zenon DEF PutLeaf
  <2>. QED
      BY <2>1, Zenon DEF GetLeaf, PutLeaf, LatchInv, ILTypes
<1>8. Knows(t, r) /\ ~ Holding(r)
  <2>1. t \notin Writers /\ t \notin Searchers /\ t \notin Intenders
      BY <1>2, Parts, Zenon
  <2>2. r.pc \in PlacesOf(t)
      BY <1>2, <1>4, <2>1, Zenon DEF PlacesOf
  <2>. QED
      BY <1>4, <2>1, <2>2, Zenon DEF Knows, Holding
<1>. QED
    BY <1>2, <1>5, <1>6, <1>7, <1>8, LocalStep, Zenon

\* An optimist that has returned starts over with the next page.
LEMMA ReturnedKeeps ==
    ASSUME LatchInv, NEW t \in LatchThreads, Returned(t)
    PROVE  LatchInv'
<1>1. thread[t] \in ThreadRecords /\ thread[t].pc = "returned" /\ Knows(t, thread[t])
    BY Zenon DEF LatchInv, ILTypes, Returned, At
<1>2. Rest(t) \in ThreadRecords /\ Rest(t).pc = "idle" /\ Rest(t).seen = {}
    BY <1>1, NextPage, Zenon DEF Rest, ThreadRecords, ThreadPlaces
<1>3. Knows(t, Rest(t)) /\ (Holding(Rest(t)) <=> Holding(thread[t]))
    BY <1>1, <1>2, Parts, Zenon DEF Knows, PlacesOf, Holding, Searchers
<1>. QED
    BY <1>2, <1>3, MoveKeeps, Zenon DEF Returned

(* A writer writes a page: it is alone, and no optimistic search that      *)
(* overlaps it is validated.                                               *)
LEMMA WriteKeeps ==
    ASSUME LatchInv, NEW t \in LatchThreads, WritePage(t)
    PROVE  LatchInv'
<1>. DEFINE p == thread[t].page
            more == p + 1 \in TreePages
            pc == IF more THEN "write" ELSE "release"
<1>1. /\ thread[t] \in ThreadRecords /\ Knows(t, thread[t]) /\ thread[t].pc = "write"
      /\ stamp \in [TreePages -> Nat] /\ thread \in [LatchThreads -> ThreadRecords]
    BY Zenon DEF LatchInv, ILTypes, WritePage, At
<1>2. t \in Writers /\ Holds(t) /\ p \in TreePages
    BY <1>1, Parts, Zenon DEF Knows, PlacesOf, Holds, ThreadRecords
<1>3. latch.writer /\ \A u \in LatchThreads \ {t} : ~ Holds(u)
    BY <1>2, Zenon DEF LatchInv, EntryTrue
<1>4. PICK page \in TreePages : page = IF more THEN p + 1 ELSE 1
    BY <1>2, NextPage
<1>. DEFINE r == [thread[t] EXCEPT !.page = page, !.pc = pc]
<1>5. thread' = [thread EXCEPT ![t] = r] /\ stamp' = [stamp EXCEPT ![p] = @ + 1] /\ latch' = latch
      /\ clobbered' = clobbered
    BY <1>1, <1>4, ZenonT(30) DEF WritePage
<1>6. r \in ThreadRecords
  <2>1. pc \in ThreadPlaces
      BY DEF ThreadPlaces
  <2>. QED
      BY <2>1, <1>1, <1>4, Zenon DEF ThreadRecords
<1>7. r.page = page /\ r.pc = pc
    BY <1>1, Zenon DEF ThreadRecords
<1>. HIDE DEF r
<1>8. /\ thread' \in [LatchThreads -> ThreadRecords] /\ thread'[t] = r
      /\ \A u \in LatchThreads \ {t} : thread'[u] = thread[u]
    BY <1>1, <1>5, <1>6, Zenon
<1>9. ILTypes'
    BY <1>1, <1>2, <1>5, <1>8, SMTT(30) DEF LatchInv, ILTypes
<1>10. \A u \in LatchThreads : Holds(u)' <=> Holds(u)
    BY <1>2, <1>7, <1>8, Zenon DEF Holds
<1>11. EntryTrue'
  <2>1. ReadHolders' = ReadHolders
      BY <1>10, Zenon DEF ReadHolders, Searchers, LatchThreads
  <2>. QED
      BY <1>5, <1>10, <2>1, ZenonT(30) DEF LatchInv, EntryTrue, LatchThreads
<1>12. ASSUME ~ clobbered, more PROVE Written(page)'
  <2>1. \A q \in TreePages : q \in Nat /\ stamp[q] \in Nat /\ stamp'[q] = IF q = p THEN stamp[q] + 1 ELSE stamp[q]
      BY <1>1, <1>2, <1>5, NextPage, Zenon
  <2>2. Written(p) /\ page = p + 1
      BY <1>1, <1>4, <1>12, Zenon DEF Knows
  <2>. SUFFICES ASSUME NEW a \in TreePages, NEW b \in TreePages
                PROVE  stamp'[a] + (IF a < p + 1 THEN 0 ELSE 1) = stamp'[b] + (IF b < p + 1 THEN 0 ELSE 1)
      BY <2>2, <1>12, Zenon DEF Written
  <2>3. \A q \in TreePages :
           stamp'[q] + (IF q < p + 1 THEN 0 ELSE 1) = stamp[q] + (IF q < p THEN 0 ELSE 1)
      BY <1>2, <2>1, SMTT(30)
  <2>. QED
      BY <2>2, <2>3 DEF Written
<1>13. ASSUME ~ clobbered, ~ more PROVE Whole'
  <2>1. \A q \in TreePages : q \in Nat /\ q <= p
      BY <1>2, <1>13, NextPage, Zenon
  <2>2. \A q \in TreePages : q \in Nat /\ stamp[q] \in Nat /\ stamp'[q] = IF q = p THEN stamp[q] + 1 ELSE stamp[q]
      BY <1>1, <1>2, <1>5, NextPage, SMTT(30)
  <2>3. Written(p)
      BY <1>1, <1>13, Zenon DEF Knows
  <2>4. \A q \in TreePages : stamp'[q] = stamp[q] + (IF q < p THEN 0 ELSE 1)
      BY <1>2, <2>1, <2>2, SMTT(30)
  <2>. QED
      BY <2>3, <2>4, Zenon DEF Written, Whole
<1>14. Knows(t, thread[t])'
  <2>1. t \notin Searchers /\ pc \in PlacesOf(t)
      BY <1>2, Parts, Zenon DEF PlacesOf
  <2>. QED
      BY <1>4, <1>5, <1>7, <1>8, <1>12, <1>13, <2>1, Zenon DEF Knows
<1>15. ASSUME NEW u \in LatchThreads, u # t PROVE Knows(u, thread[u])'
  <2>1. Knows(u, thread[u]) /\ thread'[u] = thread[u]
      BY <1>8, <1>15, Zenon DEF LatchInv
  <2>2. thread[u].pc \notin {"write", "read", "found", "release"}
      BY <1>3, <1>15, Zenon DEF Holds
  <2>. QED
      BY <1>3, <1>5, <2>1, <2>2, Zenon DEF Knows
<1>. QED
    BY <1>3, <1>5, <1>9, <1>11, <1>14, <1>15, Zenon DEF LatchInv

(* The holders of the latch are finite in number.                          *)
LEMMA HoldersFinite == IsFiniteSet(ReadHolders) /\ Cardinality(ReadHolders) \in Nat
<1>1. ReadHolders \subseteq LatchThreads
    BY DEF ReadHolders, Searchers, LatchThreads
<1>. QED
    BY <1>1, LatchAssumption, FS_Subset, FS_CardinalityType, Zenon

(* The mode a thread asks for.                                             *)
LEMMA ModeOf ==
    ASSUME NEW t \in LatchThreads
    PROVE  /\ t \in Writers => Mode(t) = "Exclusive"
           /\ t \in Intenders => Mode(t) = "Intention"
           /\ t \notin Writers /\ t \notin Intenders => Mode(t) = "Shared"
<1>1. t \in Writers => t \notin Intenders
    BY Parts, Zenon
<1>. QED
    BY <1>1 DEF Mode

(* What an acquisition and a release do to the entry.                      *)
LEMMA EntryAcquired ==
    ASSUME latch \in LatchEntries, NEW m \in {"Exclusive", "Intention", "Shared"}, latch' = Acquired(m)
    PROVE  /\ latch' \in LatchEntries /\ latch'.version = latch.version
           /\ latch'.writer = (latch.writer \/ m = "Exclusive")
           /\ latch'.intention = (latch.intention \/ m = "Intention")
           /\ latch'.readers = IF m = "Shared" THEN latch.readers + 1 ELSE latch.readers
<1>1. /\ latch.readers \in Nat /\ latch.writer \in BOOLEAN /\ latch.intention \in BOOLEAN
      /\ latch.version \in Nat /\ latch.readers + 1 \in Nat
    BY DEF LatchEntries
<1>2. CASE m = "Exclusive"
  <2>1. latch' = [latch EXCEPT !.writer = TRUE]
      BY <1>2 DEF Acquired
  <2>. QED
      BY <1>1, <1>2, <2>1, Zenon DEF LatchEntries
<1>3. CASE m = "Intention"
  <2>1. latch' = [latch EXCEPT !.intention = TRUE]
      BY <1>3 DEF Acquired
  <2>. QED
      BY <1>1, <1>3, <2>1, Zenon DEF LatchEntries
<1>4. CASE m = "Shared"
  <2>1. latch' = [latch EXCEPT !.readers = @ + 1]
      BY <1>4, Zenon DEF Acquired
  <2>. QED
      BY <1>1, <1>4, <2>1, Zenon DEF LatchEntries
<1>. QED
    BY <1>2, <1>3, <1>4, Zenon

\* release: what is left of the entry for each mode.
LEMMA EntryReleased ==
    ASSUME latch \in LatchEntries, NEW m \in {"Exclusive", "Intention", "Shared"}, latch' = Released(m)
    PROVE  /\ latch' \in LatchEntries
           /\ latch'.version = IF m = "Exclusive" THEN latch.version + 1 ELSE latch.version
           /\ latch'.writer = (latch.writer /\ m # "Exclusive")
           /\ latch'.intention = (latch.intention /\ m # "Intention")
           /\ latch'.readers = IF m = "Shared" /\ latch.readers > 0 THEN latch.readers - 1 ELSE latch.readers
<1>1. /\ latch.readers \in Nat /\ latch.writer \in BOOLEAN /\ latch.intention \in BOOLEAN
      /\ latch.version \in Nat /\ latch.version + 1 \in Nat /\ FALSE \in BOOLEAN
    BY DEF LatchEntries
<1>2. CASE m = "Exclusive"
  <2>1. latch' = [latch EXCEPT !.writer = FALSE, !.version = @ + 1]
      BY <1>2 DEF Released
  <2>2. latch' \in LatchEntries
      BY <1>1, <2>1, Zenon DEF LatchEntries
  <2>3. latch'.writer = FALSE /\ latch'.version = latch.version + 1 /\ latch'.readers = latch.readers
      BY <1>1, <2>1 DEF LatchEntries
  <2>4. latch'.intention = latch.intention
      BY <1>1, <2>1 DEF LatchEntries
  <2>. QED
      BY <1>1, <1>2, <2>2, <2>3, <2>4, Zenon
<1>3. CASE m = "Intention"
  <2>1. latch' = [latch EXCEPT !.intention = FALSE]
      BY <1>3 DEF Released
  <2>2. latch' \in LatchEntries /\ latch'.intention = FALSE
      BY <1>1, <2>1, Zenon DEF LatchEntries
  <2>3. latch'.writer = latch.writer /\ latch'.version = latch.version /\ latch'.readers = latch.readers
      BY <1>1, <2>1, Zenon DEF LatchEntries
  <2>. QED
      BY <1>1, <1>3, <2>2, <2>3, Zenon
<1>4. CASE m = "Shared"
  <2>1. PICK n \in Nat : n = IF latch.readers > 0 THEN latch.readers - 1 ELSE latch.readers
      BY <1>1
  <2>2. latch' = [latch EXCEPT !.readers = n]
      BY <1>1, <1>4, <2>1, SMTT(30) DEF Released
  <2>3. latch' \in LatchEntries /\ latch'.readers = n /\ latch'.version = latch.version
      BY <1>1, <2>2, Zenon DEF LatchEntries
  <2>4. latch'.writer = latch.writer /\ latch'.intention = latch.intention
      BY <1>1, <2>2, Zenon DEF LatchEntries
  <2>. QED
      BY <1>1, <1>4, <2>1, <2>3, <2>4, Zenon
<1>. QED
    BY <1>2, <1>3, <1>4, Zenon

(* A latch is granted only to a thread that may share it with its holders. *)
LEMMA AcquireKeeps ==
    ASSUME LatchInv, NEW t \in LatchThreads, Acquire(t)
    PROVE  LatchInv'
<1>. DEFINE pc == IF t \in Writers THEN "write" ELSE IF t \in Intenders THEN "release" ELSE "read"
            r == [thread[t] EXCEPT !.pc = pc]
<1>1. /\ thread[t] \in ThreadRecords /\ Knows(t, thread[t]) /\ thread[t].pc = "latch"
      /\ thread \in [LatchThreads -> ThreadRecords]
      /\ latch \in LatchEntries
    BY Zenon DEF LatchInv, ILTypes, Acquire, At
<1>2. t \notin Defragmenters
    BY <1>1, Parts, Zenon DEF Knows, PlacesOf
<1>3. /\ can_acquire(Mode(t)) /\ latch' = Acquired(Mode(t)) /\ stamp' = stamp /\ clobbered' = clobbered
      /\ thread' = [thread EXCEPT ![t] = r]
    BY DEF Acquire, To
<1>4. /\ r \in ThreadRecords /\ r.pc = pc /\ r.page = thread[t].page /\ r.seen = thread[t].seen
    BY <1>1 DEF ThreadRecords, ThreadPlaces
<1>5. ~ latch.writer
    BY <1>3, Zenon DEF can_acquire
<1>. HIDE DEF r
<1>6. /\ thread' \in [LatchThreads -> ThreadRecords] /\ thread'[t] = r
      /\ \A u \in LatchThreads \ {t} : thread'[u] = thread[u]
    BY <1>1, <1>3, <1>4, Zenon
<1>7. /\ Holds(t)' /\ ~ Holds(t)
      /\ \A u \in LatchThreads \ {t} : Holds(u)' <=> Holds(u)
    BY <1>1, <1>4, <1>6, Zenon DEF Holds
<1>8. \A u \in Writers : ~ Holds(u)
    BY <1>5, Zenon DEF LatchInv, EntryTrue
<1>9. CASE t \in Writers
  <2>1. Mode(t) = "Exclusive" /\ latch.readers = 0 /\ ~ latch.intention
      BY <1>3, <1>9, ModeOf, Zenon DEF can_acquire
  <2>2. latch' \in LatchEntries
        /\ latch'.writer /\ latch'.readers = latch.readers /\ latch'.version = latch.version
        /\ latch'.intention = latch.intention
      BY <1>1, <1>3, <2>1, EntryAcquired, Zenon DEF LatchEntries
  <2>3. ReadHolders = {}
      BY <2>1, HoldersFinite, FS_EmptySet, Zenon DEF LatchInv, EntryTrue
  <2>4. \A u \in LatchThreads \ {t} : ~ Holds(u)
    <3>1. \A u \in Searchers \cup Intenders : ~ Holds(u)
        BY <2>1, <2>3, Zenon DEF LatchInv, EntryTrue, ReadHolders
    <3>2. \A u \in Defragmenters : ~ Holds(u)
        BY Parts, ZenonT(30) DEF LatchInv, Knows, PlacesOf, Holds, LatchThreads
    <3>. QED
        BY <1>8, <3>1, <3>2, Zenon DEF LatchThreads, Searchers
  <2>5. ReadHolders' = ReadHolders
      BY <1>7, <1>9, Parts, Zenon DEF ReadHolders, Searchers, LatchThreads
  <2>6. EntryTrue'
      BY <1>7, <1>9, <2>2, <2>4, <2>5, Parts, Zenon DEF LatchInv, EntryTrue, LatchThreads
  <2>7. ~ clobbered => Written(1)
      BY <1>5, NextPage, SMTT(30) DEF LatchInv, ILTypes, Whole, Written
  <2>8. Knows(t, thread[t])'
    <3>1. r.page = 1 /\ t \notin Searchers /\ pc \in PlacesOf(t) /\ pc = "write"
        BY <1>1, <1>4, <1>9, Parts, Zenon DEF Knows, PlacesOf
    <3>2. (Written(1))' = Written(1)
        BY <1>3, ZenonT(30) DEF Written
    <3>. QED
        BY <1>3, <1>4, <1>6, <2>7, <3>1, <3>2, ZenonT(30) DEF Knows
  <2>9. ASSUME NEW u \in LatchThreads, u # t PROVE Knows(u, thread[u])'
    <3>1. Knows(u, thread[u]) /\ thread'[u] = thread[u] /\ ~ Holds(u)
        BY <1>6, <2>4, <2>9, Zenon DEF LatchInv
    <3>. QED
        BY <1>3, <2>2, <3>1, SMTT(30) DEF Knows, Holds, Current
  <2>. QED
      BY <1>3, <1>6, <2>2, <2>6, <2>8, <2>9, Zenon DEF LatchInv, ILTypes
<1>10. CASE t \notin Writers
  <2>1. Mode(t) = (IF t \in Intenders THEN "Intention" ELSE "Shared") /\ (t \in Intenders \/ t \in Searchers)
      BY <1>2, <1>10, ModeOf, Zenon DEF LatchThreads, Searchers
  <2>2. /\ latch' \in LatchEntries
        /\ latch'.writer = latch.writer /\ latch.writer \in BOOLEAN /\ latch'.version = latch.version
        /\ t \in Intenders => latch'.intention /\ latch'.readers = latch.readers
        /\ t \notin Intenders => latch'.intention = latch.intention /\ latch'.readers = latch.readers + 1
      BY <1>1, <1>3, <2>1, EntryAcquired, Zenon DEF LatchEntries
  <2>3. latch'.readers = Cardinality(ReadHolders')
    <3>1. CASE t \in Intenders
      <4>1. ReadHolders' = ReadHolders
          BY <1>7, <3>1, Parts, Zenon DEF ReadHolders, Searchers, LatchThreads
      <4>. QED
          BY <2>2, <3>1, <4>1, Zenon DEF LatchInv, EntryTrue
    <3>2. CASE t \in Searchers
      <4>1. ReadHolders' = ReadHolders \cup {t} /\ t \notin ReadHolders
          BY <1>7, <3>2 DEF ReadHolders, Searchers, LatchThreads
      <4>2. Cardinality(ReadHolders') = Cardinality(ReadHolders) + 1
          BY <4>1, HoldersFinite, FS_AddElement, Zenon
      <4>. QED
          BY <2>2, <3>2, <4>2, Parts, Zenon DEF LatchInv, EntryTrue
    <3>. QED
        BY <2>1, <3>1, <3>2, Zenon
  <2>4. /\ \A u \in Writers : ~ Holds(u)'
        /\ \A u \in Intenders : Holds(u)' => latch'.intention
    <3>1. \A u \in Writers : u \in LatchThreads \ {t}
        BY <1>10 DEF LatchThreads
    <3>2. \A u \in Intenders : u \in LatchThreads
        BY DEF LatchThreads
    <3>3. \A u \in Intenders : Holds(u) => latch.intention
        BY DEF LatchInv, EntryTrue
    <3>. QED
        BY <1>7, <1>8, <2>2, <3>1, <3>2, <3>3, Zenon
  <2>5. EntryTrue'
      BY <1>5, <2>2, <2>3, <2>4, ZenonT(30) DEF EntryTrue
  <2>6. Knows(t, thread[t])'
    <3>1. pc \in PlacesOf(t) /\ pc \in {"read", "release"} /\ (t \in Searchers => thread[t].seen = {})
          /\ (pc = "release" => t \notin Searchers) /\ (pc = "read" => t \in Searchers)
        BY <1>1, <1>2, <1>10, <2>1, Parts, SMTT(30) DEF Knows, PlacesOf
    <3>. QED
        BY <1>3, <1>4, <1>6, <1>10, <3>1, Zenon DEF Knows, Current
  <2>7. ASSUME NEW u \in LatchThreads, u # t PROVE Knows(u, thread[u])'
    <3>1. Knows(u, thread[u]) /\ thread'[u] = thread[u]
        BY <1>6, <2>7 DEF LatchInv
    <3>. QED
        BY <1>3, <2>2, <3>1, ZenonT(30) DEF Knows, Current, Whole, Written
  <2>8. (~ clobbered /\ ~ latch.writer => Whole)'
      BY <1>3, <2>2 DEF LatchInv, Whole
  <2>. QED
      BY <1>3, <1>6, <2>2, <2>5, <2>6, <2>7, <2>8, Zenon DEF LatchInv, ILTypes
<1>. QED
    BY <1>9, <1>10, Zenon

(* A release by an exclusive holder raises the version, so that no search  *)
(* that overlapped it is validated, or marks the one between its two       *)
(* validating calls.                                                       *)
LEMMA ReleaseKeeps ==
    ASSUME LatchInv, NEW t \in LatchThreads, ReleaseLatch(t)
    PROVE  LatchInv'
<1>1. /\ thread[t] \in ThreadRecords /\ Knows(t, thread[t]) /\ thread[t].pc = "release"
      /\ thread \in [LatchThreads -> ThreadRecords]
      /\ latch \in LatchEntries
    BY DEF LatchInv, ILTypes, ReleaseLatch, At
<1>2. t \notin Defragmenters /\ Holds(t)
    BY <1>1, Parts DEF Knows, PlacesOf, Holds
<1>3. latch' = Released(Mode(t)) /\ thread' = Woken(t) /\ stamp' = stamp /\ clobbered' = clobbered
    BY Zenon DEF ReleaseLatch
<1>4. /\ Rest(t) \in ThreadRecords /\ Rest(t).pc = "idle" /\ Rest(t).seen = {} /\ Rest(t).page = 1
    BY <1>1, NextPage, Zenon DEF Rest, ThreadRecords, ThreadPlaces
<1>5. ASSUME NEW u \in LatchThreads, u # t
      PROVE  /\ thread'[u] \in ThreadRecords
             /\ thread'[u].pc = IF thread[u].pc = "asleep" THEN "latch" ELSE thread[u].pc
             /\ t \in Writers /\ thread[u].pc = "unlatched" => thread'[u].late
             /\ t \notin Writers => thread'[u].late = thread[u].late
             /\ thread[u].late => thread'[u].late
             /\ thread'[u].seen = thread[u].seen /\ thread'[u].page = thread[u].page
             /\ thread'[u].before = thread[u].before
  <2>. DEFINE pc == IF thread[u].pc = "asleep" THEN "latch" ELSE thread[u].pc
              late == thread[u].late \/ (t \in Writers /\ thread[u].pc = "unlatched")
  <2>1. thread[u] \in ThreadRecords /\ thread'[u] = [thread[u] EXCEPT !.pc = pc, !.late = late]
      BY <1>1, <1>3, <1>5, Zenon DEF Woken
  <2>2. pc \in ThreadPlaces /\ late \in BOOLEAN /\ thread[u].late \in BOOLEAN
      BY <2>1 DEF ThreadRecords, ThreadPlaces
  <2>. HIDE DEF pc, late
  <2>3. thread'[u] \in ThreadRecords
      BY <2>1, <2>2, Zenon DEF ThreadRecords
  <2>4. /\ thread'[u].pc = pc /\ thread'[u].late = late
        /\ thread'[u].seen = thread[u].seen /\ thread'[u].page = thread[u].page
        /\ thread'[u].before = thread[u].before
      BY <2>1, Zenon DEF ThreadRecords
  <2>. QED
      BY <2>2, <2>3, <2>4, Zenon DEF pc, late
<1>6. thread'[t] = Rest(t) /\ thread' \in [LatchThreads -> ThreadRecords]
    BY <1>1, <1>3, <1>4, <1>5, Zenon DEF Woken
<1>7. ~ Holds(t)' /\ \A u \in LatchThreads \ {t} : Holds(u)' <=> Holds(u)
    BY <1>4, <1>5, <1>6, ZenonT(30) DEF Holds
<1>8. Knows(t, thread[t])'
  <2>1. "idle" \in PlacesOf(t)
      BY Zenon DEF PlacesOf
  <2>. QED
      BY <1>4, <1>6, <2>1 DEF Knows
<1>9. CASE t \in Writers
  <2>1. Mode(t) = "Exclusive"
      BY <1>9, ModeOf, Zenon
  <2>2. latch' \in LatchEntries
        /\ latch'.writer = FALSE /\ latch'.readers = latch.readers /\ latch'.version = latch.version + 1
        /\ latch'.intention = latch.intention
      BY <1>1, <1>3, <2>1, EntryReleased, Zenon DEF LatchEntries
  <2>3. \A u \in LatchThreads : ~ Holds(u)'
      BY <1>2, <1>7, <1>9, Zenon DEF LatchInv, EntryTrue
  <2>4. ReadHolders' = ReadHolders
      BY <1>2, <1>7, <1>9, Parts, Zenon DEF LatchInv, EntryTrue, ReadHolders, Searchers, LatchThreads
  <2>5. EntryTrue'
      BY <2>2, <2>3, <2>4, ZenonT(30) DEF LatchInv, EntryTrue, LatchThreads
  <2>6. (~ clobbered => Whole)'
      BY <1>1, <1>3, <1>9, Zenon DEF Knows, Whole
  <2>7. ASSUME NEW u \in LatchThreads, u # t PROVE Knows(u, thread[u])'
    <3>1. Knows(u, thread[u]) /\ ~ Holds(u)
        BY <1>2, <1>9, <2>7, Zenon DEF LatchInv, EntryTrue
    <3>2. thread'[u].pc \in PlacesOf(u)
        BY <1>5, <2>7, <3>1, Zenon DEF Knows, PlacesOf
    <3>3. thread[u].before \in Nat /\ latch.version \in Nat
        BY <1>1, Zenon DEF ThreadRecords, LatchEntries
    <3>4. thread'[u].before <= latch.version => thread'[u].before <= latch'.version /\ thread'[u].before # latch'.version
        BY <1>5, <2>2, <2>7, <3>3, SMTT(30)
    <3>5. thread'[u].pc \notin {"write", "read", "found", "release"}
        BY <1>5, <2>7, <3>1, Zenon DEF Holds
    <3>6. CASE thread[u].pc = "asleep"
        BY <1>5, <2>7, <3>1, <3>2, <3>6, ZenonT(30) DEF Knows
    <3>7. CASE thread[u].pc # "asleep"
        BY <1>3, <1>5, <1>9, <2>7, <3>1, <3>2, <3>4, <3>5, <3>7, SMTT(30) DEF Knows
    <3>. QED
        BY <3>6, <3>7, Zenon
  <2>. QED
      BY <1>3, <1>6, <1>8, <2>2, <2>5, <2>6, <2>7, Zenon DEF LatchInv, ILTypes
<1>10. CASE t \notin Writers
  <2>1. Mode(t) = (IF t \in Intenders THEN "Intention" ELSE "Shared") /\ (t \in Intenders \/ t \in Searchers)
      BY <1>2, <1>10, ModeOf, Zenon DEF LatchThreads, Searchers
  <2>2. /\ latch' \in LatchEntries
        /\ latch'.writer = latch.writer /\ latch.writer \in BOOLEAN /\ latch'.version = latch.version
        /\ t \in Intenders => latch'.readers = latch.readers
        /\ t \notin Intenders => /\ latch'.intention = latch.intention
                                 /\ latch'.readers = IF latch.readers > 0 THEN latch.readers - 1 ELSE latch.readers
      BY <1>1, <1>3, <2>1, EntryReleased, Zenon DEF LatchEntries
  <2>3. latch'.readers = Cardinality(ReadHolders')
    <3>1. CASE t \in Intenders
      <4>1. ReadHolders' = ReadHolders
          BY <1>7, <3>1, Parts, Zenon DEF ReadHolders, Searchers, LatchThreads
      <4>. QED
          BY <2>2, <3>1, <4>1, Zenon DEF LatchInv, EntryTrue
    <3>2. CASE t \in Searchers
      <4>1. ReadHolders' = ReadHolders \ {t} /\ t \in ReadHolders
          BY <1>2, <1>7, <3>2, Zenon DEF ReadHolders, Searchers, LatchThreads
      <4>2. Cardinality(ReadHolders') = Cardinality(ReadHolders) - 1
          BY <4>1, HoldersFinite, FS_RemoveElement, Zenon
      <4>3. Cardinality(ReadHolders) # 0
          BY <4>1, HoldersFinite, FS_EmptySet, Zenon
      <4>. QED
          BY <2>2, <3>2, <4>2, <4>3, HoldersFinite, Parts, SMTT(30) DEF LatchInv, EntryTrue
    <3>. QED
        BY <2>1, <3>1, <3>2, SMTT(30)
  <2>4. \A u \in Intenders : Holds(u)' => latch'.intention
    <3>1. CASE t \in Intenders
      <4>1. \A u \in Intenders : u = t
          BY <3>1, LatchAssumption, ZenonT(30)
      <4>. QED
          BY <1>7, <4>1, Zenon
    <3>2. CASE t \notin Intenders
        BY <1>7, <2>2, <3>2, Zenon DEF LatchInv, EntryTrue, LatchThreads
    <3>. QED
        BY <3>1, <3>2, Zenon
  <2>5. \A u \in Writers : ~ Holds(u) /\ ~ Holds(u)'
    <3>1. \A u \in Writers : u \in LatchThreads \ {t} /\ t \in LatchThreads \ {u}
        BY <1>10, Zenon DEF LatchThreads
    <3>. QED
        BY <1>2, <1>7, <3>1, Zenon DEF LatchInv, EntryTrue
  <2>6. EntryTrue'
      BY <2>2, <2>3, <2>4, <2>5, ZenonT(30) DEF LatchInv, EntryTrue
  <2>7. ASSUME NEW u \in LatchThreads, u # t PROVE Knows(u, thread[u])'
    <3>1. Knows(u, thread[u])
        BY Zenon DEF LatchInv
    <3>2. thread'[u].pc \in PlacesOf(u)
        BY <1>5, <2>7, <3>1, ZenonT(30) DEF Knows, PlacesOf
    <3>. QED
        BY <1>3, <1>5, <1>10, <2>2, <2>7, <3>1, <3>2, SMTT(30) DEF Knows, Current, Whole, Written
  <2>8. (~ clobbered /\ ~ latch.writer => Whole)'
      BY <1>3, <2>2, Zenon DEF LatchInv, Whole
  <2>. QED
      BY <1>3, <1>6, <1>8, <2>2, <2>6, <2>7, <2>8, Zenon DEF LatchInv, ILTypes
<1>. QED
    BY <1>9, <1>10

\* Every step of every thread keeps the invariant.
LEMMA NextLatchInv == LatchInv /\ [ILNext]_ilvars => LatchInv'
<1>. SUFFICES ASSUME LatchInv, [ILNext]_ilvars PROVE LatchInv'
    BY Zenon
<1>1. CASE UNCHANGED ilvars
  <2>1. ILTypes' /\ EntryTrue'
      BY <1>1, Zenon DEF ilvars, LatchInv, ILTypes, EntryTrue, ReadHolders, Holds
  <2>2. (~ clobbered /\ ~ latch.writer => Whole)'
      BY <1>1, Zenon DEF ilvars, LatchInv, Whole
  <2>3. \A t \in LatchThreads : Knows(t, thread[t])'
      BY <1>1, SMTT(30) DEF ilvars, LatchInv, Knows, Whole, Written, Current
  <2>. QED
      BY <2>1, <2>2, <2>3, Zenon DEF LatchInv
<1>2. ASSUME NEW t \in LatchThreads, Start(t) \/ ThreadStep(t) PROVE LatchInv'
    BY <1>2, StartKeeps, AcquireKeeps, WaitKeeps, ReleaseKeeps, WriteKeeps, ReadKeeps, FoundKeeps,
       OptimistKeeps, ReturnedKeeps, DefragKeeps, Zenon DEF ThreadStep
<1>. QED
    BY <1>1, <1>2 DEF ILNext

(* What was seen once is seen whole.                                       *)
LEMMA SeenWhole ==
    ASSUME NEW S, \A x, y \in S : x = y
    PROVE  Cardinality(S) <= 1 /\ (S # {} => Cardinality(S) = 1)
<1>1. CASE S = {}
    BY <1>1, FS_EmptySet, SMTT(30)
<1>2. CASE S # {}
  <2>1. PICK x \in S : S = {x}
      BY <1>2
  <2>. QED
      BY <2>1, FS_Singleton, SMTT(30)
<1>. QED
    BY <1>1, <1>2, Zenon

\* For every number of threads and pages: an exclusive holder of the latch is its only holder,
\* the entry counts its holders, a latched search never sees half of a mutation, and an
\* optimistic one that is validated has not, unless a writer released the latch between the
\* two calls that validate it (LatchTable::latch, release, search, search_optimistic).
THEOREM LatchDoesItsWork == ILSpec => []LatchProtects
<1>1. LatchInv => LatchProtects
  <2>. SUFFICES ASSUME LatchInv PROVE LatchProtects
      OBVIOUS
  <2>1. ExclusiveIsAlone
      BY Zenon DEF LatchInv, EntryTrue, ExclusiveIsAlone, ReadHolders, Searchers
  <2>2. \A S : Current(S) => \A x, y \in S : x = y
      BY LatchAssumption, SMTT(30) DEF Current
  <2>3. LatchedReadsWhole
    <3>1. ASSUME ~ clobbered, NEW t \in LatchedReaders \cup Optimists, At(t, "found")
          PROVE  Cardinality(thread[t].seen) <= 1
      <4>1. Current(thread[t].seen)
          BY <3>1, Zenon DEF LatchInv, Knows, At, LatchThreads
      <4>. QED
          BY <2>2, <4>1, SeenWhole, Zenon
    <3>. QED
        BY <3>1, Zenon DEF LatchedReadsWhole
  <2>4. ValidatedReadsWhole
    <3>1. ASSUME ~ clobbered, NEW t \in Optimists, At(t, "returned"), ~ thread[t].late
          PROVE  Cardinality(thread[t].seen) = 1
      <4>1. thread[t].seen # {} /\ \A x, y \in thread[t].seen : x = y
          BY <3>1 DEF LatchInv, Knows, At, LatchThreads
      <4>. QED
          BY <4>1, SeenWhole, ZenonT(30)
    <3>. QED
        BY <3>1 DEF ValidatedReadsWhole
  <2>. QED
      BY <2>1, <2>3, <2>4, Zenon DEF LatchProtects
<1>. QED
    BY <1>1, InitLatchInv, NextLatchInv, PTL DEF ILSpec

-----------------------------------------------------------------------------
(***************************************************************************)
(* The adjacency list, for any number of edges.  DoublyLinked is inductive *)
(* together with the types; it says nothing of what collect meets, since a *)
(* ring of edges beside the list is linked too.  Grounded excludes rings:  *)
(* in every non-empty set of linked slots one has no predecessor in the    *)
(* set.  A least fixpoint such as the walk of collect then reaches         *)
(* everything that is linked.                                              *)
(***************************************************************************)
\* The functions of adjacency.rs keep slots in slot fields.
LEMMA ALTypeInvariant == ALSpec => []ALTypeOK
<1>1. ALInit => ALTypeOK
  <2> SUFFICES ASSUME ALInit PROVE ALTypeOK
    OBVIOUS
  <2>1. /\ nxt \in [AdjSides -> [AdjEdges -> SlotOrNull]]
        /\ prv \in [AdjSides -> [AdjEdges -> SlotOrNull]]
        /\ head \in [AdjSides -> SlotOrNull]
    BY DEF ALInit, SlotOrNull
  <2>2. linked \in [AdjSides -> SUBSET AdjEdges]
    BY DEF ALInit
  <2>3. misused \in BOOLEAN
    BY Zenon DEF ALInit
  <2> QED BY <2>1, <2>2, <2>3, SMTT(30) DEF ALTypeOK
<1>2. ALTypeOK /\ [ALNext]_alvars => ALTypeOK'
  <2> SUFFICES ASSUME ALTypeOK, [ALNext]_alvars PROVE ALTypeOK'
    BY SMTT(30)
  <2> USE DEF ALTypeOK, SlotOrNull
  <2>1. ASSUME NEW s \in AdjSides, NEW x \in AdjEdges, link_head(s, x)
        PROVE ALTypeOK'
    BY <2>1, Zenon DEF link_head
  <2>2. ASSUME NEW s \in AdjSides, NEW x \in AdjEdges, unlink(s, x)
        PROVE ALTypeOK'
    <3>1. prv[s][x] \in SlotOrNull /\ nxt[s][x] \in SlotOrNull
      BY SMTT(30)
    <3>2. nxt' \in [AdjSides -> [AdjEdges -> SlotOrNull]]
      BY <2>2, <3>1, SMTT(30) DEF unlink
    <3>3. prv' \in [AdjSides -> [AdjEdges -> SlotOrNull]]
      BY <2>2, <3>1, SMTT(30) DEF unlink
    <3> QED BY <2>2, <3>1, <3>2, <3>3, SMTT(30) DEF unlink
  <2>3. CASE UNCHANGED alvars
    BY <2>3, Zenon DEF alvars
  <2> QED BY <2>1, <2>2, <2>3, Zenon DEF ALNext
<1> QED BY <1>1, <1>2, PTL DEF ALSpec

\* Linking an edge that is on no list at the head keeps the two chains mirrored.
LEMMA LinkKeeps ==
  ASSUME ALTypeOK, DoublyLinked, NEW s \in AdjSides, NEW x \in AdjEdges, link_head(s, x)
  PROVE  DoublyLinked'
<1> SUFFICES ASSUME ~misused', NEW t \in AdjSides
             PROVE  /\ head'[t] # NoSlot => head'[t] \in linked'[t] /\ prv'[t][head'[t]] = NoSlot
                    /\ \A y \in AdjEdges :
                       /\ nxt'[t][y] # NoSlot => y \in linked'[t] /\ nxt'[t][y] \in linked'[t] /\ prv'[t][nxt'[t][y]] = y
                       /\ prv'[t][y] # NoSlot => y \in linked'[t] /\ prv'[t][y] \in linked'[t] /\ nxt'[t][prv'[t][y]] = y
                       /\ y \in linked'[t] /\ prv'[t][y] = NoSlot => head'[t] = y
  BY DEF DoublyLinked
<1>1. ~misused /\ x \notin linked[s]
  BY ZenonT(30) DEF link_head
<1>2. CASE t # s
  BY <1>1, <1>2, SMTT(30) DEF DoublyLinked, link_head, ALTypeOK, SlotOrNull
<1>3. CASE t = s
  <2>1. /\ head'[t] = x /\ linked'[t] = linked[t] \cup {x}
        /\ nxt[t][x] = NoSlot /\ prv[t][x] = NoSlot
        /\ nxt'[t] = [nxt[t] EXCEPT ![x] = head[t]]
    BY <1>3, Zenon DEF link_head, ALTypeOK
  <2>2. CASE head[t] = NoSlot
    <3>1. prv'[t] = prv[t]
      BY <1>3, <2>2, ZenonT(30) DEF link_head
    <3> QED BY <1>1, <1>3, <2>1, <2>2, <3>1, NoSlotAssumption, SMTT(30) DEF DoublyLinked, ALTypeOK, SlotOrNull
  <2>3. CASE head[t] # NoSlot
    <3>1. prv'[t] = [prv[t] EXCEPT ![head[t]] = x]
      BY <1>3, <2>3, Zenon DEF link_head, ALTypeOK
    <3>2. head[t] \in AdjEdges /\ head[t] # x
      BY <1>1, <1>3, <2>3, SMTT(30) DEF DoublyLinked, ALTypeOK, SlotOrNull
    <3> QED BY <1>1, <1>3, <2>1, <2>3, <3>1, <3>2, NoSlotAssumption, SMTT(30) DEF DoublyLinked, ALTypeOK, SlotOrNull
  <2> QED BY <2>2, <2>3, Zenon
<1> QED BY <1>2, <1>3, ZenonT(30)

\* Unlinking an edge that is on the list joins its neighbours.
LEMMA UnlinkKeeps ==
  ASSUME ALTypeOK, DoublyLinked, NEW s \in AdjSides, NEW x \in AdjEdges, unlink(s, x)
  PROVE  DoublyLinked'
<1> SUFFICES ASSUME ~misused', NEW t \in AdjSides
             PROVE  /\ head'[t] # NoSlot => head'[t] \in linked'[t] /\ prv'[t][head'[t]] = NoSlot
                    /\ \A y \in AdjEdges :
                       /\ nxt'[t][y] # NoSlot => y \in linked'[t] /\ nxt'[t][y] \in linked'[t] /\ prv'[t][nxt'[t][y]] = y
                       /\ prv'[t][y] # NoSlot => y \in linked'[t] /\ prv'[t][y] \in linked'[t] /\ nxt'[t][prv'[t][y]] = y
                       /\ y \in linked'[t] /\ prv'[t][y] = NoSlot => head'[t] = y
  BY DEF DoublyLinked
<1>1. ~misused /\ x \in linked[s]
  BY ZenonT(30) DEF unlink
<1>2. CASE t # s
  BY <1>1, <1>2, SMTT(30) DEF DoublyLinked, unlink, ALTypeOK, SlotOrNull
<1>3. CASE t = s
  <2> DEFINE p == prv[t][x]
             n == nxt[t][x]
  <2>1. /\ linked'[t] = linked[t] \ {x}
        /\ nxt'[t] = [y \in AdjEdges |-> IF y = x THEN NoSlot ELSE IF y = p THEN n ELSE nxt[t][y]]
        /\ prv'[t] = [y \in AdjEdges |-> IF y = x THEN NoSlot ELSE IF y = n THEN p ELSE prv[t][y]]
        /\ head'[t] = IF p = NoSlot THEN n ELSE head[t]
    BY <1>3, Zenon DEF unlink, ALTypeOK
  <2>2. /\ p \in SlotOrNull /\ n \in SlotOrNull /\ head[t] \in SlotOrNull
        /\ linked[t] \subseteq AdjEdges
        /\ \A y \in AdjEdges : nxt[t][y] \in SlotOrNull /\ prv[t][y] \in SlotOrNull
    BY ZenonT(30) DEF ALTypeOK
  <2>3. /\ head[t] # NoSlot => head[t] \in linked[t] /\ prv[t][head[t]] = NoSlot
        /\ \A y \in AdjEdges :
             /\ nxt[t][y] # NoSlot => y \in linked[t] /\ nxt[t][y] \in linked[t] /\ prv[t][nxt[t][y]] = y
             /\ prv[t][y] # NoSlot => y \in linked[t] /\ prv[t][y] \in linked[t] /\ nxt[t][prv[t][y]] = y
             /\ y \in linked[t] /\ prv[t][y] = NoSlot => head[t] = y
    BY <1>1, Zenon DEF DoublyLinked
  <2>5. head'[t] # NoSlot => head'[t] \in linked'[t] /\ prv'[t][head'[t]] = NoSlot
    BY <1>1, <1>3, <2>1, <2>2, <2>3, NoSlotAssumption, SMTT(30) DEF SlotOrNull
  <2>6. ASSUME NEW y \in AdjEdges
        PROVE  nxt'[t][y] # NoSlot => y \in linked'[t] /\ nxt'[t][y] \in linked'[t] /\ prv'[t][nxt'[t][y]] = y
    BY <1>1, <1>3, <2>1, <2>2, <2>3, NoSlotAssumption, SMTT(30) DEF SlotOrNull
  <2>7. ASSUME NEW y \in AdjEdges
        PROVE  prv'[t][y] # NoSlot => y \in linked'[t] /\ prv'[t][y] \in linked'[t] /\ nxt'[t][prv'[t][y]] = y
    BY <1>1, <1>3, <2>1, <2>2, <2>3, NoSlotAssumption, SMTT(30) DEF SlotOrNull
  <2>8. ASSUME NEW y \in AdjEdges
        PROVE  y \in linked'[t] /\ prv'[t][y] = NoSlot => head'[t] = y
    BY <1>1, <1>3, <2>1, <2>2, <2>3, NoSlotAssumption, SMTT(30) DEF SlotOrNull
  <2> QED BY <2>5, <2>6, <2>7, <2>8, Zenon
<1> QED BY <1>2, <1>3, Zenon

\* Whatever the order of links and unlinks, the list stays doubly linked as long
\* as no edge is linked or unlinked twice (link_source_head, unlink_source and
\* their target counterparts).
THEOREM ListStaysLinked == ALSpec => []DoublyLinked
<1>1. ALInit => DoublyLinked
  BY NoSlotAssumption, SMTT(30) DEF ALInit, DoublyLinked
<1>2. ALTypeOK /\ DoublyLinked /\ [ALNext]_alvars => DoublyLinked'
  <2> SUFFICES ASSUME ALTypeOK, DoublyLinked, [ALNext]_alvars PROVE DoublyLinked'
    OBVIOUS
  <2>1. CASE ALNext
    BY <2>1, LinkKeeps, UnlinkKeeps, ZenonT(30) DEF ALNext
  <2>2. CASE UNCHANGED alvars
    BY <2>2, SMTT(30) DEF alvars, DoublyLinked
  <2> QED BY <2>1, <2>2, Zenon
<1> QED BY <1>1, <1>2, ALTypeInvariant, PTL DEF ALSpec

\* No part of a list is closed under predecessors, that is, no cycle lies beside the list: every
\* non-empty set of linked edges has one whose predecessor is not in it.
Grounded ==
  ~misused =>
    \A s \in AdjSides : \A C \in SUBSET linked[s] : C # {} => \E x \in C : prv[s][x] \notin C

\* A link puts the new edge in front; what follows it stays grounded.
LEMMA LinkGrounds ==
  ASSUME ALTypeOK, DoublyLinked, Grounded, NEW s \in AdjSides, NEW x \in AdjEdges, link_head(s, x)
  PROVE  Grounded'
<1> SUFFICES ASSUME ~misused', NEW t \in AdjSides, NEW C \in SUBSET linked'[t], C # {}
             PROVE  \E y \in C : prv'[t][y] \notin C
  BY Zenon DEF Grounded
<1>1. ~misused /\ x \notin linked[s]
  BY Zenon DEF link_head
<1>2. CASE t # s
  BY <1>1, <1>2, SMTT(30) DEF Grounded, link_head, ALTypeOK
<1>3. CASE t = s
  <2>1. /\ linked'[t] = linked[t] \cup {x} /\ prv[t][x] = NoSlot /\ linked[t] \subseteq AdjEdges
        /\ \A y \in AdjEdges : prv'[t][y] = prv[t][y] \/ (y = head[t] /\ prv'[t][y] = x)
    BY <1>3, Zenon DEF link_head, ALTypeOK
  <2>2. NoSlot \notin C
    BY <2>1, NoSlotAssumption, SMTT(30)
  <2>3. CASE x \in C
    <3>1. x # head[t]
      BY <1>1, <1>3, NoSlotAssumption, SMTT(30) DEF DoublyLinked
    <3> QED BY <2>1, <2>2, <2>3, <3>1, ZenonT(30)
  <2>4. CASE x \notin C
    <3>1. PICK y \in C : prv[t][y] \notin C
      BY <1>1, <2>1, <2>4, SMTT(30) DEF Grounded
    <3> QED BY <2>1, <2>4, <3>1, ZenonT(30)
  <2> QED BY <2>3, <2>4, Zenon
<1> QED BY <1>2, <1>3, Zenon

\* An unlink joins the neighbours; a set without a ground would have had none with the edge in it.
LEMMA UnlinkGrounds ==
  ASSUME ALTypeOK, DoublyLinked, Grounded, NEW s \in AdjSides, NEW x \in AdjEdges, unlink(s, x)
  PROVE  Grounded'
<1> SUFFICES ASSUME ~misused', NEW t \in AdjSides, NEW C \in SUBSET linked'[t], C # {}
             PROVE  \E y \in C : prv'[t][y] \notin C
  BY DEF Grounded
<1>1. ~misused /\ x \in linked[s]
  BY ZenonT(30) DEF unlink
<1>2. CASE t # s
  BY <1>1, <1>2, SMTT(30) DEF Grounded, unlink, ALTypeOK
<1>3. CASE t = s
  <2> DEFINE p == prv[t][x]
             n == nxt[t][x]
  <2>1. /\ linked'[t] = linked[t] \ {x} /\ linked[t] \subseteq AdjEdges
        /\ \A y \in AdjEdges : prv'[t][y] = IF y = x THEN NoSlot ELSE IF y = n THEN p ELSE prv[t][y]
    BY <1>3, Zenon DEF unlink, ALTypeOK
  <2>2. CASE n \in C
    <3>1. n # NoSlot /\ prv[t][n] = x
      BY <1>1, <2>1, <2>2, NoSlotAssumption, SMTT(30) DEF DoublyLinked
    <3>2. PICK y \in C \cup {x} : prv[t][y] \notin C \cup {x}
      <4>1. C \cup {x} \in SUBSET linked[t]
        BY <1>1, <1>3, <2>1, SMTT(30)
      <4> QED BY <1>1, <4>1, ZenonT(30) DEF Grounded
    <3>3. CASE y = x
      BY <2>1, <2>2, <3>2, <3>3, SMTT(30)
    <3>4. CASE y # x
      BY <2>1, <3>1, <3>2, <3>4, SMTT(30)
    <3> QED BY <3>3, <3>4, ZenonT(30)
  <2>3. CASE n \notin C
    <3>1. PICK y \in C : prv[t][y] \notin C
      BY <1>1, <2>1, Zenon DEF Grounded
    <3> QED BY <2>1, <2>3, <3>1, SMTT(30)
  <2> QED BY <2>2, <2>3
<1> QED BY <1>2, <1>3, SMTT(30)

\* The walk from the head meets every linked edge and no other: what it has not met would be a
\* set without a ground.
LEMMA WalkMeetsAll ==
  ASSUME ALTypeOK, DoublyLinked, Grounded
  PROVE  CollectsLinked
<1> SUFFICES ASSUME ~misused, NEW s \in AdjSides
             PROVE  collect(s) = linked[s]
  BY DEF CollectsLinked
<1>1. linked[s] \in SUBSET AdjEdges
  BY Zenon DEF ALTypeOK
<1>2. linked[s] \in Followed(s)
  BY <1>1, Zenon DEF Followed, DoublyLinked
<1>3. ASSUME NEW S \in Followed(s) PROVE linked[s] \subseteq S
  <2> DEFINE C == linked[s] \ S
  <2> SUFFICES ASSUME C # {} PROVE FALSE
    OBVIOUS
  <2>1. PICK x \in C : prv[s][x] \notin C
    BY Zenon DEF Grounded
  <2>2. x \in AdjEdges /\ x \in linked[s] /\ x \notin S
    BY <1>1, <2>1, Zenon
  <2>3. CASE prv[s][x] = NoSlot
    BY <2>2, <2>3, NoSlotAssumption, SMTT(30) DEF DoublyLinked, Followed
  <2>4. CASE prv[s][x] # NoSlot
    <3>1. prv[s][x] \in linked[s] /\ nxt[s][prv[s][x]] = x
      BY <2>2, <2>4, SMTT(30) DEF DoublyLinked
    <3>2. prv[s][x] \in S
      BY <2>1, <3>1
    <3> QED BY <2>2, <3>1, <3>2, NoSlotAssumption, Zenon DEF Followed
  <2> QED BY <2>3, <2>4, SMTT(30)
<1> QED BY <1>1, <1>2, <1>3, SMTT(30) DEF collect

\* The walk from the head collects exactly the linked edges, after any links and unlinks
\* (collect_outgoing, collect_incoming): none is lost, and none of another list is met.
THEOREM WalkIsComplete == ALSpec => []CollectsLinked
<1>1. ALInit => Grounded
  BY DEF ALInit, Grounded
<1>2. ALTypeOK /\ DoublyLinked /\ Grounded /\ [ALNext]_alvars => Grounded'
  <2> SUFFICES ASSUME ALTypeOK, DoublyLinked, Grounded, [ALNext]_alvars PROVE Grounded'
    OBVIOUS
  <2>1. CASE ALNext
    BY <2>1, LinkGrounds, UnlinkGrounds, Zenon DEF ALNext
  <2>2. CASE UNCHANGED alvars
    BY <2>2, Zenon DEF alvars, Grounded
  <2> QED BY <2>1, <2>2, SMTT(30)
<1>3. ALTypeOK /\ DoublyLinked /\ Grounded => CollectsLinked
  BY WalkMeetsAll
<1> QED BY <1>1, <1>2, <1>3, ALTypeInvariant, ListStaysLinked, PTL DEF ALSpec
=============================================================================
