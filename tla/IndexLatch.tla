----------------------------- MODULE IndexLatch -----------------------------
(***************************************************************************)
(* The structural latch of a B+ tree (src/index/latch.rs) and the threads  *)
(* of src/index/btree.rs and src/index/defrag.rs that meet there: writers, *)
(* which hold it exclusively over a mutation of several pages, latched     *)
(* readers, optimistic readers, a holder of an intention latch, and the    *)
(* defragmenter, which takes no latch at all.                              *)
(*                                                                         *)
(* A mutation gives every page of the path the same new stamp, one page a  *)
(* time; a reader that sees two stamps has seen half of a split.           *)
(***************************************************************************)
EXTENDS Integers, FiniteSets

CONSTANTS
    Writers, LatchedReaders, Optimists, Intenders, Defragmenters, \* the threads
    Casts,         \* the sets of threads that run together
    TreePages,     \* pages of one path, 1..n
    MaxLatchings,  \* operations of each thread
    optimistic_retry

VARIABLES
    latch,   \* [readers, writer, intention, version]: the LatchEntry
    stamp,   \* page -> stamp of the mutation that wrote it last
    thread,  \* thread -> [pc, page, seen, before, tries, late, runs]
    clobbered \* the defragmenter has put back a page that changed meanwhile

ilvars == <<latch, stamp, thread, clobbered>>

LatchThreads == Writers \cup LatchedReaders \cup Optimists \cup Intenders \cup Defragmenters

Disjoint(A, B) == A \cap B = {}

\* A thread plays one part.  The intention flag of the entry is one bit: the first of two
\* holders to release would clear it for both, so that at most one thread may ask for it.
ASSUME LatchAssumption ==
    /\ IsFiniteSet(LatchThreads)
    /\ Disjoint(Writers, LatchedReaders \cup Optimists \cup Intenders \cup Defragmenters)
    /\ Disjoint(LatchedReaders \cup Optimists, Intenders \cup Defragmenters)
    /\ Disjoint(LatchedReaders, Optimists) /\ Disjoint(Intenders, Defragmenters)
    /\ \A t, u \in Intenders : t = u
    /\ IsFiniteSet(TreePages) /\ TreePages # {} /\ TreePages = 1..Cardinality(TreePages)
    /\ MaxLatchings \in Nat /\ optimistic_retry \in Nat

Mode(t) ==
    CASE t \in Writers -> "Exclusive"
      [] t \in Intenders -> "Intention"
      [] OTHER -> "Shared"

Rest(t) == [pc |-> "idle", page |-> 1, seen |-> {}, before |-> 0, tries |-> 0,
            late |-> FALSE, runs |-> thread[t].runs]

ILInit ==
    /\ latch = [readers |-> 0, writer |-> FALSE, intention |-> FALSE, version |-> 0]
    /\ stamp = [p \in TreePages |-> 0]
    /\ \E cast \in Casts :
          thread = [t \in LatchThreads |->
                      [pc |-> "idle", page |-> 1, seen |-> {}, before |-> 0, tries |-> 0,
                       late |-> FALSE, runs |-> IF t \in cast THEN 0 ELSE MaxLatchings]]
    /\ clobbered = FALSE

At(t, pc) == thread[t].pc = pc

To(t, pc) == thread' = [thread EXCEPT ![t].pc = pc]

StartAt(t) ==
    IF t \in Optimists THEN "check" ELSE IF t \in Defragmenters THEN "get" ELSE "latch"

Start(t) ==
    /\ At(t, "idle") /\ thread[t].runs < MaxLatchings
    /\ thread' = [thread EXCEPT ![t].runs = @ + 1, ![t].pc = StartAt(t)]
    /\ UNCHANGED <<latch, stamp, clobbered>>

(***************************************************************************)
(* latch and release.  A thread that cannot acquire sleeps on the          *)
(* condition variable until a release wakes all.                           *)
(***************************************************************************)

can_acquire(mode) ==
    IF mode = "Exclusive"
    THEN latch.readers = 0 /\ ~ latch.writer /\ ~ latch.intention
    ELSE ~ latch.writer

Acquired(mode) ==
    CASE mode = "Shared"    -> [latch EXCEPT !.readers = @ + 1]
      [] mode = "Exclusive" -> [latch EXCEPT !.writer = TRUE]
      [] OTHER              -> [latch EXCEPT !.intention = TRUE]

Acquire(t) ==
    /\ At(t, "latch")
    /\ can_acquire(Mode(t))
    /\ latch' = Acquired(Mode(t))
    /\ To(t, IF t \in Writers THEN "write" ELSE IF t \in Intenders THEN "release" ELSE "read")
    /\ UNCHANGED <<stamp, clobbered>>

Wait(t) ==
    /\ At(t, "latch")
    /\ ~ can_acquire(Mode(t))
    /\ To(t, "asleep")
    /\ UNCHANGED <<latch, stamp, clobbered>>

Released(mode) ==
    CASE mode = "Shared"    -> [latch EXCEPT !.readers = IF @ > 0 THEN @ - 1 ELSE 0]
      [] mode = "Exclusive" -> [latch EXCEPT !.writer = FALSE, !.version = @ + 1]
      [] OTHER              -> [latch EXCEPT !.intention = FALSE]

\* a release that wakes nobody
Woken_None(t) == [thread EXCEPT ![t] = Rest(t)]

\* notify_all; a reader between its two validating calls is marked
Woken(t) ==
    [u \in LatchThreads |->
        IF u = t THEN Rest(t)
        ELSE [thread[u] EXCEPT !.pc = IF @ = "asleep" THEN "latch" ELSE @,
                               !.late = @ \/ (t \in Writers /\ thread[u].pc = "unlatched")]]

ReleaseLatch(t) ==
    /\ At(t, "release")
    /\ latch' = Released(Mode(t))
    /\ thread' = Woken(t)
    /\ UNCHANGED <<stamp, clobbered>>

(***************************************************************************)
(* insert and delete write page after page under the exclusive latch.      *)
(***************************************************************************)

WritePage(t) ==
    /\ At(t, "write")
    /\ stamp' = [stamp EXCEPT ![thread[t].page] = @ + 1]
    /\ thread' = [thread EXCEPT ![t].page = IF @ + 1 \in TreePages THEN @ + 1 ELSE 1,
                                ![t].pc = IF thread[t].page + 1 \in TreePages THEN "write" ELSE "release"]
    /\ UNCHANGED <<latch, clobbered>>

\* search: the descent under the shared latch
ReadPage(t) ==
    /\ At(t, "read")
    /\ thread' = [thread EXCEPT ![t].seen = @ \cup {stamp[thread[t].page]},
                                ![t].page = IF @ + 1 \in TreePages THEN @ + 1 ELSE 1,
                                ![t].pc = IF thread[t].page + 1 \in TreePages THEN "read" ELSE "found"]
    /\ UNCHANGED <<latch, stamp, clobbered>>

Found(t) ==
    /\ At(t, "found")
    /\ thread' = [thread EXCEPT ![t].pc = "release", ![t].seen = {}]
    /\ UNCHANGED <<latch, stamp, clobbered>>

(***************************************************************************)
(* optimistic_search: every call on the latch manager takes the table      *)
(* mutex by itself.                                                        *)
(***************************************************************************)

Retry(t) ==
    [thread EXCEPT ![t].seen = {}, ![t].late = FALSE, ![t].before = 0,
                   ![t].tries = IF @ < optimistic_retry THEN @ + 1 ELSE 0,
                   ![t].pc = IF thread[t].tries < optimistic_retry THEN "check" ELSE "latch"]

CheckUnlatched(t) ==
    /\ At(t, "check")
    /\ thread' = IF latch.writer THEN Retry(t) ELSE [thread EXCEPT ![t].pc = "version"]
    /\ UNCHANGED <<latch, stamp, clobbered>>

ReadVersion(t) ==
    /\ At(t, "version")
    /\ thread' = [thread EXCEPT ![t].before = latch.version, ![t].pc = "probe"]
    /\ UNCHANGED <<latch, stamp, clobbered>>

ProbePage(t) ==
    /\ At(t, "probe")
    /\ thread' = [thread EXCEPT ![t].seen = @ \cup {stamp[thread[t].page]},
                                ![t].page = IF @ + 1 \in TreePages THEN @ + 1 ELSE 1,
                                ![t].pc = IF thread[t].page + 1 \in TreePages THEN "probe" ELSE "validate"]
    /\ UNCHANGED <<latch, stamp, clobbered>>

\* the second reading of the version ...
ReadVersionAgain(t) ==
    /\ At(t, "validate")
    /\ thread' = IF thread[t].before # latch.version THEN Retry(t)
                 ELSE [thread EXCEPT ![t].pc = "unlatched"]
    /\ UNCHANGED <<latch, stamp, clobbered>>

\* a validation that does not ask for a writer
Validated_VersionOnly(t) ==
    /\ At(t, "unlatched")
    /\ thread' = [thread EXCEPT ![t].pc = "returned"]
    /\ UNCHANGED <<latch, stamp, clobbered>>

\* ... and only then the question whether a writer holds the latch
Validated(t) ==
    /\ At(t, "unlatched")
    /\ thread' = IF latch.writer THEN Retry(t) ELSE [thread EXCEPT ![t].pc = "returned"]
    /\ UNCHANGED <<latch, stamp, clobbered>>

Returned(t) ==
    /\ At(t, "returned")
    /\ thread' = [thread EXCEPT ![t] = Rest(t)]
    /\ UNCHANGED <<latch, stamp, clobbered>>

(***************************************************************************)
(* PageDefragmenter::run: get_page, compact_page, put_page_with_lsn, leaf  *)
(* after leaf.                                                             *)
(***************************************************************************)

GetLeaf(t) ==
    /\ At(t, "get")
    /\ thread' = [thread EXCEPT ![t].before = stamp[thread[t].page], ![t].pc = "put"]
    /\ UNCHANGED <<latch, stamp, clobbered>>

PutLeaf(t) ==
    LET p == thread[t].page
    IN /\ At(t, "put")
       /\ stamp' = [stamp EXCEPT ![p] = thread[t].before]
       /\ clobbered' = (clobbered \/ stamp[p] # thread[t].before)
       /\ thread' = IF p + 1 \in TreePages
                    THEN [thread EXCEPT ![t].page = p + 1, ![t].before = 0, ![t].pc = "get"]
                    ELSE [thread EXCEPT ![t] = Rest(t)]
       /\ UNCHANGED latch

ThreadStep(t) ==
    \/ Acquire(t) \/ Wait(t) \/ ReleaseLatch(t)
    \/ WritePage(t) \/ ReadPage(t) \/ Found(t)
    \/ CheckUnlatched(t) \/ ReadVersion(t) \/ ProbePage(t) \/ ReadVersionAgain(t)
    \/ Validated(t) \/ Returned(t)
    \/ GetLeaf(t) \/ PutLeaf(t)

ILNext == \E t \in LatchThreads : Start(t) \/ ThreadStep(t)

\* Every thread runs; the scheduler starves none
ILFairness == \A t \in LatchThreads : WF_ilvars(ThreadStep(t))

ILSpec == ILInit /\ [][ILNext]_ilvars /\ ILFairness

(***************************************************************************)
(* Properties.                                                             *)
(***************************************************************************)

Holds(t) == thread[t].pc \in {"write", "read", "found", "release"}

ILTypeOK ==
    /\ latch.readers \in 0..Cardinality(LatchThreads)
    /\ latch.writer \in BOOLEAN /\ latch.intention \in BOOLEAN /\ latch.version \in Nat
    /\ stamp \in [TreePages -> Nat]

\* A thread that holds the latch exclusively is its only holder, and the entry
\* counts exactly the holders there are (latch, release).
ExclusiveIsAlone ==
    /\ \A t \in Writers : Holds(t) => \A u \in LatchThreads \ {t} : ~ Holds(u)
    /\ latch.readers = Cardinality({t \in LatchedReaders \cup Optimists : Holds(t)})
    /\ latch.writer = (\E t \in Writers : Holds(t))

\* A latched search never sees half of a mutation.
LatchedReadsWhole ==
    ~ clobbered => \A t \in LatchedReaders \cup Optimists :
        At(t, "found") => Cardinality(thread[t].seen) <= 1

\* An optimistic search that is validated has not seen half of a mutation, if no
\* writer released the latch between the two calls that validate it.
ValidatedReadsWhole ==
    ~ clobbered => \A t \in Optimists :
        At(t, "returned") /\ ~ thread[t].late => Cardinality(thread[t].seen) = 1

\* The latch does its work: an exclusive holder is alone, and neither a latched search nor a
\* validated optimistic one returns half of a mutation (LatchTable, search_optimistic).
LatchProtects == ExclusiveIsAlone /\ LatchedReadsWhole /\ ValidatedReadsWhole

\* An optimistic search never returns what it read in the middle of a mutation.
\* Refuted: README, section 5.
OptimisticReadsWhole ==
    ~ clobbered => \A t \in Optimists : At(t, "returned") => Cardinality(thread[t].seen) = 1

\* No write to a page is undone by the rewrite of the defragmenter.
\* Refuted: README, section 5.
DefragKeepsWrites == ~ clobbered

\* Every latch request is granted and every search, also one that keeps being
\* disturbed, ends: nobody sleeps on the condition variable for ever.
LatchGranted == \A t \in LatchThreads : (thread[t].pc # "idle") ~> (thread[t].pc = "idle")

==============================================================================
