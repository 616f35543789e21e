----------------------------- MODULE DoubleWrite -----------------------------
(***************************************************************************)
(* The double-write file of wal/doublewrite.rs under its two users: the    *)
(* background flusher, which stages a batch and writes it in extents       *)
(* (buffer/flusher.rs), and flush_single_frame of the foreground           *)
(* (buffer/pool.rs).  Both share one file and take no common lock.  A      *)
(* crash tears what is being written; open then runs recover_torn_pages.   *)
(*                                                                         *)
(* A page image is its version number, Tattered when its checksum fails.   *)
(* Version 0 is the zeroed page, which verify_page_checksum accepts.       *)
(***************************************************************************)
EXTENDS Integers, FiniteSets
LOCAL INSTANCE FiniteSetsExt

CONSTANTS
    DwPages,      \* page ids, consecutive numbers
    MaxImage,   \* changes of a page in memory
    MaxDwFaults   \* crashes and I/O errors together

Tattered == -1

Agents == {"flusher", "front"}

VARIABLES
    memory,    \* the version of each page in the buffer pool
    place,     \* the image of each page in the data file
    staging,   \* the double-write file as the operating system sees it
    staged,    \* the double-write file as it was at its last sync
    busy,      \* pages whose frame is io_inflight
    agent,     \* what each user of the file is doing
    poisoned,  \* io_failed
    dwpast     \* what has happened so far

dwvars == <<memory, place, staging, staged, busy, agent, poisoned, dwpast>>

NoEntries == [p \in {} |-> 0]

Resting == [pc |-> "rest", todo |-> {}, extent |-> {}, ok |-> TRUE]

DWInit ==
    /\ memory = [p \in DwPages |-> 0]
    /\ place = [p \in DwPages |-> 0]
    /\ staging = NoEntries /\ staged = NoEntries
    /\ busy = {}
    /\ agent = [a \in Agents |-> Resting]
    /\ poisoned = FALSE
    /\ dwpast = [faults |-> 0, durable |-> [p \in DwPages |-> 0], up |-> TRUE,
                 overlap |-> FALSE, failed |-> FALSE]

\* a writer changes a page; it waits while the frame is io_inflight, and fix_page fails on a
\* page that does not pass its checksum
write_bytes(p) ==
    /\ dwpast.up /\ p \notin busy /\ memory[p] \in 0..MaxImage - 1
    /\ memory' = [memory EXCEPT ![p] = @ + 1]
    /\ UNCHANGED <<place, staging, staged, busy, agent, poisoned, dwpast>>

Others(a) == Agents \ {a}

Using(b) == agent[b].pc # "rest"

(***************************************************************************)
(* Staging: write_batch writes the whole file and syncs it.                *)
(***************************************************************************)

write_batch(a) ==
    /\ dwpast.up /\ ~ poisoned /\ agent[a] = Resting
    /\ \E S \in SUBSET {p \in DwPages \ busy : memory[p] # place[p]} :
          /\ S # {} /\ (a = "front" => Cardinality(S) = 1)
          /\ staging' = [p \in S |-> memory[p]]
          /\ busy' = busy \cup S
          /\ agent' = [agent EXCEPT ![a] = [Resting EXCEPT !.pc = "stage", !.todo = S]]
    /\ dwpast' = [dwpast EXCEPT !.overlap = @ \/ \E b \in Others(a) : Using(b)]
    /\ UNCHANGED <<memory, place, staged, poisoned>>

\* the sync of the file is left out
write_batch_synced_Lazy(a) ==
    /\ agent[a].pc = "stage"
    /\ agent' = [agent EXCEPT ![a].pc = "place"]
    /\ UNCHANGED <<memory, place, staging, staged, busy, poisoned, dwpast>>

write_batch_synced(a) ==
    /\ agent[a].pc = "stage"
    /\ staged' = staging
    /\ agent' = [agent EXCEPT ![a].pc = "place"]
    /\ UNCHANGED <<memory, place, staging, busy, poisoned, dwpast>>

\* the flusher releases its frames, flush_single_frame leaves its frame io_inflight
write_batch_fails(a) ==
    /\ agent[a].pc = "stage" /\ dwpast.faults < MaxDwFaults
    /\ busy' = IF a = "flusher" THEN busy \ agent[a].todo ELSE busy
    /\ agent' = [agent EXCEPT ![a] = Resting]
    /\ dwpast' = [dwpast EXCEPT !.faults = @ + 1]
    /\ UNCHANGED <<memory, place, staging, staged, poisoned>>

(***************************************************************************)
(* The writes in place.                                                    *)
(***************************************************************************)

\* the run of adjacent pages that begins with the smallest
NextExtent(S) == {p \in S : Min(S)..p \subseteq S}

write_extent(a) ==
    /\ agent[a].pc = "place" /\ agent[a].todo # {} /\ agent[a].extent = {}
    /\ agent' = [agent EXCEPT ![a].extent = NextExtent(agent[a].todo)]
    /\ UNCHANGED <<memory, place, staging, staged, busy, poisoned, dwpast>>

extent_written(a) ==
    LET ext == agent[a].extent
    IN /\ ext # {} /\ ~ poisoned
       /\ place' = [p \in DwPages |-> IF p \in ext THEN memory[p] ELSE place[p]]
       /\ busy' = busy \ ext
       /\ agent' = [agent EXCEPT ![a].extent = {}, ![a].todo = @ \ ext]
       /\ dwpast' = [dwpast EXCEPT !.durable = [p \in DwPages |-> IF p \in ext THEN memory[p] ELSE @[p]]]
       /\ UNCHANGED <<memory, staging, staged, poisoned>>

\* what a write of the pages S that was not completed leaves in the data file
Interim(S) ==
    {f \in [DwPages -> {Tattered} \cup 0..MaxImage] :
       \A p \in DwPages : IF p \in S THEN f[p] \in {place[p], memory[p], Tattered} ELSE f[p] = place[p]}

\* the write or its sync fails; an error of the sync poisons the pool.  The flusher releases the
\* frames and goes on, flush_single_frame returns and releases only after a failed sync
extent_fails(a) ==
    LET ext == agent[a].extent
    IN /\ ext # {}
       /\ \/ poisoned /\ UNCHANGED <<poisoned, place>> /\ dwpast' = [dwpast EXCEPT !.failed = TRUE]
          \/ /\ dwpast.faults < MaxDwFaults
             /\ poisoned' \in {poisoned, TRUE}
             /\ place' \in Interim(ext)
             /\ dwpast' = [dwpast EXCEPT !.faults = @ + 1, !.failed = TRUE]
       /\ busy' = IF a = "flusher" \/ poisoned' THEN busy \ ext ELSE busy
       /\ agent' = IF a = "front" THEN [agent EXCEPT ![a] = Resting]
                   ELSE [agent EXCEPT ![a].extent = {}, ![a].todo = @ \ ext, ![a].ok = FALSE]
       /\ UNCHANGED <<memory, staging, staged>>

\* after the last extent the file is emptied, unless one failed; an error of clear is ignored
clear(a) ==
    /\ agent[a].pc = "place" /\ agent[a].todo = {}
    /\ \/ agent[a].ok /\ staging' = NoEntries /\ staged' = NoEntries
       \/ (agent[a].ok => dwpast.faults < MaxDwFaults) /\ UNCHANGED <<staging, staged>>
    /\ agent' = [agent EXCEPT ![a] = Resting]
    /\ UNCHANGED <<memory, place, busy, poisoned, dwpast>>

(***************************************************************************)
(* Crash and recover_torn_pages.                                           *)
(***************************************************************************)

\* a file that was written and not synced is the old one, the new one or torn
Surviving == {staged, staging} \cup (IF staged = staging THEN {} ELSE {[p \in DOMAIN staging |-> Tattered]})

dw_crash ==
    /\ dwpast.up /\ dwpast.faults < MaxDwFaults
    /\ place' \in Interim(UNION {agent[a].extent : a \in Agents})
    /\ \E f \in Surviving : staging' = f /\ staged' = f
    /\ agent' = [a \in Agents |-> Resting]
    /\ busy' = {} /\ poisoned' = FALSE
    /\ dwpast' = [dwpast EXCEPT !.faults = @ + 1, !.up = FALSE]
    /\ UNCHANGED memory

\* the copy is taken only when the page in place is torn; its own checksum is not looked at
Restored(p) == IF p \in DOMAIN staging /\ place[p] = Tattered THEN staging[p] ELSE place[p]

recover_torn_pages ==
    /\ ~ dwpast.up
    /\ place' = [p \in DwPages |-> Restored(p)]
    /\ memory' = [p \in DwPages |-> Restored(p)]
    /\ dwpast' = [dwpast EXCEPT !.up = TRUE]
    /\ UNCHANGED <<staging, staged, busy, agent, poisoned>>

DWNext ==
    \/ \E p \in DwPages : write_bytes(p)
    \/ \E a \in Agents : \/ write_batch(a) \/ write_batch_synced(a) \/ write_batch_fails(a)
                         \/ write_extent(a) \/ extent_written(a) \/ extent_fails(a) \/ clear(a)
    \/ dw_crash \/ recover_torn_pages

DWSpec == DWInit /\ [][DWNext]_dwvars

(***************************************************************************)
(* Properties.                                                             *)
(***************************************************************************)

Whole == \A p \in DwPages : place[p] # Tattered

\* After recovery every page of the data file passes its checksum, as long as the two users of
\* the double-write file have never worked at the same time and no write in place has failed
NoTornAfterRecovery == (~ dwpast.overlap /\ ~ dwpast.failed) => (dwpast.up => Whole)

\* Recovery from the double-write file repairs every torn page, and takes back no completed flush:
\* recover_torn_pages never puts an older image over a page that was written and synced.
RecoveryRepairs ==
    [][/\ NoTornAfterRecovery'
       /\ (~ dwpast.up /\ dwpast'.up) =>
            \A p \in DwPages : place[p] # Tattered => place'[p] >= dwpast.durable[p]]_dwvars

\* Refuted: "If we crash between the DW sync and the data writes, recovery can restore any
\* partially-written page from the DW copy", with both users of the file running
OverlapHarmless == ~ dwpast.failed => (dwpast.up => Whole)

\* Refuted: "If any extent failed, leave the DW entry so recovery can repair it"
FailedExtentRepaired ==
    [][(~ dwpast.overlap /\ ~ dwpast.up /\ dwpast'.up) => Whole']_dwvars
=============================================================================
