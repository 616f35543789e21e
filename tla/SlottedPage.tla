----------------------------- MODULE SlottedPage -----------------------------
(***************************************************************************)
(* The page layout of src/storage/page.rs: records grow from the front of  *)
(* the data area, the slot directory from its end.  A cell of the page     *)
(* holds one unit of a record or one slot, so that records and slots that  *)
(* overwrite each other are visible.  The callers are the storage engine,  *)
(* which inserts into a copy of the page and drops it when the record does *)
(* not fit, and the B+ tree page of src/index/page.rs, which checks the    *)
(* room first and rebuilds the page on every deletion.                     *)
(***************************************************************************)
EXTENDS Integers, Sequences, FiniteSets
LOCAL INSTANCE SequencesExt

CONSTANTS
    SPSize,    \* cells of the data area
    SPLengths, \* the record lengths that occur
    SPMaxOps   \* bound on the number of operations

VARIABLES
    cells,   \* the data area
    slot_count,   \* slot_count
    freeAt,  \* free_space_offset
    stored,  \* the records the callers expect, by slot; <<>> for a deleted one
    written, \* number of operations so far, which also names the records
    spkind,  \* who uses the page: the engine or a B+ tree
    squeezed \* insert has compacted the page and gone on

spvars == <<cells, slot_count, freeAt, stored, written, spkind, squeezed>>

SPPage == [cells |-> cells, slot_count |-> slot_count, freeAt |-> freeAt]

Blank == <<"blank", 0, 0>>

Slot(off, len) == <<"slot", off, len>>

DELETED == -1

\* The cells of record r
SPRecord(r, len) == [j \in 1..len |-> <<"record", r, j>>]

\* Slot 0 is the last cell
sp_slot(p, i) == p.cells[SPSize - i]

IsDeleted(p, i) == sp_slot(p, i)[2] = DELETED

sp_read(p, i) ==
    IF IsDeleted(p, i) THEN <<>>
    ELSE [j \in 1..sp_slot(p, i)[3] |-> p.cells[sp_slot(p, i)[2] + j]]

Overlay(p, off, rec) ==
    [p EXCEPT !.cells = [c \in DOMAIN @ |-> IF c \in (off + 1)..(off + Len(rec)) THEN rec[c - off] ELSE @[c]]]

SetSlot(p, i, s) == [p EXCEPT !.cells[SPSize - i] = s]

Room(p) == SPSize - p.freeAt - p.slot_count

sp_has_room(p, len) == len + 1 <= Room(p)

(***************************************************************************)
(* compact moves the live records in slot order, each to the end of those  *)
(* already moved, and writes the new slots in ascending order, although    *)
(* the directory is read from the end.                                     *)
(***************************************************************************)

LiveSlots(p) == SelectSeq([i \in 1..p.slot_count |-> i - 1], LAMBDA i : ~ IsDeleted(p, i))

Offsets(p) ==
    LET live == LiveSlots(p)
        off[n \in 0..Len(live)] == IF n = 0 THEN 0 ELSE off[n - 1] + sp_slot(p, live[n])[3]
    IN off

Moved(p) ==
    LET live == LiveSlots(p)
        off  == Offsets(p)
        Move(q, n) ==
            Overlay(q, off[n - 1],
                    [j \in 1..sp_slot(p, live[n])[3] |-> q.cells[sp_slot(p, live[n])[2] + j]])
        q[n \in 0..Len(live)] == IF n = 0 THEN p ELSE Move(q[n - 1], n)
    IN q[Len(live)]

sp_compact(p) ==
    LET live == LiveSlots(p)
        n    == Len(live)
        off  == Offsets(p)
    IN [cells  |-> [c \in 1..SPSize |->
                      IF c > SPSize - n
                      THEN LET i == c - (SPSize - n) IN Slot(off[i - 1], sp_slot(p, live[i])[3])
                      ELSE Moved(p).cells[c]],
        slot_count |-> n,
        freeAt |-> off[n]]

(***************************************************************************)
(* insert goes on with the slot_count and free_space_offset it read before *)
(* it compacted; insert_at reads free_space_offset again.                  *)
(***************************************************************************)

\* The smallest deleted slot among the first n that is large enough, or -1
BestFit(p, n, len) ==
    LET fit == {i \in 0..(n - 1) : i < p.slot_count /\ IsDeleted(p, i) /\ sp_slot(p, i)[3] >= len}
    IN IF fit = {} THEN -1
       ELSE CHOOSE i \in fit : \A j \in fit :
              \/ sp_slot(p, i)[3] < sp_slot(p, j)[3]
              \/ sp_slot(p, i)[3] = sp_slot(p, j)[3] /\ i <= j

\* the page after the insertion and the slot, -1 for None
sp_insert(p, rec) ==
    LET len  == Len(rec)
        q    == IF sp_has_room(p, len) THEN p ELSE sp_compact(p)
        best == BestFit(q, p.slot_count, len)
        idx  == IF best = -1 THEN q.slot_count ELSE best
        data == Overlay(q, p.freeAt, rec)
    IN IF ~ sp_has_room(q, len) THEN [page |-> q, idx |-> -1]
       ELSE [page |-> [SetSlot(data, idx, Slot(p.freeAt, len))
                         EXCEPT !.slot_count = IF best = -1 THEN @ + 1 ELSE @, !.freeAt = p.freeAt + len],
             idx  |-> idx]

\* an insert_at that overwrites the slot at its position instead of shifting
sp_insert_at_NoShift(p, i, rec) ==
    LET pos == IF i < p.slot_count THEN i ELSE p.slot_count
    IN [page |-> [SetSlot(Overlay(p, p.freeAt, rec), pos, Slot(p.freeAt, Len(rec)))
                    EXCEPT !.slot_count = @ + 1, !.freeAt = @ + Len(rec)],
        idx  |-> pos]

sp_insert_at(p, i, rec) ==
    LET len  == Len(rec)
        q    == IF sp_has_room(p, len) THEN p ELSE sp_compact(p)
        data == Overlay(q, q.freeAt, rec)
        pos  == IF i < q.slot_count THEN i ELSE q.slot_count
    IN IF ~ sp_has_room(q, len) THEN [page |-> q, idx |-> -1]
       ELSE [page |-> [cells |-> [c \in 1..SPSize |->
                           LET k == SPSize - c
                           IN IF k > q.slot_count THEN data.cells[c]
                              ELSE IF k = pos THEN Slot(q.freeAt, len)
                              ELSE IF k > pos THEN sp_slot(data, k - 1) ELSE sp_slot(data, k)],
                       slot_count |-> q.slot_count + 1, freeAt |-> q.freeAt + len],
             idx  |-> pos]

\* the slot keeps its length for the best fit
sp_delete(p, i) == SetSlot(p, i, Slot(DELETED, sp_slot(p, i)[3]))

EmptyPage == [cells |-> [c \in 1..SPSize |-> Blank], slot_count |-> 0, freeAt |-> 0]

\* BTreePage::compact: a new page with the live records in slot order
sp_rebuild(p) ==
    LET live == LiveSlots(p)
        q[n \in 0..Len(live)] ==
            IF n = 0 THEN EmptyPage ELSE sp_insert_at(q[n - 1], n - 1, sp_read(p, live[n])).page
    IN q[Len(live)]

(***************************************************************************)
(* The callers.                                                            *)
(***************************************************************************)

SPInit ==
    /\ cells = EmptyPage.cells /\ slot_count = 0 /\ freeAt = 0
    /\ stored = <<>> /\ written = 0 /\ squeezed = FALSE
    /\ spkind \in {"data", "tree"}

SPStore(p) == cells' = p.cells /\ slot_count' = p.slot_count /\ freeAt' = p.freeAt

SPStep(kind) ==
    /\ spkind = kind /\ ~ squeezed
    /\ written < SPMaxOps /\ written' = written + 1
    /\ UNCHANGED spkind

\* insert_record, prepare_record: the changed copy is written back only when
\* the record went in
InsertRecord(len) ==
    LET rec == SPRecord(written, len)
        out == sp_insert(SPPage, rec)
    IN /\ SPStep("data")
       /\ out.idx # -1
       /\ SPStore(out.page)
       /\ squeezed' = ~ sp_has_room(SPPage, len)
       /\ stored' = [i \in 1..(IF out.idx < Len(stored) THEN Len(stored) ELSE out.idx + 1) |->
                        IF i = out.idx + 1 THEN rec ELSE stored[i]]

\* insert_locked: insert_raw_at after sp_has_room
InsertKey(i, len) ==
    /\ SPStep("tree")
    /\ i \in 0..Len(stored)
    /\ sp_has_room(SPPage, len)
    /\ SPStore(sp_insert_at(SPPage, i, SPRecord(written, len)).page)
    /\ stored' = InsertAt(stored, i + 1, SPRecord(written, len))
    /\ UNCHANGED squeezed

\* BTreePage::delete
DeleteKey(i) ==
    /\ SPStep("tree")
    /\ i \in 0..(Len(stored) - 1)
    /\ SPStore(sp_rebuild(sp_delete(SPPage, i)))
    /\ stored' = RemoveAt(stored, i + 1)
    /\ UNCHANGED squeezed

\* overwrite_record, overwrite_into_pending: in place, the length must be equal
Overwrite(i) ==
    /\ SPStep("data")
    /\ i \in 0..(Len(stored) - 1)
    /\ stored[i + 1] # <<>>
    /\ SPStore(Overlay(SPPage, sp_slot(SPPage, i)[2], SPRecord(written, Len(stored[i + 1]))))
    /\ stored' = [stored EXCEPT ![i + 1] = SPRecord(written, Len(@))]
    /\ UNCHANGED squeezed

\* SlottedPage::delete by itself, after which insert may reuse the slot or
\* compact; the slot that it fills is reported to the caller
DeleteRecord(i) ==
    /\ SPStep("data")
    /\ i \in 0..(Len(stored) - 1)
    /\ stored[i + 1] # <<>>
    /\ SPStore(sp_delete(SPPage, i))
    /\ stored' = [stored EXCEPT ![i + 1] = <<>>]
    /\ UNCHANGED squeezed

SPNext ==
    \/ \E len \in SPLengths : InsertRecord(len)
    \/ \E len \in SPLengths, i \in 0..SPSize : InsertKey(i, len)
    \/ \E i \in 0..SPSize : DeleteKey(i)
    \/ \E i \in 0..SPSize : Overwrite(i)
    \/ \E i \in 0..SPSize : DeleteRecord(i)

SPSpec == SPInit /\ [][SPNext]_spvars

(***************************************************************************)
(* Properties.                                                             *)
(***************************************************************************)

\* The counters stay inside the page and the slots keep off the records.
SPTypeOK == ~ squeezed =>
    /\ slot_count \in 0..SPSize /\ freeAt \in 0..SPSize
    /\ freeAt + slot_count <= SPSize
    /\ DOMAIN cells = 1..SPSize

\* Every slot reads back the record last stored under it, whatever was inserted,
\* shifted, overwritten, deleted, reused or rebuilt around it: no record overlaps
\* another one or the slot directory, and no slot changes owner (read, slot).
SlotsReadBack == ~ squeezed =>
    /\ slot_count = Len(stored)
    /\ \A i \in 0..(slot_count - 1) : sp_slot(SPPage, i)[1] = "slot"
    /\ \A i \in 0..(slot_count - 1) : sp_read(SPPage, i) = stored[i + 1]

\* Whatever insert accepts reads back under the slot it returns.
\* Refuted: README, section 5.
InsertReadsBack ==
    \A len \in SPLengths :
        LET rec == SPRecord(written, len)
            out == sp_insert(SPPage, rec)
        IN ~ squeezed /\ out.idx # -1 =>
             /\ out.page.freeAt <= SPSize
             /\ sp_slot(out.page, out.idx) = Slot(out.page.freeAt - len, len)
             /\ sp_read(out.page, out.idx) = rec

==============================================================================
