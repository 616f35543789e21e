----------------------------- MODULE Superblock -----------------------------
(***************************************************************************)
(* The two superblock copies of the data file (storage/manager.rs          *)
(* sync_superblock, storage/meta.rs load_superblock): the primary in page  *)
(* 0, the mirror in page 1, each carrying a generation.  A sync writes the *)
(* mirror at gen+1, makes it durable, then writes the primary at gen+2.    *)
(* A crash or an I/O error may leave the copy being written old, new or    *)
(* torn.  The fields of the superblock are abstracted to a version number: *)
(* the number of changes made to the in-memory superblock.                 *)
(***************************************************************************)
EXTENDS Integers

CONSTANTS MaxVersion,    \* bound on the changes to the superblock
          MaxGeneration  \* bound on the generation a sync may reach

ASSUME SuperblockAssumption == MaxVersion \in Nat /\ MaxGeneration \in Nat

VARIABLES primary,      \* page 0: a copy, or Torn
          mirror,       \* page 1
          generation,   \* PageManager.superblock.generation
          version,      \* the in-memory superblock's other fields
          pc,           \* where the process is: idle, inside a sync, down, lost
          acked,        \* history: version of the last sync that returned Ok
          primaryOk,    \* history: when the last sync began, the primary was valid
                        \* and carried the in-memory generation
          reached       \* history: the newest version that is loaded, acknowledged,
                        \* or durable in the mirror of a sync still running

sbvars == <<primary, mirror, generation, version, pc, acked, primaryOk,
            reached>>

Copies == [valid : BOOLEAN, generation : Nat, version : Nat]

\* A copy that fails validate_superblock: a torn write breaks the checksum.
Torn == [valid |-> FALSE, generation |-> 0, version |-> 0]

\* encode_superblock of the in-memory superblock with generation g.
encode(g) == [valid |-> TRUE, generation |-> g, version |-> version]

\* What a write that did not complete leaves behind.
Interrupted(old, new) == {old, new, Torn}

\* After PageManager::init and its first sync: generation 1 became 3.
SBInit ==
  /\ primary = [valid |-> TRUE, generation |-> 3, version |-> 0]
  /\ mirror = [valid |-> TRUE, generation |-> 2, version |-> 0]
  /\ generation = 3
  /\ version = 0
  /\ pc = "idle"
  /\ acked = 0
  /\ primaryOk = TRUE
  /\ reached = 0

\* Allocation, checkpoint and recovery change fields of the superblock.
update ==
  /\ pc = "idle"
  /\ version < MaxVersion
  /\ version' = version + 1
  /\ UNCHANGED <<primary, mirror, generation, pc, acked, primaryOk, reached>>

\* sync_superblock is entered; the mirror's write_at is in flight.
sync_begin ==
  /\ pc = "idle"
  /\ generation + 2 <= MaxGeneration
  /\ pc' = "mirror"
  /\ primaryOk' = (primary.valid /\ primary.generation = generation)
  /\ UNCHANGED <<primary, mirror, generation, version, acked, reached>>

\* Mutant: the sync returns once the mirror is durable.
sync_mirror_ReturnsEarly ==
  /\ pc = "mirror"
  /\ mirror' = encode(generation + 1)
  /\ reached' = version
  /\ acked' = version
  /\ generation' = generation + 1
  /\ pc' = "idle"
  /\ UNCHANGED <<primary, version, primaryOk>>

\* The mirror's sync_all returned; the primary's write_at is in flight.
sync_mirror ==
  /\ pc = "mirror"
  /\ mirror' = encode(generation + 1)
  /\ reached' = version
  /\ pc' = "primary"
  /\ UNCHANGED <<primary, generation, version, acked, primaryOk>>

\* The primary's sync_all returned: sync_superblock returns Ok.
sync_primary ==
  /\ pc = "primary"
  /\ primary' = encode(generation + 2)
  /\ generation' = generation + 2
  /\ acked' = version
  /\ pc' = "idle"
  /\ UNCHANGED <<mirror, version, primaryOk, reached>>

\* The write in flight stops half way and the process is left in `next`.
Interrupt(next) ==
  /\ pc' = next
  /\ \/ /\ pc = "mirror"
        /\ mirror' \in Interrupted(mirror, encode(generation + 1))
        /\ UNCHANGED primary
     \/ /\ pc = "primary"
        /\ primary' \in Interrupted(primary, encode(generation + 2))
        /\ UNCHANGED mirror
  /\ UNCHANGED <<generation, version, acked, primaryOk>>

\* write_at or sync_all returns an error: `?` leaves generation unchanged.
sync_fails == Interrupt("idle") /\ reached' = acked

crash_in_sync == Interrupt("down") /\ UNCHANGED reached

crash_idle ==
  /\ pc = "idle"
  /\ pc' = "down"
  /\ UNCHANGED <<primary, mirror, generation, version, acked, primaryOk, reached>>

\* The copy load_superblock chooses: the valid one, of two the one with the
\* higher generation, the primary on a tie.
Chosen ==
  IF mirror.valid /\ (primary.valid => mirror.generation > primary.generation)
  THEN mirror
  ELSE primary

\* The next process opens the database.
load_superblock ==
  /\ pc = "down"
  /\ primary.valid \/ mirror.valid
  /\ generation' = Chosen.generation
  /\ version' = Chosen.version
  /\ reached' = Chosen.version
  /\ pc' = "idle"
  /\ UNCHANGED <<primary, mirror, acked, primaryOk>>

\* Both copies are invalid: load_superblock returns an error and no process
\* can open the database any more.
load_fails ==
  /\ pc = "down"
  /\ ~primary.valid /\ ~mirror.valid
  /\ pc' = "lost"
  /\ UNCHANGED <<primary, mirror, generation, version, acked, primaryOk, reached>>

SBNext ==
  \/ update
  \/ sync_begin
  \/ sync_mirror
  \/ sync_primary
  \/ sync_fails
  \/ crash_in_sync
  \/ crash_idle
  \/ load_superblock
  \/ load_fails

SBSpec == SBInit /\ [][SBNext]_sbvars

-----------------------------------------------------------------------------

\* The variables hold values of their types.
SBTypeOK ==
  /\ primary \in Copies
  /\ mirror \in Copies
  /\ generation \in Nat
  /\ version \in Nat
  /\ pc \in {"idle", "mirror", "primary", "down", "lost"}
  /\ acked \in Nat
  /\ primaryOk \in BOOLEAN
  /\ reached \in Nat

\* The staggered write of sync_superblock works when it starts from a sound
\* primary, valid and of the in-memory generation: then no crash and no I/O error inside the sync leaves the database
\* without a copy that load_superblock accepts.
OpensAfterSoundSync == pc = "lost" => ~primaryOk

\* "a crash always leaves at least one self-consistent copy": every crash,
\* also one that follows an earlier crash, leaves a database that opens.
AlwaysOpens == pc # "lost"

\* A superblock that a completed sync made durable is never rolled back: a
\* running process has at least the version of the last sync that returned Ok,
\* whatever crashes and failed syncs came between.
AckedSurvives == pc \notin {"down", "lost"} => version >= acked

\* "if its write is torn, the mirror at gen + 1 is a fully-consistent fallback
\* that still reflects this sync's state": after a sync that began with a sound
\* primary, the next process loads the newest superblock that was durable.
MirrorFallback ==
  [][pc = "down" /\ pc' = "idle" /\ primaryOk => version' >= reached]_sbvars

\* The generation tie-break of load_superblock never has to break a tie: two
\* valid copies have different generations, also after failed syncs that are
\* retried from the same in-memory generation.
GenerationsDiffer ==
  primary.valid /\ mirror.valid => primary.generation # mirror.generation

=============================================================================
