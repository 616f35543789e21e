----------------------------- MODULE GroupCommit -----------------------------
(***************************************************************************)
(* GroupCommitQueue of wal/group_commit.rs: threads enqueue their records  *)
(* in a bounded channel; the one that gets the leader lock collects a      *)
(* batch, appends it to the WAL, syncs once and answers every slot of the  *)
(* batch through its one-shot channel.  A thread that is not answered in   *)
(* time tries to become the leader itself.                                 *)
(*                                                                         *)
(* Each thread submits PerCommit records.  Time is not modelled: the       *)
(* window of the leader closes at some moment at which the channel is      *)
(* empty (recv_timeout takes a slot whenever there is one) or the batch is *)
(* full, and a thread that waits without an answer may time out at any     *)
(* moment.                                                                 *)
(***************************************************************************)
EXTENDS Integers, Sequences, FiniteSets

CONSTANTS
    Submitters,   \* the threads that call submit, once each
    NoLeader,     \* the leader lock is free
    Sizes,        \* pairs of a CHANNEL_CAPACITY and a BATCH_SIZE
    PerCommit,    \* records of one submission
    MaxGcFaults   \* append and flush errors

\* a submission without records appends nothing and is left out
ASSUME GcAssumption == NoLeader \notin Submitters /\ PerCommit \in Nat \ {0}

VARIABLES
    channel,   \* the slots in the bounded channel, each the thread that sent it
    leader,    \* the holder of leader_lock
    slots,     \* what the leader has collected and not yet answered
    logged,    \* the synced log
    unflushed, \* the buffer of the WalWriter
    outcome,   \* the flush_result of the leader, with the lsn of each slot
    inbox,     \* the one-shot channel of each thread
    gcpc,      \* where each thread is in submit
    gcfaults,
    sizes      \* the member of Sizes of this behaviour

gcvars == <<channel, leader, slots, logged, unflushed, outcome, inbox, gcpc, gcfaults, sizes>>

Capacity == sizes[1]
BatchSize == sizes[2]

Empty == [ok |-> FALSE, lsn |-> 0 - 1]   \* nothing was sent
Failed == [ok |-> FALSE, lsn |-> 0]
Success(lsn) == [ok |-> TRUE, lsn |-> lsn]

GCInit ==
    /\ channel = <<>> /\ slots = <<>> /\ leader = NoLeader
    /\ logged = <<>> /\ unflushed = <<>> /\ outcome = <<>>
    /\ inbox = [s \in Submitters |-> Empty]
    /\ gcpc = [s \in Submitters |-> "idle"]
    /\ gcfaults = 0
    /\ sizes \in Sizes

Go(s, pc) == gcpc' = [gcpc EXCEPT ![s] = pc]

(***************************************************************************)
(* submit                                                                  *)
(***************************************************************************)

\* a thread calls submit
submit(s) ==
    /\ gcpc[s] = "idle"
    /\ Go(s, "send")
    /\ UNCHANGED <<channel, leader, slots, logged, unflushed, outcome, inbox, gcfaults, sizes>>

\* blocks while the channel is full
send(s) ==
    /\ gcpc[s] = "send" /\ Len(channel) < Capacity
    /\ channel' = Append(channel, s)
    /\ Go(s, "elect")
    /\ UNCHANGED <<leader, slots, logged, unflushed, outcome, inbox, gcfaults, sizes>>

try_lock(s) ==
    /\ gcpc[s] = "elect"
    /\ IF leader = NoLeader
         THEN leader' = s /\ Go(s, "collect")
         ELSE UNCHANGED leader /\ Go(s, "wait")
    /\ UNCHANGED <<channel, slots, logged, unflushed, outcome, inbox, gcfaults, sizes>>

recv_result(s) ==
    /\ gcpc[s] \in {"wait", "led"} /\ inbox[s] # Empty
    /\ Go(s, "done")
    /\ UNCHANGED <<channel, leader, slots, logged, unflushed, outcome, inbox, gcfaults, sizes>>

\* the fix of Task 153 undone: a follower goes on waiting
recv_times_out_Waits(s) ==
    /\ gcpc[s] \in {"wait", "led"} /\ inbox[s] = Empty
    /\ Go(s, "wait")
    /\ UNCHANGED <<channel, leader, slots, logged, unflushed, outcome, inbox, gcfaults, sizes>>

recv_times_out(s) ==
    /\ gcpc[s] \in {"wait", "led"} /\ inbox[s] = Empty
    /\ Go(s, "elect")
    /\ UNCHANGED <<channel, leader, slots, logged, unflushed, outcome, inbox, gcfaults, sizes>>

(***************************************************************************)
(* run_leader_with                                                         *)
(***************************************************************************)

collect_slot(s) ==
    /\ gcpc[s] = "collect" /\ channel # <<>>
    /\ slots' = Append(slots, Head(channel))
    /\ channel' = Tail(channel)
    /\ Go(s, IF Len(slots) + 1 >= BatchSize THEN "append" ELSE "collect")
    /\ UNCHANGED <<leader, logged, unflushed, outcome, inbox, gcfaults, sizes>>

\* timeout of the window; with no slot at all the leader returns
close_window(s) ==
    /\ gcpc[s] = "collect" /\ channel = <<>>
    /\ IF slots = <<>> THEN leader' = NoLeader /\ Go(s, "led")
                       ELSE UNCHANGED leader /\ Go(s, "append")
    /\ UNCHANGED <<channel, slots, logged, unflushed, outcome, inbox, gcfaults, sizes>>

\* the records of a batch, slot after slot
RecordsOf(batch) ==
    [j \in 1..Len(batch) * PerCommit |->
        <<batch[((j - 1) \div PerCommit) + 1], ((j - 1) % PerCommit) + 1>>]

\* the lsn of the last record of slot i, when the log has `before' records
LastLsn(before, i) == before + i * PerCommit

Lsns(before, n) == [i \in 1..n |-> Success(LastLsn(before, i))]

\* every record is appended and the sync succeeds
write_batch(s) ==
    /\ gcpc[s] = "append"
    /\ logged' = logged \o unflushed \o RecordsOf(slots)
    /\ unflushed' = <<>>
    /\ outcome' = Lsns(Len(logged) + Len(unflushed), Len(slots))
    /\ Go(s, "notify")
    /\ UNCHANGED <<channel, leader, slots, inbox, gcfaults, sizes>>

\* an error that is noticed only after the slots were given their lsns
write_fails_Acks(s) ==
    /\ gcpc[s] = "append" /\ gcfaults < MaxGcFaults
    /\ unflushed' = unflushed \o RecordsOf(slots)
    /\ outcome' = Lsns(Len(logged) + Len(unflushed), Len(slots))
    /\ Go(s, "notify")
    /\ gcfaults' = gcfaults + 1
    /\ UNCHANGED <<channel, leader, slots, inbox, logged, sizes>>

\* an append fails, or the sync after the last one: what was appended stays in the buffer, and
\* every slot of the batch is answered with the error
write_fails(s) ==
    /\ gcpc[s] = "append" /\ gcfaults < MaxGcFaults
    /\ \E n \in 0..Len(RecordsOf(slots)) :
          unflushed' = unflushed \o SubSeq(RecordsOf(slots), 1, n)
    /\ outcome' = [i \in DOMAIN slots |-> Failed]
    /\ Go(s, "notify")
    /\ gcfaults' = gcfaults + 1
    /\ UNCHANGED <<channel, leader, slots, inbox, logged, sizes>>

\* one send; the guard of the lock is dropped after the last one
notify_slot(s) ==
    /\ gcpc[s] = "notify"
    /\ inbox' = [inbox EXCEPT ![Head(slots)] = Head(outcome)]
    /\ slots' = Tail(slots) /\ outcome' = Tail(outcome)
    /\ IF Len(slots) = 1 THEN leader' = NoLeader /\ Go(s, "led")
                         ELSE UNCHANGED <<leader, gcpc>>
    /\ UNCHANGED <<channel, logged, unflushed, gcfaults, sizes>>

GCStep(s) ==
    \/ send(s) \/ try_lock(s) \/ recv_result(s) \/ recv_times_out(s)
    \/ collect_slot(s) \/ close_window(s) \/ write_batch(s) \/ write_fails(s) \/ notify_slot(s)

GCNext == \E s \in Submitters : submit(s) \/ GCStep(s)

\* A thread inside submit goes on taking steps; nothing makes a thread call it
GCFair == \A s \in Submitters : WF_gcvars(GCStep(s))

GCSpec == GCInit /\ [][GCNext]_gcvars /\ GCFair

(***************************************************************************)
(* Properties.                                                             *)
(***************************************************************************)

Leading == {"collect", "append", "notify"}

\* Only the holder of leader_lock is inside run_leader_with, so batches never mix
OneLeader == \A s \in Submitters : gcpc[s] \in Leading <=> leader = s

\* "no commit is acknowledged before the group fsync completes": a thread that is answered Ok
\* finds all its records in the synced log and the lsn of the last one in its answer, whoever
\* led the batch and whatever failed before
AckMeansDurable ==
    \A s \in Submitters : inbox[s].ok =>
       /\ inbox[s].lsn \in DOMAIN logged /\ logged[inbox[s].lsn] = <<s, PerCommit>>
       /\ \A k \in 1..PerCommit : logged[inbox[s].lsn - PerCommit + k] = <<s, k>>

\* Every submission is answered, also one whose slot arrives after the window of the leader has
\* closed, or that does not fit into the batch or the channel
EveryoneAnswered == \A s \in Submitters : (gcpc[s] = "send") ~> (gcpc[s] = "done")

\* Refuted: "After the leader run, our result must be in result_rx"
LeaderServesItself == \A s \in Submitters : gcpc[s] = "led" => inbox[s] # Empty

\* Refuted: a submission that is answered with an error is not in the log
ErrorMeansNotLogged ==
    \A s \in Submitters : inbox[s] = Failed => \A i \in DOMAIN logged : logged[i][1] # s
=============================================================================
