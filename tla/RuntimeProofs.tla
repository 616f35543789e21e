--------------------------- MODULE RuntimeProofs ----------------------------
(***************************************************************************)
(* Proofs about the state that threads share: the snapshots of the running *)
(* transactions, the group commit of the log, and the accept loop of the   *)
(* server.                                                                 *)
(***************************************************************************)
EXTENDS GlobalTxState, GroupCommit, Acceptor, SequenceTheorems, FiniteSetTheorems, WellFoundedInduction, TLAPS

-----------------------------------------------------------------------------
(***************************************************************************)
(* Proofs about GroupCommit for every set of threads, every channel and    *)
(* batch size and every number of records of a submission: one thread      *)
(* leads at a time, and an answer Ok means that the records are in the     *)
(* synced log.  The invariant follows the promise from the sync to the     *)
(* inbox: between the two it is held by the pairs of a slot and an outcome *)
(* that the leader has not sent yet.                                       *)
(***************************************************************************)
Records == Submitters \X Nat
Answers == [ok : BOOLEAN, lsn : Int]
Places == {"idle", "send", "elect", "wait", "led", "done"} \cup Leading

GCTypes ==
    /\ channel \in Seq(Submitters) /\ slots \in Seq(Submitters)
    /\ leader \in Submitters \cup {NoLeader}
    /\ logged \in Seq(Records) /\ unflushed \in Seq(Records)
    /\ outcome \in Seq(Answers)
    /\ inbox \in [Submitters -> Answers]
    /\ gcpc \in [Submitters -> Places]

(* The records of s end at lsn in the log.                                 *)
InLog(log, s, lsn) ==
    /\ lsn - PerCommit \in Nat /\ lsn \in 1..Len(log)
    /\ \A k \in 1..PerCommit : log[lsn - PerCommit + k] = <<s, k>>

(* A leader past its window has collected something.                       *)
BatchNotEmpty ==
    \A s \in Submitters : gcpc[s] \in {"append", "notify"} => slots # <<>>

(* What the leader still has to send is true.                              *)
Promised ==
    \A s \in Submitters : gcpc[s] = "notify" =>
       /\ Len(outcome) = Len(slots)
       /\ \A i \in 1..Len(slots) : outcome[i].ok => InLog(logged, slots[i], outcome[i].lsn)

(* What was sent is true.                                                  *)
Acked == \A s \in Submitters : inbox[s].ok => InLog(logged, s, inbox[s].lsn)

GCIInv == GCTypes /\ OneLeader /\ BatchNotEmpty /\ Promised /\ Acked

-----------------------------------------------------------------------------

(* Appending to the log keeps what is in it.                               *)
LEMMA LogGrows ==
    ASSUME NEW log \in Seq(Records), NEW more \in Seq(Records), NEW s \in Submitters,
           NEW lsn \in Int, InLog(log, s, lsn)
    PROVE  InLog(log \o more, s, lsn)
<1>1. Len(log \o more) = Len(log) + Len(more) /\ Len(more) \in Nat /\ Len(log) \in Nat
    OBVIOUS
<1>2. \A i \in 1..Len(log) : (log \o more)[i] = log[i]
    OBVIOUS
<1>3. \A k \in 1..PerCommit : lsn - PerCommit + k \in 1..Len(log)
    BY GcAssumption DEF InLog
<1>. QED
    BY <1>1, <1>2, <1>3, SMTT(30) DEF InLog

(* Numbering the records slot after slot.                                  *)
LEMMA RecordNumber ==
    ASSUME NEW P \in Nat \ {0}, NEW i \in Nat, NEW k \in 0..(P - 1)
    PROVE  (i * P + k) \div P = i /\ (i * P + k) % P = k
OBVIOUS

(* A place of the batch is a slot and a record of it.                      *)
LEMMA SlotOfRecord ==
    ASSUME NEW P \in Nat \ {0}, NEW n \in Nat, NEW a \in Nat, a < n * P
    PROVE  a \div P \in 0..(n - 1) /\ a % P \in 0..(P - 1)
<1>1. a = P * (a \div P) + (a % P) /\ a \div P \in Nat /\ a % P \in 0..(P - 1)
    OBVIOUS
<1>2. SUFFICES ASSUME a \div P >= n PROVE FALSE
    BY <1>1
<1>3. P * (a \div P) >= P * n
    BY <1>1, <1>2
<1>. QED
    BY <1>1, <1>3

(* Slot i of a batch finds its records where LastLsn says.                 *)
LEMMA BatchLogged ==
    ASSUME NEW log \in Seq(Records), NEW batch \in Seq(Submitters)
    PROVE  /\ RecordsOf(batch) \in Seq(Records)
           /\ \A i \in 1..Len(batch) :
                 InLog(log \o RecordsOf(batch), batch[i], LastLsn(Len(log), i))
<1>. DEFINE P == PerCommit
            r == RecordsOf(batch)
            n == Len(batch)
<1>1. P \in Nat \ {0} /\ n \in Nat /\ n * P \in Nat
    BY GcAssumption
<1>2. r = [j \in 1..(n * P) |-> <<batch[((j - 1) \div P) + 1], ((j - 1) % P) + 1>>]
    BY DEF RecordsOf
<1>3. ASSUME NEW j \in 1..(n * P)
      PROVE  r[j] \in Records
  <2>1. (j - 1) \in Nat /\ j - 1 < n * P
    <3>. HIDE DEF P, n
    <3>. QED
        BY <1>1
  <2>2. (j - 1) \div P \in 0..(n - 1) /\ (j - 1) % P \in 0..(P - 1)
      BY <2>1, <1>1, SlotOfRecord, Zenon
  <2>3. batch[((j - 1) \div P) + 1] \in Submitters
      BY <2>2, <1>1, SMTT(30)
  <2>4. ((j - 1) % P) + 1 \in Nat
      BY <2>2, <1>1, SMTT(30)
  <2>. QED
      BY <2>3, <2>4, <1>2, SMTT(30) DEF Records
<1>4. r \in Seq(Records) /\ Len(r) = n * P
    BY <1>1, <1>2, <1>3, SMTT(30)
<1>5. ASSUME NEW i \in 1..n
      PROVE  InLog(log \o r, batch[i], LastLsn(Len(log), i))
  <2>. DEFINE last == i * P       \* the last record of slot i, and the one before its first
              first == (i - 1) * P
              all == n * P
              lsn == Len(log) + last
  <2>1. /\ last \in Nat /\ first \in Nat /\ all \in Nat
        /\ last <= all /\ last = first + P
    <3>1. i \in Nat /\ i - 1 \in Nat /\ n - i \in Nat
        BY <1>1
    <3>2. last \in Nat /\ first \in Nat /\ all \in Nat /\ (n - i) * P \in Nat
        BY <3>1, <1>1, SMTT(30)
    <3>3. last = first + P
        BY <3>1, <1>1, SMTT(30)
    <3>4. all = last + (n - i) * P
        BY <3>1, <1>1, SMTT(30)
    <3>. QED
        BY <3>2, <3>3, <3>4, SMTT(30)
  <2>2. Len(log) \in Nat /\ Len(r) = all /\ Len(log \o r) = Len(log) + all
    <3>. HIDE DEF P, r, n
    <3>. QED
        BY <1>4, SMTT(30)
  <2>3. lsn - P \in Nat /\ lsn \in 1..Len(log \o r)
    <3>. HIDE DEF last, first, all, r, P
    <3>. QED
        BY <2>1, <2>2, <1>1
  <2>4. ASSUME NEW k \in 1..P
        PROVE  (log \o r)[lsn - P + k] = <<batch[i], k>>
    <3>1. first + k \in 1..all /\ lsn - P + k = Len(log) + (first + k)
      <4>. HIDE DEF last, first, all, r, P
      <4>. QED
          BY <2>1, <2>2, <1>1, SMTT(30)
    <3>2. (log \o r)[lsn - P + k] = r[first + k]
      <4>. HIDE DEF lsn, first, all, r, P
      <4>. QED
          BY <3>1, <1>4, <2>2, SMTT(30)
    <3>3. (first + (k - 1)) \div P = i - 1 /\ (first + (k - 1)) % P = k - 1
      <4>1. i - 1 \in Nat /\ k - 1 \in 0..(P - 1)
          BY <1>1
      <4>. HIDE DEF P
      <4>. QED
          BY <4>1, <1>1, RecordNumber, Zenon
    <3>4. (first + k) - 1 = first + (k - 1)
      <4>. HIDE DEF first, P
      <4>. QED
          BY <2>1, <1>1, SMTT(30)
    <3>5. r[first + k] = <<batch[(((first + k) - 1) \div P) + 1], (((first + k) - 1) % P) + 1>>
      <4>. HIDE DEF first, P
      <4>. QED
          BY <3>1, <1>2, Zenon
    <3>6. (i - 1) + 1 = i /\ (k - 1) + 1 = k
        BY <1>1
    <3>. HIDE DEF first, P, r, lsn
    <3>. QED
        BY <3>2, <3>3, <3>4, <3>5, <3>6, Zenon
  <2>. QED
      BY <2>3, <2>4, Zenon DEF InLog, LastLsn
<1>. QED
    BY <1>4, <1>5

-----------------------------------------------------------------------------

\* A new group commit: nothing submitted, nobody leads.
LEMMA InitGCIInv == GCInit => GCIInv
<1>. SUFFICES ASSUME GCInit PROVE GCIInv
    OBVIOUS
<1>1. GCTypes
    BY DEF GCInit, GCTypes, Answers, Places, Empty
<1>2. OneLeader
    BY GcAssumption DEF GCInit, OneLeader, Leading
<1>3. BatchNotEmpty /\ Promised
    BY DEF GCInit, BatchNotEmpty, Promised
<1>4. Acked
    BY DEF GCInit, Acked, Empty
<1>. QED
    BY <1>1, <1>2, <1>3, <1>4, Zenon DEF GCIInv

(* A thread that leads is the only one, so the others are not in the       *)
(* places that the invariant speaks of.                                    *)
LEMMA OnlyOne ==
    ASSUME GCIInv, NEW s \in Submitters, NEW t \in Submitters,
           gcpc[s] \in Leading, gcpc[t] \in Leading
    PROVE  s = t /\ leader = s
BY DEF GCIInv, OneLeader

(* Steps that move a thread outside run_leader_with.                       *)
LEMMA OutsideSteps ==
    ASSUME GCIInv, NEW s \in Submitters,
           submit(s) \/ send(s) \/ recv_result(s) \/ recv_times_out(s)
    PROVE  GCIInv'
<1>. DEFINE Outside == {"idle", "send", "elect", "wait", "led", "done"}
<1>1. gcpc[s] \in Outside
    BY Zenon DEF submit, send, recv_result, recv_times_out
<1>2. PICK pc \in Outside : gcpc' = [gcpc EXCEPT ![s] = pc]
    BY Zenon DEF submit, send, recv_result, recv_times_out, Go
<1>3. /\ UNCHANGED <<leader, slots, logged, unflushed, outcome, inbox>>
      /\ channel' = channel \/ channel' = Append(channel, s)
    BY DEF submit, send, recv_result, recv_times_out
<1>4. GCTypes'
  <2>1. channel' \in Seq(Submitters)
    <3>1. channel \in Seq(Submitters)
        BY DEF GCIInv, GCTypes
    <3>2. Append(channel, s) \in Seq(Submitters)
        BY <3>1, AppendProperties, Zenon
    <3>. QED
        BY <3>1, <3>2, <1>3, Zenon
  <2>2. gcpc' \in [Submitters -> Places]
      BY <1>2, Zenon DEF GCIInv, GCTypes, Places
  <2>. QED
      BY <2>1, <2>2, <1>3, Zenon DEF GCIInv, GCTypes
<1>5. /\ gcpc'[s] = pc /\ pc \notin Leading /\ gcpc[s] \notin Leading
      /\ \A t \in Submitters \ {s} : gcpc'[t] = gcpc[t]
    BY <1>1, <1>2 DEF GCIInv, GCTypes, Leading
<1>6. OneLeader'
    BY <1>3, <1>5, Zenon DEF GCIInv, OneLeader
<1>7. BatchNotEmpty' /\ Promised'
    BY <1>3, <1>5, Zenon DEF GCIInv, BatchNotEmpty, Promised, Leading
<1>8. Acked'
    BY <1>3, Zenon DEF GCIInv, Acked
<1>. QED
    BY <1>4, <1>6, <1>7, <1>8, Zenon DEF GCIInv

\* submit: the thread enters the channel, and leads if nobody does.
LEMMA ElectStep ==
    ASSUME GCIInv, NEW s \in Submitters, try_lock(s)
    PROVE  GCIInv'
<1>1. UNCHANGED <<channel, slots, logged, unflushed, outcome, inbox>>
    BY DEF try_lock
<1>2. PICK pc \in {"collect", "wait"} :
         /\ gcpc' = [gcpc EXCEPT ![s] = pc]
         /\ pc = "collect" => leader = NoLeader /\ leader' = s
         /\ pc = "wait" => leader' = leader
    BY Zenon DEF try_lock, Go
<1>3. /\ gcpc'[s] = pc /\ gcpc[s] = "elect"
      /\ \A t \in Submitters \ {s} : gcpc'[t] = gcpc[t]
    BY <1>2, Zenon DEF GCIInv, GCTypes, try_lock
<1>4. GCTypes'
    BY <1>1, <1>2, Zenon DEF GCIInv, GCTypes, Places, Leading
<1>5. OneLeader'
    BY <1>2, <1>3, GcAssumption, Zenon DEF GCIInv, OneLeader, Leading
<1>6. BatchNotEmpty' /\ Promised'
    BY <1>1, <1>3, Zenon DEF GCIInv, BatchNotEmpty, Promised
<1>7. Acked'
    BY <1>1, Zenon DEF GCIInv, Acked
<1>. QED
    BY <1>4, <1>5, <1>6, <1>7, Zenon DEF GCIInv

\* The leader fills its batch from the channel.
LEMMA CollectSteps ==
    ASSUME GCIInv, NEW s \in Submitters, collect_slot(s) \/ close_window(s)
    PROVE  GCIInv'
<1>1. UNCHANGED <<logged, unflushed, outcome, inbox>> /\ gcpc[s] = "collect"
    BY DEF collect_slot, close_window
<1>2. \A t \in Submitters \ {s} : gcpc[t] \notin Leading
    BY <1>1, OnlyOne, Zenon DEF Leading
<1>3. leader = s
    BY <1>1, OnlyOne, Zenon DEF Leading
<1>4. PICK pc \in {"collect", "append", "led"} :
         /\ gcpc' = [gcpc EXCEPT ![s] = pc]
         /\ leader' = IF pc = "led" THEN NoLeader ELSE s
         /\ pc = "append" => slots' # <<>>
         /\ channel' \in Seq(Submitters) /\ slots' \in Seq(Submitters)
  <2>1. CASE collect_slot(s)
    <3>1. channel \in Seq(Submitters) /\ slots \in Seq(Submitters) /\ channel # <<>>
        BY <2>1, Zenon DEF collect_slot, GCIInv, GCTypes
    <3>2. Head(channel) \in Submitters /\ Tail(channel) \in Seq(Submitters)
        BY <3>1, SMTT(30)
    <3>3. Append(slots, Head(channel)) \in Seq(Submitters) /\ Append(slots, Head(channel)) # <<>>
        BY <3>1, <3>2, AppendProperties, SMTT(30)
    <3>4. channel' \in Seq(Submitters) /\ slots' \in Seq(Submitters) /\ slots' # <<>>
        BY <2>1, <3>2, <3>3, Zenon DEF collect_slot
    <3>5. leader' = s /\ \E pc \in {"collect", "append"} : gcpc' = [gcpc EXCEPT ![s] = pc]
        BY <2>1, <1>3, Zenon DEF collect_slot, Go
    <3>. QED
        BY <3>4, <3>5, Zenon
  <2>2. CASE close_window(s)
      BY <2>2, <1>3, Zenon DEF close_window, Go, GCIInv, GCTypes
  <2>. QED
      BY <2>1, <2>2, Zenon
<1>5. gcpc'[s] = pc /\ \A t \in Submitters \ {s} : gcpc'[t] = gcpc[t]
    BY <1>4, Zenon DEF GCIInv, GCTypes
<1>6. GCTypes'
    BY <1>1, <1>4, Zenon DEF GCIInv, GCTypes, Places, Leading
<1>7. OneLeader'
    BY <1>2, <1>4, <1>5, GcAssumption, Zenon DEF OneLeader, Leading
<1>8. BatchNotEmpty' /\ Promised'
    BY <1>2, <1>4, <1>5, ZenonT(30) DEF BatchNotEmpty, Promised, Leading
<1>9. Acked'
    BY <1>1, Zenon DEF GCIInv, Acked
<1>. QED
    BY <1>6, <1>7, <1>8, <1>9, Zenon DEF GCIInv

\* The leader writes and syncs the batch: from here on an Ok is justified.
LEMMA WriteStep ==
    ASSUME GCIInv, NEW s \in Submitters, write_batch(s)
    PROVE  GCIInv'
<1>. DEFINE old == logged \o unflushed
<1>1. /\ gcpc[s] = "append" /\ gcpc' = [gcpc EXCEPT ![s] = "notify"]
      /\ UNCHANGED <<channel, leader, slots, inbox>>
      /\ logged' = old \o RecordsOf(slots) /\ unflushed' = <<>>
      /\ outcome' = Lsns(Len(logged) + Len(unflushed), Len(slots))
    BY Zenon DEF write_batch, Go
<1>2. /\ slots \in Seq(Submitters) /\ logged \in Seq(Records) /\ unflushed \in Seq(Records)
      /\ slots # <<>>
    BY <1>1, Zenon DEF GCIInv, GCTypes, BatchNotEmpty
<1>3. old \in Seq(Records) /\ Len(old) = Len(logged) + Len(unflushed)
    BY <1>2
<1>4. RecordsOf(slots) \in Seq(Records)
    BY <1>2, <1>3, BatchLogged, Zenon
<1>5. logged' \in Seq(Records)
    BY <1>1, <1>3, <1>4, SMTT(30)
<1>6. /\ outcome' \in Seq(Answers) /\ Len(outcome') = Len(slots)
      /\ \A i \in 1..Len(slots) : outcome'[i].lsn = LastLsn(Len(old), i)
  <2>1. outcome' = [i \in 1..Len(slots) |-> [ok |-> TRUE, lsn |-> LastLsn(Len(old), i)]]
      BY <1>1, <1>3, Zenon DEF Lsns, Success
  <2>2. \A i \in 1..Len(slots) : LastLsn(Len(old), i) \in Int
      BY <1>2, <1>3, GcAssumption, SMTT(30) DEF LastLsn
  <2>3. \A i \in 1..Len(slots) : [ok |-> TRUE, lsn |-> LastLsn(Len(old), i)] \in Answers
      BY <2>2, Zenon DEF Answers
  <2>4. Len(slots) \in Nat
      BY <1>2, SMTT(30)
  <2>. HIDE DEF old
  <2>. QED
      BY <2>1, <2>3, <2>4, SMTT(30)
<1>7. /\ gcpc'[s] = "notify" /\ \A t \in Submitters \ {s} : gcpc'[t] = gcpc[t]
      /\ gcpc' \in [Submitters -> Places]
    BY <1>1, Zenon DEF GCIInv, GCTypes, Places, Leading
<1>8. GCTypes'
    BY <1>1, <1>5, <1>6, <1>7, SMTT(30) DEF GCIInv, GCTypes
<1>9. OneLeader'
    BY <1>1, <1>7, Zenon DEF GCIInv, OneLeader, Leading
<1>10. BatchNotEmpty'
    BY <1>1, <1>2, Zenon DEF BatchNotEmpty
<1>11. \A i \in 1..Len(slots) : InLog(logged', slots[i], outcome'[i].lsn)
    BY <1>1, <1>2, <1>3, <1>6, BatchLogged, ZenonT(30)
<1>12. Promised'
    BY <1>1, <1>6, <1>11, Zenon DEF Promised
<1>13. ASSUME NEW t \in Submitters, inbox[t].ok
       PROVE  InLog(logged', t, inbox[t].lsn)
  <2>1. InLog(logged, t, inbox[t].lsn) /\ inbox[t].lsn \in Int
      BY <1>13, Zenon DEF GCIInv, Acked, GCTypes, Answers
  <2>2. InLog(old, t, inbox[t].lsn)
      BY <2>1, <1>2, LogGrows, Zenon
  <2>. QED
      BY <2>1, <2>2, <1>1, <1>3, <1>4, LogGrows, Zenon
<1>14. Acked'
    BY <1>1, <1>13, Zenon DEF Acked
<1>. QED
    BY <1>8, <1>9, <1>10, <1>12, <1>14, Zenon DEF GCIInv

\* The write or the sync fails: every slot of the batch is owed an error.
LEMMA FailStep ==
    ASSUME GCIInv, NEW s \in Submitters, write_fails(s)
    PROVE  GCIInv'
<1>1. /\ gcpc[s] = "append" /\ gcpc' = [gcpc EXCEPT ![s] = "notify"]
      /\ UNCHANGED <<channel, leader, slots, inbox, logged>>
      /\ outcome' = [i \in DOMAIN slots |-> Failed]
    BY DEF write_fails, Go
<1>2. /\ slots \in Seq(Submitters) /\ logged \in Seq(Records) /\ unflushed \in Seq(Records)
      /\ slots # <<>>
    BY <1>1 DEF GCIInv, GCTypes, BatchNotEmpty
<1>3. RecordsOf(slots) \in Seq(Records)
    BY <1>2, BatchLogged, Zenon
<1>4. unflushed' \in Seq(Records)
  <2>1. PICK n \in 0..Len(RecordsOf(slots)) :
           unflushed' = unflushed \o SubSeq(RecordsOf(slots), 1, n)
      BY Zenon DEF write_fails
  <2>2. SubSeq(RecordsOf(slots), 1, n) \in Seq(Records)
      BY <1>3
  <2>. QED
      BY <2>1, <2>2, <1>2, SMTT(30)
<1>5. outcome' \in Seq(Answers) /\ Len(outcome') = Len(slots)
      /\ \A i \in 1..Len(slots) : ~outcome'[i].ok
  <2>1. outcome' = [i \in 1..Len(slots) |-> Failed] /\ Len(slots) \in Nat
      BY <1>1, <1>2, SMTT(30)
  <2>2. Failed \in Answers /\ ~Failed.ok
      BY DEF Failed, Answers
  <2>. QED
      BY <2>1, <2>2, SMTT(30)
<1>6. /\ gcpc'[s] = "notify" /\ \A t \in Submitters \ {s} : gcpc'[t] = gcpc[t]
      /\ gcpc' \in [Submitters -> Places]
    BY <1>1, Zenon DEF GCIInv, GCTypes, Places, Leading
<1>7. GCTypes'
    BY <1>1, <1>4, <1>5, <1>6, Zenon DEF GCIInv, GCTypes
<1>8. OneLeader'
    BY <1>1, <1>6, Zenon DEF GCIInv, OneLeader, Leading
<1>9. BatchNotEmpty' /\ Promised'
    BY <1>1, <1>2, <1>5, Zenon DEF BatchNotEmpty, Promised
<1>10. Acked'
    BY <1>1, Zenon DEF GCIInv, Acked
<1>. QED
    BY <1>7, <1>8, <1>9, <1>10, Zenon DEF GCIInv

\* The leader hands an outcome to its slot, and steps down after the last.
LEMMA NotifyStep ==
    ASSUME GCIInv, NEW s \in Submitters, notify_slot(s)
    PROVE  GCIInv'
<1>1. /\ gcpc[s] = "notify" /\ UNCHANGED <<channel, logged, unflushed>>
      /\ inbox' = [inbox EXCEPT ![Head(slots)] = Head(outcome)]
      /\ slots' = Tail(slots) /\ outcome' = Tail(outcome)
    BY Zenon DEF notify_slot
<1>2. /\ slots \in Seq(Submitters) /\ slots # <<>>
      /\ outcome \in Seq(Answers) /\ Len(outcome) = Len(slots)
      /\ inbox \in [Submitters -> Answers]
    BY <1>1, Zenon DEF GCIInv, GCTypes, BatchNotEmpty, Promised
<1>3. Len(slots) \in Nat \ {0} /\ outcome # <<>>
    BY <1>2, SMTT(30)
<1>4. /\ Head(slots) = slots[1] /\ Head(outcome) = outcome[1]
      /\ slots[1] \in Submitters /\ outcome[1] \in Answers
    BY <1>2, <1>3, SMTT(30)
<1>5. /\ slots' \in Seq(Submitters) /\ Len(slots') = Len(slots) - 1
      /\ outcome' \in Seq(Answers) /\ Len(outcome') = Len(slots) - 1
    BY <1>1, <1>2, <1>3, SMTT(30)
<1>6. \A i \in 1..(Len(slots) - 1) : slots'[i] = slots[i + 1] /\ outcome'[i] = outcome[i + 1]
    BY <1>1, <1>2, <1>3, SMTT(30)
<1>7. \A i \in 1..Len(slots) : outcome[i].ok => InLog(logged, slots[i], outcome[i].lsn)
    BY <1>1, Zenon DEF GCIInv, Promised
<1>8. leader = s /\ \A t \in Submitters \ {s} : gcpc[t] \notin Leading
    BY <1>1, OnlyOne, Zenon DEF Leading
<1>9. /\ \A t \in Submitters \ {s} : gcpc'[t] = gcpc[t]
      /\ gcpc' \in [Submitters -> Places]
      /\ \/ Len(slots) = 1 /\ leader' = NoLeader /\ gcpc'[s] = "led"
         \/ Len(slots) # 1 /\ leader' = s /\ gcpc'[s] = "notify"
    BY <1>1, <1>8, Zenon DEF notify_slot, Go, GCIInv, GCTypes, Places, Leading
<1>10. inbox' \in [Submitters -> Answers]
    BY <1>1, <1>2, <1>4
<1>11. GCTypes'
    BY <1>1, <1>5, <1>9, <1>10, Zenon DEF GCIInv, GCTypes
<1>12. OneLeader'
    BY <1>8, <1>9, GcAssumption DEF OneLeader, Leading
<1>13. BatchNotEmpty'
  <2>1. Len(slots) # 1 => slots' # <<>>
      BY <1>3, <1>5, SMTT(30)
  <2>. QED
      BY <2>1, <1>8, <1>9, Zenon DEF BatchNotEmpty, Leading
<1>14. \A i \in 1..Len(slots') : outcome'[i].ok => InLog(logged', slots'[i], outcome'[i].lsn)
    BY <1>1, <1>3, <1>5, <1>6, <1>7, SMTT(30)
<1>15. Promised'
    BY <1>5, <1>14, Zenon DEF Promised
<1>16. Acked'
    BY <1>1, <1>2, <1>3, <1>4, <1>7, SMTT(30) DEF GCIInv, Acked
<1>. QED
    BY <1>11, <1>12, <1>13, <1>15, <1>16, SMTT(30) DEF GCIInv

\* Every step of every thread keeps the invariant.
LEMMA NextGCIInv == GCIInv /\ [GCNext]_gcvars => GCIInv'
<1>. SUFFICES ASSUME GCIInv, [GCNext]_gcvars PROVE GCIInv'
    BY Zenon
<1>1. CASE UNCHANGED gcvars
    BY <1>1, Zenon DEF gcvars, GCIInv, GCTypes, OneLeader, BatchNotEmpty, Promised, Acked
<1>2. ASSUME NEW s \in Submitters, submit(s) \/ GCStep(s)
      PROVE  GCIInv'
    BY <1>2, OutsideSteps, ElectStep, CollectSteps, WriteStep, FailStep, NotifyStep, Zenon DEF GCStep
<1>. QED
    BY <1>1, <1>2, Zenon DEF GCNext

(* The invariant holds in every state the queue reaches.                   *)
THEOREM GCIInvInvariant == GCSpec => []GCIInv
<1>. QED
    BY InitGCIInv, NextGCIInv, PTL DEF GCSpec

(* Only the holder of leader_lock is inside run_leader_with, for any       *)
(* number of threads.                                                      *)
THEOREM BatchesNeverMix == GCSpec => []OneLeader
<1>1. GCIInv => OneLeader
    BY ZenonT(30) DEF GCIInv
<1>. QED
    BY <1>1, GCIInvInvariant, PTL

(* No thread is answered Ok by submit before the sync that made all its    *)
(* records durable, whoever led the batch, whatever failed before and      *)
(* however the channel and the batches are sized.                          *)
THEOREM AcksAreDurable == GCSpec => []AckMeansDurable
<1>1. GCIInv => AckMeansDurable
  <2>. SUFFICES ASSUME GCIInv, NEW s \in Submitters, inbox[s].ok
                PROVE  /\ inbox[s].lsn \in DOMAIN logged /\ logged[inbox[s].lsn] = <<s, PerCommit>>
                       /\ \A k \in 1..PerCommit : logged[inbox[s].lsn - PerCommit + k] = <<s, k>>
      BY DEF AckMeansDurable
  <2>1. InLog(logged, s, inbox[s].lsn) /\ inbox[s].lsn \in Int /\ logged \in Seq(Records)
      BY Zenon DEF GCIInv, Acked, GCTypes, Answers
  <2>2. inbox[s].lsn - PerCommit + PerCommit = inbox[s].lsn /\ PerCommit \in 1..PerCommit
      BY <2>1, GcAssumption, SMTT(30)
  <2>3. inbox[s].lsn \in DOMAIN logged
      BY <2>1, SMTT(30) DEF InLog
  <2>4. \A k \in 1..PerCommit : logged[inbox[s].lsn - PerCommit + k] = <<s, k>>
      BY <2>1, Zenon DEF InLog
  <2>5. logged[inbox[s].lsn - PerCommit + PerCommit] = <<s, PerCommit>>
      BY <2>2, <2>4, Zenon
  <2>. QED
      BY <2>2, <2>3, <2>4, <2>5, Zenon
<1>. QED
    BY <1>1, GCIInvInvariant, PTL

-----------------------------------------------------------------------------
(***************************************************************************)
(* Proofs about Acceptor for every finite set of clients and every limit:  *)
(* the permits of the semaphore and the connection metrics account for the *)
(* open streams exactly.  The invariant has to say in addition that the    *)
(* connection that is being accepted is not open yet, so that moving it on *)
(* neither hides nor doubles an open one.                                  *)
(***************************************************************************)
Place == {"away", "backlog", "taken", "reset", "open", "gone"}

ACTypes ==
    /\ client \in [Clients -> [sends : Sends, at : Place]]
    /\ accepting \in [pc : {"acquire", "listen", "detect", "handshake", "ended"},
                      who : Clients \cup {NoClient}]
    /\ permits \in Int
    /\ gauge \in [active : Int, opened : Int, closed : Int]

(* The connection that is being accepted is not open.                      *)
TakenNotOpen ==
    accepting.pc \in {"detect", "handshake"} =>
        accepting.who \in Clients /\ client[accepting.who].at \in {"taken", "reset"}

ACIInv == ACTypes /\ TakenNotOpen /\ PermitsConserved /\ GaugeIsOpen

\* The open streams are a finite set, so that they can be counted.
LEMMA OpenIsFinite ==
    /\ IsFiniteSet(OpenNow)
    /\ Cardinality(OpenNow) \in Nat
BY AcceptorAssumption, FS_Subset, FS_CardinalityType, Zenon DEF OpenNow

(* A move that neither opens a connection nor ends an open one.            *)
LEMMA OtherMoves ==
    ASSUME ACTypes, NEW c \in Clients, client[c].at # "open",
           NEW place \in Place \ {"open"}, Move(c, place)
    PROVE  /\ OpenNow' = OpenNow
           /\ client' \in [Clients -> [sends : Sends, at : Place]]
           /\ client'[c].at = place
           /\ \A d \in Clients \ {c} : client'[d] = client[d]
<1>1. client' = [client EXCEPT ![c].at = place]
    BY DEF Move
<1>2. client' \in [Clients -> [sends : Sends, at : Place]]
    BY <1>1 DEF ACTypes, Place
<1>3. client'[c].at = place /\ \A d \in Clients \ {c} : client'[d] = client[d]
    BY <1>1, Zenon DEF ACTypes
<1>4. OpenNow' = OpenNow
    BY <1>3, Zenon DEF OpenNow
<1>. QED
    BY <1>2, <1>3, <1>4, Zenon

(* A connection that is opened is counted once more.                       *)
LEMMA OpenMove ==
    ASSUME ACTypes, NEW c \in Clients, client[c].at # "open", Move(c, "open")
    PROVE  /\ Cardinality(OpenNow') = Cardinality(OpenNow) + 1
           /\ client' \in [Clients -> [sends : Sends, at : Place]]
<1>1. client' = [client EXCEPT ![c].at = "open"]
    BY DEF Move
<1>2. client' \in [Clients -> [sends : Sends, at : Place]]
    BY <1>1 DEF ACTypes, Place
<1>3. OpenNow' = OpenNow \cup {c} /\ c \notin OpenNow
    BY <1>1 DEF OpenNow, ACTypes
<1>4. Cardinality(OpenNow \cup {c}) = Cardinality(OpenNow) + 1
    BY <1>3, OpenIsFinite, FS_AddElement, Zenon
<1>. QED
    BY <1>2, <1>3, <1>4, Zenon

(* A connection that ends is counted once less.                            *)
LEMMA DropMove ==
    ASSUME ACTypes, NEW c \in Clients, client[c].at = "open", Move(c, "gone")
    PROVE  /\ Cardinality(OpenNow') = Cardinality(OpenNow) - 1
           /\ client' \in [Clients -> [sends : Sends, at : Place]]
           /\ \A d \in Clients \ {c} : client'[d] = client[d]
<1>1. client' = [client EXCEPT ![c].at = "gone"]
    BY DEF Move
<1>2. client' \in [Clients -> [sends : Sends, at : Place]]
    BY <1>1 DEF ACTypes, Place
<1>3. OpenNow' = OpenNow \ {c} /\ c \in OpenNow
    BY <1>1, Zenon DEF OpenNow, ACTypes
<1>4. Cardinality(OpenNow \ {c}) = Cardinality(OpenNow) - 1
    BY <1>3, OpenIsFinite, FS_RemoveElement, Zenon
<1>5. \A d \in Clients \ {c} : client'[d] = client[d]
    BY <1>1, Zenon DEF ACTypes
<1>. QED
    BY <1>2, <1>3, <1>4, <1>5, Zenon

\* A server that has just started: all permits are free and no stream is open.
LEMMA InitACIInv == ACInit => ACIInv
<1>. SUFFICES ASSUME ACInit PROVE ACIInv
    OBVIOUS
<1>1. OpenNow = {}
    BY DEF ACInit, OpenNow
<1>2. Cardinality(OpenNow) = 0
    BY <1>1, FS_EmptySet, Zenon
<1>3. ACTypes
    BY AcceptorAssumption DEF ACInit, ACTypes, Place
<1>. QED
    BY <1>2, <1>3, AcceptorAssumption, SMTT(30)
       DEF ACInit, ACIInv, TakenNotOpen, PermitsConserved, GaugeIsOpen, Holding
\* Every step of the accept loop and of the connections keeps the invariant.
LEMMA NextACIInv == ACIInv /\ [ACNext]_acvars => ACIInv'
<1>. SUFFICES ASSUME ACIInv, [ACNext]_acvars
              PROVE  ACIInv'
    OBVIOUS
<1>. USE AcceptorAssumption
<1>a. ACTypes /\ TakenNotOpen /\ PermitsConserved /\ GaugeIsOpen
    BY DEF ACIInv
<1>b. Cardinality(OpenNow) \in Nat
    BY OpenIsFinite
<1>1. ASSUME UNCHANGED client PROVE OpenNow' = OpenNow
    BY <1>1, Zenon DEF OpenNow
<1>2. CASE UNCHANGED acvars
    BY <1>2, <1>1, <1>a, Zenon DEF acvars, ACIInv, ACTypes, TakenNotOpen, PermitsConserved,
         GaugeIsOpen, Holding
<1>3. CASE acquire
    <2>1. UNCHANGED client
        BY <1>3 DEF acquire
    <2>2. PermitsConserved'
        <3>1. permits \in Int /\ Holding = 0
            BY <1>3, <1>a, Zenon DEF acquire, ACTypes, Holding
        <3>2. CASE permits' = permits - 1 /\ accepting' = [accepting EXCEPT !.pc = "listen"]
            <4>1. Holding' = 1
                BY <1>a, <3>2, Zenon DEF ACTypes, Holding
            <4>. QED
                BY <1>1, <1>a, <1>b, <2>1, <3>1, <3>2, <4>1, SMTT(30) DEF PermitsConserved
        <3>3. CASE UNCHANGED permits /\ accepting' = [accepting EXCEPT !.pc = "ended"]
            <4>1. Holding' = 0
                BY <1>a, <3>3, Zenon DEF ACTypes, Holding
            <4>. QED
                BY <1>1, <1>a, <1>b, <2>1, <3>1, <3>3, <4>1, Zenon DEF PermitsConserved
        <3>. QED
            BY <1>3, <3>2, <3>3, Zenon DEF acquire
    <2>3. GaugeIsOpen'
        BY <1>3, <1>1, <1>a, <2>1, Zenon DEF acquire, GaugeIsOpen
    <2>4. ACTypes' /\ TakenNotOpen'
        BY <1>3, <1>a, <2>1, SMTT(30) DEF acquire, ACTypes, TakenNotOpen
    <2>. QED
        BY <2>2, <2>3, <2>4, Zenon DEF ACIInv
<1>4. CASE listen
    <2>1. PICK c \in Clients : /\ client[c].at = "backlog" /\ Move(c, "taken")
                               /\ accepting' = [pc |-> "detect", who |-> c]
        BY <1>4 DEF listen
    <2>2. /\ OpenNow' = OpenNow
          /\ client' \in [Clients -> [sends : Sends, at : Place]]
          /\ client'[c].at = "taken"
        BY <1>a, <2>1, OtherMoves, Zenon DEF Place
    <2>. QED
        BY <1>4, <1>a, <1>b, <2>1, <2>2, ZenonT(30) DEF listen, ACIInv, ACTypes, TakenNotOpen,
             PermitsConserved, GaugeIsOpen, Holding
<1>5. CASE listen_fails
    <2>1. UNCHANGED client
        BY <1>5 DEF listen_fails
    <2>2. /\ accepting' = [pc |-> "ended", who |-> NoClient]
          /\ permits' = permits + 1 /\ permits \in Int /\ UNCHANGED gauge
        BY <1>5, <1>a, Zenon DEF listen_fails, Ended, ACTypes
    <2>3. Holding = 1 /\ Holding' = 0
        BY <1>5, <2>2, Zenon DEF listen_fails, Holding
    <2>4. PermitsConserved'
        BY <1>1, <1>a, <1>b, <2>1, <2>2, <2>3, SMTT(30) DEF PermitsConserved
    <2>5. GaugeIsOpen'
        BY <1>1, <1>a, <2>1, <2>2, Zenon DEF GaugeIsOpen
    <2>6. ACTypes' /\ TakenNotOpen'
        BY <1>a, <2>1, <2>2, SMTT(30) DEF ACTypes, TakenNotOpen
    <2>. QED
        BY <2>4, <2>5, <2>6 DEF ACIInv
<1>6. CASE detect
    <2>. DEFINE c == accepting.who
    <2>1. c \in Clients /\ client[c].at \in {"taken", "reset"}
        BY <1>6, <1>a, Zenon DEF detect, TakenNotOpen
    <2>2. CASE Skipped(c)
        <3>1. /\ OpenNow' = OpenNow
              /\ client' \in [Clients -> [sends : Sends, at : Place]]
            BY <1>a, <2>1, <2>2, OtherMoves, Zenon DEF Skipped, Place
        <3>2. /\ accepting' = [pc |-> "acquire", who |-> NoClient]
              /\ permits' = permits + 1 /\ permits \in Int /\ UNCHANGED gauge
            BY <1>6, <1>a, <2>2, Zenon DEF detect, Skipped, ACTypes
        <3>3. Holding = 1 /\ Holding' = 0
            BY <1>6, <3>2, Zenon DEF detect, Holding
        <3>4. PermitsConserved'
            BY <1>a, <1>b, <3>1, <3>2, <3>3, SMTT(30) DEF PermitsConserved
        <3>5. GaugeIsOpen'
            BY <1>a, <3>1, <3>2, Zenon DEF GaugeIsOpen
        <3>6. ACTypes' /\ TakenNotOpen'
            BY <1>a, <3>1, <3>2, SMTT(30) DEF ACTypes, TakenNotOpen
        <3>. QED
            BY <3>4, <3>5, <3>6 DEF ACIInv
    <2>3. CASE UNCHANGED client /\ accepting' = [accepting EXCEPT !.pc = "handshake"]
               /\ UNCHANGED permits
        BY <1>6, <1>1, <1>a, <1>b, <2>1, <2>3, ZenonT(30) DEF detect, ACIInv, ACTypes,
             TakenNotOpen, PermitsConserved, GaugeIsOpen, Holding
    <2>. QED
        BY <1>6, <2>2, <2>3, Zenon DEF detect
<1>7. CASE handshake
    <2>. DEFINE c == accepting.who
    <2>1. c \in Clients /\ client[c].at \in {"taken", "reset"}
        BY <1>7, <1>a, Zenon DEF handshake, TakenNotOpen
    <2>2. CASE Move(c, "open") /\ gauge' = Opened
               /\ accepting' = [pc |-> "acquire", who |-> NoClient] /\ UNCHANGED permits
        <3>1. /\ Cardinality(OpenNow') = Cardinality(OpenNow) + 1
              /\ client' \in [Clients -> [sends : Sends, at : Place]]
            BY <1>a, <2>1, <2>2, OpenMove, Zenon
        <3>2. gauge' = [active |-> gauge.active + 1, opened |-> gauge.opened + 1,
                        closed |-> gauge.closed]
            BY <1>a, <2>2, ZenonT(30) DEF Opened, ACTypes
        <3>3. Holding = 1 /\ Holding' = 0
            BY <1>7, <2>2, Zenon DEF handshake, Holding
        <3>4. PermitsConserved'
            <4>1. permits' = permits /\ permits \in Int
                BY <1>a, <2>2, Zenon DEF ACTypes
            <4>. QED
                BY <1>a, <1>b, <3>1, <3>3, <4>1, SMTT(30) DEF PermitsConserved
        <3>5. GaugeIsOpen'
            <4>1. gauge.active \in Int /\ gauge.opened \in Int /\ gauge.closed \in Int
                BY <1>a, Zenon DEF ACTypes
            <4>2. gauge.active = Cardinality(OpenNow) /\ gauge.active = gauge.opened - gauge.closed
                BY <1>a, Zenon DEF GaugeIsOpen
            <4>3. gauge'.active = Cardinality(OpenNow')
                BY <3>1, <3>2, <4>2, ZenonT(30)
            <4>4. gauge'.active = gauge'.opened - gauge'.closed
                BY <3>2, <4>1, <4>2, SMTT(30)
            <4>. QED
                BY <4>3, <4>4, Zenon DEF GaugeIsOpen
        <3>6. ACTypes' /\ TakenNotOpen'
            BY <1>a, <2>2, <3>1, <3>2, SMTT(30) DEF ACTypes, TakenNotOpen
        <3>. QED
            BY <3>4, <3>5, <3>6 DEF ACIInv
    <2>3. CASE Move(c, "gone") /\ Ended /\ UNCHANGED gauge
        <3>1. /\ OpenNow' = OpenNow
              /\ client' \in [Clients -> [sends : Sends, at : Place]]
            BY <1>a, <2>1, <2>3, OtherMoves, Zenon DEF Place
        <3>2. /\ accepting' = [pc |-> "ended", who |-> NoClient]
              /\ permits' = permits + 1 /\ permits \in Int
            BY <1>a, <2>3, Zenon DEF Ended, ACTypes
        <3>3. Holding = 1 /\ Holding' = 0
            BY <1>7, <3>2, Zenon DEF handshake, Holding
        <3>4. PermitsConserved'
            BY <1>a, <1>b, <3>1, <3>2, <3>3, SMTT(30) DEF PermitsConserved
        <3>5. GaugeIsOpen'
            BY <1>a, <2>3, <3>1, Zenon DEF GaugeIsOpen
        <3>6. ACTypes' /\ TakenNotOpen'
            BY <1>a, <2>3, <3>1, <3>2, SMTT(30) DEF ACTypes, TakenNotOpen
        <3>. QED
            BY <3>4, <3>5, <3>6 DEF ACIInv
    <2>. QED
        BY <1>7, <2>2, <2>3, Zenon DEF handshake
<1>8. CASE ac_close
    <2>1. UNCHANGED client
        BY <1>8 DEF ac_close
    <2>. QED
        BY <1>8, <1>1, <1>a, <1>b, <2>1, Zenon DEF ac_close, ACIInv, ACTypes, TakenNotOpen,
             PermitsConserved, GaugeIsOpen, Holding
<1>9. ASSUME NEW c \in Clients, connect(c) PROVE ACIInv'
    <2>1. /\ OpenNow' = OpenNow
          /\ client' \in [Clients -> [sends : Sends, at : Place]]
          /\ \A d \in Clients \ {c} : client'[d] = client[d]
        BY <1>9, <1>a, OtherMoves, Zenon DEF connect, Place
    <2>. QED
        BY <1>9, <1>a, <1>b, <2>1, ZenonT(30) DEF connect, ACIInv, ACTypes, TakenNotOpen,
             PermitsConserved, GaugeIsOpen, Holding
<1>10. ASSUME NEW c \in Clients, dropped(c) PROVE ACIInv'
    <2>1. /\ Cardinality(OpenNow') = Cardinality(OpenNow) - 1
          /\ client' \in [Clients -> [sends : Sends, at : Place]]
          /\ \A d \in Clients \ {c} : client'[d] = client[d]
        BY <1>10, <1>a, DropMove, Zenon DEF dropped
    <2>2. gauge' = [active |-> gauge.active - 1, opened |-> gauge.opened,
                    closed |-> gauge.closed + 1]
        BY <1>10, <1>a, ZenonT(30) DEF dropped, ACTypes
    <2>3. Holding' = Holding /\ Holding \in {0, 1}
        BY <1>10, Zenon DEF dropped, Holding
    <2>4. PermitsConserved'
        <3>1. permits' = permits + 1 /\ permits \in Int
            BY <1>10, <1>a, Zenon DEF dropped, ACTypes
        <3>2. permits + Holding + Cardinality(OpenNow) = Limit
            BY <1>a, Zenon DEF PermitsConserved
        <3>3. (permits + 1) + Holding + (Cardinality(OpenNow) - 1) = Limit
            BY <1>b, <2>3, <3>1, <3>2, SMTT(30)
        <3>. QED
            BY <2>1, <2>3, <3>1, <3>3, Zenon DEF PermitsConserved
    <2>5. GaugeIsOpen'
        <3>1. gauge.active \in Int /\ gauge.opened \in Int /\ gauge.closed \in Int
            BY <1>a, Zenon DEF ACTypes
        <3>2. gauge.active = Cardinality(OpenNow) /\ gauge.active = gauge.opened - gauge.closed
            BY <1>a, Zenon DEF GaugeIsOpen
        <3>3. gauge'.active = Cardinality(OpenNow')
            BY <2>1, <2>2, <3>2, ZenonT(30)
        <3>4. gauge'.active = gauge'.opened - gauge'.closed
            BY <2>2, <3>1, <3>2, SMTT(30)
        <3>. QED
            BY <3>3, <3>4, Zenon DEF GaugeIsOpen
    <2>6. ACTypes'
        BY <1>10, <1>a, <2>1, <2>2, SMTT(30) DEF dropped, ACTypes
    <2>7. TakenNotOpen'
        BY <1>10, <1>a, <2>1, Zenon DEF dropped, ACTypes, TakenNotOpen
    <2>. QED
        BY <2>4, <2>5, <2>6, <2>7, Zenon DEF ACIInv
<1>11. ASSUME NEW c \in Clients, reset(c) PROVE ACIInv'
    <2>1. /\ OpenNow' = OpenNow
          /\ client' \in [Clients -> [sends : Sends, at : Place]]
          /\ client'[c].at = "reset"
          /\ \A d \in Clients \ {c} : client'[d] = client[d]
        BY <1>11, <1>a, OtherMoves, Zenon DEF reset, Place
    <2>. QED
        BY <1>11, <1>a, <1>b, <2>1, ZenonT(30) DEF reset, ACIInv, ACTypes, TakenNotOpen,
             PermitsConserved, GaugeIsOpen, Holding
<1>. QED
    BY <1>2, <1>3, <1>4, <1>5, <1>6, <1>7, <1>8, <1>9, <1>10, <1>11, ZenonT(30) DEF ACNext, AcceptStep

(* The invariant holds in every state the accept loop reaches.             *)
THEOREM ACIInvInvariant == ACSpec => []ACIInv
BY InitACIInv, NextACIInv, PTL DEF ACSpec

(* Whatever clients connect, stay silent, reset or fail their handshake,   *)
(* no permit of the connection limit is lost or made, so at most Limit     *)
(* connections are ever open (ConnectionAcceptor::accept, the permit that  *)
(* moves into the stream).                                                 *)
THEOREM NoPermitLost == ACSpec => []PermitsConserved
<1>1. ACIInv => PermitsConserved
    BY Zenon DEF ACIInv
<1>. QED
    BY <1>1, ACIInvInvariant, PTL

(* The gauge of active connections and the counters of opened and closed   *)
(* ones never drift from the connections there are (MeteredStream).        *)
THEOREM GaugeNeverDrifts == ACSpec => []GaugeIsOpen
<1>1. ACIInv => GaugeIsOpen
    BY DEF ACIInv
<1>. QED
    BY <1>1, ACIInvInvariant, PTL

-----------------------------------------------------------------------------
(***************************************************************************)
(* Proofs about GlobalTxState for every value of MaxTxid.                  *)
(*                                                                         *)
(* XminBelowActive is not inductive: a thread that left the mutex holds a  *)
(* candidate for global_xmin that other threads overtake.  PendingBounded  *)
(* says that such a candidate stays below every active transaction.        *)
(* SnapshotSeparation says that an active transaction is invisible to      *)
(* every snapshot but its own, which is what lets the abort log grow       *)
(* without changing what any snapshot sees.                                *)
(***************************************************************************)
ActiveBegun ==
  /\ global_xmax = counter
  /\ \A t \in active : t < counter

PendingBounded ==
  \A t \in Txid : /\ advancing[t] <= counter
                  /\ \A u \in active : advancing[t] <= u

SnapshotBounds ==
  \A o \in Owner : /\ snapshot[o].xmin <= snapshot[o].xmax
                   /\ snapshot[o].xmax <= counter

SnapshotSeparation ==
  \A o \in Owner, t \in active :
    t # o => /\ snapshot[o].xmin <= t
             /\ snapshot[o].xmax <= t \/ t \in snapshot[o].active

IInv ==
  /\ TypeOK
  /\ XminBelowActive
  /\ ActiveBegun
  /\ PendingBounded
  /\ SnapshotBounds
  /\ SnapshotSeparation

------------------------------------------------------------------------------
(* LowestOr is the least element of a nonempty set of naturals, as         *)
(* BTreeSet's first element is, and the default of an empty one.           *)
LEMMA LowestOrIsLeast ==
  ASSUME NEW S \in SUBSET Nat, NEW d \in Nat
  PROVE  /\ LowestOr(S, d) \in S \cup {d}
         /\ \A u \in S : LowestOr(S, d) <= u
         /\ S = {} => LowestOr(S, d) = d
<1>1. CASE S = {}
  BY <1>1, Zenon DEF LowestOr
<1>2. CASE S # {}
  <2>. DEFINE R == {ss \in Nat \X Nat : ss[1] < ss[2]}
  <2>1. IsWellFoundedOn(R, Nat)
    BY NatLessThanWellFounded, Zenon DEF OpToRel
  <2>2. \E x \in S : \A y \in S : ~(<<y, x>> \in R)
    <3>. HIDE DEF R
    <3>. QED  BY <1>2, <2>1, WFMin, Zenon
  <2>3. \A a, b \in Nat : a < b => <<a, b>> \in R
    BY Zenon
  <2>4. \E x \in S : \A y \in S : x <= y
    <3>. HIDE DEF R
    <3>1. PICK x \in S : \A y \in S : ~(<<y, x>> \in R)
      BY <2>2, Zenon
    <3>2. \A y \in S : ~(y < x)
      BY <2>3, <3>1, ZenonT(30)
    <3>. QED  BY <3>2, SMTT(30)
  <2>. QED
    BY <1>2, <2>4, Zenon DEF LowestOr
<1>. QED
  BY <1>1, <1>2, Zenon

------------------------------------------------------------------------------
\* GlobalTxState::new satisfies the inductive invariant.
LEMMA InitIInv == Init => IInv
  BY MaxTxidAssumption, SMTT(30)
  DEF Init, IInv, TypeOK, XminBelowActive, ActiveBegun, PendingBounded,
      SnapshotBounds, SnapshotSeparation, NoSnapshot, NoCandidate, Snapshot,
      Owner, Txid, TX_ID_BOOTSTRAP, TX_ID_INVALID

(* What remove_active does to the invariant, for commit and abort alike.   *)
LEMMA RemovePreserves ==
  ASSUME IInv, NEW t \in Txid, t \in active, remove_active(t),
         UNCHANGED <<counter, global_xmin, global_xmax, snapshot>>,
         aborted' \subseteq Txid
  PROVE  IInv'
<1>. DEFINE c == LowestOr(active \ {t}, global_xmax)
<1>. USE MaxTxidAssumption
<1>1. /\ c \in (active \ {t}) \cup {global_xmax}
      /\ \A u \in active \ {t} : c <= u
  <2>1. active \ {t} \subseteq Nat /\ global_xmax \in Nat
    BY SMTT(30) DEF IInv, TypeOK, Txid, TX_ID_BOOTSTRAP
  <2>. QED  BY <2>1, LowestOrIsLeast, SMTT(30)
<1>2. advancing' = [advancing EXCEPT ![t] = c] /\ active' = active \ {t}
  BY Zenon DEF remove_active
<1>. HIDE DEF c
<1>3. c \in 1 .. MaxTxid + 1 /\ c <= counter
  BY <1>1, SMTT(30) DEF IInv, TypeOK, ActiveBegun, Txid, TX_ID_BOOTSTRAP
<1>4. TypeOK'
  BY <1>2, <1>3, SMTT(30) DEF IInv, TypeOK
<1>5. XminBelowActive' /\ ActiveBegun'
  BY <1>2, Zenon DEF IInv, XminBelowActive, ActiveBegun
<1>6. PendingBounded'
  BY <1>1, <1>2, <1>3, Zenon DEF IInv, TypeOK, PendingBounded
<1>7. SnapshotBounds' /\ SnapshotSeparation'
  BY <1>2, Zenon DEF IInv, SnapshotBounds, SnapshotSeparation
<1>. QED
  BY <1>4, <1>5, <1>6, <1>7, ZenonT(30) DEF IInv

\* begin_tx: the new id is above every snapshot taken before.
LEMMA BeginPreserves ==
  ASSUME IInv, begin_tx
  PROVE  IInv'
<1>. DEFINE x == LowestOr(active, counter)
            s == [xmin |-> x, xmax |-> counter + 1, active |-> active,
                  owner |-> counter]
<1>. USE MaxTxidAssumption DEF Txid, TX_ID_BOOTSTRAP, TX_ID_INVALID, Owner
<1>1. x \in active \cup {counter} /\ \A u \in active : x <= u
  <2>1. active \subseteq Nat /\ counter \in Nat
    BY SMTT(30) DEF IInv, TypeOK
  <2>. QED  BY <2>1, LowestOrIsLeast, Zenon
<1>2. /\ counter \in 1 .. MaxTxid
      /\ counter' = counter + 1
      /\ active' = active \cup {counter}
      /\ global_xmax' = counter + 1
      /\ global_xmin' = IF x < counter THEN x ELSE counter
      /\ snapshot' = [snapshot EXCEPT ![counter] = s]
      /\ UNCHANGED <<aborted, advancing>>
  BY SMTT(30) DEF begin_tx, IInv, TypeOK
<1>. HIDE DEF x
<1>3. x \in 1 .. counter /\ x = global_xmin'
  BY <1>1, <1>2, SMTT(30) DEF IInv, TypeOK, ActiveBegun
<1>4. s \in Snapshot
  <2>1. counter \in Owner /\ counter + 1 \in 1 .. MaxTxid + 1 /\ active \subseteq Txid
        /\ x \in 1 .. MaxTxid + 1
    BY <1>2, <1>3, SMTT(30) DEF IInv, TypeOK
  <2>. QED
    BY <2>1, SMTT(30) DEF Snapshot
<1>5. TypeOK'
  <2>. HIDE DEF s
  <2>. QED  BY <1>2, <1>3, <1>4, SMTT(30) DEF IInv, TypeOK
<1>6. XminBelowActive' /\ ActiveBegun'
  BY <1>1, <1>2, <1>3, SMTT(30) DEF IInv, TypeOK, XminBelowActive, ActiveBegun
<1>7. PendingBounded'
  BY <1>2, SMTT(30) DEF IInv, TypeOK, PendingBounded
<1>8. /\ snapshot'[counter].xmin = x
      /\ snapshot'[counter].xmax = counter + 1
      /\ snapshot'[counter].active = active
  BY <1>2, Zenon DEF IInv, TypeOK
<1>9. \A o \in Owner : /\ o # counter => snapshot'[o] = snapshot[o]
                       /\ snapshot[o].xmin \in Nat
                       /\ snapshot[o].xmax \in Nat
  <2>1. \A o \in Owner : snapshot[o] \in Snapshot /\ (o # counter => snapshot'[o] = snapshot[o])
    BY <1>2, Zenon DEF IInv, TypeOK
  <2>. QED
    BY <2>1, Zenon DEF Snapshot
<1>. HIDE DEF s
<1>10. SnapshotBounds'
  <2>. SUFFICES ASSUME NEW o \in Owner
                PROVE  /\ snapshot'[o].xmin <= snapshot'[o].xmax
                       /\ snapshot'[o].xmax <= counter'
    BY Zenon DEF SnapshotBounds
  <2>1. CASE o = counter
    BY <1>2, <1>3, <1>8, <2>1, SMTT(30)
  <2>2. CASE o # counter
    BY <1>2, <1>9, <2>2, SMTT(30) DEF SnapshotBounds, IInv
  <2>. QED  BY <2>1, <2>2, Zenon
<1>11. SnapshotSeparation'
  <2>. SUFFICES ASSUME NEW o \in Owner, NEW u \in active', u # o
                PROVE  /\ snapshot'[o].xmin <= u
                       /\ snapshot'[o].xmax <= u \/ u \in snapshot'[o].active
    BY Zenon DEF SnapshotSeparation
  <2>1. CASE o = counter
    BY <1>1, <1>2, <1>8, <2>1, SMTT(30)
  <2>2. CASE o # counter /\ u = counter
    BY <1>2, <1>9, <2>2, SMTT(30) DEF IInv, SnapshotBounds
  <2>3. CASE o # counter /\ u \in active
    BY <1>9, <2>3, Zenon DEF IInv, SnapshotSeparation
  <2>. QED  BY <1>2, <2>1, <2>2, <2>3, Zenon
<1>. QED
  BY <1>5, <1>6, <1>7, <1>10, <1>11, SMTT(30) DEF IInv
\* The snapshots that active transactions hold are left alone by the other steps.
LEMMA ActiveSnapshotPreserves ==
  ASSUME IInv, active_snapshot
  PROVE  IInv'
<1>. DEFINE x == LowestOr(active, counter)
            s == [xmin |-> x, xmax |-> counter, active |-> active,
                  owner |-> TX_ID_INVALID]
<1>. USE MaxTxidAssumption DEF Txid, TX_ID_BOOTSTRAP, Owner
<1>1. x \in active \cup {counter} /\ \A u \in active : x <= u
  <2>1. active \subseteq Nat /\ counter \in Nat
    BY SMTT(30) DEF IInv, TypeOK
  <2>. QED  BY <2>1, LowestOrIsLeast
<1>2. /\ snapshot' = [snapshot EXCEPT ![TX_ID_INVALID] = s]
      /\ UNCHANGED <<counter, active, aborted, global_xmin, global_xmax,
                     advancing>>
  BY Zenon DEF active_snapshot
<1>. HIDE DEF x
<1>3. x \in 1 .. counter
  BY <1>1, SMTT(30) DEF IInv, TypeOK, ActiveBegun
<1>4. s \in Snapshot
  BY <1>3, SMTT(30) DEF IInv, TypeOK, Snapshot
<1>5. TypeOK'
  <2>. HIDE DEF s
  <2>. QED  BY <1>2, <1>4, Zenon DEF IInv, TypeOK
<1>6. XminBelowActive' /\ ActiveBegun' /\ PendingBounded'
  BY <1>2, Zenon DEF IInv, XminBelowActive, ActiveBegun, PendingBounded
<1>7. /\ snapshot'[TX_ID_INVALID].xmin = x
      /\ snapshot'[TX_ID_INVALID].xmax = counter
      /\ snapshot'[TX_ID_INVALID].active = active
  BY <1>2, Zenon DEF IInv, TypeOK
<1>8. \A o \in Owner : o # TX_ID_INVALID => snapshot'[o] = snapshot[o]
  BY <1>2, Zenon DEF IInv, TypeOK
<1>. HIDE DEF s
<1>9. SnapshotBounds'
  <2>1. counter \in Nat /\ counter' = counter
    BY <1>2, SMTT(30) DEF IInv, TypeOK
  <2>2. ASSUME NEW o \in Owner
        PROVE  snapshot'[o].xmin <= snapshot'[o].xmax /\ snapshot'[o].xmax <= counter
    BY <1>3, <1>7, <1>8, <2>1, SMTT(30) DEF IInv, SnapshotBounds
  <2>. QED  BY <2>1, <2>2, SMTT(30) DEF SnapshotBounds
<1>10. SnapshotSeparation'
  BY <1>1, <1>2, <1>7, <1>8, SMTT(30) DEF IInv, SnapshotSeparation
<1>. QED
  BY <1>5, <1>6, <1>9, <1>10, Zenon DEF IInv

\* Every step of begin_tx, commit_tx, abort_tx and advance_xmin keeps the invariant.
LEMMA StepIInv == IInv /\ [Next]_vars => IInv'
<1>. SUFFICES ASSUME IInv, [Next]_vars PROVE IInv'
  OBVIOUS
<1>1. CASE begin_tx
  BY <1>1, BeginPreserves, SMTT(30)
<1>2. CASE active_snapshot
  BY <1>2, ActiveSnapshotPreserves, SMTT(30)
<1>3. ASSUME NEW t \in Txid, commit_tx(t) PROVE IInv'
  BY <1>3, RemovePreserves, SMTT(30) DEF commit_tx, IInv, TypeOK
<1>4. ASSUME NEW t \in Txid, abort_tx_log(t) PROVE IInv'
  BY <1>4, Zenon DEF abort_tx_log, IInv, TypeOK, XminBelowActive, ActiveBegun,
              PendingBounded, SnapshotBounds, SnapshotSeparation
<1>5. ASSUME NEW t \in Txid, abort_tx_remove(t) PROVE IInv'
  BY <1>5, RemovePreserves, Zenon DEF abort_tx_remove, IInv, TypeOK
<1>6. ASSUME NEW t \in Txid, advance_xmin(t) PROVE IInv'
  <2>1. advancing[t] \in 1 .. MaxTxid + 1
    BY <1>6, MaxTxidAssumption, SMTT(30) DEF advance_xmin, IInv, TypeOK, NoCandidate
  <2>2. global_xmin' \in {global_xmin, advancing[t]}
    BY <1>6, SMTT(30) DEF advance_xmin
  <2>3. TypeOK'
    BY <1>6, <2>1, <2>2, MaxTxidAssumption, SMTT(30)
    DEF advance_xmin, IInv, TypeOK, NoCandidate
  <2>4. XminBelowActive' /\ ActiveBegun'
    BY <1>6, <2>2, Zenon
    DEF advance_xmin, IInv, XminBelowActive, ActiveBegun, PendingBounded
  <2>5. PendingBounded'
    BY <1>6, MaxTxidAssumption, SMTT(30)
    DEF advance_xmin, IInv, TypeOK, PendingBounded, NoCandidate, Txid,
        TX_ID_BOOTSTRAP
  <2>6. SnapshotBounds' /\ SnapshotSeparation'
    BY <1>6, Zenon DEF advance_xmin, IInv, SnapshotBounds, SnapshotSeparation
  <2>. QED  BY <2>3, <2>4, <2>5, <2>6, SMTT(30) DEF IInv
<1>7. CASE UNCHANGED vars
  BY <1>7, Zenon DEF vars, IInv, TypeOK, XminBelowActive, ActiveBegun,
              PendingBounded, SnapshotBounds, SnapshotSeparation
<1>. QED
  BY <1>1, <1>2, <1>3, <1>4, <1>5, <1>6, <1>7, SMTT(30) DEF Next

(* The inductive invariant holds in every reachable state.                 *)
THEOREM IInvInvariant == Spec => []IInv
  BY InitIInv, StepIInv, PTL DEF Spec

(* Every variable of the global transaction state keeps its type.          *)
THEOREM TypeCorrect == Spec => []TypeOK
<1>1. IInv => TypeOK
  BY SMTT(30) DEF IInv
<1>. QED  BY <1>1, IInvInvariant, PTL

(* The horizon that advance_xmin publishes outside the mutex never passes  *)
(* an active transaction.                                                  *)
THEOREM XminSafe == Spec => []XminBelowActive
<1>1. IInv => XminBelowActive
  BY DEF IInv
<1>. QED  BY <1>1, IInvInvariant, PTL

(* global_xmin never retreats, not even through the plain store in         *)
(* begin_tx.                                                               *)
THEOREM XminNeverRetreats == Spec => XminMonotone
<1>1. IInv /\ [Next]_vars => [global_xmin <= global_xmin']_vars
  <2>. SUFFICES ASSUME IInv, Next PROVE global_xmin <= global_xmin'
    BY Zenon
  <2>1. CASE begin_tx
    <3>1. active \subseteq Nat /\ counter \in Nat
      BY SMTT(30) DEF IInv, TypeOK, Txid, TX_ID_BOOTSTRAP
    <3>2. LowestOr(active, counter) \in active \cup {counter}
      BY <3>1, LowestOrIsLeast, Zenon
    <3>. QED
      BY <2>1, <3>1, <3>2, ZenonT(30) DEF begin_tx, IInv, XminBelowActive, ActiveBegun
  <2>2. CASE \E t \in Txid : advance_xmin(t)
    BY <2>2, MaxTxidAssumption, SMTT(30) DEF advance_xmin, IInv, TypeOK
  <2>3. CASE UNCHANGED global_xmin
    BY <2>3, SMTT(30) DEF IInv, TypeOK
  <2>. QED
    BY <2>1, <2>2, <2>3, SMTT(30)
    DEF Next, active_snapshot, commit_tx, abort_tx_log, abort_tx_remove
<1>. QED
  BY <1>1, IInvInvariant, PTL DEF Spec, XminMonotone

------------------------------------------------------------------------------
(* What a snapshot sees of one transaction, before and after a step.       *)
LEMMA SeesDef ==
  \A o \in Owner, t \in Txid :
    /\ Sees(o, t) <=>
         /\ t \notin aborted
         /\ \/ t < snapshot[o].xmin
            \/ t < snapshot[o].xmax /\ t \notin snapshot[o].active
    /\ Sees(o, t)' <=>
         /\ t \notin aborted'
         /\ \/ t < snapshot'[o].xmin
            \/ t < snapshot'[o].xmax /\ t \notin snapshot'[o].active
  BY MaxTxidAssumption, SMTT(30)
  DEF Sees, txid_committed_before_snapshot, Txid, TX_ID_BOOTSTRAP, TX_ID_INVALID

SeenBy(o) == {t \in Txid \ {o} : Sees(o, t)}

(* A snapshot that is not retaken keeps what it sees when the abort log    *)
(* grows by transactions that are still active.                            *)
LEMMA SeenStable ==
  ASSUME IInv, NEW o \in Owner, snapshot'[o] = snapshot[o],
         aborted \subseteq aborted', aborted' \subseteq aborted \cup active
  PROVE  SeenBy(o)' = SeenBy(o)
<1>. SUFFICES ASSUME NEW t \in Txid \ {o} PROVE Sees(o, t)' <=> Sees(o, t)
  BY Zenon DEF SeenBy
<1>1. CASE t \in active
  <2>1. /\ snapshot[o].xmin \in Nat /\ snapshot[o].xmax \in Nat /\ t \in Nat
        /\ snapshot[o].xmin <= t
        /\ snapshot[o].xmax <= t \/ t \in snapshot[o].active
    BY <1>1, SMTT(30) DEF IInv, TypeOK, Snapshot, SnapshotSeparation, Txid, TX_ID_BOOTSTRAP
  <2>. QED  BY <2>1, SeesDef, SMTT(30)
<1>2. CASE t \notin active
  BY <1>2, SeesDef, Zenon
<1>. QED  BY <1>1, <1>2, SMTT(30)

(* The floor that begin_tx and take_read_snapshot compute.                 *)
LEMMA LowestActive ==
  ASSUME IInv
  PROVE  /\ LowestOr(active, counter) \in active \cup {counter}
         /\ \A u \in active : LowestOr(active, counter) <= u
<1>1. active \in SUBSET Nat /\ counter \in Nat
  BY SMTT(30) DEF IInv, TypeOK, Txid, TX_ID_BOOTSTRAP
<1>. QED
  BY <1>1, LowestOrIsLeast, Zenon

(* A fresh snapshot with the given bounds sees exactly what has committed. *)
LEMMA FreshSnapshotSees ==
  ASSUME IInv, NEW o \in Owner, aborted' = aborted,
         o \in Txid => o = counter,
         snapshot'[o].xmin = LowestOr(active, counter),
         snapshot'[o].active = active,
         snapshot'[o].xmax = IF o = TX_ID_INVALID THEN counter ELSE counter + 1
  PROVE  SeenBy(o)' = Committed
<1>1. /\ active \subseteq Nat
      /\ counter \in Nat
  BY SMTT(30) DEF IInv, TypeOK, Txid, TX_ID_BOOTSTRAP
<1>2. /\ LowestOr(active, counter) \in active \cup {counter}
      /\ \A u \in active : LowestOr(active, counter) <= u
  BY LowestActive, Zenon
<1>3. ASSUME NEW t \in Txid
      PROVE  (t # o /\ Sees(o, t)') <=> (t < counter /\ t \notin active /\ t \notin aborted)
  <2>1. t \in Nat /\ t # TX_ID_INVALID
    BY SMTT(30) DEF Txid, TX_ID_BOOTSTRAP, TX_ID_INVALID
  <2>2. Sees(o, t)' <=> /\ t \notin aborted
                        /\ \/ t < snapshot'[o].xmin
                           \/ t < snapshot'[o].xmax /\ t \notin active
    BY SeesDef, Zenon
  <2>3. t < snapshot'[o].xmin => t < counter /\ t \notin active
    <3>1. \A u \in active : u < counter
      BY SMTT(30) DEF IInv, ActiveBegun
    <3>2. ASSUME NEW l \in Nat, l \in active \cup {counter}, t < l,
                 \A u \in active : l <= u
          PROVE  t < counter /\ t \notin active
      BY <1>1, <2>1, <3>1, <3>2, SMTT(30)
    <3>. QED  BY <1>1, <1>2, <3>2, Zenon
  <2>4. CASE o = TX_ID_INVALID
    BY <2>1, <2>2, <2>3, <2>4, SMTT(30)
  <2>5. CASE o # TX_ID_INVALID
    <3>1. o = counter /\ snapshot'[o].xmax = counter + 1
      BY <2>5, Zenon DEF Owner
    <3>2. t # o /\ t < counter + 1 <=> t < counter
      BY <1>1, <2>1, <3>1, SMTT(30)
    <3>. QED  BY <2>2, <2>3, <3>1, <3>2, <1>1, <2>1, SMTT(30)
  <2>. QED  BY <2>4, <2>5, SMTT(30)
<1>. QED
  BY <1>3, Zenon DEF SeenBy, Committed

\* The initial state maps to an initial state of SnapshotOracle.
LEMMA InitRefines == Init => Oracle!Init
<1>. SUFFICES ASSUME Init PROVE Oracle!Init
  OBVIOUS
<1>1. \A t \in Txid : ~(t < counter)
  BY SMTT(30) DEF Init, Txid, TX_ID_BOOTSTRAP
<1>2. \A o \in Owner, t \in Txid : ~Sees(o, t)
  BY SeesDef, SMTT(30) DEF Init, NoSnapshot, Txid, TX_ID_BOOTSTRAP
<1>. QED
  BY <1>1, <1>2, SMTT(30) DEF Oracle!Init, Committed, Owner

\* Every step maps to a step of SnapshotOracle or changes nothing it can see.
LEMMA StepRefines == IInv /\ [Next]_vars => [Oracle!Next]_(Oracle!vars)
<1>. SUFFICES ASSUME IInv, [Next]_vars
              PROVE  Oracle!Next \/ UNCHANGED Oracle!vars
  OBVIOUS
<1>. DEFINE Begun == {t \in Txid : t < counter}
            View == [o \in Owner |-> SeenBy(o)]
<1>1. CASE begin_tx
  <2>1. PICK n \in Txid : n = counter
    BY <1>1, MaxTxidAssumption, SMTT(30)
    DEF begin_tx, IInv, TypeOK, Txid, TX_ID_BOOTSTRAP
  <2>2. Begun' = Begun \cup {n} /\ n \notin Begun
    BY <1>1, <2>1, SMTT(30) DEF begin_tx, Txid, TX_ID_BOOTSTRAP
  <2>3. Committed' = Committed
    BY <1>1, <2>1, SMTT(30) DEF begin_tx, Committed, Txid, TX_ID_BOOTSTRAP
  <2>4. \A o \in Owner : o # n => SeenBy(o)' = SeenBy(o)
    <3>1. \A o \in Owner : o # n => snapshot'[o] = snapshot[o]
      BY <1>1, <2>1, SMTT(30) DEF begin_tx, IInv, TypeOK
    <3>2. aborted' = aborted
      BY <1>1, Zenon DEF begin_tx
    <3>. QED  BY <3>1, <3>2, SeenStable, Zenon
  <2>5. SeenBy(n)' = Committed
    <3>1. /\ snapshot'[n].xmin = LowestOr(active, counter)
          /\ snapshot'[n].active = active
          /\ snapshot'[n].xmax = counter + 1
          /\ aborted' = aborted
      BY <1>1, <2>1, SMTT(30) DEF begin_tx, IInv, TypeOK, Owner
    <3>2. n \in Owner /\ n # TX_ID_INVALID
      BY <2>1 DEF Owner, Txid, TX_ID_BOOTSTRAP, TX_ID_INVALID
    <3>. QED  BY <2>1, <3>1, <3>2, FreshSnapshotSees, SMTT(30)
  <2>6. View' = [View EXCEPT ![n] = Committed]
    BY <2>1, <2>4, <2>5, Zenon DEF Owner
  <2>7. Oracle!Begin(n)
    BY <2>2, <2>3, <2>6, SMTT(30) DEF Oracle!Begin, SeenBy
  <2>. QED  BY <2>1, <2>7, SMTT(30) DEF Oracle!Next
<1>2. CASE active_snapshot
  <2>1. Begun' = Begun /\ Committed' = Committed /\ aborted' = aborted
    BY <1>2, Zenon DEF active_snapshot, Committed
  <2>2. \A o \in Owner : o # TX_ID_INVALID => SeenBy(o)' = SeenBy(o)
    <3>1. \A o \in Owner : o # TX_ID_INVALID => snapshot'[o] = snapshot[o]
      BY <1>2, SMTT(30) DEF active_snapshot, IInv, TypeOK
    <3>. QED  BY <2>1, <3>1, SeenStable, SMTT(30)
  <2>3. SeenBy(TX_ID_INVALID)' = Committed
    <3>1. TX_ID_INVALID \in Owner /\ TX_ID_INVALID \notin Txid
      BY SMTT(30) DEF Owner, Txid, TX_ID_BOOTSTRAP, TX_ID_INVALID
    <3>2. /\ snapshot'[TX_ID_INVALID].xmin = LowestOr(active, counter)
          /\ snapshot'[TX_ID_INVALID].active = active
          /\ snapshot'[TX_ID_INVALID].xmax = counter
      BY <1>2, <3>1, SMTT(30) DEF active_snapshot, IInv, TypeOK
    <3>. QED  BY <2>1, <3>1, <3>2, FreshSnapshotSees, SMTT(30)
  <2>4. View' = [View EXCEPT ![TX_ID_INVALID] = Committed]
    BY <2>2, <2>3, Zenon DEF Owner
  <2>5. Oracle!Refresh
    BY <2>1, <2>4, SMTT(30) DEF Oracle!Refresh, SeenBy
  <2>. QED  BY <2>5, Zenon DEF Oracle!Next
<1>3. ASSUME NEW t \in Txid, commit_tx(t) PROVE Oracle!Commit(t)
  <2>1. \A o \in Owner : SeenBy(o)' = SeenBy(o)
    BY <1>3, SeenStable, SMTT(30) DEF commit_tx
  <2>2. /\ counter' = counter /\ aborted' = aborted /\ t \in active
        /\ active' = active \ {t} /\ t \notin aborted /\ t < counter
    BY <1>3, SMTT(30) DEF commit_tx, remove_active, IInv, ActiveBegun
  <2>3. Committed' = Committed \cup {t} /\ t \in Begun \ Committed
    BY <2>2, Zenon DEF Committed
  <2>4. View' = View /\ Begun' = Begun
    BY <2>1, <2>2, SMTT(30)
  <2>. QED  BY <2>3, <2>4, SMTT(30) DEF Oracle!Commit, SeenBy
<1>4. ASSUME NEW t \in Txid,
             abort_tx_log(t) \/ abort_tx_remove(t) \/ advance_xmin(t)
      PROVE  UNCHANGED Oracle!vars
  <2>1. /\ counter' = counter /\ snapshot' = snapshot
        /\ aborted \subseteq aborted' /\ aborted' \subseteq aborted \cup active
    BY <1>4, SMTT(30) DEF abort_tx_log, abort_tx_remove, advance_xmin
  <2>2. \A o \in Owner : SeenBy(o)' = SeenBy(o)
    BY <2>1, SeenStable, SMTT(30)
  <2>3. Committed' = Committed
    BY <1>4, Zenon DEF abort_tx_log, abort_tx_remove, advance_xmin, remove_active,
                Committed
  <2>4. View' = View /\ Begun' = Begun
    BY <2>1, <2>2, Zenon
  <2>. QED  BY <2>3, <2>4, Zenon DEF Oracle!vars, SeenBy
<1>5. CASE UNCHANGED vars
  <2>1. \A o \in Owner : SeenBy(o)' = SeenBy(o)
    BY <1>5, SeenStable, SMTT(30) DEF vars
  <2>2. View' = View /\ Begun' = Begun /\ Committed' = Committed
    BY <1>5, <2>1, Zenon DEF vars, Committed
  <2>. QED  BY <2>2, Zenon DEF Oracle!vars, SeenBy
<1>. QED
  BY <1>1, <1>2, <1>3, <1>4, <1>5, SMTT(30) DEF Next, Oracle!Next

(* Snapshots keep the promise of the oracle: each sees exactly the         *)
(* transactions that had committed when it was taken, for its whole life,  *)
(* however commits, aborts and horizon advances interleave with it.        *)
THEOREM SnapshotsCorrect == Spec => SnapshotsRefineOracle
  BY InitRefines, StepRefines, IInvInvariant, PTL
  DEF Spec, SnapshotsRefineOracle, Oracle!Spec
=============================================================================
