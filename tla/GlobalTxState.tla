---------------------------- MODULE GlobalTxState ----------------------------
(***************************************************************************)
(* The global transaction state of src/src/txn/state.rs with the id        *)
(* allocator of txid.rs and the snapshots of snapshot.rs.                  *)
(*                                                                         *)
(* Every action is one critical section of the `inner` mutex, one insert   *)
(* under the abort-log mutex, or one atomic update of global_xmin.  The    *)
(* steps of commit_tx and abort_tx that lie outside the mutex (the abort   *)
(* log before it, the advance of global_xmin after it) are actions of      *)
(* their own, so other threads run between them.                           *)
(***************************************************************************)
EXTENDS Integers, FiniteSets

CONSTANT MaxTxid    \* bound: the last id the model allocates

ASSUME MaxTxidAssumption == MaxTxid \in Nat

TX_ID_INVALID == 0
TX_ID_BOOTSTRAP == 1

Txid == TX_ID_BOOTSTRAP .. MaxTxid
NoCandidate == 0

(* The owner of a snapshot: a transaction, or TX_ID_INVALID for the        *)
(* snapshot that active_snapshot hands out.                                *)
Owner == Txid \cup {TX_ID_INVALID}

VARIABLES
  counter,      \* TxIdAllocator.counter: the next id to issue
  active,       \* Inner.active
  aborted,      \* the shared abort log
  global_xmin,
  global_xmax,
  snapshot,     \* owner -> the last snapshot taken for it
  advancing     \* txid -> the new_xmin it computed and has not published yet

vars == <<counter, active, aborted, global_xmin, global_xmax, snapshot,
          advancing>>

Snapshot == [xmin : Nat, xmax : Nat, active : SUBSET Txid, owner : Owner]
NoSnapshot == [xmin |-> 0, xmax |-> 0, active |-> {}, owner |-> TX_ID_INVALID]

LowestOr(S, default) ==
  IF S = {} THEN default ELSE CHOOSE t \in S : \A u \in S : t <= u

Init ==
  /\ counter = TX_ID_BOOTSTRAP
  /\ active = {}
  /\ aborted = {}
  /\ global_xmin = TX_ID_BOOTSTRAP
  /\ global_xmax = TX_ID_BOOTSTRAP
  /\ snapshot = [o \in Owner |-> NoSnapshot]
  /\ advancing = [t \in Txid |-> NoCandidate]

------------------------------------------------------------------------------
(* Visibility, evaluated against the live abort log.                       *)

(* Mutant: the abort log is not consulted (finding M14 of the audit).      *)
txid_committed_NoAbortLog(s, t, committed_hint) ==
  /\ t # TX_ID_INVALID
  /\ \/ committed_hint
     \/ t < s.xmin
     \/ t < s.xmax /\ t \notin s.active

txid_committed_before_snapshot(s, t, committed_hint) ==
  /\ t # TX_ID_INVALID
  /\ t \notin aborted
  /\ \/ committed_hint
     \/ t < s.xmin
     \/ t < s.xmax /\ t \notin s.active

is_visible(s, xmin_tuple, xmax_tuple, xmin_committed, xmax_committed) ==
  /\ \/ txid_committed_before_snapshot(s, xmin_tuple, xmin_committed)
     \/ xmin_tuple = s.owner
  /\ \/ xmax_tuple = TX_ID_INVALID
     \/ /\ xmax_tuple # s.owner
        /\ ~txid_committed_before_snapshot(s, xmax_tuple, xmax_committed)

(* No caller in the repository sets an infomask hint.                      *)
Sees(o, t) == txid_committed_before_snapshot(snapshot[o], t, FALSE)

------------------------------------------------------------------------------
begin_tx ==
  LET txid == counter
      xmin == LowestOr(active, txid)
  IN /\ txid <= MaxTxid
     /\ counter' = txid + 1
     /\ active' = active \cup {txid}
     /\ global_xmax' = txid + 1
     /\ global_xmin' = IF xmin < txid THEN xmin ELSE txid
     /\ snapshot' = [snapshot EXCEPT ![txid] =
          [xmin |-> xmin, xmax |-> txid + 1, active |-> active, owner |-> txid]]
     /\ UNCHANGED <<aborted, advancing>>

active_snapshot ==
  /\ snapshot' = [snapshot EXCEPT ![TX_ID_INVALID] =
       [xmin |-> LowestOr(active, counter), xmax |-> counter,
        active |-> active, owner |-> TX_ID_INVALID]]
  /\ UNCHANGED <<counter, active, aborted, global_xmin, global_xmax,
                 advancing>>

(* Mutant: the candidate is the next id although others are active.        *)
remove_active_IgnoresOthers(t) ==
  /\ active' = active \ {t}
  /\ advancing' = [advancing EXCEPT ![t] = global_xmax]

(* Mutant: the candidate is computed before the id is removed.             *)
remove_active_Before(t) ==
  /\ active' = active \ {t}
  /\ advancing' = [advancing EXCEPT ![t] = LowestOr(active, global_xmax)]

(* The critical section of remove_active: the candidate is computed under  *)
(* the mutex and published by advance_xmin after the mutex is released.    *)
remove_active(t) ==
  /\ active' = active \ {t}
  /\ advancing' = [advancing EXCEPT ![t] = LowestOr(active \ {t}, global_xmax)]

commit_tx(t) ==
  /\ t \in active
  /\ t \notin aborted
  /\ remove_active(t)
  /\ UNCHANGED <<counter, aborted, global_xmin, global_xmax, snapshot>>

abort_tx_log(t) ==
  /\ t \in active
  /\ t \notin aborted
  /\ aborted' = aborted \cup {t}
  /\ UNCHANGED <<counter, active, global_xmin, global_xmax, snapshot,
                 advancing>>

abort_tx_remove(t) ==
  /\ t \in active
  /\ t \in aborted
  /\ remove_active(t)
  /\ UNCHANGED <<counter, aborted, global_xmin, global_xmax, snapshot>>

(* The compare-and-swap loop: it ends either on a value at least the       *)
(* candidate or by installing the candidate over a smaller one.            *)
advance_xmin(t) ==
  /\ advancing[t] # NoCandidate
  /\ global_xmin' = IF advancing[t] <= global_xmin
                      THEN global_xmin ELSE advancing[t]
  /\ advancing' = [advancing EXCEPT ![t] = NoCandidate]
  /\ UNCHANGED <<counter, active, aborted, global_xmax, snapshot>>

Next ==
  \/ begin_tx
  \/ active_snapshot
  \/ \E t \in Txid : \/ commit_tx(t)
                     \/ abort_tx_log(t)
                     \/ abort_tx_remove(t)
                     \/ advance_xmin(t)

Spec == Init /\ [][Next]_vars

(* A thread inside commit_tx or abort_tx runs on: nothing blocks it.       *)
Fairness ==
  \A t \in Txid : WF_vars(abort_tx_remove(t)) /\ WF_vars(advance_xmin(t))

FairSpec == Spec /\ Fairness

------------------------------------------------------------------------------
(* Every variable holds a value of its type.                               *)
TypeOK ==
  /\ counter \in 1 .. MaxTxid + 1
  /\ active \subseteq Txid
  /\ aborted \subseteq Txid
  /\ global_xmin \in 1 .. MaxTxid + 1
  /\ global_xmax \in 1 .. MaxTxid + 1
  /\ snapshot \in [Owner -> Snapshot]
  /\ advancing \in [Txid -> 0 .. MaxTxid + 1]

(* global_xmin, which is advanced outside the mutex while other threads    *)
(* begin and finish, never passes a transaction that is still active, nor  *)
(* the next id to be issued.                                               *)
XminBelowActive ==
  /\ \A t \in active : global_xmin <= t
  /\ global_xmin <= global_xmax

(* The transactions that commit_tx has removed from the active set.        *)
Committed == {t \in Txid : t < counter /\ t \notin active /\ t \notin aborted}

Oracle == INSTANCE SnapshotOracle WITH
  NoOwner <- TX_ID_INVALID,
  begun <- {t \in Txid : t < counter},
  committed <- Committed,
  view <- [o \in Owner |-> {t \in Txid \ {o} : Sees(o, t)}]

(* A snapshot sees exactly the other transactions that had committed when  *)
(* it was taken, for as long as it is used: none that was running, none    *)
(* that began later, none that aborted before or after, although           *)
(* visibility reads the live abort log and commits and aborts go on.       *)
SnapshotsRefineOracle == Oracle!Spec

(* global_xmin never retreats: a horizon that a vacuum acted on stays      *)
(* valid.                                                                  *)
XminMonotone == [][global_xmin <= global_xmin']_vars

(* A transaction that finished while no older one is active does not hold  *)
(* the horizon back for ever: again and again the delayed advance_xmin of  *)
(* some thread has moved it past every such transaction.                   *)
HorizonAdvances ==
  []<>(\A t \in Txid : (t < counter /\ \A u \in active : t < u) => global_xmin > t)

(* manager.rs, snapshot_gc_horizon: "dead MVCC versions (xmax <            *)
(* global_xmin) are safe to reclaim", that is, no active snapshot still    *)
(* sees a version whose committed deleter lies below the horizon.          *)
(* Refuted: README, section 5.                                             *)
GcHorizonSafe ==
  \A o \in active, creator \in Committed, deleter \in Committed :
    creator < deleter /\ deleter < global_xmin
      => ~is_visible(snapshot[o], creator, deleter, FALSE, FALSE)
=============================================================================
