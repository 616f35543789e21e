--------------------------- MODULE SnapshotOracle ---------------------------
(***************************************************************************)
(* What src/src/txn/state.rs promises of its snapshots: a transaction sees *)
(* the set of transactions that had committed when it began, and that set  *)
(* never changes while it runs.                                            *)
(***************************************************************************)
CONSTANTS Txid, NoOwner

VARIABLES
  begun,        \* the transactions that have been given an id
  committed,    \* the transactions that have committed
  view          \* owner -> the transactions its snapshot sees

vars == <<begun, committed, view>>

Init ==
  /\ begun = {}
  /\ committed = {}
  /\ view = [o \in Txid \cup {NoOwner} |-> {}]

Begin(t) ==
  /\ t \notin begun
  /\ begun' = begun \cup {t}
  /\ view' = [view EXCEPT ![t] = committed]
  /\ UNCHANGED committed

(* A snapshot without a transaction, taken at any moment.                  *)
Refresh ==
  /\ view' = [view EXCEPT ![NoOwner] = committed]
  /\ UNCHANGED <<begun, committed>>

Commit(t) ==
  /\ t \in begun \ committed
  /\ committed' = committed \cup {t}
  /\ UNCHANGED <<begun, view>>

Next == Refresh \/ \E t \in Txid : Begin(t) \/ Commit(t)

Spec == Init /\ [][Next]_vars
=============================================================================
