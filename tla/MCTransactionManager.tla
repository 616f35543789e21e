------------------------ MODULE MCTransactionManager ------------------------
(* Instances of TransactionManager for TLC.  A run ends when its           *)
(* transactions have finished, so deadlock is not an error.                *)
EXTENDS TransactionManager

ExclusiveCalls == {[kind |-> "lock", mode |-> "X"]}
RowCalls == {[kind |-> "lock", mode |-> m] : m \in {"S", "X"}}
RangeCalls == {[kind |-> "range", mode |-> "S"], [kind |-> "phantom", mode |-> "X"]}
=============================================================================
