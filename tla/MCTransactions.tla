---------------------------- MODULE MCTransactions ----------------------------
(***************************************************************************)
(* The snapshot bookkeeping of GlobalTxState and two workloads of the      *)
(* transaction manager: row locks asked for by three transactions, and     *)
(* range locks and phantom writes of two serializable ones.  A behaviour   *)
(* runs one of them; it is over when its transactions have finished, so    *)
(* deadlock is no error.                                                   *)
(***************************************************************************)
EXTENDS GlobalTxState, TransactionManager

VARIABLE part

RowCalls == {[kind |-> "lock", mode |-> "X"]}
RangeCalls == {[kind |-> "range", mode |-> "S"], [kind |-> "phantom", mode |-> "X"]}
AllCalls == RowCalls \cup RangeCalls

(* What the clients of each workload ask for. *)
Asked ==
    \A t \in Tx :
       /\ status'[t] # "unborn" =>
            IF part = "rows" THEN isolation'[t] = "RepeatableRead"
                             ELSE isolation'[t] = "Serializable" /\ t <= 2
       /\ req'[t] # NoReq =>
            req'[t].kind \in (IF part = "rows" THEN {"lock"} ELSE {"range", "phantom"})

TransactionsInit == Init /\ TMInit /\ part \in {"snapshots", "rows", "ranges"}

TransactionsNext ==
    /\ UNCHANGED part
    /\ \/ part = "snapshots" /\ Next /\ UNCHANGED tmvars
       \/ part # "snapshots" /\ TMNext /\ Asked /\ UNCHANGED vars

(* Fairness as in FairSpec and TMFairSpec: part never changes, and a       *)
(* component that does not run has no step that is enabled for ever.       *)
TransactionsSpec ==
    /\ TransactionsInit /\ [][TransactionsNext]_<<vars, tmvars, part>>
    /\ \A t \in Txid : /\ WF_vars(part = "snapshots" /\ abort_tx_remove(t))
                      /\ WF_vars(part = "snapshots" /\ advance_xmin(t))
    /\ \A t \in Tx : WF_tmvars(part # "snapshots" /\ Step(t))
=============================================================================
