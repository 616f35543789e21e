-------------------------- MODULE TransactionManager --------------------------
(***************************************************************************)
(* The transaction manager of src/src/txn/manager.rs over the lock table   *)
(* (LockTable), the wound-wait rule of wound_wait.rs, the abort registry   *)
(* and the SSI tracker of phantom.rs.                                      *)
(*                                                                         *)
(* Each transaction is driven by one thread.  An action is one critical    *)
(* section of one of the shared structures together with the thread-local  *)
(* code up to the next, so every window between two mutexes is open to the *)
(* other threads.  The global transaction state is taken at the level of   *)
(* its active set and abort log; GlobalTxState has its inner steps.  Wound *)
(* counters are left out: check() decides by age alone.  A WAL flush that  *)
(* fails leaves a transaction Active and changes nothing here.             *)
(***************************************************************************)
EXTENDS LockTable

CONSTANTS
  Calls,      \* the kinds of lock call the clients make, with their mode
  Isolation,  \* the isolation levels they ask for
  Staging     \* the transactions that commit with staged index mutations

ASSUME TxAssumption == Tx \subseteq Nat \ {0}

IsolationLevel == {"ReadUncommitted", "ReadCommitted", "RepeatableRead",
                   "Serializable"}
CallType == [kind : {"lock"}, mode : LockMode]
              \cup {[kind |-> "range", mode |-> "S"],
                    [kind |-> "phantom", mode |-> "X"]}

ASSUME ClientAssumption == /\ Calls \subseteq CallType
                           /\ Isolation \subseteq IsolationLevel
                           /\ Staging \subseteq Tx

VARIABLES
  status,       \* Transaction.status, "unborn" before begin
  isolation,    \* Transaction.isolation_level
  held_locks,   \* Transaction.held_locks
  read_ranges,  \* Transaction.read_ranges
  in_conflict,  \* the transactions whose SsiFlags.in_conflict is set
  out_set,      \* SsiTracker.out_set
  active_ids,   \* GlobalTxState: the active set
  abort_log,    \* GlobalTxState: the abort log
  registry,     \* AbortRegistry.aborted
  indexed,      \* the transactions whose index mutations are applied
  pc,           \* where the thread of each transaction is
  req,          \* the lock call it is in
  rx,           \* its receiver: "none", "empty" or "granted"
  victim,       \* the transaction it is wounding
  seen,         \* the active ids of its snapshot, taken at begin
  scan,         \* active ids read by record_phantom_write
  ok            \* history: the calls that returned Ok to the transaction

idVars == <<status, isolation, seen>>
listVars == <<held_locks, read_ranges, ok>>
ssiVars == <<in_conflict, out_set, scan>>
globalVars == <<active_ids, abort_log>>
callVars == <<req, rx, victim>>
tmvars == <<lockVars, idVars, listVars, ssiVars, globalVars, registry, indexed,
          pc, callVars>>

NoTx == 0
NoReq == [res |-> "none", kind |-> "none", mode |-> "none"]
CallReq == [res : Resource, kind : {"lock", "range", "phantom"}, mode : LockMode]

TMInit ==
  /\ LockInit
  /\ status = [t \in Tx |-> "unborn"]
  /\ isolation = [t \in Tx |-> "RepeatableRead"]
  /\ held_locks = [t \in Tx |-> {}]
  /\ read_ranges = [t \in Tx |-> {}]
  /\ in_conflict = {}
  /\ out_set = {}
  /\ active_ids = {}
  /\ abort_log = {}
  /\ registry = {}
  /\ indexed = {}
  /\ pc = [t \in Tx |-> "idle"]
  /\ req = [t \in Tx |-> NoReq]
  /\ rx = [t \in Tx |-> "none"]
  /\ victim = [t \in Tx |-> NoTx]
  /\ seen = [t \in Tx |-> {}]
  /\ scan = [t \in Tx |-> {}]
  /\ ok = [t \in Tx |-> {}]

Idle(t) == status[t] = "Active" /\ pc[t] = "idle"
Goto(t, label) == pc' = [pc EXCEPT ![t] = label]

------------------------------------------------------------------------------
begin_with_isolation(t, level) ==
  /\ status[t] = "unborn"
  /\ \A u \in Tx : u < t => status[u] # "unborn"
  /\ status' = [status EXCEPT ![t] = "Active"]
  /\ isolation' = [isolation EXCEPT ![t] = level]
  /\ seen' = [seen EXCEPT ![t] = active_ids]
  /\ active_ids' = active_ids \cup {t}
  /\ UNCHANGED <<lockVars, listVars, ssiVars, abort_log, registry, indexed, pc,
                 callVars>>

------------------------------------------------------------------------------
(* The lock calls.                                                         *)

Enter(t, r, c, label) ==
  /\ req' = [req EXCEPT ![t] = [res |-> r, kind |-> c.kind, mode |-> c.mode]]
  /\ Goto(t, label)

(* acquire_lock looks at the abort registry before its loop.               *)
acquire_lock(t, r, c) ==
  /\ Idle(t) /\ c.kind = "lock"
  /\ IF t \in registry THEN Goto(t, "aborting") /\ UNCHANGED req
                       ELSE Enter(t, r, c, "try")
  /\ UNCHANGED <<lockVars, idVars, listVars, ssiVars, globalVars, registry,
                 indexed, rx, victim>>

acquire_range_lock(t, r, c) ==
  /\ Idle(t) /\ c.kind = "range"
  /\ Enter(t, r, c, "try")
  /\ UNCHANGED <<lockVars, idVars, listVars, ssiVars, globalVars, registry,
                 indexed, rx, victim>>

(* record_phantom_write first takes a snapshot of the active set ...       *)
record_phantom_write(t, r, c) ==
  /\ Idle(t) /\ c.kind = "phantom"
  /\ Enter(t, r, c, "scan")
  /\ scan' = [scan EXCEPT ![t] = active_ids]
  /\ UNCHANGED <<lockVars, idVars, listVars, in_conflict, out_set, globalVars,
                 registry, indexed, rx, victim>>

(* ... and then marks a conflict with every reader that is in it.          *)
mark_readers(t) ==
  LET readers == {h.txid : h \in {g \in holders[req[t].res] :
                    g.txid # t /\ g.mode \in {"S", "IS"} /\ g.txid \in scan[t]}}
  IN /\ pc[t] = "scan"
     /\ in_conflict' = IF readers = {} THEN in_conflict ELSE in_conflict \cup {t}
     /\ out_set' = out_set \cup readers
     /\ scan' = [scan EXCEPT ![t] = {}]
     /\ Goto(t, "try")
     /\ UNCHANGED <<lockVars, idVars, listVars, globalVars, registry, indexed,
                    callVars>>

(* A call that is over drops its receiver; its queue entry stays behind.   *)
Leave(t, label) ==
  /\ req' = [req EXCEPT ![t] = NoReq]
  /\ rx' = [rx EXCEPT ![t] = "none"]
  /\ victim' = [victim EXCEPT ![t] = NoTx]
  /\ Goto(t, label)

(* The call returns Ok: the resource is recorded for the final release.    *)
Granted(t) ==
  /\ held_locks' = IF req[t].kind = "range" THEN held_locks
                   ELSE [held_locks EXCEPT ![t] = @ \cup {req[t].res}]
  /\ read_ranges' = IF req[t].kind # "range" THEN read_ranges
                    ELSE [read_ranges EXCEPT ![t] = @ \cup {req[t].res}]
  /\ ok' = [ok EXCEPT ![t] = @ \cup {req[t]}]
  /\ Leave(t, "idle")

try_granted(t) ==
  /\ pc[t] = "try"
  /\ try_acquire_granted(req[t].res, t, req[t].mode)
  /\ Granted(t)
  /\ UNCHANGED <<idVars, ssiVars, globalVars, registry, indexed>>

(* Only a request that was newly queued comes with a receiver.             *)
try_denied(t) ==
  /\ pc[t] = "try"
  /\ try_acquire_denied(req[t].res, t, req[t].mode)
  /\ rx' = [rx EXCEPT ![t] = IF is_waiting(req[t].res, t) THEN "none" ELSE "empty"]
  /\ Goto(t, IF req[t].kind = "lock" THEN "denied" ELSE "holders")
  /\ UNCHANGED <<idVars, listVars, ssiVars, globalVars, registry, indexed, req,
                 victim>>

(* Of the three loops only the one of acquire_lock looks at the registry   *)
(* again after a denial.                                                   *)
recheck_denied(t) ==
  /\ pc[t] = "denied"
  /\ IF t \in registry THEN Leave(t, "aborting")
                       ELSE Goto(t, "holders") /\ UNCHANGED callVars
  /\ UNCHANGED <<lockVars, idVars, listVars, ssiVars, globalVars, registry,
                 indexed>>

(* WoundWait::check: the older transaction wounds.                         *)
check(requester, holder) == IF requester < holder THEN "Wound" ELSE "Wait"

(* holders() and the decision taken on its result.  The first holder found *)
(* to be younger is wounded; the list order is arbitrary.                  *)
apply_wound_wait(t) ==
  LET others == HolderIds(holders[req[t].res]) \ {t}
      younger == {u \in others : check(t, u) = "Wound"}
  IN /\ pc[t] = "holders"
     /\ \/ /\ \E v \in younger : victim' = [victim EXCEPT ![t] = v]
           /\ Goto(t, "wound")
           /\ UNCHANGED <<req, rx>>
        \/ /\ younger = {} /\ others # {} /\ rx[t] # "none"
           /\ Goto(t, "wait")
           /\ UNCHANGED callVars
        \/ /\ younger = {} /\ (others = {} \/ rx[t] = "none")
           /\ rx' = [rx EXCEPT ![t] = "none"]
           /\ Goto(t, "try")
           /\ UNCHANGED <<req, victim>>
     /\ UNCHANGED <<lockVars, idVars, listVars, ssiVars, globalVars, registry,
                    indexed>>

(* The waiters whose sender a release of r by t notifies.                  *)
Notified(r, t) ==
  {waiters[r][i].txid :
     i \in 1 .. GrantCount(remove_holder(holders[r], t), waiters[r])}

(* LockTable::release as the manager calls it: the lock table's step, with *)
(* Granted sent to those of the notified that still have their receiver.   *)
release_and_notify(r, t) ==
  /\ release(r, t)
  /\ rx' = [u \in Tx |-> IF /\ u \in Notified(r, t)
                            /\ rx[u] = "empty" /\ req[u].res = r
                         THEN "granted" ELSE rx[u]]

(* Mutant: the victim is not entered in the abort registry.                *)
wound_mark_NotMarked(t) ==
  /\ pc[t] = "wound"
  /\ Goto(t, "wound_release")
  /\ UNCHANGED <<lockVars, idVars, listVars, ssiVars, globalVars, registry,
                 indexed, callVars>>

(* The wound callback: mark the victim, release the contested resource on  *)
(* its behalf, take it out of the global state.  The call then returns     *)
(* WoundWait(victim).                                                      *)
wound_mark(t) ==
  /\ pc[t] = "wound"
  /\ registry' = registry \cup {victim[t]}
  /\ Goto(t, "wound_release")
  /\ UNCHANGED <<lockVars, idVars, listVars, ssiVars, globalVars, indexed,
                 callVars>>

wound_release(t) ==
  /\ pc[t] = "wound_release"
  /\ release_and_notify(req[t].res, victim[t])
  /\ Goto(t, "wound_abort")
  /\ UNCHANGED <<idVars, listVars, ssiVars, globalVars, registry, indexed, req,
                 victim>>

wound_abort(t) ==
  /\ pc[t] = "wound_abort"
  /\ abort_log' = abort_log \cup {victim[t]}
  /\ active_ids' = active_ids \ {victim[t]}
  /\ out_set' = out_set \ {victim[t]}
  /\ Leave(t, "idle")
  /\ UNCHANGED <<lockVars, idVars, listVars, in_conflict, scan, registry,
                 indexed>>

(* Mutant: a waiter that is notified does not look at the registry.        *)
wait_granted_NoCheck(t) ==
  /\ pc[t] = "wait" /\ rx[t] = "granted"
  /\ Granted(t)
  /\ UNCHANGED <<lockVars, idVars, ssiVars, globalVars, registry, indexed>>

(* recv_timeout answers Granted.  Only acquire_lock looks at the registry. *)
wait_granted(t) ==
  /\ pc[t] = "wait" /\ rx[t] = "granted"
  /\ IF req[t].kind = "lock" /\ t \in registry
       THEN Leave(t, "aborting") /\ UNCHANGED listVars
       ELSE Granted(t)
  /\ UNCHANGED <<lockVars, idVars, ssiVars, globalVars, registry, indexed>>

(* recv_timeout gives up after LOCK_WAIT_TIMEOUT.                          *)
wait_timeout(t) ==
  /\ pc[t] = "wait" /\ rx[t] = "empty"
  /\ IF t \in registry
       THEN Leave(t, "aborting")
       ELSE /\ rx' = [rx EXCEPT ![t] = "none"]
            /\ Goto(t, "try")
            /\ UNCHANGED <<req, victim>>
  /\ UNCHANGED <<lockVars, idVars, listVars, ssiVars, globalVars, registry,
                 indexed>>

------------------------------------------------------------------------------
is_doomed(t) == t \in out_set /\ t \in in_conflict

(* commit up to the flush of the Commit record.  It does not look at the   *)
(* abort registry.                                                         *)
commit(t) ==
  /\ Idle(t) /\ t \notin Staging
  /\ Goto(t, IF isolation[t] = "Serializable" /\ is_doomed(t)
              THEN "aborting" ELSE "committing")
  /\ UNCHANGED <<lockVars, idVars, listVars, ssiVars, globalVars, registry,
                 indexed, callVars>>

(* commit_with_indexes applies the staged mutations first.  When the batch *)
(* fails its inserts are undone and its deletes stay applied.              *)
commit_with_indexes(t) ==
  /\ Idle(t) /\ t \in Staging
  /\ \/ /\ indexed' = indexed \cup {t}
        /\ Goto(t, IF isolation[t] = "Serializable" /\ is_doomed(t)
                   THEN "aborting" ELSE "committing")
     \/ /\ indexed' \in {indexed, indexed \cup {t}}
        /\ Goto(t, "aborting")
  /\ UNCHANGED <<lockVars, idVars, listVars, ssiVars, globalVars, registry,
                 callVars>>

rollback(t) ==
  /\ Idle(t)
  /\ Goto(t, "aborting")
  /\ UNCHANGED <<lockVars, idVars, listVars, ssiVars, globalVars, registry,
                 indexed, callVars>>

(* release_all over held_locks and then over read_ranges, the same in      *)
(* commit, rollback, abort_waiter and the two inline aborts.               *)
release_held(t) ==
  /\ pc[t] \in {"committing", "aborting"}
  /\ \E r \in held_locks[t] :
       /\ release_and_notify(r, t)
       /\ held_locks' = [held_locks EXCEPT ![t] = @ \ {r}]
  /\ UNCHANGED <<idVars, read_ranges, ok, ssiVars, globalVars, registry,
                 indexed, pc, req, victim>>

release_ranges(t) ==
  /\ pc[t] \in {"committing", "aborting"}
  /\ held_locks[t] = {}
  /\ \E r \in read_ranges[t] :
       /\ release_and_notify(r, t)
       /\ read_ranges' = [read_ranges EXCEPT ![t] = @ \ {r}]
  /\ UNCHANGED <<idVars, held_locks, ok, ssiVars, globalVars, registry,
                 indexed, pc, req, victim>>

Released(t) == held_locks[t] = {} /\ read_ranges[t] = {}

finish_commit(t) ==
  /\ pc[t] = "committing" /\ Released(t)
  /\ status' = [status EXCEPT ![t] = "Committed"]
  /\ active_ids' = active_ids \ {t}
  /\ out_set' = out_set \ {t}
  /\ Goto(t, "idle")
  /\ UNCHANGED <<lockVars, isolation, seen, listVars, in_conflict, scan,
                 abort_log, registry, indexed, callVars>>

finish_abort(t) ==
  /\ pc[t] = "aborting" /\ Released(t)
  /\ status' = [status EXCEPT ![t] = "Aborted"]
  /\ active_ids' = active_ids \ {t}
  /\ abort_log' = abort_log \cup {t}
  /\ registry' = registry \ {t}
  /\ out_set' = out_set \ {t}
  /\ Goto(t, "idle")
  /\ UNCHANGED <<lockVars, isolation, seen, listVars, in_conflict, scan,
                 indexed, callVars>>

------------------------------------------------------------------------------
(* The steps a thread takes on its own inside a call.                      *)
Step(t) ==
  \/ mark_readers(t) \/ try_granted(t) \/ try_denied(t) \/ recheck_denied(t)
  \/ apply_wound_wait(t) \/ wound_mark(t) \/ wound_release(t) \/ wound_abort(t)
  \/ wait_granted(t) \/ wait_timeout(t)
  \/ release_held(t) \/ release_ranges(t) \/ finish_commit(t) \/ finish_abort(t)

TMNext ==
  \E t \in Tx :
    \/ \E level \in Isolation : begin_with_isolation(t, level)
    \/ \E r \in Resource, c \in Calls :
         \/ acquire_lock(t, r, c)
         \/ acquire_range_lock(t, r, c)
         \/ record_phantom_write(t, r, c)
    \/ commit(t) \/ commit_with_indexes(t) \/ rollback(t)
    \/ Step(t)

TMSpec == TMInit /\ [][TMNext]_tmvars

(* Threads inside a call run on; no call is required of a client.          *)
TMFairSpec == TMSpec /\ \A t \in Tx : WF_tmvars(Step(t))

------------------------------------------------------------------------------
(* Every variable holds a value of its type, and only a thread inside a    *)
(* lock call has a request.                                                *)
TMTypeOK ==
  /\ LockTypeOK
  /\ status \in [Tx -> {"unborn", "Active", "Committed", "Aborted"}]
  /\ isolation \in [Tx -> IsolationLevel]
  /\ held_locks \in [Tx -> SUBSET Resource]
  /\ read_ranges \in [Tx -> SUBSET Resource]
  /\ UNION {in_conflict, out_set, active_ids, abort_log, registry, indexed} \subseteq Tx
  /\ pc \in [Tx -> {"idle", "scan", "try", "denied", "holders", "wound",
                    "wound_release", "wound_abort", "wait", "committing",
                    "aborting"}]
  /\ req \in [Tx -> CallReq \cup {NoReq}]
  /\ rx \in [Tx -> {"none", "empty", "granted"}]
  /\ victim \in [Tx -> Tx \cup {NoTx}]
  /\ seen \in [Tx -> SUBSET Tx] /\ scan \in [Tx -> SUBSET Tx]
  /\ ok \in [Tx -> SUBSET CallReq]
  /\ \A t \in Tx : req[t] = NoReq <=> pc[t] \in {"idle", "committing", "aborting"}

(* Whatever threads, wounds and notifications do, the manager drives the   *)
(* lock table only through steps of the lock table, so what is proved of   *)
(* LockSpec holds here.                                                    *)
DrivesLockTable == LockSpec

(* A transaction that works on, neither wounded nor finishing.             *)
Working(t) ==
  /\ status[t] = "Active" /\ pc[t] \notin {"committing", "aborting"}
  /\ t \notin registry

(* A holder of S that asks for X is told it has it, and keeps its S entry. *)
(* That need not be an upgrade by its own client: a call that returned     *)
(* WoundWait leaves a queued request behind, and the entry it becomes has  *)
(* the mode of that call.                                                  *)
Upgraded(t, c) ==
  \E h \in holders[c.res] : h.txid = t /\ ~mode_at_least_as_strong(h.mode, c.mode)

(* Calls that returned Ok exclude each other: two working transactions     *)
(* never both have been told they hold a resource in conflicting modes,    *)
(* unless the entry of one of them is weaker than what it was told.        *)
LocksHonoured ==
  \A t, u \in Tx : t # u /\ Working(t) /\ Working(u) =>
    \A c \in ok[t], d \in ok[u] :
      c.res = d.res /\ ~Upgraded(t, c) /\ ~Upgraded(u, d)
        => compatible_with(c.mode, d.mode)

(* manager.rs, LOCK_WAIT_TIMEOUT: a waiter wakes to re-check its abort     *)
(* status, so one that is wounded while it is parked in acquire_lock does  *)
(* end as Aborted.                                                         *)
WoundedWaiterAborts ==
  \A t \in Tx :
    (pc[t] = "wait" /\ req[t].kind = "lock" /\ t \in registry)
      ~> status[t] = "Aborted"

(* manager.rs, Transaction: "Both commit and rollback release all held     *)
(* locks".                                                                 *)
FinishedHoldNothing ==
  \A t \in Tx, r \in Resource :
    status[t] \in {"Committed", "Aborted"} => t \notin HolderIds(holders[r])

(* wound_wait.rs, WoundAction::Wound: "The holder should be aborted", and  *)
(* the abort log holds only transactions that are: one that was told it    *)
(* committed is not in it.                                                 *)
(* Refuted: README, section 5.                                             *)
CommittedNotAborted ==
  \A t \in Tx : status[t] = "Committed" => t \notin abort_log

Reads(t) == {c.res : c \in {d \in ok[t] : d.kind = "range"}}
Writes(t) == {c.res : c \in {d \in ok[t] : d.kind = "phantom"}}

(* manager.rs, IsolationLevel::Serializable: "Write-skew is detected and   *)
(* one of the conflicting transactions is aborted": of two transactions    *)
(* that overlap, each reading a range the other writes, not both commit.   *)
(* Refuted: README, section 5.                                             *)
NoWriteSkew ==
  \A t, u \in {v \in Tx : /\ status[v] = "Committed" /\ v \notin abort_log
                           /\ isolation[v] = "Serializable"} :
    t \in seen[u] =>
      Reads(t) \cap Writes(u) = {} \/ Reads(u) \cap Writes(t) = {}

(* manager.rs, commit_with_indexes: the indexes "are either fully updated  *)
(* or left untouched", so a transaction that ends Aborted left them alone. *)
(* Refuted: README, section 5.                                             *)
AbortLeavesIndexes == \A t \in indexed : status[t] # "Aborted"
=============================================================================
