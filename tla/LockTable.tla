------------------------------ MODULE LockTable ------------------------------
(***************************************************************************)
(* The lock table of src/src/txn/lock_table.rs.  An action is one critical *)
(* section of a shard mutex.  A resource without an entry is one with no   *)
(* holders and no waiters; sharding changes nothing but contention and is  *)
(* left out.  The order of the holder list is left out too: no operation   *)
(* of the table depends on it.                                             *)
(***************************************************************************)
EXTENDS Integers, Sequences, FiniteSets

CONSTANTS
  Tx,         \* transaction ids
  Resource    \* resource ids

LockMode == {"IS", "IX", "S", "X"}
Request == [txid : Tx, mode : LockMode]

VARIABLES
  holders,    \* resource -> the set of (txid, mode) that hold it
  waiters     \* resource -> the FIFO queue of (txid, mode) that wait for it

lockVars == <<holders, waiters>>

------------------------------------------------------------------------------
compatible_with(m, n) ==
  <<m, n>> \in {<<"IS", "IS">>, <<"IS", "IX">>, <<"IS", "S">>, <<"IX", "IS">>,
                <<"IX", "IX">>, <<"S", "IS">>, <<"S", "S">>}

mode_at_least_as_strong(held, required) ==
  CASE required = "IS" -> TRUE
    [] required = "IX" -> held \in {"IX", "X"}
    [] required = "S"  -> held \in {"S", "X"}
    [] required = "X"  -> held = "X"

already_holds(H, t, m) ==
  \E h \in H : h.txid = t /\ mode_at_least_as_strong(h.mode, m)

compatible_with_holders(H, t, m) ==
  \A h \in H : h.txid # t => compatible_with(m, h.mode)

HolderIds(H) == {h.txid : h \in H}

(* A transaction that is in the list, in whatever mode, is not added.      *)
add_holder(H, t, m) ==
  IF t \in HolderIds(H) THEN H ELSE H \cup {[txid |-> t, mode |-> m]}

remove_holder(H, t) == {h \in H : h.txid # t}

------------------------------------------------------------------------------
(* grant_compatible_waiters pops waiters from the front for as long as the *)
(* next one is compatible with the holders, those just granted included.   *)

(* The holders once the first k waiters of queue q have been granted.      *)
HoldersAfter(H, q, k) ==
  H \cup {q[i] : i \in {j \in 1 .. k : q[j].txid \notin HolderIds(H)}}

(* Mutant: the loop compares with the holders from before it started.      *)
LoopPasses_StaleHolders(H, q, k) ==
  \A i \in 1 .. k : compatible_with_holders(H, q[i].txid, q[i].mode)

(* The loop gets past its first k waiters.                                 *)
LoopPasses(H, q, k) ==
  \A i \in 1 .. k :
    compatible_with_holders(HoldersAfter(H, q, i - 1), q[i].txid, q[i].mode)

(* Mutant: the loop does not run.                                          *)
GrantCount_None(H, q) == 0

(* The number of waiters the loop grants.                                  *)
GrantCount(H, q) ==
  CHOOSE k \in 0 .. Len(q) :
    /\ LoopPasses(H, q, k)
    /\ k = Len(q) \/ ~LoopPasses(H, q, k + 1)

grant_compatible_waiters(r, H) ==
  LET q == waiters[r]
      k == GrantCount(H, q)
  IN /\ holders' = [holders EXCEPT ![r] = HoldersAfter(H, q, k)]
     /\ waiters' = [waiters EXCEPT ![r] = SubSeq(q, k + 1, Len(q))]

------------------------------------------------------------------------------
LockInit ==
  /\ holders = [r \in Resource |-> {}]
  /\ waiters = [r \in Resource |-> <<>>]

is_waiting(r, t) == \E i \in 1 .. Len(waiters[r]) : waiters[r][i].txid = t

CanAcquire(r, t, m) ==
  already_holds(holders[r], t, m) \/ compatible_with_holders(holders[r], t, m)

(* try_acquire, the outcomes that answer Granted.                          *)
try_acquire_granted(r, t, m) ==
  /\ CanAcquire(r, t, m)
  /\ holders' = [holders EXCEPT ![r] =
       IF already_holds(@, t, m) THEN @ ELSE add_holder(@, t, m)]
  /\ UNCHANGED waiters

(* try_acquire, the outcome Denied: the request is queued, with a receiver *)
(* for its caller, unless the transaction already waits.                   *)
try_acquire_denied(r, t, m) ==
  /\ ~CanAcquire(r, t, m)
  /\ waiters' = IF is_waiting(r, t) THEN waiters
                ELSE [waiters EXCEPT ![r] = Append(@, [txid |-> t, mode |-> m])]
  /\ UNCHANGED holders

release(r, t) == grant_compatible_waiters(r, remove_holder(holders[r], t))

LockNext ==
  \E r \in Resource, t \in Tx :
    \/ \E m \in LockMode : try_acquire_granted(r, t, m) \/ try_acquire_denied(r, t, m)
    \/ release(r, t)

LockSpec == LockInit /\ [][LockNext]_lockVars

------------------------------------------------------------------------------
(* Holders and waiters have their types.                                   *)
LockTypeOK ==
  /\ holders \in [Resource -> SUBSET Request]
  /\ waiters \in [Resource -> Seq(Request)]

(* Two transactions never hold a resource in conflicting modes, whatever   *)
(* the order of grants, queued wake-ups and releases.                      *)
HoldersCompatible ==
  \A r \in Resource : \A g, h \in holders[r] :
    g.txid # h.txid => compatible_with(g.mode, h.mode)

(* No wake-up is lost: whenever transactions wait for a resource, the one  *)
(* at the front of the queue really conflicts with a holder, so every      *)
(* grant that a release makes possible is made by that release.            *)
FrontBlocked ==
  \A r \in Resource :
    waiters[r] # <<>> =>
      ~compatible_with_holders(holders[r], waiters[r][1].txid,
                               waiters[r][1].mode)

(* A transaction has at most one holder entry and one queue entry for a    *)
(* resource: a duplicate would be granted twice and released once.         *)
OneEntryPerTx ==
  \A r \in Resource :
    /\ \A g, h \in holders[r] : g.txid = h.txid => g = h
    /\ \A i, j \in 1 .. Len(waiters[r]) :
         waiters[r][i].txid = waiters[r][j].txid => i = j
=============================================================================
