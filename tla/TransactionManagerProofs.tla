---------------------- MODULE TransactionManagerProofs ----------------------
(***************************************************************************)
(* Proofs about TransactionManager for every set of transactions,          *)
(* resources, calls and isolation levels.  Whatever the threads do, each   *)
(* of their steps is a step of the lock table or leaves it alone, so that  *)
(* the theorems about LockTable carry over to the whole manager.    The   *)
(* step that needs an argument is the release that a wounding transaction  *)
(* makes on behalf of its victim: a victim is a transaction because it was *)
(* found among the holders.                                                *)
(***************************************************************************)
EXTENDS TransactionManager, WellFoundedInduction, TLAPS

-----------------------------------------------------------------------------
(***************************************************************************)
(* Proofs about LockTable for every set of transactions and resources.     *)
(* The three invariants are inductive together with the type invariant;    *)
(* the work is in release, whose grant loop is characterised by            *)
(* GrantCountIsMaximal.                                                    *)
(***************************************************************************)
LockIInv ==
  /\ LockTypeOK
  /\ HoldersCompatible
  /\ FrontBlocked
  /\ OneEntryPerTx

(* compatible_with is symmetric, as a conflict relation has to be.         *)
LEMMA CompatibleSymmetric ==
  ASSUME NEW m \in LockMode, NEW n \in LockMode
  PROVE  compatible_with(m, n) <=> compatible_with(n, m)
BY DEF compatible_with, LockMode

(* A nonempty set of naturals has a least element.                         *)
LEMMA LeastElement ==
  ASSUME NEW S, S \subseteq Nat, S # {}
  PROVE  \E x \in S : \A y \in S : x <= y
<1>. DEFINE R == {ss \in Nat \X Nat : ss[1] < ss[2]}
<1>1. IsWellFoundedOn(R, Nat)
  BY NatLessThanWellFounded, Zenon DEF OpToRel
<1>2. \A a, b \in Nat : a < b => <<a, b>> \in R
  OBVIOUS
<1>. HIDE DEF R
<1>3. PICK x \in S : \A y \in S : ~(<<y, x>> \in R)
  BY <1>1, WFMin, Zenon
<1>4. \A y \in S : ~(y < x)
  BY <1>2, <1>3, Zenon
<1>. QED
  BY <1>4

(* The grant loop stops at the first waiter that conflicts, or at the end  *)
(* of the queue.                                                           *)
LEMMA GrantCountIsMaximal ==
  ASSUME NEW H, NEW q \in Seq(Request)
  PROVE  /\ GrantCount(H, q) \in 0 .. Len(q)
         /\ LoopPasses(H, q, GrantCount(H, q))
         /\ \/ GrantCount(H, q) = Len(q)
            \/ ~LoopPasses(H, q, GrantCount(H, q) + 1)
<1>. DEFINE Ok(i) == compatible_with_holders(HoldersAfter(H, q, i - 1),
                                             q[i].txid, q[i].mode)
            Blocked == {i \in 1 .. Len(q) : ~Ok(i)}
<1>0. Len(q) \in Nat
  OBVIOUS
<1>1. \A k : LoopPasses(H, q, k) <=> \A i \in 1 .. k : Ok(i)
  BY DEF LoopPasses
<1>2. \E k \in 0 .. Len(q) : /\ LoopPasses(H, q, k)
                             /\ k = Len(q) \/ ~LoopPasses(H, q, k + 1)
  <2>1. CASE Blocked = {}
    <3>. HIDE DEF Ok
    <3>1. LoopPasses(H, q, Len(q))
      BY <1>1, <2>1
    <3>. QED  BY <1>0, <3>1
  <2>2. CASE Blocked # {}
    <3>1. PICK b \in Blocked : \A y \in Blocked : b <= y
      BY <2>2, LeastElement, Blocked \subseteq Nat, Zenon
    <3>. HIDE DEF Ok
    <3>2. LoopPasses(H, q, b - 1)
      BY <1>0, <1>1, <3>1
    <3>3. ~LoopPasses(H, q, (b - 1) + 1)
      BY <1>0, <1>1, <3>1
    <3>. QED  BY <1>0, <3>1, <3>2, <3>3
  <2>. QED  BY <2>1, <2>2
<1>. QED
  BY <1>2 DEF GrantCount

------------------------------------------------------------------------------
\* An empty lock table satisfies the invariant.
LEMMA InitLockIInv == LockInit => LockIInv
BY DEF LockInit, LockIInv, LockTypeOK, HoldersCompatible, FrontBlocked,
       OneEntryPerTx

(* A grant from try_acquire keeps the invariants: the front waiter stays   *)
(* blocked because holders are only added, and a transaction's own entry   *)
(* never blocks it.                                                        *)
LEMMA GrantedPreserves ==
  ASSUME LockIInv, NEW r \in Resource, NEW t \in Tx, NEW m \in LockMode,
         try_acquire_granted(r, t, m)
  PROVE  LockIInv'
<1>. DEFINE e == [txid |-> t, mode |-> m]
<1>0. e \in Request /\ e.txid = t /\ e.mode = m
  BY DEF Request
<1>1. PICK H \in SUBSET Request :
        /\ H = holders[r]
        /\ holders' = [holders EXCEPT ![r] = H]
           \/ /\ holders' = [holders EXCEPT ![r] = H \cup {e}]
              /\ compatible_with_holders(H, t, m)
              /\ \A h \in H : h.txid # t
  <2>1. holders[r] \in SUBSET Request
    BY DEF LockIInv, LockTypeOK
  <2>. QED
    BY <2>1, Zenon
    DEF try_acquire_granted, CanAcquire, add_holder, HolderIds
<1>. HIDE DEF e
<1>2. LockTypeOK'
  BY <1>0, <1>1 DEF LockIInv, LockTypeOK, try_acquire_granted
<1>3. HoldersCompatible'
  <2>1. \A h \in H : h.mode \in LockMode
    BY <1>1 DEF Request
  <2>2. \A h \in H : h.txid # t =>
           compatible_with(m, h.mode) <=> compatible_with(h.mode, m)
    BY <2>1, CompatibleSymmetric
  <2>3. \A g, h \in H : g.txid # h.txid => compatible_with(g.mode, h.mode)
    BY <1>1 DEF LockIInv, HoldersCompatible
  <2>4. \A g, h \in holders'[r] :
          g.txid # h.txid => compatible_with(g.mode, h.mode)
    <3>1. CASE holders'[r] = H
      BY <2>3, <3>1
    <3>2. CASE /\ holders'[r] = H \cup {e}
               /\ compatible_with_holders(H, t, m)
      BY <1>0, <2>2, <2>3, <3>2, Zenon DEF compatible_with_holders
    <3>. QED  BY <1>1, <3>1, <3>2 DEF LockIInv, LockTypeOK
  <2>5. \A s \in Resource \ {r} : holders'[s] = holders[s]
    BY <1>1 DEF LockIInv, LockTypeOK
  <2>. QED
    BY <2>4, <2>5 DEF LockIInv, HoldersCompatible
<1>4. FrontBlocked'
  BY <1>0, <1>1
  DEF LockIInv, LockTypeOK, FrontBlocked, compatible_with_holders,
      try_acquire_granted
<1>5. OneEntryPerTx'
  BY <1>0, <1>1 DEF LockIInv, LockTypeOK, OneEntryPerTx, try_acquire_granted
<1>. QED
  BY <1>2, <1>3, <1>4, <1>5 DEF LockIInv

(* A denied request joins the queue behind a conflict of its own.          *)
LEMMA DeniedPreserves ==
  ASSUME LockIInv, NEW r \in Resource, NEW t \in Tx, NEW m \in LockMode,
         try_acquire_denied(r, t, m)
  PROVE  LockIInv'
<1>. DEFINE e == [txid |-> t, mode |-> m]
<1>0. e \in Request /\ e.txid = t /\ e.mode = m
  BY DEF Request
<1>1. CASE waiters' = waiters
  BY <1>1 DEF LockIInv, LockTypeOK, HoldersCompatible, FrontBlocked,
              OneEntryPerTx, try_acquire_denied
<1>2. CASE /\ ~is_waiting(r, t)
           /\ waiters' = [waiters EXCEPT ![r] = Append(@, e)]
  <2>1. PICK q \in Seq(Request) : q = waiters[r]
    BY DEF LockIInv, LockTypeOK
  <2>2. /\ waiters'[r] = Append(q, e)
        /\ \A s \in Resource \ {r} : waiters'[s] = waiters[s]
        /\ waiters' \in [Resource -> Seq(Request)]
        /\ holders' = holders
    <3>1. Append(q, e) \in Seq(Request)
      BY <1>0, <2>1
    <3>. QED
      BY <1>2, <2>1, <3>1 DEF LockIInv, LockTypeOK, try_acquire_denied
  <2>3. \A i \in 1 .. Len(q) : q[i].txid # t
    BY <1>2, <2>1 DEF is_waiting
  <2>. HIDE DEF e
  <2>4. /\ Len(Append(q, e)) = Len(q) + 1
        /\ \A i \in 1 .. Len(q) : Append(q, e)[i] = q[i]
        /\ Append(q, e)[Len(q) + 1] = e
        /\ Len(q) \in Nat
        /\ q = <<>> \/ Len(q) > 0
    BY <1>0, <2>1
  <2>5. FrontBlocked'
    <3>1. ~compatible_with_holders(holders[r], t, m)
      BY DEF try_acquire_denied, CanAcquire
    <3>2. CASE q = <<>>
      <4>1. Append(q, e)[1] = e
        BY <2>4, <3>2
      <4>. QED
        BY <1>0, <2>2, <3>1, <4>1, Zenon DEF LockIInv, FrontBlocked
    <3>3. CASE Len(q) > 0
      <4>1. Append(q, e)[1] = q[1] /\ q # <<>>
        BY <2>4, <3>3
      <4>. QED
        BY <2>1, <2>2, <4>1, Zenon DEF LockIInv, FrontBlocked
    <3>. QED  BY <2>4, <3>2, <3>3
  <2>6. OneEntryPerTx'
    <3>1. \A i, j \in 1 .. Len(q) + 1 :
            Append(q, e)[i].txid = Append(q, e)[j].txid => i = j
      <4>1. \A i, j \in 1 .. Len(q) : q[i].txid = q[j].txid => i = j
        BY <2>1 DEF LockIInv, OneEntryPerTx
      <4>2. \A i \in 1 .. Len(q) + 1 : i \in 1 .. Len(q) \/ i = Len(q) + 1
        BY <2>4
      <4>3. PICK w : w = Append(q, e)
        BY Zenon
      <4>4. /\ \A i \in 1 .. Len(q) : w[i] = q[i]
            /\ w[Len(q) + 1].txid = t
        BY <1>0, <2>4, <4>3
      <4>5. \A i, j \in 1 .. Len(q) + 1 : w[i].txid = w[j].txid => i = j
        BY <2>3, <4>1, <4>2, <4>4, Zenon
      <4>. QED  BY <4>3, <4>5
    <3>2. PICK w : w = Append(q, e)
      BY Zenon
    <3>3. waiters'[r] = w /\ Len(w) = Len(q) + 1
      BY <2>2, <2>4, <3>2
    <3>4. \A i, j \in 1 .. Len(w) : w[i].txid = w[j].txid => i = j
      BY <3>1, <3>2, <3>3
    <3>. QED
      BY <2>2, <3>3, <3>4, SMTT(30) DEF LockIInv, OneEntryPerTx
  <2>. QED
    BY <2>2, <2>5, <2>6 DEF LockIInv, LockTypeOK, HoldersCompatible
<1>. QED
  BY <1>1, <1>2, Zenon DEF try_acquire_denied

(* A release keeps the invariants: every waiter it grants is compatible    *)
(* with those granted before it, and the one it stops at is not.           *)
LEMMA ReleasePreserves ==
  ASSUME LockIInv, NEW r \in Resource, NEW t \in Tx, release(r, t)
  PROVE  LockIInv'
<1>1. PICK H \in SUBSET Request : H = remove_holder(holders[r], t)
  BY Zenon DEF LockIInv, LockTypeOK, remove_holder
<1>2. PICK q \in Seq(Request) : q = waiters[r]
  BY DEF LockIInv, LockTypeOK
<1>3. PICK k \in 0 .. Len(q) : k = GrantCount(H, q)
  BY GrantCountIsMaximal
<1>4. /\ LoopPasses(H, q, k)
      /\ k = Len(q) \/ ~LoopPasses(H, q, k + 1)
  BY <1>3, GrantCountIsMaximal
<1>5. /\ holders' = [holders EXCEPT ![r] = HoldersAfter(H, q, k)]
      /\ waiters' = [waiters EXCEPT ![r] = SubSeq(q, k + 1, Len(q))]
  BY <1>1, <1>2, <1>3, Zenon DEF release, grant_compatible_waiters
<1>6. /\ Len(q) \in Nat
      /\ SubSeq(q, k + 1, Len(q)) \in Seq(Request)
      /\ Len(SubSeq(q, k + 1, Len(q))) = Len(q) - k
      /\ \A i \in 1 .. Len(q) - k : SubSeq(q, k + 1, Len(q))[i] = q[k + i]
      /\ \A i \in 1 .. Len(q) : q[i] \in Request
  BY <1>2, <1>3, SMTT(30)
<1>a. k \in Nat /\ Len(q) \in Nat /\ k <= Len(q)
  BY <1>3, <1>6
<1>b. \A i \in 1 .. k : i \in 1 .. Len(q) /\ q[i] \in Request
  BY <1>a, <1>6
<1>7. HoldersAfter(H, q, k) \in SUBSET Request
  BY <1>1, <1>3, <1>6 DEF HoldersAfter
<1>8. /\ holders'[r] = HoldersAfter(H, q, k)
      /\ waiters'[r] = SubSeq(q, k + 1, Len(q))
      /\ \A s \in Resource \ {r} : holders'[s] = holders[s] /\ waiters'[s] = waiters[s]
  BY <1>5 DEF LockIInv, LockTypeOK
<1>9. LockTypeOK'
  BY <1>5, <1>6, <1>7 DEF LockIInv, LockTypeOK
<1>10. \A g, h \in HoldersAfter(H, q, k) :
         g.txid # h.txid => compatible_with(g.mode, h.mode)
  <2>1. \A g, h \in H : g.txid # h.txid => compatible_with(g.mode, h.mode)
    BY <1>1 DEF LockIInv, HoldersCompatible, remove_holder
  <2>2. \A i \in 1 .. k : \A h \in HoldersAfter(H, q, i - 1) :
          h.txid # q[i].txid => compatible_with(q[i].mode, h.mode)
    BY <1>4, Zenon DEF LoopPasses, compatible_with_holders
  <2>3. \A i \in 1 .. k : \A h \in H :
          h.txid # q[i].txid => /\ compatible_with(q[i].mode, h.mode)
                                /\ compatible_with(h.mode, q[i].mode)
    <3>1. \A i \in 1 .. k : \A h \in H : h \in HoldersAfter(H, q, i - 1)
      BY DEF HoldersAfter
    <3>2. \A i \in 1 .. k : \A h \in H : q[i].mode \in LockMode /\ h.mode \in LockMode
      BY <1>1, <1>b, Zenon DEF Request
    <3>. QED  BY <2>2, <3>1, <3>2, CompatibleSymmetric, Zenon
  <2>4. \A i, j \in 1 .. k :
          /\ q[i].txid \notin HolderIds(H)
          /\ q[i].txid # q[j].txid
          /\ i < j
          => /\ compatible_with(q[j].mode, q[i].mode)
             /\ compatible_with(q[i].mode, q[j].mode)
    <3>. SUFFICES ASSUME NEW i \in 1 .. k, NEW j \in 1 .. k,
                         q[i].txid \notin HolderIds(H),
                         q[i].txid # q[j].txid, i < j
                  PROVE  /\ compatible_with(q[j].mode, q[i].mode)
                         /\ compatible_with(q[i].mode, q[j].mode)
      OBVIOUS
    <3>1. q[i] \in HoldersAfter(H, q, j - 1)
      <4>1. i \in 1 .. (j - 1)
        BY <1>a
      <4>. QED  BY <4>1 DEF HoldersAfter
    <3>2. compatible_with(q[j].mode, q[i].mode)
      BY <2>2, <3>1, Zenon
    <3>3. q[i].mode \in LockMode /\ q[j].mode \in LockMode
      BY <1>b DEF Request
    <3>. QED  BY <3>2, <3>3, CompatibleSymmetric, Zenon
  <2>5. \A i, j \in 1 .. k :
          /\ q[i].txid \notin HolderIds(H)
          /\ q[j].txid \notin HolderIds(H)
          /\ q[i].txid # q[j].txid
          => compatible_with(q[i].mode, q[j].mode)
    <3>1. \A i, j \in 1 .. k : i < j \/ i = j \/ j < i
      BY <1>a
    <3>. QED  BY <2>4, <3>1
  <2>6. \A g \in HoldersAfter(H, q, k) :
          \/ g \in H
          \/ \E i \in 1 .. k : g = q[i] /\ q[i].txid \notin HolderIds(H)
    BY DEF HoldersAfter
  <2>. SUFFICES ASSUME NEW g \in HoldersAfter(H, q, k),
                       NEW h \in HoldersAfter(H, q, k), g.txid # h.txid
                PROVE  compatible_with(g.mode, h.mode)
    OBVIOUS
  <2>7. CASE g \in H /\ h \in H
    BY <2>1, <2>7, Zenon
  <2>8. CASE g \in H /\ \E i \in 1 .. k : h = q[i]
    BY <2>3, <2>8
  <2>9. CASE h \in H /\ \E i \in 1 .. k : g = q[i]
    BY <2>3, <2>9, Zenon
  <2>10. CASE /\ \E i \in 1 .. k : g = q[i] /\ q[i].txid \notin HolderIds(H)
              /\ \E i \in 1 .. k : h = q[i] /\ q[i].txid \notin HolderIds(H)
    BY <2>5, <2>10, Zenon
  <2>. QED
    BY <2>6, <2>7, <2>8, <2>9, <2>10, Zenon
<1>11. HoldersCompatible'
  BY <1>8, <1>10, Zenon DEF LockIInv, HoldersCompatible
<1>12. FrontBlocked'
  <2>1. SUFFICES ASSUME SubSeq(q, k + 1, Len(q)) # <<>>
                 PROVE  ~compatible_with_holders(HoldersAfter(H, q, k),
                           SubSeq(q, k + 1, Len(q))[1].txid,
                           SubSeq(q, k + 1, Len(q))[1].mode)
    BY <1>8, Zenon DEF LockIInv, FrontBlocked
  <2>2. k < Len(q)
    BY <1>3, <1>6, <2>1, SMTT(30)
  <2>3. SubSeq(q, k + 1, Len(q))[1] = q[k + 1]
    BY <1>3, <1>6, <2>2, SMTT(30)
  <2>4. ~LoopPasses(H, q, k + 1)
    BY <1>4, <2>2
  <2>5. PICK i \in 1 .. (k + 1) :
          ~compatible_with_holders(HoldersAfter(H, q, i - 1), q[i].txid, q[i].mode)
    BY <2>4 DEF LoopPasses
  <2>6. i \notin 1 .. k
    BY <1>4, <2>5 DEF LoopPasses
  <2>7. i = k + 1 /\ i - 1 = k
    BY <1>a, <2>6
  <2>. QED
    BY <2>3, <2>5, <2>7, Zenon
<1>13. OneEntryPerTx'
  <2>1. \A i, j \in 1 .. Len(q) : q[i].txid = q[j].txid => i = j
    BY <1>2, Zenon DEF LockIInv, OneEntryPerTx
  <2>2. \A g, h \in H : g.txid = h.txid => g = h
    BY <1>1 DEF LockIInv, OneEntryPerTx, remove_holder
  <2>3. \A g \in HoldersAfter(H, q, k) :
          \/ g \in H /\ g.txid \in HolderIds(H)
          \/ \E i \in 1 .. Len(q) : g = q[i] /\ q[i].txid \notin HolderIds(H)
    BY <1>b, Zenon DEF HoldersAfter, HolderIds
  <2>4. \A g, h \in HoldersAfter(H, q, k) : g.txid = h.txid => g = h
    BY <2>1, <2>2, <2>3, ZenonT(30)
  <2>5. \A i, j \in 1 .. Len(q) - k : q[k + i].txid = q[k + j].txid => i = j
    <3>. SUFFICES ASSUME NEW i \in 1 .. Len(q) - k, NEW j \in 1 .. Len(q) - k,
                         q[k + i].txid = q[k + j].txid
                  PROVE  i = j
      OBVIOUS
    <3>1. k + i \in 1 .. Len(q) /\ k + j \in 1 .. Len(q)
      BY <1>a
    <3>2. k + i = k + j
      BY <2>1, <3>1
    <3>. QED  BY <1>a, <3>2
  <2>6. PICK w : w = SubSeq(q, k + 1, Len(q))
    BY Zenon
  <2>7. \A s \in Resource \ {r} :
          /\ \A g, h \in holders'[s] : g.txid = h.txid => g = h
          /\ \A i, j \in 1 .. Len(waiters'[s]) :
               waiters'[s][i].txid = waiters'[s][j].txid => i = j
    BY <1>8, Zenon DEF LockIInv, OneEntryPerTx
  <2>8. /\ \A g, h \in holders'[r] : g.txid = h.txid => g = h
        /\ \A i, j \in 1 .. Len(waiters'[r]) :
             waiters'[r][i].txid = waiters'[r][j].txid => i = j
    <3>1. holders'[r] = HoldersAfter(H, q, k) /\ waiters'[r] = w
      BY <1>8, <2>6
    <3>2. Len(w) = Len(q) - k /\ \A i \in 1 .. Len(q) - k : w[i] = q[k + i]
      BY <1>6, <2>6
    <3>3. \A i, j \in 1 .. Len(w) : w[i].txid = w[j].txid => i = j
      BY <2>5, <3>2, SMTT(30)
    <3>. QED  BY <2>4, <3>1, <3>3
  <2>. QED
    BY <2>7, <2>8, Zenon DEF OneEntryPerTx
<1>. QED
  BY <1>9, <1>11, <1>12, <1>13 DEF LockIInv

\* Every step of try_acquire and release keeps the invariant.
LEMMA StepLockIInv == LockIInv /\ [LockNext]_lockVars => LockIInv'
<1>1. ASSUME LockIInv, LockNext
      PROVE  LockIInv'
  BY <1>1, GrantedPreserves, DeniedPreserves, ReleasePreserves, Zenon DEF LockNext
<1>2. ASSUME LockIInv, UNCHANGED lockVars
      PROVE  LockIInv'
  BY <1>2 DEF lockVars, LockIInv, LockTypeOK, HoldersCompatible, FrontBlocked,
              OneEntryPerTx
<1>. QED
  BY <1>1, <1>2

(* The strengthened invariant of the lock table.                           *)
THEOREM LockIInvInvariant == LockSpec => []LockIInv
BY InitLockIInv, StepLockIInv, PTL DEF LockSpec

(* lock_table.rs grants no two transactions conflicting modes.             *)
THEOREM LocksExclude == LockSpec => []HoldersCompatible
<1>1. LockIInv => HoldersCompatible
  BY DEF LockIInv
<1>. QED
  BY LockIInvInvariant, <1>1, PTL

(* release wakes every waiter that it unblocks.                            *)
THEOREM NoLostWakeup == LockSpec => []FrontBlocked
<1>1. LockIInv => FrontBlocked
  BY DEF LockIInv
<1>. QED
  BY LockIInvInvariant, <1>1, PTL

(* add_holder and the already_waiting test keep the entries unique.        *)
THEOREM NoDuplicateEntries == LockSpec => []OneEntryPerTx
<1>1. LockIInv => OneEntryPerTx
  BY Zenon DEF LockIInv
<1>. QED
  BY LockIInvInvariant, <1>1, PTL

-----------------------------------------------------------------------------
Label == {"idle", "scan", "try", "denied", "holders", "wound",
          "wound_release", "wound_abort", "wait", "committing", "aborting"}

(* TMTypeOK but for the lock table, with its union taken apart.            *)
ManagerTypes ==
  /\ status \in [Tx -> {"unborn", "Active", "Committed", "Aborted"}]
  /\ isolation \in [Tx -> IsolationLevel]
  /\ held_locks \in [Tx -> SUBSET Resource]
  /\ read_ranges \in [Tx -> SUBSET Resource]
  /\ in_conflict \subseteq Tx /\ out_set \subseteq Tx
  /\ active_ids \subseteq Tx /\ abort_log \subseteq Tx
  /\ registry \subseteq Tx /\ indexed \subseteq Tx
  /\ pc \in [Tx -> Label]
  /\ req \in [Tx -> CallReq \cup {NoReq}]
  /\ rx \in [Tx -> {"none", "empty", "granted"}]
  /\ victim \in [Tx -> Tx \cup {NoTx}]
  /\ seen \in [Tx -> SUBSET Tx] /\ scan \in [Tx -> SUBSET Tx]
  /\ ok \in [Tx -> SUBSET CallReq]
  /\ \A t \in Tx : req[t] = NoReq <=> pc[t] \in {"idle", "committing", "aborting"}

(* A thread that wounds has a victim.                                      *)
VictimNamed ==
  \A t \in Tx : pc[t] \in {"wound", "wound_release", "wound_abort"} => victim[t] \in Tx

TMIInv == LockIInv /\ ManagerTypes /\ VictimNamed

\* The types of the lock table and of the manager around it are those of the whole.
LEMMA TypesTogether == LockTypeOK /\ ManagerTypes <=> TMTypeOK
BY SMTT(30) DEF ManagerTypes, TMTypeOK, Label

(* A thread inside a lock call has a proper request.                       *)
LEMMA RequestOfCall ==
  ASSUME TMIInv, NEW t \in Tx, pc[t] \notin {"idle", "committing", "aborting"}
  PROVE  /\ req[t] \in CallReq
         /\ req[t].res \in Resource /\ req[t].mode \in LockMode
BY DEF TMIInv, ManagerTypes, CallReq

(* The transactions that hold a resource are transactions.                 *)
LEMMA HoldersAreTransactions ==
  ASSUME LockIInv, NEW r \in Resource
  PROVE  HolderIds(holders[r]) \subseteq Tx
BY DEF LockIInv, LockTypeOK, HolderIds, Request

\* A new transaction manager.
LEMMA InitTMIInv == TMInit => TMIInv
<1>. SUFFICES ASSUME TMInit PROVE TMIInv
  OBVIOUS
<1>1. LockIInv
  BY InitLockIInv, Zenon DEF TMInit
<1>2. ManagerTypes
  BY Zenon DEF TMInit, ManagerTypes, Label, IsolationLevel
<1>3. VictimNamed
  BY Zenon DEF TMInit, VictimNamed
<1>. QED
  BY <1>1, <1>2, <1>3 DEF TMIInv

------------------------------------------------------------------------------
(* Every step of the manager is a step of the lock table or changes        *)
(* nothing of it.                                                          *)
LEMMA EveryStepDrives ==
  ASSUME TMIInv, [TMNext]_tmvars
  PROVE  [LockNext]_lockVars
<1>1. CASE UNCHANGED tmvars
  BY <1>1, Zenon DEF tmvars, lockVars
<1>2. ASSUME NEW t \in Tx, try_granted(t)
      PROVE  LockNext
  BY <1>2, RequestOfCall, Zenon DEF try_granted, LockNext
<1>3. ASSUME NEW t \in Tx, try_denied(t)
      PROVE  LockNext
  BY <1>3, RequestOfCall, Zenon DEF try_denied, LockNext
<1>4. ASSUME NEW t \in Tx, wound_release(t)
      PROVE  LockNext
  <2>1. victim[t] \in Tx
    BY <1>4, Zenon DEF wound_release, TMIInv, VictimNamed
  <2>2. req[t].res \in Resource
    BY <1>4, RequestOfCall DEF wound_release
  <2>. QED
    BY <1>4, <2>1, <2>2, Zenon DEF wound_release, release_and_notify, LockNext
<1>5. ASSUME NEW t \in Tx, release_held(t) \/ release_ranges(t)
      PROVE  LockNext
  <2>1. held_locks[t] \subseteq Resource /\ read_ranges[t] \subseteq Resource
    BY DEF TMIInv, ManagerTypes
  <2>2. PICK r \in Resource : release(r, t)
    BY <1>5, <2>1, Zenon DEF release_held, release_ranges, release_and_notify
  <2>. QED
    BY <2>2, Zenon DEF LockNext
<1>6. ASSUME NEW t \in Tx,
             \/ \E level \in Isolation : begin_with_isolation(t, level)
             \/ \E r \in Resource, c \in Calls :
                  \/ acquire_lock(t, r, c)
                  \/ acquire_range_lock(t, r, c)
                  \/ record_phantom_write(t, r, c)
             \/ commit(t) \/ commit_with_indexes(t) \/ rollback(t)
             \/ mark_readers(t) \/ recheck_denied(t) \/ apply_wound_wait(t)
             \/ wound_mark(t) \/ wound_abort(t) \/ wait_granted(t)
             \/ wait_timeout(t) \/ finish_commit(t) \/ finish_abort(t)
      PROVE  UNCHANGED lockVars
  BY <1>6, Zenon DEF begin_with_isolation, acquire_lock, acquire_range_lock,
       record_phantom_write, commit, commit_with_indexes, rollback,
       mark_readers, recheck_denied, apply_wound_wait, wound_mark, wound_abort,
       wait_granted, wait_timeout, finish_commit, finish_abort
<1>. QED
  BY <1>1, <1>2, <1>3, <1>4, <1>5, <1>6, Zenon DEF TMNext, Step

------------------------------------------------------------------------------
(* Every action keeps the types and leaves no wounding thread without a    *)
(* victim.                                                                 *)
Kept == ManagerTypes /\ VictimNamed

\* begin_with_isolation.
LEMMA BeginKeepsTypes ==
  ASSUME TMIInv, NEW t \in Tx, NEW level \in Isolation, begin_with_isolation(t, level)
  PROVE  Kept'
BY ClientAssumption, Zenon DEF TMIInv, ManagerTypes, VictimNamed, Label, Kept,
     begin_with_isolation, listVars, ssiVars, callVars

(* A request is made of the resource and of the kind and mode of the call. *)
LEMMA CallMakesRequest ==
  ASSUME NEW r \in Resource, NEW c \in Calls
  PROVE  [res |-> r, kind |-> c.kind, mode |-> c.mode] \in CallReq
BY ClientAssumption DEF CallReq, CallType, LockMode

\* The three calls that ask for a lock.
LEMMA CallsKeepTypes ==
  ASSUME TMIInv, NEW t \in Tx, NEW r \in Resource, NEW c \in Calls,
         \/ acquire_lock(t, r, c)
         \/ acquire_range_lock(t, r, c)
         \/ record_phantom_write(t, r, c)
  PROVE  Kept'
<1>1. [res |-> r, kind |-> c.kind, mode |-> c.mode] \in CallReq
  BY CallMakesRequest
<1>2. NoReq \notin CallReq
  BY ZenonT(30) DEF NoReq, CallReq
<1>3. CASE acquire_lock(t, r, c)
  BY <1>1, <1>2, <1>3, SMTT(30) DEF TMIInv, ManagerTypes, VictimNamed, Label, Kept, Enter,
       Goto, Idle, acquire_lock, idVars, listVars, ssiVars, globalVars
<1>4. CASE acquire_range_lock(t, r, c)
  BY <1>1, <1>2, <1>4, ZenonT(30) DEF TMIInv, ManagerTypes, VictimNamed, Label, Kept, Enter,
       Goto, Idle, acquire_range_lock, idVars, listVars, ssiVars, globalVars
<1>5. CASE record_phantom_write(t, r, c)
  BY <1>1, <1>2, <1>5 DEF TMIInv, ManagerTypes, VictimNamed, Label, Kept, Enter,
       Goto, Idle, record_phantom_write, idVars, listVars, globalVars
<1>. QED
  BY <1>3, <1>4, <1>5, Zenon

\* commit, commit_with_indexes and rollback, up to their first release.
LEMMA CommitKeepsTypes ==
  ASSUME TMIInv, NEW t \in Tx, commit(t) \/ commit_with_indexes(t) \/ rollback(t)
  PROVE  Kept'
<1>1. CASE commit(t)
  BY <1>1, Zenon DEF TMIInv, ManagerTypes, VictimNamed, Label, Kept, Goto, Idle,
       commit, idVars, listVars, ssiVars, globalVars, callVars
<1>2. CASE commit_with_indexes(t)
  BY <1>2, SMTT(30) DEF TMIInv, ManagerTypes, VictimNamed, Label, Kept, Goto, Idle,
       commit_with_indexes, idVars, listVars, ssiVars, globalVars, callVars
<1>3. CASE rollback(t)
  BY <1>3 DEF TMIInv, ManagerTypes, VictimNamed, Label, Kept, Goto, Idle,
       rollback, idVars, listVars, ssiVars, globalVars, callVars
<1>. QED
  BY <1>1, <1>2, <1>3, Zenon
\* The steps inside a call.
LEMMA StepsKeepTypes ==
  ASSUME TMIInv, NEW t \in Tx, Step(t)
  PROVE  Kept'
<1>1. NoReq \notin CallReq
  BY Zenon DEF NoReq, CallReq
<1>2. pc[t] \notin {"idle", "committing", "aborting"}
        => /\ req[t] \in CallReq /\ req[t].res \in Resource
           /\ HolderIds(holders[req[t].res]) \subseteq Tx
  BY RequestOfCall, HoldersAreTransactions, Zenon DEF TMIInv
<1>3. CASE mark_readers(t)
  <2>. DEFINE readers == {h.txid : h \in {g \in holders[req[t].res] :
                            g.txid # t /\ g.mode \in {"S", "IS"} /\ g.txid \in scan[t]}}
  <2>1. readers \subseteq Tx
    BY SMTT(30) DEF TMIInv, ManagerTypes
  <2>2. /\ in_conflict' = IF readers = {} THEN in_conflict ELSE in_conflict \cup {t}
        /\ out_set' = out_set \cup readers
    BY <1>3 DEF mark_readers
  <2>. HIDE DEF readers
  <2>3. in_conflict' \subseteq Tx /\ out_set' \subseteq Tx
    BY <2>1, <2>2, ZenonT(30) DEF TMIInv, ManagerTypes
  <2>. QED
    BY <1>1, <1>2, <1>3, <2>3, ZenonT(30) DEF TMIInv, ManagerTypes, VictimNamed, Label, Kept,
         mark_readers, Goto, idVars, listVars, globalVars, callVars
<1>4. CASE try_granted(t)
  BY <1>1, <1>2, <1>4, SMTT(30) DEF TMIInv, ManagerTypes, VictimNamed, Label, Kept,
       try_granted, Goto, Granted, Leave, idVars, ssiVars, globalVars
<1>5. CASE try_denied(t)
  BY <1>1, <1>2, <1>5, ZenonT(30) DEF TMIInv, ManagerTypes, VictimNamed, Label, Kept,
       try_denied, Goto, idVars, listVars, ssiVars, globalVars
<1>6. CASE recheck_denied(t)
  BY <1>1, <1>2, <1>6, SMTT(30) DEF TMIInv, ManagerTypes, VictimNamed, Label, Kept,
       recheck_denied, Goto, Leave, idVars, listVars, ssiVars, globalVars,
       callVars
<1>7. CASE apply_wound_wait(t)
  BY <1>1, <1>2, <1>7, SMTT(30) DEF TMIInv, ManagerTypes, VictimNamed, Label, Kept,
       apply_wound_wait, Goto, idVars, listVars, ssiVars, globalVars, callVars
<1>8. CASE wound_mark(t)
  BY <1>1, <1>2, <1>8, SMTT(30) DEF TMIInv, ManagerTypes, VictimNamed, Label, Kept,
       wound_mark, Goto, idVars, listVars, ssiVars, globalVars, callVars
<1>9. CASE wound_release(t)
  BY <1>1, <1>2, <1>9, ZenonT(30) DEF TMIInv, ManagerTypes, VictimNamed, Label, Kept,
       wound_release, Goto, release_and_notify, idVars, listVars, ssiVars,
       globalVars
<1>10. CASE wound_abort(t)
  BY <1>1, <1>2, <1>10, SMTT(30) DEF TMIInv, ManagerTypes, VictimNamed, Label, Kept,
       wound_abort, Goto, Leave, idVars, listVars
<1>11. CASE wait_granted(t)
  BY <1>1, <1>2, <1>11, SMTT(30) DEF TMIInv, ManagerTypes, VictimNamed, Label, Kept,
       wait_granted, Goto, Granted, Leave, idVars, listVars, ssiVars, globalVars
<1>12. CASE wait_timeout(t)
  BY <1>1, <1>2, <1>12, SMTT(30) DEF TMIInv, ManagerTypes, VictimNamed, Label, Kept,
       wait_timeout, Goto, Leave, idVars, listVars, ssiVars, globalVars
<1>13. CASE release_held(t)
  BY <1>1, <1>2, <1>13, SMTT(30) DEF TMIInv, ManagerTypes, VictimNamed, Label, Kept,
       release_held, release_and_notify, idVars, ssiVars, globalVars
<1>14. CASE release_ranges(t)
  BY <1>1, <1>2, <1>14, SMTT(30) DEF TMIInv, ManagerTypes, VictimNamed, Label, Kept,
       release_ranges, release_and_notify, idVars, ssiVars, globalVars
<1>15. CASE finish_commit(t)
  BY <1>1, <1>2, <1>15, SMTT(30) DEF TMIInv, ManagerTypes, VictimNamed, Label, Kept,
       finish_commit, Goto, listVars, callVars
<1>16. CASE finish_abort(t)
  BY <1>1, <1>2, <1>16, SMTT(30) DEF TMIInv, ManagerTypes, VictimNamed, Label, Kept,
       finish_abort, Goto, listVars, callVars
<1>. QED
  BY <1>3, <1>4, <1>5, <1>6, <1>7, <1>8, <1>9, <1>10, <1>11, <1>12, <1>13, <1>14, <1>15, <1>16, Zenon DEF Step

\* Every step of every thread keeps the types and names the victims.
LEMMA NextTMIInv == TMIInv /\ [TMNext]_tmvars => TMIInv'
<1>. SUFFICES ASSUME TMIInv, [TMNext]_tmvars
              PROVE  TMIInv'
  OBVIOUS
<1>1. LockIInv'
  BY EveryStepDrives, StepLockIInv, Zenon DEF TMIInv
<1>2. CASE UNCHANGED tmvars
  <2>. USE <1>2 DEF tmvars, idVars, listVars, ssiVars, globalVars, callVars
  <2>1. ManagerTypes'
    BY Zenon DEF TMIInv, ManagerTypes
  <2>2. VictimNamed'
    BY Zenon DEF TMIInv, VictimNamed
  <2>. QED
    BY <1>1, <2>1, <2>2, Zenon DEF TMIInv
<1>3. CASE TMNext
  BY <1>1, <1>3, BeginKeepsTypes, CallsKeepTypes, CommitKeepsTypes, StepsKeepTypes, SMTT(30)
     DEF TMNext, TMIInv, Kept
<1>. QED
  BY <1>2, <1>3

(* The invariant holds in every state the manager reaches.                 *)
THEOREM TMIInvInvariant == TMSpec => []TMIInv
BY InitTMIInv, NextTMIInv, PTL DEF TMSpec

(* Every reachable state of the manager is well typed: no call, wound or   *)
(* notification leaves a thread with a request it is not serving, or a     *)
(* list that names something other than a transaction or a resource        *)
(* (Transaction, AbortRegistry, SsiTracker).                               *)
THEOREM ManagerTyped == TMSpec => []TMTypeOK
<1>1. TMIInv => TMTypeOK
  BY TypesTogether DEF TMIInv, LockIInv
<1>. QED
  BY <1>1, TMIInvInvariant, PTL

(* The manager implements the lock table: whatever its threads do in       *)
(* acquire_lock, acquire_range_lock, record_phantom_write, in a wound on   *)
(* behalf of another transaction and in the final releases, they change    *)
(* holders and queues only by try_acquire and release.                     *)
THEOREM ManagerDrivesLockTable == TMSpec => DrivesLockTable
<1>1. TMInit => LockInit
  BY DEF TMInit
<1>2. TMIInv /\ [TMNext]_tmvars => [LockNext]_lockVars
  BY EveryStepDrives
<1>. QED
  BY <1>1, <1>2, TMIInvInvariant, PTL DEF TMSpec, DrivesLockTable, LockSpec

(* Under the whole manager - wounds, timeouts and stale queue entries      *)
(* included - the holders of a resource are compatible with each other.    *)
THEOREM ManagerLocksExclude == TMSpec => []HoldersCompatible
BY ManagerDrivesLockTable, LocksExclude, PTL DEF DrivesLockTable

(* And no waiter is parked in front of a lock that could be granted: every *)
(* release, also the one a wounding transaction makes for its victim,      *)
(* grants what it makes possible (LockTable::release).                     *)
THEOREM ManagerNoLostWakeup == TMSpec => []FrontBlocked
BY ManagerDrivesLockTable, NoLostWakeup, PTL DEF DrivesLockTable

------------------------------------------------------------------------------
(* LocksHonoured.  A transaction that works on has an entry for everything *)
(* it was told it holds.  Others take an entry away in wound_release only, *)
(* and by then the victim is in the registry or has finished.              *)
Live(t) ==
  t \notin registry /\ status[t] \notin {"Committed", "Aborted"}
    /\ pc[t] \notin {"committing", "aborting"}

Has(t, r) == t \in HolderIds(holders[r])

HonourInv ==
  /\ \A w \in Tx : pc[w] = "wound_release" =>
       victim[w] \in registry \/ status[victim[w]] \in {"Committed", "Aborted"}
  /\ \A t \in Tx : Live(t) => /\ \A c \in ok[t] : Has(t, c.res)
                              /\ rx[t] = "granted" => Has(t, req[t].res)
  /\ \A t \in Tx : pc[t] \in {"idle", "committing", "aborting"} => rx[t] = "none"

(* A release takes away entries of the one transaction only, and whoever   *)
(* it notifies has an entry.                                               *)
LEMMA ReleaseKeepsOthers ==
  ASSUME LockIInv, NEW r \in Resource, NEW t \in Tx, release(r, t), NEW u \in Tx, NEW s \in Resource
  PROVE  /\ u # t /\ Has(u, s) => Has(u, s)'
         /\ u \in Notified(r, t) => Has(u, r)'
<1>. DEFINE H == remove_holder(holders[r], t)
            q == waiters[r]
            k == GrantCount(H, q)
<1>1. /\ holders' = [holders EXCEPT ![r] = HoldersAfter(H, q, k)]
      /\ holders \in [Resource -> SUBSET Request] /\ q \in Seq(Request)
  BY Zenon DEF release, grant_compatible_waiters, LockIInv, LockTypeOK
<1>2. k \in 0 .. Len(q)
  <2>. HIDE DEF q, H
  <2>. QED
    BY <1>1, GrantCountIsMaximal, Zenon
<1>. HIDE DEF k
<1>3. ASSUME u # t, Has(u, s) PROVE Has(u, s)'
  <2>1. PICK h \in holders[s] : h.txid = u
    BY <1>3, Zenon DEF Has, HolderIds
  <2>2. h \in holders'[s]
    BY <1>1, <1>3, <2>1, Zenon DEF HoldersAfter, remove_holder
  <2>. QED
    BY <2>1, <2>2, Zenon DEF Has, HolderIds
<1>4. ASSUME u \in Notified(r, t) PROVE Has(u, r)'
  <2>1. PICK i \in 1 .. k : q[i].txid = u
    BY <1>4, Zenon DEF Notified, k
  <2>2. CASE u \in HolderIds(H)
    <3>1. PICK h \in H : h.txid = u
      BY <2>2, Zenon DEF HolderIds
    <3>2. h \in holders'[r]
      BY <1>1, <3>1, Zenon DEF HoldersAfter
    <3>. QED
      BY <3>1, <3>2 DEF Has, HolderIds
  <2>3. CASE u \notin HolderIds(H)
    <3>1. q[i] \in HoldersAfter(H, q, k)
      BY <1>2, <2>1, <2>3, Zenon DEF HoldersAfter
    <3>2. q[i] \in holders'[r]
      BY <1>1, <3>1, Zenon
    <3>. QED
      BY <2>1, <3>2, Zenon DEF Has, HolderIds
  <2>. QED
    BY <2>2, <2>3, ZenonT(30)
<1>. QED
  BY <1>3, <1>4, Zenon

(* A grant adds an entry, or finds one.                                    *)
LEMMA GrantGivesEntry ==
  ASSUME LockIInv, NEW r \in Resource, NEW t \in Tx, NEW m \in LockMode,
         try_acquire_granted(r, t, m), NEW u \in Tx, NEW s \in Resource
  PROVE  Has(t, r)' /\ (Has(u, s) => Has(u, s)')
<1>1. /\ holders \in [Resource -> SUBSET Request]
      /\ holders' = [holders EXCEPT ![r] = IF already_holds(@, t, m) THEN @ ELSE add_holder(@, t, m)]
  BY Zenon DEF try_acquire_granted, LockIInv, LockTypeOK
<1>2. already_holds(holders[r], t, m) => Has(t, r)
  BY DEF already_holds, Has, HolderIds
<1>3. Has(t, r)'
  <2>1. CASE Has(t, r)
    <3>1. holders'[r] = holders[r]
      BY <1>1, <2>1, Zenon DEF Has, add_holder
    <3>. QED
      BY <2>1, <3>1 DEF Has
  <2>2. CASE ~Has(t, r)
    <3>1. holders'[r] = holders[r] \cup {[txid |-> t, mode |-> m]}
      BY <1>1, <1>2, <2>2, Zenon DEF Has, add_holder
    <3>. QED
      BY <3>1, Zenon DEF Has, HolderIds
  <2>. QED
    BY <2>1, <2>2, SMTT(30)
<1>4. ASSUME Has(u, s) PROVE Has(u, s)'
  <2>1. holders[s] \subseteq holders'[s]
    BY <1>1, Zenon DEF add_holder
  <2>. QED
    BY <1>4, <2>1, Zenon DEF Has, HolderIds
<1>. QED
  BY <1>3, <1>4

(* What a step has to show.                                                *)
Gone(t) == t \in registry \/ status[t] \in {"Committed", "Aborted"}

Honours(t) ==
  /\ Gone(t) => Gone(t)'
  /\ Live(t)' => /\ Live(t)
                 /\ \A r \in Resource : Has(t, r) => Has(t, r)'
                 /\ \A c \in ok'[t] : c \in ok[t] \/ Has(t, c.res)'
                 /\ rx'[t] = "granted" =>
                      req'[t] = req[t] /\ (rx[t] = "granted" \/ Has(t, req[t].res)')
  /\ pc'[t] = "wound_release" =>
       victim'[t] = victim[t] /\ (pc[t] = "wound_release" \/ victim[t] \in registry')
  /\ pc'[t] \in {"idle", "committing", "aborting"} => rx'[t] = "none"

\* Where every thread honours its part of a step, the invariant is kept.
LEMMA HonourStep ==
  ASSUME TMIInv, TMIInv', HonourInv, \A t \in Tx : Honours(t)
  PROVE  HonourInv'
<1>1. ASSUME NEW w \in Tx, pc'[w] = "wound_release"
      PROVE  victim'[w] \in registry' \/ status'[victim'[w]] \in {"Committed", "Aborted"}
  <2>1. PICK v : v = victim[w]
    BY SMTT(30)
  <2>2. victim'[w] = v /\ (pc[w] = "wound_release" \/ v \in registry')
    BY <1>1, <2>1 DEF Honours
  <2>3. CASE pc[w] = "wound_release"
    <3>1. v \in Tx /\ Gone(v)
      BY <2>1, <2>3, Zenon DEF TMIInv, VictimNamed, HonourInv, Gone
    <3>. QED
      BY <2>2, <3>1, Zenon DEF Gone, Honours
  <2>. QED
    BY <2>2, <2>3, Zenon
<1>2. ASSUME NEW t \in Tx, Live(t)'
      PROVE  \A c \in ok'[t] : Has(t, c.res)'
  <2>1. Live(t) /\ ok[t] \in SUBSET CallReq
    BY <1>2, Zenon DEF Honours, TMIInv, ManagerTypes
  <2>2. \A c \in ok[t] : c.res \in Resource /\ Has(t, c.res)
    BY <2>1, Zenon DEF HonourInv, CallReq
  <2>. QED
    BY <1>2, <2>2, Zenon DEF Honours
<1>3. ASSUME NEW t \in Tx, Live(t)', rx'[t] = "granted"
      PROVE  Has(t, req[t].res)'
  <2>1. PICK r : r = req[t].res
    BY Zenon
  <2>2. Live(t) /\ req'[t] = req[t] /\ (rx[t] = "granted" \/ Has(t, req[t].res)')
    BY <1>3, ZenonT(30) DEF Honours
  <2>3. CASE rx[t] = "granted"
    <3>1. Has(t, r)
      BY <2>1, <2>2, <2>3, Zenon DEF HonourInv
    <3>2. r \in Resource
      <4>1. pc[t] \notin {"idle", "committing", "aborting"}
        BY <2>3, Zenon DEF HonourInv
      <4>. QED
        BY <2>1, <4>1, RequestOfCall, Zenon
    <3>3. Has(t, r)'
      BY <1>3, <3>1, <3>2, Zenon DEF Honours
    <3>. QED
      BY <2>1, <2>2, <3>3, Zenon DEF Has
  <2>. QED
    BY <2>2, <2>3
<1>4. \A t \in Tx : pc'[t] \in {"idle", "committing", "aborting"} => rx'[t] = "none"
  BY Zenon DEF Honours
<1>. QED
  BY <1>1, <1>2, <1>3, <1>4, ZenonT(30) DEF HonourInv

(* The steps that leave the lock table and the answered calls alone.       *)
LEMMA QuietHonours ==
  ASSUME TMIInv, HonourInv, NEW t \in Tx, UNCHANGED <<lockVars, ok>>,
         \A u \in Tx : Gone(u) => Gone(u)',
         \A u \in Tx : Live(u)' => Live(u),
         \A u \in Tx \ {t} : pc'[u] = pc[u] /\ req'[u] = req[u] /\ rx'[u] = rx[u] /\ victim'[u] = victim[u],
         rx'[t] = "granted" => rx[t] = "granted" /\ req'[t] = req[t],
         pc'[t] = "wound_release" =>
           victim'[t] = victim[t] /\ (pc[t] = "wound_release" \/ victim[t] \in registry'),
         pc'[t] \in {"idle", "committing", "aborting"} => rx'[t] = "none"
  PROVE  \A u \in Tx : Honours(u)
<1>. SUFFICES ASSUME NEW u \in Tx PROVE Honours(u)
  BY Zenon
<1>1. \A r \in Resource : Has(u, r) => Has(u, r)'
  BY Zenon DEF Has, lockVars
<1>2. rx'[u] = "granted" => rx[u] = "granted" /\ req'[u] = req[u]
  BY Zenon DEF HonourInv
<1>3. pc'[u] = "wound_release" =>
        victim'[u] = victim[u] /\ (pc[u] = "wound_release" \/ victim[u] \in registry')
  BY ZenonT(30)
<1>4. pc'[u] \in {"idle", "committing", "aborting"} => rx'[u] = "none"
  BY SMTT(30) DEF HonourInv
<1>. QED
  BY <1>1, <1>2, <1>3, <1>4, Zenon DEF Honours

\* Steps that neither grant nor release a lock.
LEMMA QuietKeeps ==
  ASSUME TMIInv, HonourInv, NEW t \in Tx,
         \/ \E level \in Isolation : begin_with_isolation(t, level)
         \/ \E r \in Resource, c \in Calls :
              acquire_lock(t, r, c) \/ acquire_range_lock(t, r, c) \/ record_phantom_write(t, r, c)
         \/ commit(t) \/ commit_with_indexes(t) \/ rollback(t)
         \/ mark_readers(t) \/ recheck_denied(t) \/ apply_wound_wait(t)
         \/ wound_mark(t) \/ wound_abort(t) \/ wait_timeout(t)
         \/ finish_commit(t) \/ finish_abort(t)
  PROVE  \A u \in Tx : Honours(u)
<1>. USE DEF idVars, listVars, ssiVars, globalVars, callVars, Goto, Live, Gone
<1>1. /\ pc \in [Tx -> Label] /\ rx \in [Tx -> {"none", "empty", "granted"}]
      /\ status \in [Tx -> {"unborn", "Active", "Committed", "Aborted"}]
      /\ DOMAIN req = Tx /\ DOMAIN victim = Tx
  BY Zenon DEF TMIInv, ManagerTypes
<1>2. \A u \in Tx : pc[u] \in {"idle", "committing", "aborting"} => rx[u] = "none"
  BY Zenon DEF HonourInv
<1>3. CASE \E level \in Isolation : begin_with_isolation(t, level)
  BY <1>1, <1>2, <1>3, QuietHonours, Zenon DEF begin_with_isolation
<1>4. CASE \E r \in Resource, c \in Calls :
             acquire_lock(t, r, c) \/ acquire_range_lock(t, r, c) \/ record_phantom_write(t, r, c)
  BY <1>1, <1>2, <1>4, QuietHonours, ZenonT(30) DEF acquire_lock, acquire_range_lock, record_phantom_write, Enter, Idle
<1>5. CASE commit(t) \/ commit_with_indexes(t) \/ rollback(t)
  BY <1>1, <1>2, <1>5, QuietHonours, ZenonT(30) DEF commit, commit_with_indexes, rollback, Idle
<1>6. CASE mark_readers(t)
  BY <1>1, <1>2, <1>6, QuietHonours, ZenonT(30) DEF mark_readers
<1>7. CASE recheck_denied(t)
  BY <1>1, <1>2, <1>7, QuietHonours, SMTT(30) DEF recheck_denied, Leave
<1>8. CASE apply_wound_wait(t)
  BY <1>1, <1>2, <1>8, QuietHonours, ZenonT(30) DEF apply_wound_wait
<1>9. CASE wound_mark(t)
  BY <1>1, <1>2, <1>9, QuietHonours, Zenon DEF wound_mark
<1>10. CASE wound_abort(t)
  BY <1>1, <1>2, <1>10, QuietHonours, Zenon DEF wound_abort, Leave
<1>11. CASE wait_timeout(t)
  BY <1>1, <1>2, <1>11, QuietHonours, SMTT(30) DEF wait_timeout, Leave
<1>12. CASE finish_commit(t)
  BY <1>1, <1>2, <1>12, QuietHonours, ZenonT(30) DEF finish_commit
<1>13. CASE finish_abort(t)
  BY <1>1, <1>2, <1>13, QuietHonours, ZenonT(30) DEF finish_abort
<1>. QED
  BY <1>3, <1>4, <1>5, <1>6, <1>7, <1>8, <1>9, <1>10, <1>11, <1>12, <1>13, Zenon

(* A call of t that returns Ok.                                            *)
LEMMA AnswerHonours ==
  ASSUME TMIInv, HonourInv, NEW t \in Tx, Granted(t), UNCHANGED <<status, registry>>,
         pc[t] \in {"try", "wait"}, NEW r, r = req[t].res, Live(t)' => Has(t, r)',
         \A u \in Tx, s \in Resource : Has(u, s) => Has(u, s)'
  PROVE  \A u \in Tx : Honours(u)
<1>1. /\ pc \in [Tx -> Label] /\ rx \in [Tx -> {"none", "empty", "granted"}]
      /\ ok \in [Tx -> SUBSET CallReq] /\ DOMAIN req = Tx /\ DOMAIN victim = Tx
  BY Zenon DEF TMIInv, ManagerTypes
<1>2. /\ pc' = [pc EXCEPT ![t] = "idle"] /\ rx' = [rx EXCEPT ![t] = "none"]
      /\ ok' = [ok EXCEPT ![t] = @ \cup {req[t]}]
      /\ req' = [req EXCEPT ![t] = NoReq] /\ victim' = [victim EXCEPT ![t] = NoTx]
  BY Zenon DEF Granted, Leave, Goto
<1>3. \A u \in Tx : pc[u] \in {"idle", "committing", "aborting"} => rx[u] = "none"
  BY Zenon DEF HonourInv
<1>. SUFFICES ASSUME NEW u \in Tx PROVE Honours(u)
  BY Zenon
<1>4. CASE u = t
  <2>1. Live(t)' => Live(t)
    BY <1>1, <1>2, Zenon DEF Live
  <2>2. Live(t)' => \A c \in ok'[t] : c \in ok[t] \/ Has(t, c.res)'
    <3>. SUFFICES ASSUME Live(t)', NEW c \in ok'[t], c \notin ok[t] PROVE Has(t, c.res)'
      BY Zenon
    <3>1. c = req[t]
      BY <1>1, <1>2, ZenonT(30)
    <3>2. c.res = r
      BY <3>1, Zenon
    <3>. QED
      BY <3>2, Zenon
  <2>. QED
    BY <1>1, <1>2, <1>4, <2>1, <2>2, Zenon DEF Honours, Gone
<1>5. CASE u # t
  BY <1>1, <1>2, <1>3, <1>5, SMTT(30) DEF Honours, Gone, Live
<1>. QED
  BY <1>4, <1>5, Zenon

\* A try_acquire that is granted or queued, and a wait that ends with the lock.
LEMMA GrantKeeps ==
  ASSUME TMIInv, HonourInv, NEW t \in Tx, try_granted(t) \/ try_denied(t) \/ wait_granted(t)
  PROVE  \A u \in Tx : Honours(u)
<1>. USE DEF idVars
<1>1. /\ pc \in [Tx -> Label] /\ rx \in [Tx -> {"none", "empty", "granted"}]
      /\ DOMAIN req = Tx /\ DOMAIN victim = Tx
  BY Zenon DEF TMIInv, ManagerTypes
<1>2. PICK r \in Resource : r = req[t].res /\ req[t].mode \in LockMode
  BY RequestOfCall, ZenonT(30) DEF try_granted, try_denied, wait_granted
<1>3. \A u \in Tx : pc[u] \in {"idle", "committing", "aborting"} => rx[u] = "none"
  BY ZenonT(30) DEF HonourInv
<1>4. CASE try_denied(t)
  <2>2. \A u \in Tx, s \in Resource : Has(u, s) => Has(u, s)'
    BY <1>4, ZenonT(30) DEF Has, try_denied, try_acquire_denied
  <2>3. /\ UNCHANGED <<status, registry, ok, victim, req>>
        /\ pc' = [pc EXCEPT ![t] = IF req[t].kind = "lock" THEN "denied" ELSE "holders"]
        /\ rx' = [rx EXCEPT ![t] = IF is_waiting(req[t].res, t) THEN "none" ELSE "empty"]
        /\ pc[t] = "try"
    BY <1>4, Zenon DEF try_denied, listVars, Goto
  <2>. QED
    BY <1>1, <1>3, <2>2, <2>3, SMTT(30) DEF Honours, Live, Gone
<1>5. CASE try_granted(t)
  <2>1. try_acquire_granted(r, t, req[t].mode) /\ LockIInv
    BY <1>2, <1>5, Zenon DEF try_granted, TMIInv
  <2>2. Has(t, r)' /\ \A u \in Tx, s \in Resource : Has(u, s) => Has(u, s)'
    BY <1>2, <2>1, GrantGivesEntry, Zenon
  <2>. QED
    BY <1>2, <1>5, <2>2, AnswerHonours, ZenonT(30) DEF try_granted
<1>6. CASE wait_granted(t)
  <2>1. \A u \in Tx, s \in Resource : Has(u, s) => Has(u, s)'
    BY <1>6, Zenon DEF wait_granted, lockVars, Has
  <2>2. pc[t] = "wait" /\ rx[t] = "granted" /\ UNCHANGED <<status, registry, lockVars>>
    BY <1>6, Zenon DEF wait_granted
  <2>3. CASE Granted(t)
    <3>1. Live(t)' => Live(t)
      BY <2>2, Zenon DEF Live
    <3>2. Live(t)' => Has(t, r)
      BY <1>2, <2>2, <3>1, Zenon DEF HonourInv
    <3>. QED
      BY <1>2, <2>1, <2>2, <2>3, <3>2, AnswerHonours, Zenon
  <2>4. CASE Leave(t, "aborting") /\ UNCHANGED listVars
    BY <1>1, <1>3, <2>2, <2>4, QuietHonours, ZenonT(30) DEF Leave, Goto, listVars, Live, Gone
  <2>. QED
    BY <1>6, <2>3, <2>4, Zenon DEF wait_granted
<1>. QED
  BY <1>4, <1>5, <1>6, Zenon

(* The releases: of a wounded transaction, and of t that is finishing.     *)
LEMMA ReleaseHonours ==
  ASSUME TMIInv, HonourInv, NEW r \in Resource, NEW v \in Tx, release_and_notify(r, v),
         UNCHANGED <<status, registry, ok, req, victim>>,
         NEW t \in Tx, pc'[t] \notin {"wound_release", "idle"},
         pc[t] \in {"committing", "aborting", "wound_release"},
         pc'[t] \in {pc[t], "wound_abort"}, pc[t] \in {"committing", "aborting"} => pc'[t] = pc[t],
         \A u \in Tx \ {t} : pc'[u] = pc[u], ~Live(v)'
  PROVE  \A u \in Tx : Honours(u)
<1>1. /\ rx \in [Tx -> {"none", "empty", "granted"}] /\ release(r, v) /\ LockIInv
      /\ rx' = [u \in Tx |-> IF u \in Notified(r, v) /\ rx[u] = "empty" /\ req[u].res = r
                             THEN "granted" ELSE rx[u]]
  BY Zenon DEF TMIInv, ManagerTypes, release_and_notify
<1>. SUFFICES ASSUME NEW u \in Tx PROVE Honours(u)
  BY Zenon
<1>2. Live(u)' => Live(u) /\ u # v
  BY Zenon DEF Live
<1>3. Live(u)' => \A s \in Resource : Has(u, s) => Has(u, s)'
  BY <1>1, <1>2, ReleaseKeepsOthers, Zenon
<1>4. rx'[u] = "granted" => rx[u] = "granted" \/ Has(u, req[u].res)'
  <2>. SUFFICES ASSUME rx'[u] = "granted", rx[u] # "granted" PROVE Has(u, req[u].res)'
    BY Zenon
  <2>1. u \in Notified(r, v) /\ req'[u].res = r
    BY <1>1, SMTT(30)
  <2>2. Has(u, r)'
    BY <1>1, <2>1, ReleaseKeepsOthers, SMTT(30)
  <2>. QED
    BY <2>1, <2>2, Zenon DEF Has
<1>5. pc'[u] \in {"idle", "committing", "aborting"} => rx'[u] = "none"
  <2>1. pc'[u] \in {"idle", "committing", "aborting"} => pc[u] \in {"idle", "committing", "aborting"}
    BY Zenon
  <2>. QED
    BY <1>1, <2>1, Zenon DEF HonourInv
<1>6. pc'[u] = "wound_release" => pc[u] = "wound_release"
  BY SMTT(30)
<1>7. Gone(u) => Gone(u)'
  BY DEF Gone
<1>. QED
  BY <1>2, <1>3, <1>4, <1>5, <1>6, <1>7, SMTT(30) DEF Honours

\* The releases at the end of a transaction, and the one for a wounded victim.
LEMMA ReleasesKeep ==
  ASSUME TMIInv, HonourInv, NEW t \in Tx, wound_release(t) \/ release_held(t) \/ release_ranges(t)
  PROVE  \A u \in Tx : Honours(u)
<1>0. pc \in [Tx -> Label]
  BY Zenon DEF TMIInv, ManagerTypes
<1>1. CASE wound_release(t)
  <2>1. PICK v \in Tx, r \in Resource : v = victim[t] /\ r = req[t].res
    BY <1>1, RequestOfCall, ZenonT(30) DEF wound_release, TMIInv, VictimNamed
  <2>2. /\ UNCHANGED <<status, registry, ok, req, victim>> /\ release_and_notify(r, v)
        /\ pc[t] = "wound_release" /\ pc' = [pc EXCEPT ![t] = "wound_abort"]
    BY <1>1, <2>1, Zenon DEF wound_release, idVars, listVars, Goto
  <2>3. ~Live(v)'
    BY <2>1, <2>2, Zenon DEF HonourInv, Live
  <2>. QED
    BY <1>0, <2>2, <2>3, ReleaseHonours, Zenon
<1>2. CASE release_held(t) \/ release_ranges(t)
  <2>1. held_locks[t] \subseteq Resource /\ read_ranges[t] \subseteq Resource
    BY Zenon DEF TMIInv, ManagerTypes
  <2>2. PICK r \in Resource : release_and_notify(r, t)
    BY <1>2, <2>1, Zenon DEF release_held, release_ranges
  <2>3. UNCHANGED <<status, registry, ok, req, victim, pc>> /\ pc[t] \in {"committing", "aborting"}
    BY <1>2, Zenon DEF release_held, release_ranges, idVars
  <2>4. ~Live(t)'
    BY <2>3, SMTT(30) DEF Live
  <2>. QED
    BY <2>2, <2>3, <2>4, ReleaseHonours, Zenon
<1>. QED
  BY <1>1, <1>2, Zenon

\* No transaction has an answer yet.
LEMMA InitHonours == TMInit => HonourInv
  BY DEF TMInit, HonourInv

\* Every step of every thread keeps the answers true.
LEMMA NextHonours == TMIInv /\ TMIInv' /\ HonourInv /\ [TMNext]_tmvars => HonourInv'
<1>. SUFFICES ASSUME TMIInv, TMIInv', HonourInv, [TMNext]_tmvars
              PROVE  HonourInv'
  BY ZenonT(30)
<1>1. CASE UNCHANGED tmvars
  BY <1>1, Zenon DEF tmvars, lockVars, idVars, listVars, callVars, HonourInv, Live, Has
<1>2. CASE TMNext
  BY <1>2, QuietKeeps, GrantKeeps, ReleasesKeep, HonourStep, SMTT(30) DEF TMNext, Step
<1>. QED
  BY <1>1, <1>2

(* Modes that do not conflict still do not when they are weakened.         *)
LEMMA StrongerExcludesMore ==
  ASSUME NEW h \in LockMode, NEW g \in LockMode, NEW m \in LockMode, NEW n \in LockMode,
         compatible_with(h, g), mode_at_least_as_strong(h, m), mode_at_least_as_strong(g, n)
  PROVE  compatible_with(m, n)
  BY ZenonT(30) DEF compatible_with, mode_at_least_as_strong, LockMode

(* Two working transactions are never both told that they hold a resource  *)
(* in conflicting modes (acquire_lock, acquire_range_lock,                 *)
(* record_phantom_write), however wounds, notifications, timeouts and      *)
(* requests left in the queue interleave; only an entry that is weaker     *)
(* than the answered call makes an exception.                              *)
THEOREM AnswersExclude == TMSpec => []LocksHonoured
<1>1. TMIInv /\ HonourInv => LocksHonoured
  <2>. SUFFICES ASSUME TMIInv, HonourInv, NEW t \in Tx, NEW u \in Tx, t # u, Working(t), Working(u),
                       NEW c \in ok[t], NEW d \in ok[u], c.res = d.res,
                       ~Upgraded(t, c), ~Upgraded(u, d)
                PROVE  compatible_with(c.mode, d.mode)
    BY Zenon DEF LocksHonoured
  <2>1. c \in CallReq /\ d \in CallReq
    BY Zenon DEF TMIInv, ManagerTypes
  <2>2. PICK r \in Resource : c.res = r /\ d.res = r /\ c.mode \in LockMode /\ d.mode \in LockMode
    BY <2>1, ZenonT(30) DEF CallReq
  <2>3. Has(t, r) /\ Has(u, r)
    BY <2>2, Zenon DEF HonourInv, Live, Working
  <2>4. PICK h \in holders[r], g \in holders[r] : h.txid = t /\ g.txid = u
    BY <2>3, ZenonT(30) DEF Has, HolderIds
  <2>5. h.mode \in LockMode /\ g.mode \in LockMode /\ compatible_with(h.mode, g.mode)
    BY <2>2, <2>4, SMTT(30) DEF TMIInv, LockIInv, LockTypeOK, HoldersCompatible, Request
  <2>6. mode_at_least_as_strong(h.mode, c.mode) /\ mode_at_least_as_strong(g.mode, d.mode)
    BY <2>2, <2>4 DEF Upgraded
  <2>. QED
    BY <2>2, <2>5, <2>6, StrongerExcludesMore, Zenon
<1>. QED
  BY <1>1, InitHonours, NextHonours, TMIInvInvariant, PTL DEF TMSpec

==============================================================================
