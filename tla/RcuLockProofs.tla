--------------------------- MODULE RcuLockProofs ---------------------------
(***************************************************************************)
(* RcuLock is correct for any number of threads, of qps, of objects and of *)
(* calls: IInv is inductive and implies the properties of the lock.        *)
(***************************************************************************)
EXTENDS RcuLock, FiniteSetTheorems, SequenceTheorems, NatLemmas, TLAPS

USE DEF Later, ctrVars, mtxVars

-----------------------------------------------------------------------------
(* Arithmetic: the qps are used round robin. *)

\* The remainder of a successor.
LEMMA ModSuccessor ==
    ASSUME NEW a \in Nat, NEW g \in Nat \ {0}
    PROVE  ((a % g) + 1) % g = (a + 1) % g
<1>1. PICK d \in Nat, r \in 0 .. g - 1 : a = g * d + r /\ r = a % g
  BY DivMod
<1>2. a + 1 \in Nat /\ r + 1 \in Nat
  BY <1>1
<1>3. PICK d1 \in Nat, r1 \in 0 .. g - 1 : a + 1 = g * d1 + r1 /\ r1 = (a + 1) % g
  BY <1>2, DivMod
<1>4. PICK d2 \in Nat, r2 \in 0 .. g - 1 : r + 1 = g * d2 + r2 /\ r2 = (r + 1) % g
  BY <1>2, DivMod
<1>5. CASE r + 1 < g
  <2>1. r + 1 \in 0 .. g - 1 /\ 0 \in Nat /\ g * d + (r + 1) = g * d1 + r1
        /\ g * 0 + (r + 1) = g * d2 + r2
    BY <1>1, <1>3, <1>4, <1>5
  <2>2. r1 = r + 1 /\ r2 = r + 1
    BY <2>1, DivModUnique
  <2> QED
    BY <1>1, <1>3, <1>4, <2>2
<1>6. CASE r + 1 = g
  <2>1. 0 \in 0 .. g - 1 /\ d + 1 \in Nat /\ 1 \in Nat /\ g * (d + 1) + 0 = g * d1 + r1
        /\ g * 1 + 0 = g * d2 + r2
    <3>1. g * (d + 1) = g * d + g
      BY Z3
    <3> QED
      BY <1>1, <1>3, <1>4, <1>6, <3>1
  <2>2. r1 = 0 /\ r2 = 0
    BY <2>1, DivModUnique
  <2> QED
    BY <1>1, <1>3, <1>4, <2>2
<1> QED
  BY <1>1, <1>5, <1>6

\* There are at least two qps.
LEMMA GroupCount == group_count \in Nat /\ group_count >= 2
  BY NumWritersAssumption DEF group_count

\* The incremented index of update_qp is the one of the next id.
LEMMA NextIdxIsMod ==
    ASSUME NEW a \in Nat
    PROVE  /\ a % group_count \in Slots
           /\ NextIdx(a % group_count) = (a + 1) % group_count
<1>1. group_count \in Nat \ {0}
  BY GroupCount
<1>2. a % group_count \in Slots
  BY <1>1, DivMod DEF Slots
<1>3. ((a % group_count) + 1) % group_count = (a + 1) % group_count
  BY <1>1, ModSuccessor
<1> QED
  BY <1>2, <1>3 DEF NextIdx

\* Ids less than group_count apart have different qps.
LEMMA CloseIdsDiffer ==
    ASSUME NEW a \in Nat, NEW b \in Nat, a < b, b - a < group_count
    PROVE  a % group_count # b % group_count
<1>1. group_count \in Nat \ {0}
  BY GroupCount
<1>2. PICK g \in Nat \ {0} : g = group_count
  BY <1>1
<1>3. PICK x \in Nat, r \in 0 .. g - 1 : a = g * x + r /\ r = a % g
  BY DivMod
<1>4. PICK y \in Nat, s \in 0 .. g - 1 : b = g * y + s /\ s = b % g
  BY DivMod
<1>5. SUFFICES ASSUME r = s PROVE FALSE
  BY <1>2, <1>3, <1>4
<1>6. x + 1 =< y
  <2>1. SUFFICES ASSUME y =< x PROVE FALSE
    OBVIOUS
  <2>2. g * y =< g * x
    BY <2>1, Z3
  <2> QED
    BY <1>3, <1>4, <1>5, <2>2
<1>7. g * (x + 1) =< g * y
  BY <1>6, Z3
<1>8. g * (x + 1) = g * x + g
  BY Z3
<1> QED
  BY <1>2, <1>3, <1>4, <1>5, <1>7, <1>8

-----------------------------------------------------------------------------
(* Counting threads. *)

\* A set of threads with a member has a positive cardinality.
LEMMA ThreadCount ==
    ASSUME NEW S \in SUBSET Threads
    PROVE  /\ IsFiniteSet(S) /\ Cardinality(S) \in Nat
           /\ S # {} => Cardinality(S) >= 1
<1>1. IsFiniteSet(S)
  BY ThreadsAssumption, FS_Subset
<1> QED
  BY <1>1, FS_CardinalityType, FS_EmptySet

\* One thread enters a set of threads.
LEMMA ThreadEnters ==
    ASSUME NEW S \in SUBSET Threads, NEW t \in Threads, t \notin S
    PROVE  Cardinality(S \cup {t}) = Cardinality(S) + 1
  BY ThreadCount, FS_AddElement

\* One thread leaves a set of threads.
LEMMA ThreadLeaves ==
    ASSUME NEW S \in SUBSET Threads, NEW t \in S
    PROVE  Cardinality(S \ {t}) = Cardinality(S) - 1
  BY ThreadCount, FS_RemoveElement

\* What the steps that count down rely on: the counter is positive.
LEMMA CountersPositive ==
    ASSUME IInv, NEW t \in Threads
    PROVE  /\ pc[t] \in {"rl_check", "rl_sub", "reading"} => users[qp[t]] >= 1
           /\ pc[t] = "r_lock" => writers_alloced >= 1
           /\ \A q \in Slots : t \notin Holders(q) \/ qp[t] = q
<1>1. ASSUME pc[t] \in {"rl_check", "rl_sub", "reading"} PROVE users[qp[t]] >= 1
  <2>1. t \in Holders(qp[t]) /\ Holders(qp[t]) \in SUBSET Threads /\ qp[t] \in Slots
    BY <1>1 DEF Holders, IInv, TypeOK, TypeThread
  <2> QED
    BY <2>1, ThreadCount DEF IInv, UsersExact
<1>2. ASSUME pc[t] = "r_lock" PROVE writers_alloced >= 1
  <2>1. t \in Alloced /\ Alloced \in SUBSET Threads
    BY <1>2 DEF Alloced, Waiting
  <2> QED
    BY <2>1, ThreadCount DEF IInv, IdInv
<1> QED
  BY <1>1, <1>2 DEF Holders

-----------------------------------------------------------------------------
(* Each part of IInv is preserved by every step. *)

\* The stores made so far.
LEMMA StoreType ==
    ASSUME TypeLock, TypeMemory, NEW v \in 0 .. id_ctr
    PROVE  Store(v).val \in Slots /\ Store(v).ptr \in Nat
<1>1. v + 1 \in 1 .. Len(reader_idx)
  BY DEF TypeLock, TypeMemory
<1>2. reader_idx[v + 1] \in [val : Slots, ptr : Objects]
  BY <1>1, ElementOfSeq DEF TypeMemory
<1> QED
  BY <1>2 DEF Store, Objects

\* What the store of update_qp does, as far as the other parts need to know.
LEMMA StoreEffect ==
    ASSUME IInv, NEW t \in Threads, StoreReaderIdx(t)
    PROVE  /\ pc[t] = "u_store" /\ pc' = [pc EXCEPT ![t] = "u_add0"]
           /\ current_alloc_idx' = (id_ctr + 1) % group_count
           /\ current_alloc_idx' \in Slots
           /\ \A v \in 0 .. id_ctr : Store(v)' = Store(v)
           /\ reader_idx'[id_ctr + 2] = [val |-> current_alloc_idx', ptr |-> viewPtr[t]]
           /\ id_ctr' = id_ctr + 1 /\ id_ctr \in Nat
           /\ curr_id' = [curr_id EXCEPT ![t] = id_ctr]
           /\ qp' = [qp EXCEPT ![t] = current_alloc_idx]
           /\ viewIdx' = [viewIdx EXCEPT ![t] = id_ctr + 1]
           /\ UNCHANGED <<cb_items, next_to_retire, users, alloc_lock, prior_lock,
                 write_lock, alloc_signal, prior_signal, depth, my_cbs, refs, held,
                 usersIdx, usersPtr, sawZero, uptr, viewPtr, allocPtr, freed>>
<1>1. id_ctr \in Nat /\ current_alloc_idx = id_ctr % group_count
      /\ reader_idx \in Seq([val : Slots, ptr : Objects]) /\ Len(reader_idx) = id_ctr + 1
  BY DEF IInv, StoreInv, TypeOK, TypeLock, TypeMemory
<1>2. current_alloc_idx' = (id_ctr + 1) % group_count
  BY <1>1, NextIdxIsMod DEF StoreReaderIdx
<1>3. current_alloc_idx' \in Slots
  <2>1. id_ctr + 1 \in Nat
    BY <1>1
  <2> QED
    BY <1>2, <2>1, NextIdxIsMod
<1>4. PICK r : /\ r = [val |-> current_alloc_idx', ptr |-> viewPtr[t]]
               /\ reader_idx' = Append(reader_idx, r)
  BY DEF StoreReaderIdx
<1>5. /\ \A i \in 1 .. id_ctr + 1 : reader_idx'[i] = reader_idx[i]
      /\ reader_idx'[id_ctr + 2] = r
  BY <1>1, <1>4
<1>6. \A v \in 0 .. id_ctr : Store(v)' = Store(v)
  BY <1>1, <1>5 DEF Store
<1> QED
  BY <1>1, <1>2, <1>3, <1>4, <1>5, <1>6 DEF StoreReaderIdx, Goto

\* Type correctness.
LEMMA TypeStep ==
    ASSUME IInv, NEW t \in Threads,
           ReadSide(t) \/ Publish(t) \/ TakeCallbacks(t) \/ Synchronize(t)
    PROVE  TypeOK'
<1>b. /\ qp[t] \in Slots /\ depth[t] \in Nat /\ viewIdx[t] \in Nat /\ viewPtr[t] \in Nat
      /\ id_ctr \in Nat /\ uptr \in Nat /\ allocPtr \in Nat
      /\ \A q \in Slots : usersIdx[q] \in Nat /\ usersPtr[q] \in Nat /\ users[q] \in Nat
  BY DEF IInv, TypeOK, TypeLock, TypeThread, TypeMemory, Objects
<1>s. \A v \in 0 .. id_ctr : Store(v).val \in Slots /\ Store(v).ptr \in Nat
  BY StoreType DEF IInv, TypeOK
<1>a. /\ pc \in [Threads -> Pcs] /\ TypeLock /\ TypeThread /\ TypeMemory
      /\ group_count \in Nat /\ group_count >= 2
  BY GroupCount DEF IInv, TypeOK
<1>z. 0 \in Slots
  BY <1>a DEF Slots
<1>p. ASSUME NEW l \in Pcs, Goto(t, l) PROVE pc' \in [Threads -> Pcs]
  BY <1>a, <1>p DEF Goto
<1>l. UNCHANGED lockVars => TypeLock'
  BY <1>a DEF TypeLock, lockVars
<1>t. UNCHANGED thrVars => TypeThread'
  BY <1>a DEF TypeThread, thrVars
<1>m. UNCHANGED <<memVars, id_ctr>> => TypeMemory'
  BY <1>a DEF TypeMemory, memVars
<1>1. CASE ReadLock(t)
  <2>1. pc' \in [Threads -> Pcs]
    BY <1>a, <1>b, <1>p, <1>1 DEF ReadLock, Pcs, readerPcs, writerPcs
  <2>2. TypeLock'
    BY <1>l, <1>1 DEF ReadLock
  <2>3. TypeThread'
    BY <1>t, <1>1 DEF ReadLock
  <2>4. TypeMemory'
    BY <1>m, <1>1 DEF ReadLock, memVars, lockVars
  <2> QED
    BY <2>1, <2>2, <2>3, <2>4 DEF TypeOK
<1>2. CASE ReadLockAgain(t)
  <2>1. pc' \in [Threads -> Pcs]
    BY <1>a, <1>b, <1>2 DEF ReadLockAgain
  <2>2. TypeLock'
    BY <1>l, <1>2 DEF ReadLockAgain
  <2>3. TypeThread'
    BY <1>a, <1>b, <1>2 DEF ReadLockAgain, TypeThread
  <2>4. TypeMemory'
    BY <1>m, <1>2 DEF ReadLockAgain, memVars, lockVars
  <2> QED
    BY <2>1, <2>2, <2>3, <2>4 DEF TypeOK
<1>3. CASE LoadReaderIdx(t)
  <2>1. pc' \in [Threads -> Pcs]
    BY <1>a, <1>b, <1>p, <1>3 DEF LoadReaderIdx, Pcs, readerPcs, writerPcs
  <2>2. TypeLock'
    BY <1>l, <1>3 DEF LoadReaderIdx
  <2>3. TypeThread'
    BY <1>a, <1>b, <1>s, <1>3 DEF LoadReaderIdx, TypeThread
  <2>4. TypeMemory'
    <3>0. PICK v \in viewIdx[t] .. id_ctr : viewIdx' = [viewIdx EXCEPT ![t] = v]
      BY <1>3 DEF LoadReaderIdx
    <3>1. viewIdx' \in [Threads -> Nat]
      BY <1>a, <1>b, <3>0 DEF TypeMemory
    <3> QED
      BY <1>a, <1>3, <3>1 DEF LoadReaderIdx, TypeMemory, lockVars
  <2> QED
    BY <2>1, <2>2, <2>3, <2>4 DEF TypeOK
<1>4. CASE AddUser(t)
  <2>1. pc' \in [Threads -> Pcs]
    BY <1>a, <1>b, <1>p, <1>4 DEF AddUser, Pcs, readerPcs, writerPcs
  <2>2. TypeLock'
    BY <1>a, <1>b, <1>4 DEF AddUser, TypeLock, Objects
  <2>3. TypeThread'
    BY <1>t, <1>4 DEF AddUser
  <2>4. TypeMemory'
    BY <1>a, <1>b, <1>4 DEF AddUser, TypeMemory, Objects
  <2> QED
    BY <2>1, <2>2, <2>3, <2>4 DEF TypeOK
<1>5. CASE CheckReaderIdx(t)
  <2>1. pc' \in [Threads -> Pcs]
    BY <1>a, <1>b, <1>p, <1>5 DEF CheckReaderIdx, Pcs, readerPcs, writerPcs
  <2>2. TypeLock'
    BY <1>l, <1>5 DEF CheckReaderIdx
  <2>3. TypeThread'
    BY <1>a, <1>b, <1>5 DEF CheckReaderIdx, TypeThread
  <2>4. TypeMemory'
    <3>1. PICK v \in viewIdx[t] .. id_ctr :
             /\ viewIdx' = [viewIdx EXCEPT ![t] = v]
             /\ viewPtr' = [viewPtr EXCEPT ![t] = Later(@, Store(v).ptr)]
      BY <1>5 DEF CheckReaderIdx
    <3>2. v \in 0 .. id_ctr /\ Store(v).ptr \in Nat
      BY <1>b, <1>s
    <3>3. viewIdx' \in [Threads -> Nat] /\ viewPtr' \in [Threads -> Objects]
      BY <1>a, <1>b, <3>1, <3>2 DEF TypeMemory, Objects
    <3> QED
      BY <1>a, <1>5, <3>3 DEF CheckReaderIdx, TypeMemory, lockVars
  <2> QED
    BY <2>1, <2>2, <2>3, <2>4 DEF TypeOK
<1>6. CASE SubUser(t)
  <2>1. pc' \in [Threads -> Pcs]
    BY <1>a, <1>b, <1>p, <1>6 DEF SubUser, Pcs, readerPcs, writerPcs
  <2>2. TypeLock'
    BY <1>a, <1>b, CountersPositive, <1>6 DEF SubUser, DropCount, TypeLock, Objects
  <2>3. TypeThread'
    BY <1>a, <1>z, <1>6 DEF SubUser, TypeThread
  <2>4. TypeMemory'
    BY <1>a, <1>b, <1>6 DEF SubUser, DropCount, TypeMemory, Objects
  <2> QED
    BY <2>1, <2>2, <2>3, <2>4 DEF TypeOK
<1>7. CASE Deref(t)
  <2>1. pc' \in [Threads -> Pcs]
    BY <1>a, <1>b, <1>7 DEF Deref
  <2>2. TypeLock'
    BY <1>l, <1>7 DEF Deref
  <2>3. TypeThread'
    <3>1. PICK v \in viewPtr[t] .. uptr : refs' = [refs EXCEPT ![t] = @ \cup {v}]
      BY <1>7 DEF Deref
    <3>2. v \in Objects
      BY <1>b DEF Objects
    <3>3. refs' \in [Threads -> SUBSET Objects]
      BY <1>a, <3>1, <3>2 DEF TypeThread
    <3> QED
      BY <1>a, <1>7, <3>3 DEF Deref, TypeThread
  <2>4. TypeMemory'
    <3>0. PICK v \in viewPtr[t] .. uptr : viewPtr' = [viewPtr EXCEPT ![t] = v]
      BY <1>7 DEF Deref
    <3>1. viewPtr' \in [Threads -> Objects]
      BY <1>a, <1>b, <3>0 DEF TypeMemory, Objects
    <3> QED
      BY <1>a, <1>7, <3>1 DEF Deref, TypeMemory, lockVars
  <2> QED
    BY <2>1, <2>2, <2>3, <2>4 DEF TypeOK
<1>8. CASE ReadUnlockInner(t)
  <2>1. pc' \in [Threads -> Pcs]
    BY <1>a, <1>b, <1>8 DEF ReadUnlockInner
  <2>2. TypeLock'
    BY <1>l, <1>8 DEF ReadUnlockInner
  <2>3. TypeThread'
    BY <1>a, <1>b, <1>8 DEF ReadUnlockInner, TypeThread
  <2>4. TypeMemory'
    BY <1>m, <1>8 DEF ReadUnlockInner, memVars, lockVars
  <2> QED
    BY <2>1, <2>2, <2>3, <2>4 DEF TypeOK
<1>9. CASE ReadUnlock(t)
  <2>1. pc' \in [Threads -> Pcs]
    BY <1>a, <1>b, <1>p, <1>9 DEF ReadUnlock, Pcs, readerPcs, writerPcs
  <2>2. TypeLock'
    BY <1>a, <1>b, CountersPositive, <1>9 DEF ReadUnlock, TypeLock, Objects
  <2>3. TypeThread'
    BY <1>a, <1>b, <1>z, <1>9 DEF ReadUnlock, TypeThread
  <2>4. TypeMemory'
    BY <1>a, <1>b, <1>9 DEF ReadUnlock, TypeMemory, Objects
  <2> QED
    BY <2>1, <2>2, <2>3, <2>4 DEF TypeOK
<1>10. CASE WriteLock(t)
  <2>1. pc' \in [Threads -> Pcs]
    BY <1>a, <1>b, <1>p, <1>10 DEF WriteLock, Pcs, readerPcs, writerPcs
  <2>2. TypeLock'
    BY <1>a, <1>b, <1>10 DEF WriteLock, TypeLock, Objects
  <2>3. TypeThread'
    BY <1>t, <1>10 DEF WriteLock
  <2>4. TypeMemory'
    BY <1>a, <1>b, <1>10 DEF WriteLock, TypeMemory, Objects
  <2> QED
    BY <2>1, <2>2, <2>3, <2>4 DEF TypeOK
<1>11. CASE Assign(t)
  <2>1. pc' \in [Threads -> Pcs]
    BY <1>a, <1>b, <1>p, <1>11 DEF Assign, Pcs, readerPcs, writerPcs
  <2>2. TypeLock'
    BY <1>l, <1>11 DEF Assign
  <2>3. TypeThread'
    BY <1>t, <1>11 DEF Assign
  <2>4. TypeMemory'
    <3>1. uptr' \in Objects /\ viewPtr' \in [Threads -> Objects]
      BY <1>a, <1>b, <1>11 DEF Assign, TypeMemory, Objects
    <3> QED
      BY <1>a, <1>11, <3>1 DEF Assign, TypeMemory, lockVars
  <2> QED
    BY <2>1, <2>2, <2>3, <2>4 DEF TypeOK
<1>12. CASE RcuCall(t)
  <2>1. pc' \in [Threads -> Pcs]
    BY <1>a, <1>b, <1>p, <1>12 DEF RcuCall, Pcs, readerPcs, writerPcs
  <2>2. TypeLock'
    <3>1. uptr - 1 \in Objects
      BY <1>b, <1>12 DEF RcuCall, IInv, ObjectInv, Objects
    <3> QED
      BY <1>a, <1>12, <3>1 DEF RcuCall, Queued, TypeLock
  <2>3. TypeThread'
    BY <1>t, <1>12 DEF RcuCall
  <2>4. TypeMemory'
    BY <1>m, <1>12 DEF RcuCall, memVars
  <2> QED
    BY <2>1, <2>2, <2>3, <2>4 DEF TypeOK
<1>13. CASE WriteUnlock(t)
  <2>1. pc' \in [Threads -> Pcs]
    BY <1>a, <1>b, <1>p, <1>13 DEF WriteUnlock, Pcs, readerPcs, writerPcs
  <2>2. TypeLock'
    BY <1>a, <1>b, <1>13 DEF WriteUnlock, TypeLock
  <2>3. TypeThread'
    BY <1>t, <1>13 DEF WriteUnlock
  <2>4. TypeMemory'
    BY <1>m, <1>13 DEF WriteUnlock, memVars
  <2> QED
    BY <2>1, <2>2, <2>3, <2>4 DEF TypeOK
<1>14. CASE TakeCallbacks(t)
  <2>1. pc' \in [Threads -> Pcs]
    BY <1>a, <1>b, <1>p, <1>14 DEF TakeCallbacks, Pcs, readerPcs, writerPcs
  <2>2. TypeLock'
    BY <1>a, <1>b, <1>14 DEF TakeCallbacks, ItemsLeft, TypeLock, Objects
  <2>3. TypeThread'
    BY <1>a, <1>14 DEF TakeCallbacks, TypeThread, TypeLock
  <2>4. TypeMemory'
    BY <1>a, <1>b, <1>14 DEF TakeCallbacks, ItemsLeft, TypeMemory, Objects
  <2> QED
    BY <2>1, <2>2, <2>3, <2>4 DEF TypeOK
<1>15. CASE AllocLock(t)
  <2>1. pc' \in [Threads -> Pcs]
    BY <1>a, <1>b, <1>p, <1>15 DEF AllocLock, Pcs, readerPcs, writerPcs
  <2>2. TypeLock'
    BY <1>a, <1>b, <1>15 DEF AllocLock, NoQpAvailable, TypeLock, Objects
  <2>3. TypeThread'
    BY <1>t, <1>15 DEF AllocLock
  <2>4. TypeMemory'
    BY <1>a, <1>b, <1>15 DEF AllocLock, NoQpAvailable, TypeMemory, Objects
  <2> QED
    BY <2>1, <2>2, <2>3, <2>4 DEF TypeOK
<1>16. CASE StoreReaderIdx(t)
  <2>1. pc' \in [Threads -> Pcs]
    BY <1>a, <1>p, <1>16 DEF StoreReaderIdx, Pcs, writerPcs
  <2>2. current_alloc_idx \in Slots /\ current_alloc_idx' \in Slots
    <3>1. id_ctr + 1 \in Nat /\ current_alloc_idx = id_ctr % group_count
      BY <1>b DEF IInv, StoreInv
    <3> QED
      BY <1>b, <1>16, <3>1, NextIdxIsMod DEF StoreReaderIdx
  <2>3. TypeLock'
    BY <1>a, <1>b, <1>16, <2>2 DEF StoreReaderIdx, TypeLock
  <2>4. TypeThread'
    BY <1>a, <1>b, <1>16, <2>2 DEF StoreReaderIdx, TypeThread
  <2>5. TypeMemory'
    <3>1. [val |-> current_alloc_idx', ptr |-> viewPtr[t]] \in [val : Slots, ptr : Objects]
      BY <1>b, <2>2 DEF Objects
    <3>2. /\ reader_idx' \in Seq([val : Slots, ptr : Objects])
          /\ Len(reader_idx') = id_ctr' + 1
      BY <1>a, <1>b, <1>16, <3>1 DEF StoreReaderIdx, TypeMemory
    <3>3. viewIdx' \in [Threads -> Nat]
      BY <1>a, <1>b, <1>16 DEF StoreReaderIdx, TypeMemory
    <3> QED
      BY <1>a, <1>16, <3>2, <3>3 DEF StoreReaderIdx, TypeMemory
  <2> QED
    BY <2>1, <2>3, <2>4, <2>5 DEF TypeOK
<1>17. CASE AddZero(t)
  <2>1. pc' \in [Threads -> Pcs]
    BY <1>a, <1>17 DEF AddZero, SignalAlloc, Goto, Pcs, writerPcs
  <2>2. TypeLock'
    BY <1>a, <1>b, <1>17 DEF AddZero, ReleasedIdx, TypeLock, SignalAlloc, Goto, Objects
  <2>3. TypeThread'
    BY <1>t, <1>17 DEF AddZero
  <2>4. TypeMemory'
    BY <1>a, <1>b, <1>17 DEF AddZero, ReleasedIdx, TypeMemory, Objects
  <2> QED
    BY <2>1, <2>2, <2>3, <2>4 DEF TypeOK
<1>18. CASE PriorLock(t)
  <2>1. pc' \in [Threads -> Pcs]
    BY <1>a, <1>b, <1>p, <1>18 DEF PriorLock, Pcs, readerPcs, writerPcs
  <2>2. TypeLock'
    BY <1>a, <1>b, <1>18 DEF PriorLock, MyTurn, TypeLock
  <2>3. TypeThread'
    BY <1>t, <1>18 DEF PriorLock
  <2>4. TypeMemory'
    BY <1>m, <1>18 DEF PriorLock, memVars
  <2> QED
    BY <2>1, <2>2, <2>3, <2>4 DEF TypeOK
<1>19. CASE SeeZero(t)
  <2>1. pc' \in [Threads -> Pcs]
    BY <1>a, <1>b, <1>p, <1>19 DEF SeeZero, Pcs, readerPcs, writerPcs
  <2>2. TypeLock'
    BY <1>a, <1>b, <1>19 DEF SeeZero, TypeLock, Objects
  <2>3. TypeThread'
    BY <1>t, <1>19 DEF SeeZero
  <2>4. TypeMemory'
    BY <1>m, <1>19 DEF SeeZero, memVars
  <2> QED
    BY <2>1, <2>2, <2>3, <2>4 DEF TypeOK
<1>20. CASE RetireQp(t)
  <2>1. pc' \in [Threads -> Pcs]
    BY <1>a, <1>20 DEF RetireQp, SignalAlloc, Goto, Pcs, writerPcs
  <2>2. TypeLock'
    BY <1>a, <1>b, CountersPositive, <1>20 DEF RetireQp, TypeLock, SignalAlloc, Goto, Objects
  <2>3. TypeThread'
    BY <1>t, <1>20 DEF RetireQp
  <2>4. TypeMemory'
    BY <1>a, <1>b, <1>20 DEF RetireQp, TypeMemory, Objects
  <2> QED
    BY <2>1, <2>2, <2>3, <2>4 DEF TypeOK
<1>21. CASE RunCallback(t)
  <2>1. pc' \in [Threads -> Pcs]
    BY <1>a, <1>b, <1>21 DEF RunCallback
  <2>2. TypeLock'
    BY <1>l, <1>21 DEF RunCallback
  <2>3. TypeThread'
    BY <1>a, <1>b, <1>21 DEF RunCallback, TypeThread
  <2>4. TypeMemory'
    <3>1. freed' \subseteq Objects
      BY <1>a, <1>21 DEF RunCallback, TypeMemory, TypeThread
    <3> QED
      BY <1>a, <1>21, <3>1 DEF RunCallback, TypeMemory, lockVars
  <2> QED
    BY <2>1, <2>2, <2>3, <2>4 DEF TypeOK
<1>22. CASE SynchronizeReturn(t)
  <2>1. pc' \in [Threads -> Pcs]
    BY <1>a, <1>b, <1>p, <1>22 DEF SynchronizeReturn, Pcs, readerPcs, writerPcs
  <2>2. TypeLock'
    BY <1>l, <1>22 DEF SynchronizeReturn
  <2>3. TypeThread'
    BY <1>a, <1>z, <1>22 DEF SynchronizeReturn, TypeThread
  <2>4. TypeMemory'
    BY <1>m, <1>22 DEF SynchronizeReturn, memVars, lockVars
  <2> QED
    BY <2>1, <2>2, <2>3, <2>4 DEF TypeOK
<1> QED
  BY <1>1, <1>2, <1>3, <1>4, <1>5, <1>6, <1>7, <1>8, <1>9, <1>10, <1>11, <1>12, <1>13, <1>14, <1>15, <1>16, <1>17, <1>18, <1>19, <1>20, <1>21, <1>22
     DEF ReadSide, GetHoldCurrentQp, Publish, Synchronize

\* The mutexes and the condition queues agree with the program counters.
LEMMA LockStep ==
    ASSUME IInv, NEW t \in Threads,
           ReadSide(t) \/ Publish(t) \/ TakeCallbacks(t) \/ Synchronize(t)
    PROVE  LockInv'
<1>a. /\ LockInv /\ NoThread \notin Threads
      /\ pc \in [Threads -> Pcs]
  BY ThreadsAssumption DEF IInv, TypeOK
<1>1. CASE ReadLock(t)
  BY <1>a, <1>1 DEF ReadLock, Goto, lockVars, thrVars, memVars, LockInv
<1>2. CASE ReadLockAgain(t)
  BY <1>a, <1>2 DEF ReadLockAgain, lockVars, memVars, LockInv
<1>3. CASE LoadReaderIdx(t)
  BY <1>a, <1>3 DEF LoadReaderIdx, Goto, lockVars, LockInv
<1>4. CASE AddUser(t)
  BY <1>a, <1>4 DEF AddUser, Goto, thrVars, LockInv
<1>5. CASE CheckReaderIdx(t)
  BY <1>a, <1>5 DEF CheckReaderIdx, Goto, lockVars, LockInv
<1>6. CASE SubUser(t)
  BY <1>a, <1>6 DEF SubUser, Goto, thrVars, LockInv
<1>7. CASE Deref(t)
  BY <1>a, <1>7 DEF Deref, lockVars, LockInv
<1>8. CASE ReadUnlockInner(t)
  BY <1>a, <1>8 DEF ReadUnlockInner, lockVars, memVars, LockInv
<1>9. CASE ReadUnlock(t)
  BY <1>a, <1>9 DEF ReadUnlock, Goto, LockInv
<1>10. CASE WriteLock(t)
  BY <1>a, <1>10 DEF WriteLock, Goto, thrVars, LockInv
<1>11. CASE Assign(t)
  BY <1>a, <1>11 DEF Assign, Goto, lockVars, thrVars, LockInv
<1>12. CASE RcuCall(t)
  BY <1>a, <1>12 DEF RcuCall, Goto, thrVars, memVars, LockInv
<1>13. CASE WriteUnlock(t)
  BY <1>a, <1>13 DEF WriteUnlock, Goto, thrVars, memVars, LockInv
<1>14. CASE TakeCallbacks(t)
  BY <1>a, <1>14 DEF TakeCallbacks, Goto, LockInv
<1>15. CASE AllocLock(t)
  BY <1>a, <1>15 DEF AllocLock, Goto, thrVars, LockInv
<1>16. CASE StoreReaderIdx(t)
  BY <1>a, <1>16 DEF StoreReaderIdx, Goto, LockInv
<1>17. CASE AddZero(t)
  BY <1>a, <1>17 DEF AddZero, Goto, SignalAlloc, thrVars, LockInv
<1>18. CASE PriorLock(t)
  BY <1>a, <1>18 DEF PriorLock, Goto, thrVars, memVars, LockInv
<1>19. CASE SeeZero(t)
  BY <1>a, <1>19 DEF SeeZero, thrVars, memVars, LockInv
<1>20. CASE RetireQp(t)
  BY <1>a, <1>20 DEF RetireQp, Goto, SignalAlloc, thrVars, LockInv
<1>21. CASE RunCallback(t)
  BY <1>a, <1>21 DEF RunCallback, lockVars, LockInv
<1>22. CASE SynchronizeReturn(t)
  BY <1>a, <1>22 DEF SynchronizeReturn, Goto, lockVars, thrVars, memVars, LockInv
<1> QED
  BY <1>1, <1>2, <1>3, <1>4, <1>5, <1>6, <1>7, <1>8, <1>9, <1>10, <1>11,
     <1>12, <1>13, <1>14, <1>15, <1>16, <1>17, <1>18, <1>19, <1>20, <1>21, <1>22
     DEF ReadSide, GetHoldCurrentQp, Publish, Synchronize

\* Ids and qps.
LEMMA IdStep ==
    ASSUME IInv, NEW t \in Threads,
           ReadSide(t) \/ Publish(t) \/ TakeCallbacks(t) \/ Synchronize(t)
    PROVE  IdInv'
<1>a. /\ LockInv /\ IdInv /\ StoreInv
      /\ pc \in [Threads -> Pcs]
      /\ writers_alloced \in Nat /\ id_ctr \in Nat /\ next_to_retire \in Nat
      /\ curr_id \in [Threads -> Nat] /\ qp \in [Threads -> Slots]
      /\ group_count \in Nat
  BY GroupCount DEF IInv, TypeOK, TypeLock, TypeThread
<1>f. ASSUME UNCHANGED <<Waiting, Alloced, writers_alloced, id_ctr, next_to_retire>>,
             \A u \in Waiting : curr_id'[u] = curr_id[u] /\ qp'[u] = qp[u],
             \A u \in Threads :
                /\ pc'[u] = "u_store" => pc[u] = "u_store" \/ ~NoQpAvailable
                /\ pc'[u] = "p_spin" => /\ curr_id'[u] = curr_id[u]
                                        /\ pc[u] = "p_spin" \/ MyTurn(u)
      PROVE  IdInv'
  BY <1>a, <1>f DEF IdInv, NoQpAvailable, MyTurn
<1>1. CASE ReadLock(t)
  <2>1. Waiting' = Waiting /\ Alloced' = Alloced
    BY <1>a, <1>1 DEF ReadLock, Goto, lockVars, thrVars, Waiting, Alloced
  <2> QED
    BY <1>a, <1>f, <1>1, <2>1 DEF ReadLock, Goto, lockVars, thrVars, Waiting
<1>2. CASE ReadLockAgain(t)
  <2>1. Waiting' = Waiting /\ Alloced' = Alloced
    BY <1>a, <1>2 DEF ReadLockAgain, lockVars, Waiting, Alloced
  <2> QED
    BY <1>a, <1>f, <1>2, <2>1 DEF ReadLockAgain, lockVars, Waiting
<1>3. CASE LoadReaderIdx(t)
  <2>1. Waiting' = Waiting /\ Alloced' = Alloced
    BY <1>a, <1>3 DEF LoadReaderIdx, Goto, lockVars, Waiting, Alloced
  <2> QED
    BY <1>a, <1>f, <1>3, <2>1 DEF LoadReaderIdx, Goto, lockVars, Waiting
<1>4. CASE AddUser(t)
  <2>1. Waiting' = Waiting /\ Alloced' = Alloced
    BY <1>a, <1>4 DEF AddUser, Goto, thrVars, Waiting, Alloced
  <2> QED
    BY <1>a, <1>f, <1>4, <2>1 DEF AddUser, Goto, thrVars, Waiting
<1>5. CASE CheckReaderIdx(t)
  <2>1. Waiting' = Waiting /\ Alloced' = Alloced
    BY <1>a, <1>5 DEF CheckReaderIdx, Goto, lockVars, Waiting, Alloced
  <2> QED
    BY <1>a, <1>f, <1>5, <2>1 DEF CheckReaderIdx, Goto, lockVars, Waiting
<1>6. CASE SubUser(t)
  <2>1. Waiting' = Waiting /\ Alloced' = Alloced
    BY <1>a, <1>6 DEF SubUser, Goto, thrVars, Waiting, Alloced
  <2> QED
    BY <1>a, <1>f, <1>6, <2>1 DEF SubUser, Goto, thrVars, Waiting
<1>7. CASE Deref(t)
  <2>1. Waiting' = Waiting /\ Alloced' = Alloced
    BY <1>a, <1>7 DEF Deref, lockVars, Waiting, Alloced
  <2> QED
    BY <1>a, <1>f, <1>7, <2>1 DEF Deref, lockVars, Waiting
<1>8. CASE ReadUnlockInner(t)
  <2>1. Waiting' = Waiting /\ Alloced' = Alloced
    BY <1>a, <1>8 DEF ReadUnlockInner, lockVars, Waiting, Alloced
  <2> QED
    BY <1>a, <1>f, <1>8, <2>1 DEF ReadUnlockInner, lockVars, Waiting
<1>9. CASE ReadUnlock(t)
  <2>1. Waiting' = Waiting /\ Alloced' = Alloced
    BY <1>a, <1>9 DEF ReadUnlock, Goto, Waiting, Alloced
  <2> QED
    BY <1>a, <1>f, <1>9, <2>1 DEF ReadUnlock, Goto, Waiting
<1>10. CASE WriteLock(t)
  <2>1. Waiting' = Waiting /\ Alloced' = Alloced
    BY <1>a, <1>10 DEF WriteLock, Goto, thrVars, Waiting, Alloced
  <2> QED
    BY <1>a, <1>f, <1>10, <2>1 DEF WriteLock, Goto, thrVars, Waiting
<1>11. CASE Assign(t)
  <2>1. Waiting' = Waiting /\ Alloced' = Alloced
    BY <1>a, <1>11 DEF Assign, Goto, lockVars, thrVars, Waiting, Alloced
  <2> QED
    BY <1>a, <1>f, <1>11, <2>1 DEF Assign, Goto, lockVars, thrVars, Waiting
<1>12. CASE RcuCall(t)
  <2>1. Waiting' = Waiting /\ Alloced' = Alloced
    BY <1>a, <1>12 DEF RcuCall, Goto, thrVars, Waiting, Alloced
  <2> QED
    BY <1>a, <1>f, <1>12, <2>1 DEF RcuCall, Goto, thrVars, Waiting
<1>13. CASE WriteUnlock(t)
  <2>1. Waiting' = Waiting /\ Alloced' = Alloced
    BY <1>a, <1>13 DEF WriteUnlock, Goto, thrVars, Waiting, Alloced
  <2> QED
    BY <1>a, <1>f, <1>13, <2>1 DEF WriteUnlock, Goto, thrVars, Waiting
<1>14. CASE TakeCallbacks(t)
  <2>1. Waiting' = Waiting /\ Alloced' = Alloced
    BY <1>a, <1>14 DEF TakeCallbacks, Goto, Waiting, Alloced
  <2> QED
    BY <1>a, <1>f, <1>14, <2>1 DEF TakeCallbacks, Goto, Waiting
<1>15. CASE AllocLock(t)
  <2>1. Waiting' = Waiting /\ Alloced' = Alloced
    BY <1>a, <1>15 DEF AllocLock, Goto, thrVars, Waiting, Alloced
  <2> QED
    BY <1>a, <1>f, <1>15, <2>1 DEF AllocLock, Goto, thrVars, NoQpAvailable, Waiting
<1>16. CASE StoreReaderIdx(t)
  <2>1. t \notin Alloced /\ t \notin Waiting /\ Alloced \in SUBSET Threads
        /\ Waiting \in SUBSET Threads
    BY <1>16 DEF StoreReaderIdx, Alloced, Waiting
  <2>2. Waiting' = Waiting \cup {t} /\ Alloced' = Alloced \cup {t}
    BY <1>a, <1>16 DEF StoreReaderIdx, Goto, Waiting, Alloced
  <2>3. /\ writers_alloced' = Cardinality(Alloced') /\ writers_alloced' < group_count
        /\ id_ctr' = next_to_retire' + Cardinality(Waiting')
    <3>1. /\ Cardinality(Alloced') = Cardinality(Alloced) + 1
          /\ Cardinality(Waiting') = Cardinality(Waiting) + 1
      BY <2>1, <2>2, ThreadEnters
    <3>2. Cardinality(Waiting) \in Nat
      BY <2>1, ThreadCount
    <3> QED
      BY <1>a, <1>16, <3>1, <3>2 DEF StoreReaderIdx, IdInv
  <2>4. \A u \in Threads : pc'[u] # "u_store" /\ (pc'[u] = "p_spin" => pc[u] = "p_spin" /\ u # t)
    BY <1>a, <1>16 DEF StoreReaderIdx, Goto, LockInv
  <2>5. next_to_retire =< id_ctr
    BY <1>a, <2>1, ThreadCount DEF IdInv
  <2>6. \A u \in Waiting' : /\ curr_id'[u] >= next_to_retire' /\ curr_id'[u] < id_ctr'
                            /\ qp'[u] = curr_id'[u] % group_count
    <3>1. \A u \in Waiting : u # t /\ curr_id'[u] = curr_id[u] /\ qp'[u] = qp[u]
      BY <1>a, <1>16, <2>1 DEF StoreReaderIdx, Waiting
    <3>2. curr_id'[t] = id_ctr /\ qp'[t] = id_ctr % group_count
      <4>1. /\ curr_id' = [curr_id EXCEPT ![t] = id_ctr]
            /\ qp' = [qp EXCEPT ![t] = current_alloc_idx]
        BY <1>16 DEF StoreReaderIdx
      <4> QED
        BY <1>a, <4>1 DEF StoreInv
    <3>3. id_ctr' = id_ctr + 1 /\ next_to_retire' = next_to_retire
      BY <1>16 DEF StoreReaderIdx
    <3> QED
      BY <1>a, <2>2, <2>5, <3>1, <3>2, <3>3 DEF IdInv, Waiting
  <2>7. \A u, w \in Waiting' : u # w => curr_id'[u] # curr_id'[w]
    <3>1. curr_id'[t] = id_ctr /\ \A u \in Waiting : u # t /\ curr_id'[u] = curr_id[u]
      BY <1>a, <1>16, <2>1 DEF StoreReaderIdx, Waiting
    <3>2. \A u \in Waiting : curr_id[u] # id_ctr
      BY <1>a, <2>1 DEF IdInv
    <3> QED
      BY <1>a, <2>2, <3>1, <3>2 DEF IdInv
  <2> QED
    BY <1>a, <1>16, <2>3, <2>4, <2>6, <2>7 DEF StoreReaderIdx, IdInv
<1>17. CASE AddZero(t)
  <2>1. Waiting' = Waiting /\ Alloced' = Alloced
    BY <1>a, <1>17 DEF AddZero, Goto, SignalAlloc, thrVars, Waiting, Alloced, LockInv
  <2> QED
    BY <1>a, <1>f, <1>17, <2>1 DEF AddZero, Goto, SignalAlloc, thrVars, Waiting
<1>18. CASE PriorLock(t)
  <2>1. Waiting' = Waiting /\ Alloced' = Alloced
    BY <1>a, <1>18 DEF PriorLock, Goto, thrVars, Waiting, Alloced
  <2> QED
    BY <1>a, <1>f, <1>18, <2>1 DEF PriorLock, Goto, thrVars, MyTurn, Waiting
<1>19. CASE SeeZero(t)
  <2>1. t \in Waiting /\ Waiting \in SUBSET Threads
    BY <1>19 DEF SeeZero, Waiting
  <2>2. Waiting' = Waiting \ {t} /\ Alloced' = Alloced
    BY <1>a, <1>19 DEF SeeZero, Waiting, Alloced, LockInv
  <2>3. id_ctr' = next_to_retire' + Cardinality(Waiting')
    BY <1>a, <1>19, <2>1, <2>2, ThreadLeaves, ThreadCount DEF SeeZero, IdInv
  <2>4. \A u \in Threads : /\ pc'[u] = "u_store" => pc[u] = "u_store"
                           /\ pc'[u] # "p_spin"
    BY <1>a, <1>19 DEF SeeZero, LockInv
  <2>5. \A u \in Waiting' : u \in Waiting /\ u # t /\ curr_id[u] # next_to_retire
                            /\ curr_id[u] \in Nat
    BY <1>a, <1>19, <2>1, <2>2 DEF SeeZero, IdInv
  <2> QED
    BY <1>a, <1>19, <2>2, <2>3, <2>4, <2>5 DEF SeeZero, IdInv, thrVars
<1>20. CASE RetireQp(t)
  <2>1. t \in Alloced /\ Alloced \in SUBSET Threads /\ t \notin Waiting
    BY <1>20 DEF RetireQp, Waiting, Alloced
  <2>2. Waiting' = Waiting /\ Alloced' = Alloced \ {t}
    BY <1>a, <1>20 DEF RetireQp, SignalAlloc, Goto, Waiting, Alloced, LockInv
  <2>3. writers_alloced' = Cardinality(Alloced') /\ writers_alloced' < group_count
    BY <1>a, <1>20, <2>1, <2>2, ThreadLeaves, ThreadCount DEF RetireQp, IdInv
  <2>4. \A u \in Threads : /\ pc'[u] = "u_store" => pc[u] = "u_store"
                           /\ pc'[u] = "p_spin" => pc[u] = "p_spin"
    BY <1>a, <1>20 DEF RetireQp, SignalAlloc, Goto
  <2> QED
    BY <1>a, <1>20, <2>2, <2>3, <2>4 DEF RetireQp, IdInv, thrVars
<1>21. CASE RunCallback(t)
  <2>1. Waiting' = Waiting /\ Alloced' = Alloced
    BY <1>a, <1>21 DEF RunCallback, lockVars, Waiting, Alloced
  <2> QED
    BY <1>a, <1>f, <1>21, <2>1 DEF RunCallback, lockVars, Waiting
<1>22. CASE SynchronizeReturn(t)
  <2>1. Waiting' = Waiting /\ Alloced' = Alloced
    BY <1>a, <1>22 DEF SynchronizeReturn, Goto, lockVars, thrVars, Waiting, Alloced
  <2> QED
    BY <1>a, <1>f, <1>22, <2>1 DEF SynchronizeReturn, Goto, lockVars, thrVars, Waiting
<1> QED
  BY <1>1, <1>2, <1>3, <1>4, <1>5, <1>6, <1>7, <1>8, <1>9, <1>10, <1>11,
     <1>12, <1>13, <1>14, <1>15, <1>16, <1>17, <1>18, <1>19, <1>20, <1>21, <1>22
     DEF ReadSide, GetHoldCurrentQp, Publish, Synchronize

\* The stores to reader_idx.
LEMMA StoreStep ==
    ASSUME IInv, NEW t \in Threads,
           ReadSide(t) \/ Publish(t) \/ TakeCallbacks(t) \/ Synchronize(t)
    PROVE  StoreInv'
<1>a. /\ LockInv /\ IdInv /\ StoreInv /\ ViewInv
      /\ id_ctr \in Nat /\ uptr \in Nat
      /\ viewPtr \in [Threads -> Nat]
      /\ reader_idx \in Seq([val : Slots, ptr : Nat]) /\ Len(reader_idx) = id_ctr + 1
  BY DEF IInv, TypeOK, TypeLock, TypeMemory, Objects
<1>s. \A v \in 0 .. id_ctr : Store(v).ptr \in Nat
  BY StoreType DEF IInv, TypeOK
<1>f. ASSUME UNCHANGED <<reader_idx, id_ctr, current_alloc_idx>>, uptr' >= uptr, uptr' \in Nat
      PROVE  StoreInv'
  <2>1. \A v : Store(v)' = Store(v)
    BY <1>f DEF Store
  <2>2. \A v \in 0 .. id_ctr : Store(v).ptr =< uptr'
    BY <1>a, <1>s, <1>f DEF StoreInv
  <2> QED
    BY <1>a, <1>f, <2>1, <2>2 DEF StoreInv
<1>1. CASE ReadLock(t)
  BY <1>a, <1>f, <1>1 DEF ReadLock, lockVars, memVars
<1>2. CASE ReadLockAgain(t)
  BY <1>a, <1>f, <1>2 DEF ReadLockAgain, lockVars, memVars
<1>3. CASE LoadReaderIdx(t)
  BY <1>a, <1>f, <1>3 DEF LoadReaderIdx, lockVars
<1>4. CASE AddUser(t)
  BY <1>a, <1>f, <1>4 DEF AddUser
<1>5. CASE CheckReaderIdx(t)
  BY <1>a, <1>f, <1>5 DEF CheckReaderIdx, lockVars
<1>6. CASE SubUser(t)
  BY <1>a, <1>f, <1>6 DEF SubUser
<1>7. CASE Deref(t)
  BY <1>a, <1>f, <1>7 DEF Deref, lockVars
<1>8. CASE ReadUnlockInner(t)
  BY <1>a, <1>f, <1>8 DEF ReadUnlockInner, lockVars, memVars
<1>9. CASE ReadUnlock(t)
  BY <1>a, <1>f, <1>9 DEF ReadUnlock
<1>10. CASE WriteLock(t)
  BY <1>a, <1>f, <1>10 DEF WriteLock
<1>11. CASE Assign(t)
  BY <1>a, <1>f, <1>11 DEF Assign, lockVars
<1>12. CASE RcuCall(t)
  BY <1>a, <1>f, <1>12 DEF RcuCall, memVars
<1>13. CASE WriteUnlock(t)
  BY <1>a, <1>f, <1>13 DEF WriteUnlock, memVars
<1>14. CASE TakeCallbacks(t)
  BY <1>a, <1>f, <1>14 DEF TakeCallbacks
<1>15. CASE AllocLock(t)
  BY <1>a, <1>f, <1>15 DEF AllocLock
<1>16. CASE StoreReaderIdx(t)
  <2>1. \A v \in 0 .. id_ctr : Store(v)' = Store(v)
    BY <1>16, StoreEffect, Zenon
  <2>2. reader_idx'[id_ctr + 2] = [val |-> current_alloc_idx', ptr |-> viewPtr[t]]
    BY <1>16, StoreEffect, Zenon
  <2>3. current_alloc_idx' = (id_ctr + 1) % group_count
    BY <1>16, StoreEffect, Zenon
  <2>4. viewPtr[t] =< uptr /\ viewPtr[t] >= Store(id_ctr).ptr
    BY <1>a, <1>16 DEF StoreReaderIdx, ViewInv
  <2>5. ASSUME NEW v \in 0 .. id_ctr'
        PROVE  /\ Store(v)'.val = v % group_count
               /\ Store(v)'.ptr =< uptr
               /\ Store(v)'.ptr =< viewPtr[t]
    <3>1. CASE v \in 0 .. id_ctr
      BY <1>a, <1>s, <2>1, <2>4, <3>1 DEF StoreInv
    <3>2. CASE v = id_ctr + 1
      BY <1>a, <2>2, <2>3, <2>4, <3>2 DEF Store
    <3> QED
      BY <1>a, <1>16, <3>1, <3>2 DEF StoreReaderIdx
  <2>6. ASSUME NEW v \in 0 .. id_ctr', NEW w \in 0 .. id_ctr', v =< w
        PROVE  Store(v)'.ptr =< Store(w)'.ptr
    <3>1. CASE w \in 0 .. id_ctr
      BY <1>a, <2>1, <2>6, <3>1 DEF StoreInv
    <3>2. CASE w = id_ctr + 1
      <4>1. Store(w)'.ptr = viewPtr[t]
        BY <1>a, <2>2, <3>2 DEF Store
      <4> QED
        BY <2>5, <4>1
    <3> QED
      BY <1>a, <1>16, <3>1, <3>2 DEF StoreReaderIdx
  <2> QED
    BY <1>a, <1>16, <2>3, <2>5, <2>6 DEF StoreReaderIdx, StoreInv
<1>17. CASE AddZero(t)
  BY <1>a, <1>f, <1>17 DEF AddZero
<1>18. CASE PriorLock(t)
  BY <1>a, <1>f, <1>18 DEF PriorLock, memVars
<1>19. CASE SeeZero(t)
  BY <1>a, <1>f, <1>19 DEF SeeZero, memVars
<1>20. CASE RetireQp(t)
  BY <1>a, <1>f, <1>20 DEF RetireQp
<1>21. CASE RunCallback(t)
  BY <1>a, <1>f, <1>21 DEF RunCallback, lockVars
<1>22. CASE SynchronizeReturn(t)
  BY <1>a, <1>f, <1>22 DEF SynchronizeReturn, lockVars, memVars
<1> QED
  BY <1>1, <1>2, <1>3, <1>4, <1>5, <1>6, <1>7, <1>8, <1>9, <1>10, <1>11,
     <1>12, <1>13, <1>14, <1>15, <1>16, <1>17, <1>18, <1>19, <1>20, <1>21, <1>22
     DEF ReadSide, GetHoldCurrentQp, Publish, Synchronize

\* The views.
LEMMA ViewStep ==
    ASSUME IInv, NEW t \in Threads,
           ReadSide(t) \/ Publish(t) \/ TakeCallbacks(t) \/ Synchronize(t)
    PROVE  ViewInv'
<1>a. /\ LockInv /\ IdInv /\ StoreInv /\ ViewInv
      /\ pc \in [Threads -> Pcs] /\ qp \in [Threads -> Slots] /\ curr_id \in [Threads -> Nat]
      /\ id_ctr \in Nat /\ uptr \in Nat /\ next_to_retire \in Nat /\ allocPtr \in Nat
      /\ viewIdx \in [Threads -> Nat] /\ viewPtr \in [Threads -> Nat]
      /\ usersIdx \in [Slots -> Nat] /\ usersPtr \in [Slots -> Nat]
      /\ NoThread \notin Threads
  BY ThreadsAssumption DEF IInv, TypeOK, TypeLock, TypeThread, TypeMemory, Objects
<1>s. \A v \in 0 .. id_ctr : Store(v).ptr \in Nat /\ Store(v).ptr =< uptr
  BY StoreType DEF IInv, TypeOK, StoreInv
<1>k. \A k \in Nat : k % group_count \in Slots
  BY NextIdxIsMod
<1>e. UNCHANGED <<reader_idx, id_ctr>> => Store(id_ctr)' = Store(id_ctr)
  BY DEF Store
<1>1. CASE ReadLock(t)
  BY <1>a, <1>s, <1>k, <1>e, <1>1 DEF ReadLock, Goto, lockVars, thrVars,
     memVars, ViewInv, Added
<1>2. CASE ReadLockAgain(t)
  BY <1>a, <1>s, <1>k, <1>e, <1>2 DEF ReadLockAgain, lockVars, memVars, ViewInv,
     Added
<1>3. CASE LoadReaderIdx(t)
  BY <1>a, <1>s, <1>k, <1>e, <1>3 DEF LoadReaderIdx, Goto, lockVars, ViewInv,
     Added
<1>4. CASE AddUser(t)
  BY <1>a, <1>s, <1>k, <1>e, <1>4 DEF AddUser, Goto, thrVars, ViewInv, Added
<1>5. CASE CheckReaderIdx(t)
  BY <1>a, <1>s, <1>k, <1>e, <1>5 DEF CheckReaderIdx, Goto, lockVars, ViewInv,
     Added
<1>6. CASE SubUser(t)
  BY <1>a, <1>s, <1>k, <1>e, <1>6 DEF SubUser, Goto, thrVars, ViewInv, Added
<1>7. CASE Deref(t)
  BY <1>a, <1>s, <1>k, <1>e, <1>7 DEF Deref, lockVars, ViewInv, Added
<1>8. CASE ReadUnlockInner(t)
  BY <1>a, <1>s, <1>k, <1>e, <1>8 DEF ReadUnlockInner, lockVars, memVars,
     ViewInv, Added
<1>9. CASE ReadUnlock(t)
  BY <1>a, <1>s, <1>k, <1>e, <1>9 DEF ReadUnlock, Goto, ViewInv, Added
<1>10. CASE WriteLock(t)
  BY <1>a, <1>s, <1>k, <1>e, <1>10 DEF WriteLock, Goto, thrVars, ViewInv, Added
<1>11. CASE Assign(t)
  BY <1>a, <1>s, <1>k, <1>e, <1>11 DEF Assign, Goto, lockVars, thrVars, ViewInv,
     Added
<1>12. CASE RcuCall(t)
  BY <1>a, <1>s, <1>k, <1>e, <1>12 DEF RcuCall, Goto, thrVars, memVars, ViewInv,
     Added
<1>13. CASE WriteUnlock(t)
  BY <1>a, <1>s, <1>k, <1>e, <1>13 DEF WriteUnlock, Goto, thrVars, memVars,
     ViewInv, Added
<1>14. CASE TakeCallbacks(t)
  BY <1>a, <1>s, <1>k, <1>e, <1>14 DEF TakeCallbacks, Goto, ViewInv, Added
<1>15. CASE AllocLock(t)
  BY <1>a, <1>s, <1>k, <1>e, <1>15 DEF AllocLock, Goto, thrVars, ViewInv, Added
<1>16. CASE StoreReaderIdx(t)
  <2>1. alloc_lock = t /\ \A u \in Threads : u # t => pc[u] \notin {"u_store", "u_add0"}
    BY <1>a, <1>16 DEF StoreReaderIdx, LockInv
  <2>2. Store(id_ctr)'.ptr = viewPtr[t]
    <3>1. id_ctr' + 1 = id_ctr + 2
      BY <1>a, <1>16 DEF StoreReaderIdx
    <3>2. reader_idx'[id_ctr + 2] = [val |-> current_alloc_idx', ptr |-> viewPtr[t]]
      BY <1>16, StoreEffect, Zenon
    <3> QED
      BY <3>1, <3>2 DEF Store
  <2>3. Added' = Added
    BY <1>a, <1>16 DEF StoreReaderIdx, Goto, Added
  <2>4. \A w \in Added : qp'[w] = qp[w] /\ curr_id'[w] = curr_id[w]
    BY <1>a, <1>16 DEF StoreReaderIdx, Added
  <2>5. \A u \in Threads : viewIdx'[u] =< id_ctr' /\ viewPtr'[u] =< uptr'
    <3>1. viewIdx' = [viewIdx EXCEPT ![t] = id_ctr + 1] /\ id_ctr' = id_ctr + 1
          /\ viewPtr' = viewPtr /\ uptr' = uptr
      BY <1>16 DEF StoreReaderIdx
    <3> QED
      BY <1>a, <3>1 DEF ViewInv
  <2>6. \A u \in Threads :
          /\ pc'[u] \in {"u_store", "u_add0"} => viewPtr'[u] >= Store(id_ctr)'.ptr
          /\ pc'[u] = "u_add0" => viewIdx'[u] > curr_id'[u]
    BY <1>a, <1>16, <2>1, <2>2 DEF StoreReaderIdx, Goto
  <2> QED
    <3>1. \A q \in Slots : usersIdx[q] =< id_ctr' /\ usersPtr[q] =< uptr
      <4>1. id_ctr' = id_ctr + 1
        BY <1>16 DEF StoreReaderIdx
      <4> QED
        BY <1>a, <4>1 DEF ViewInv
    <3>2. /\ UNCHANGED <<allocPtr, usersIdx, usersPtr, uptr, next_to_retire, alloc_lock>>
          /\ alloc_lock # NoThread
      BY <1>a, <1>16, <2>1 DEF StoreReaderIdx
    <3> QED
      BY <1>a, <2>3, <2>4, <2>5, <2>6, <3>1, <3>2 DEF ViewInv
<1>17. CASE AddZero(t)
  <2>1. Added' = Added \cup {t}
    BY <1>a, <1>17 DEF AddZero, SignalAlloc, Goto, Added, LockInv
  <2>2. \A u \in Threads : pc'[u] \notin {"u_store", "u_add0"}
    BY <1>a, <1>17 DEF AddZero, SignalAlloc, Goto, LockInv
  <2>3. /\ viewIdx[t] > curr_id[t] /\ viewIdx[t] =< id_ctr
        /\ viewPtr[t] >= Store(id_ctr).ptr /\ viewPtr[t] =< uptr
    BY <1>a, <1>17 DEF AddZero, ViewInv
  <2>4. \A q \in Slots : /\ usersIdx'[q] >= usersIdx[q] /\ usersIdx'[q] =< id_ctr
                         /\ usersPtr'[q] =< uptr /\ usersIdx'[q] \in Nat
    BY <1>a, <1>17, <2>3 DEF AddZero, ReleasedIdx, ViewInv
  <2>5. usersIdx'[qp[t]] > curr_id[t]
    BY <1>a, <1>17, <2>3 DEF AddZero, ReleasedIdx
  <2>6. \A w \in Added' : usersIdx'[qp[w]] > curr_id[w]
    BY <1>a, <2>1, <2>4, <2>5 DEF ViewInv, Added
  <2>7. \A k \in 0 .. next_to_retire - 1 : usersIdx'[k % group_count] > k
    BY <1>a, <1>k, <2>4 DEF ViewInv
  <2> QED
    BY <1>a, <1>e, <1>17, <2>2, <2>3, <2>4, <2>6, <2>7 DEF AddZero, ViewInv, thrVars
<1>18. CASE PriorLock(t)
  BY <1>a, <1>s, <1>k, <1>e, <1>18 DEF PriorLock, Goto, thrVars, memVars,
     ViewInv, Added
<1>19. CASE SeeZero(t)
  <2>1. /\ Added' \subseteq Added
        /\ \A u \in Threads : pc'[u] \in {"u_store", "u_add0"} => pc'[u] = pc[u]
    BY <1>a, <1>19 DEF SeeZero, Added, LockInv
  <2>2. t \in Added /\ curr_id[t] = next_to_retire /\ qp[t] = next_to_retire % group_count
    BY <1>a, <1>19 DEF SeeZero, Added, IdInv, Waiting
  <2>3. \A k \in 0 .. next_to_retire' - 1 : usersIdx[k % group_count] > k
    BY <1>a, <1>19, <2>2 DEF SeeZero, ViewInv
  <2> QED
    BY <1>a, <1>e, <1>19, <2>1, <2>3 DEF SeeZero, ViewInv, thrVars, memVars
<1>20. CASE RetireQp(t)
  BY <1>a, <1>s, <1>k, <1>e, <1>20 DEF RetireQp, Goto, SignalAlloc, thrVars,
     ViewInv, Added
<1>21. CASE RunCallback(t)
  BY <1>a, <1>s, <1>k, <1>e, <1>21 DEF RunCallback, lockVars, ViewInv, Added
<1>22. CASE SynchronizeReturn(t)
  BY <1>a, <1>s, <1>k, <1>e, <1>22 DEF SynchronizeReturn, Goto, lockVars,
     thrVars, memVars, ViewInv, Added
<1> QED
  BY <1>1, <1>2, <1>3, <1>4, <1>5, <1>6, <1>7, <1>8, <1>9, <1>10, <1>11,
     <1>12, <1>13, <1>14, <1>15, <1>16, <1>17, <1>18, <1>19, <1>20, <1>21, <1>22
     DEF ReadSide, GetHoldCurrentQp, Publish, Synchronize

\* The counters of the qps.
LEMMA UsersStep ==
    ASSUME IInv, NEW t \in Threads,
           ReadSide(t) \/ Publish(t) \/ TakeCallbacks(t) \/ Synchronize(t)
    PROVE  UsersExact'
<1>a. /\ LockInv /\ UsersExact
      /\ pc \in [Threads -> Pcs] /\ qp \in [Threads -> Slots] /\ users \in [Slots -> Nat]
  BY DEF IInv, TypeOK, TypeLock, TypeThread
<1>1. CASE ReadLock(t)
  <2>1. \A q \in Slots : Holders(q)' = Holders(q)
    BY <1>a, <1>1 DEF ReadLock, Goto, lockVars, thrVars, Holders
  <2> QED
    BY <1>a, <1>1, <2>1 DEF ReadLock, lockVars, UsersExact
<1>2. CASE ReadLockAgain(t)
  <2>1. \A q \in Slots : Holders(q)' = Holders(q)
    BY <1>a, <1>2 DEF ReadLockAgain, lockVars, Holders
  <2> QED
    BY <1>a, <1>2, <2>1 DEF ReadLockAgain, lockVars, UsersExact
<1>3. CASE LoadReaderIdx(t)
  <2>1. \A q \in Slots : Holders(q)' = Holders(q)
    BY <1>a, <1>3 DEF LoadReaderIdx, Goto, lockVars, Holders
  <2> QED
    BY <1>a, <1>3, <2>1 DEF LoadReaderIdx, lockVars, UsersExact
<1>4. CASE AddUser(t)
  <2>s. PICK s \in Slots : s = qp[t]
    BY <1>a
  <2>1. t \notin Holders(s) /\ Holders(s) \in SUBSET Threads
    BY <1>a, <1>4, <2>s DEF AddUser, Holders
  <2>2. /\ Holders(s)' = Holders(s) \cup {t}
        /\ \A q \in Slots \ {s} : Holders(q)' = Holders(q)
    BY <1>a, <1>4, <2>s DEF AddUser, Goto, Holders, thrVars
  <2>3. Cardinality(Holders(s)') = users[s] + 1
    BY <1>a, <2>1, <2>2, ThreadEnters DEF UsersExact
  <2>4. users' = [users EXCEPT ![s] = users[s] + 1]
    BY <1>4, <2>s DEF AddUser
  <2> QED
    BY <1>a, <2>1, <2>2, <2>3, <2>4 DEF UsersExact
<1>5. CASE CheckReaderIdx(t)
  <2>1. \A q \in Slots : Holders(q)' = Holders(q)
    BY <1>a, <1>5 DEF CheckReaderIdx, Goto, lockVars, Holders
  <2> QED
    BY <1>a, <1>5, <2>1 DEF CheckReaderIdx, lockVars, UsersExact
<1>6. CASE SubUser(t)
  <2>s. PICK s \in Slots : s = qp[t]
    BY <1>a
  <2>1. t \in Holders(s) /\ Holders(s) \in SUBSET Threads
    BY <1>a, <1>6, <2>s DEF SubUser, Holders
  <2>2. /\ Holders(s)' = Holders(s) \ {t}
        /\ \A q \in Slots \ {s} : Holders(q)' = Holders(q)
    BY <1>a, <1>6, <2>s DEF SubUser, Goto, Holders, thrVars
  <2>3. Cardinality(Holders(s)') = users[s] - 1
    BY <1>a, <2>1, <2>2, ThreadLeaves DEF UsersExact
  <2>4. users' = [users EXCEPT ![s] = users[s] - 1]
    BY <1>6, <2>s DEF SubUser, DropCount
  <2> QED
    BY <1>a, <2>1, <2>2, <2>3, <2>4 DEF UsersExact
<1>7. CASE Deref(t)
  <2>1. \A q \in Slots : Holders(q)' = Holders(q)
    BY <1>a, <1>7 DEF Deref, lockVars, Holders
  <2> QED
    BY <1>a, <1>7, <2>1 DEF Deref, lockVars, UsersExact
<1>8. CASE ReadUnlockInner(t)
  <2>1. \A q \in Slots : Holders(q)' = Holders(q)
    BY <1>a, <1>8 DEF ReadUnlockInner, lockVars, Holders
  <2> QED
    BY <1>a, <1>8, <2>1 DEF ReadUnlockInner, lockVars, UsersExact
<1>9. CASE ReadUnlock(t)
  <2>s. PICK s \in Slots : s = qp[t]
    BY <1>a
  <2>1. t \in Holders(s) /\ Holders(s) \in SUBSET Threads
    BY <1>a, <1>9, <2>s DEF ReadUnlock, Holders
  <2>2. /\ Holders(s)' = Holders(s) \ {t}
        /\ \A q \in Slots \ {s} : Holders(q)' = Holders(q)
    BY <1>a, <1>9, <2>s DEF ReadUnlock, Goto, Holders, thrVars
  <2>3. Cardinality(Holders(s)') = users[s] - 1
    BY <1>a, <2>1, <2>2, ThreadLeaves DEF UsersExact
  <2>4. users' = [users EXCEPT ![s] = users[s] - 1]
    BY <1>9, <2>s DEF ReadUnlock
  <2> QED
    BY <1>a, <2>1, <2>2, <2>3, <2>4 DEF UsersExact
<1>10. CASE WriteLock(t)
  <2>1. \A q \in Slots : Holders(q)' = Holders(q)
    BY <1>a, <1>10 DEF WriteLock, Goto, thrVars, Holders
  <2> QED
    BY <1>a, <1>10, <2>1 DEF WriteLock, UsersExact
<1>11. CASE Assign(t)
  <2>1. \A q \in Slots : Holders(q)' = Holders(q)
    BY <1>a, <1>11 DEF Assign, Goto, lockVars, thrVars, Holders
  <2> QED
    BY <1>a, <1>11, <2>1 DEF Assign, lockVars, UsersExact
<1>12. CASE RcuCall(t)
  <2>1. \A q \in Slots : Holders(q)' = Holders(q)
    BY <1>a, <1>12 DEF RcuCall, Goto, thrVars, Holders
  <2> QED
    BY <1>a, <1>12, <2>1 DEF RcuCall, UsersExact
<1>13. CASE WriteUnlock(t)
  <2>1. \A q \in Slots : Holders(q)' = Holders(q)
    BY <1>a, <1>13 DEF WriteUnlock, Goto, thrVars, Holders
  <2> QED
    BY <1>a, <1>13, <2>1 DEF WriteUnlock, UsersExact
<1>14. CASE TakeCallbacks(t)
  <2>1. \A q \in Slots : Holders(q)' = Holders(q)
    BY <1>a, <1>14 DEF TakeCallbacks, Goto, Holders
  <2> QED
    BY <1>a, <1>14, <2>1 DEF TakeCallbacks, UsersExact
<1>15. CASE AllocLock(t)
  <2>1. \A q \in Slots : Holders(q)' = Holders(q)
    BY <1>a, <1>15 DEF AllocLock, Goto, thrVars, Holders
  <2> QED
    BY <1>a, <1>15, <2>1 DEF AllocLock, UsersExact
<1>16. CASE StoreReaderIdx(t)
  <2>1. \A q \in Slots : Holders(q)' = Holders(q)
    BY <1>a, <1>16 DEF StoreReaderIdx, Goto, Holders
  <2> QED
    BY <1>a, <1>16, <2>1 DEF StoreReaderIdx, UsersExact
<1>17. CASE AddZero(t)
  <2>1. \A q \in Slots : Holders(q)' = Holders(q)
    BY <1>a, <1>17 DEF AddZero, Goto, SignalAlloc, thrVars, Holders, LockInv
  <2> QED
    BY <1>a, <1>17, <2>1 DEF AddZero, UsersExact
<1>18. CASE PriorLock(t)
  <2>1. \A q \in Slots : Holders(q)' = Holders(q)
    BY <1>a, <1>18 DEF PriorLock, Goto, thrVars, Holders
  <2> QED
    BY <1>a, <1>18, <2>1 DEF PriorLock, UsersExact
<1>19. CASE SeeZero(t)
  <2>1. \A q \in Slots : Holders(q)' = Holders(q)
    BY <1>a, <1>19 DEF SeeZero, thrVars, Holders, LockInv
  <2> QED
    BY <1>a, <1>19, <2>1 DEF SeeZero, UsersExact
<1>20. CASE RetireQp(t)
  <2>1. \A q \in Slots : Holders(q)' = Holders(q)
    BY <1>a, <1>20 DEF RetireQp, Goto, SignalAlloc, thrVars, Holders, LockInv
  <2> QED
    BY <1>a, <1>20, <2>1 DEF RetireQp, UsersExact
<1>21. CASE RunCallback(t)
  <2>1. \A q \in Slots : Holders(q)' = Holders(q)
    BY <1>a, <1>21 DEF RunCallback, lockVars, Holders
  <2> QED
    BY <1>a, <1>21, <2>1 DEF RunCallback, lockVars, UsersExact
<1>22. CASE SynchronizeReturn(t)
  <2>1. \A q \in Slots : Holders(q)' = Holders(q)
    BY <1>a, <1>22 DEF SynchronizeReturn, Goto, lockVars, thrVars, Holders
  <2> QED
    BY <1>a, <1>22, <2>1 DEF SynchronizeReturn, lockVars, UsersExact
<1> QED
  BY <1>1, <1>2, <1>3, <1>4, <1>5, <1>6, <1>7, <1>8, <1>9, <1>10, <1>11,
     <1>12, <1>13, <1>14, <1>15, <1>16, <1>17, <1>18, <1>19, <1>20, <1>21, <1>22
     DEF ReadSide, GetHoldCurrentQp, Publish, Synchronize

\* Fewer ids wait than there are qps.
LEMMA FewWaiting ==
    ASSUME IInv
    PROVE  /\ next_to_retire =< id_ctr /\ id_ctr - next_to_retire < group_count
           /\ group_count \in Nat
<1>1. Waiting \in SUBSET Alloced /\ Alloced \in SUBSET Threads
  BY DEF Waiting, Alloced
<1>2. Cardinality(Waiting) =< Cardinality(Alloced)
  BY <1>1, ThreadCount, FS_Subset
<1>3. Cardinality(Waiting) \in Nat /\ Cardinality(Alloced) \in Nat
  BY <1>1, ThreadCount
<1> QED
  BY <1>2, <1>3, GroupCount DEF IInv, IdInv, TypeOK, TypeLock

\* Readers about to re-load reader_idx.
LEMMA CheckStep ==
    ASSUME IInv, NEW t \in Threads,
           ReadSide(t) \/ Publish(t) \/ TakeCallbacks(t) \/ Synchronize(t)
    PROVE  CheckInv'
<1>a. /\ LockInv /\ IdInv /\ StoreInv /\ ViewInv /\ CheckInv /\ ReadingInv /\ ZeroInv
      /\ pc \in [Threads -> Pcs] /\ qp \in [Threads -> Slots] /\ curr_id \in [Threads -> Nat]
      /\ held \in [Threads -> Nat] /\ refs \in [Threads -> SUBSET Nat]
      /\ id_ctr \in Nat /\ uptr \in Nat /\ next_to_retire \in Nat
      /\ viewIdx \in [Threads -> Nat] /\ viewPtr \in [Threads -> Nat]
      /\ usersIdx \in [Slots -> Nat] /\ usersPtr \in [Slots -> Nat]
      /\ sawZero \in [Slots -> BOOLEAN]
  BY DEF IInv, TypeOK, TypeLock, TypeThread, TypeMemory, Objects
<1>1. CASE ReadLock(t)
  BY <1>a, <1>1 DEF ReadLock, Goto, lockVars, thrVars, memVars, CheckInv
<1>2. CASE ReadLockAgain(t)
  BY <1>a, <1>2 DEF ReadLockAgain, lockVars, memVars, CheckInv
<1>3. CASE LoadReaderIdx(t)
  BY <1>a, <1>3 DEF LoadReaderIdx, Goto, lockVars, CheckInv
<1>4. CASE AddUser(t)
  <2>1. \A k \in 0 .. next_to_retire - 1 : k % group_count = qp[t] => usersIdx[qp[t]] > k
    BY <1>a DEF ViewInv
  <2> QED
    BY <1>a, <1>4, <2>1 DEF AddUser, Goto, CheckInv, thrVars
<1>5. CASE CheckReaderIdx(t)
  BY <1>a, <1>5 DEF CheckReaderIdx, Goto, lockVars, CheckInv
<1>6. CASE SubUser(t)
  BY <1>a, <1>6 DEF SubUser, Goto, thrVars, CheckInv
<1>7. CASE Deref(t)
  BY <1>a, <1>7 DEF Deref, lockVars, CheckInv
<1>8. CASE ReadUnlockInner(t)
  BY <1>a, <1>8 DEF ReadUnlockInner, lockVars, memVars, CheckInv
<1>9. CASE ReadUnlock(t)
  BY <1>a, <1>9 DEF ReadUnlock, Goto, CheckInv
<1>10. CASE WriteLock(t)
  BY <1>a, <1>10 DEF WriteLock, Goto, thrVars, CheckInv
<1>11. CASE Assign(t)
  BY <1>a, <1>11 DEF Assign, Goto, lockVars, thrVars, CheckInv
<1>12. CASE RcuCall(t)
  BY <1>a, <1>12 DEF RcuCall, Goto, thrVars, memVars, CheckInv
<1>13. CASE WriteUnlock(t)
  BY <1>a, <1>13 DEF WriteUnlock, Goto, thrVars, memVars, CheckInv
<1>14. CASE TakeCallbacks(t)
  BY <1>a, <1>14 DEF TakeCallbacks, Goto, CheckInv
<1>15. CASE AllocLock(t)
  BY <1>a, <1>15 DEF AllocLock, Goto, thrVars, CheckInv
<1>16. CASE StoreReaderIdx(t)
  BY <1>a, <1>16 DEF StoreReaderIdx, Goto, CheckInv
<1>17. CASE AddZero(t)
  BY <1>a, <1>17 DEF AddZero, Goto, SignalAlloc, thrVars, CheckInv
<1>18. CASE PriorLock(t)
  BY <1>a, <1>18 DEF PriorLock, Goto, thrVars, memVars, CheckInv
<1>19. CASE SeeZero(t)
  <2>1. t \in Added /\ curr_id[t] = next_to_retire /\ qp[t] = next_to_retire % group_count
    BY <1>a, <1>19 DEF SeeZero, Added, IdInv, Waiting
  <2>2. SUFFICES ASSUME NEW u \in Threads, pc'[u] = "rl_check",
                        NEW k \in 0 .. next_to_retire, k % group_count = qp[u]
                 PROVE  viewIdx[u] > k
    BY <1>a, <1>19 DEF SeeZero, CheckInv, thrVars, memVars
  <2>3. pc[u] = "rl_check"
    BY <1>a, <1>19, <2>2 DEF SeeZero
  <2>4. CASE k \in 0 .. next_to_retire - 1
    BY <1>a, <2>2, <2>3, <2>4 DEF CheckInv
  <2>5. CASE k = next_to_retire
    <3>1. sawZero[qp[t]] /\ u \in Holders(qp[t])
      BY <1>19, <2>1, <2>2, <2>3, <2>5 DEF SeeZero, Holders
    <3> QED
      BY <1>a, <2>1, <2>3, <2>5, <3>1 DEF ZeroInv
  <2> QED
    BY <1>a, <2>2, <2>4, <2>5
<1>20. CASE RetireQp(t)
  BY <1>a, <1>20 DEF RetireQp, Goto, SignalAlloc, thrVars, CheckInv
<1>21. CASE RunCallback(t)
  BY <1>a, <1>21 DEF RunCallback, lockVars, CheckInv
<1>22. CASE SynchronizeReturn(t)
  BY <1>a, <1>22 DEF SynchronizeReturn, Goto, lockVars, thrVars, memVars, CheckInv
<1> QED
  BY <1>1, <1>2, <1>3, <1>4, <1>5, <1>6, <1>7, <1>8, <1>9, <1>10, <1>11,
     <1>12, <1>13, <1>14, <1>15, <1>16, <1>17, <1>18, <1>19, <1>20, <1>21, <1>22
     DEF ReadSide, GetHoldCurrentQp, Publish, Synchronize

\* Read sections.
LEMMA ReadingStep ==
    ASSUME IInv, NEW t \in Threads,
           ReadSide(t) \/ Publish(t) \/ TakeCallbacks(t) \/ Synchronize(t)
    PROVE  ReadingInv'
<1>a. /\ LockInv /\ IdInv /\ StoreInv /\ ViewInv /\ CheckInv /\ ReadingInv /\ ZeroInv
      /\ pc \in [Threads -> Pcs] /\ qp \in [Threads -> Slots] /\ curr_id \in [Threads -> Nat]
      /\ held \in [Threads -> Nat] /\ refs \in [Threads -> SUBSET Nat]
      /\ id_ctr \in Nat /\ uptr \in Nat /\ next_to_retire \in Nat
      /\ viewIdx \in [Threads -> Nat] /\ viewPtr \in [Threads -> Nat]
      /\ usersIdx \in [Slots -> Nat] /\ usersPtr \in [Slots -> Nat]
      /\ sawZero \in [Slots -> BOOLEAN]
  BY DEF IInv, TypeOK, TypeLock, TypeThread, TypeMemory, Objects
<1>s. \A v \in 0 .. id_ctr : Store(v).ptr \in Nat
  BY StoreType DEF IInv, TypeOK
<1>e. UNCHANGED reader_idx => \A v : Store(v)' = Store(v)
  BY DEF Store
<1>1. CASE ReadLock(t)
  BY <1>a, <1>s, <1>e, <1>1 DEF ReadLock, Goto, lockVars, thrVars, memVars,
     ReadingInv
<1>2. CASE ReadLockAgain(t)
  BY <1>a, <1>s, <1>e, <1>2 DEF ReadLockAgain, lockVars, memVars, ReadingInv
<1>3. CASE LoadReaderIdx(t)
  BY <1>a, <1>s, <1>e, <1>3 DEF LoadReaderIdx, Goto, lockVars, ReadingInv
<1>4. CASE AddUser(t)
  BY <1>a, <1>s, <1>e, <1>4 DEF AddUser, Goto, thrVars, ReadingInv
<1>5. CASE CheckReaderIdx(t)
  <2>1. PICK v \in viewIdx[t] .. id_ctr :
           /\ viewPtr' = [viewPtr EXCEPT ![t] = Later(@, Store(v).ptr)]
           /\ \/ /\ Store(v).val = qp[t]
                 /\ held' = [held EXCEPT ![t] = v]
                 /\ Goto(t, "reading")
              \/ Goto(t, "rl_sub") /\ held' = held
    BY <1>5 DEF CheckReaderIdx
  <2>2. v \in 0 .. id_ctr /\ Store(v).val = v % group_count /\ Store(v).ptr \in Nat
    BY <1>a, <1>s DEF StoreInv
  <2>3. v % group_count = qp[t] => next_to_retire =< v
    BY <1>a, <1>5, <2>2 DEF CheckReaderIdx, CheckInv
  <2>4. refs[t] = {}
    BY <1>a, <1>5 DEF CheckReaderIdx, ReadingInv
  <2>5. /\ viewPtr'[t] >= Store(v).ptr
        /\ \A u \in Threads \ {t} : viewPtr'[u] = viewPtr[u] /\ held'[u] = held[u]
    BY <1>a, <1>s, <2>1, <2>2
  <2>6. UNCHANGED <<refs, qp, id_ctr, next_to_retire, reader_idx>>
    BY <1>5 DEF CheckReaderIdx, lockVars
  <2>7. CASE Store(v).val = qp[t] /\ held' = [held EXCEPT ![t] = v] /\ Goto(t, "reading")
    BY <1>a, <1>e, <2>2, <2>3, <2>4, <2>5, <2>6, <2>7 DEF Goto, ReadingInv
  <2>8. CASE Goto(t, "rl_sub") /\ held' = held
    BY <1>a, <1>e, <2>4, <2>5, <2>6, <2>8 DEF Goto, ReadingInv
  <2> QED
    BY <2>1, <2>7, <2>8
<1>6. CASE SubUser(t)
  BY <1>a, <1>s, <1>e, <1>6 DEF SubUser, Goto, thrVars, ReadingInv
<1>7. CASE Deref(t)
  BY <1>a, <1>s, <1>e, <1>7 DEF Deref, lockVars, ReadingInv
<1>8. CASE ReadUnlockInner(t)
  BY <1>a, <1>s, <1>e, <1>8 DEF ReadUnlockInner, lockVars, memVars, ReadingInv
<1>9. CASE ReadUnlock(t)
  BY <1>a, <1>s, <1>e, <1>9 DEF ReadUnlock, Goto, ReadingInv
<1>10. CASE WriteLock(t)
  BY <1>a, <1>s, <1>e, <1>10 DEF WriteLock, Goto, thrVars, ReadingInv
<1>11. CASE Assign(t)
  BY <1>a, <1>s, <1>e, <1>11 DEF Assign, Goto, lockVars, thrVars, ReadingInv
<1>12. CASE RcuCall(t)
  BY <1>a, <1>s, <1>e, <1>12 DEF RcuCall, Goto, thrVars, memVars, ReadingInv
<1>13. CASE WriteUnlock(t)
  BY <1>a, <1>s, <1>e, <1>13 DEF WriteUnlock, Goto, thrVars, memVars, ReadingInv
<1>14. CASE TakeCallbacks(t)
  BY <1>a, <1>s, <1>e, <1>14 DEF TakeCallbacks, Goto, ReadingInv
<1>15. CASE AllocLock(t)
  BY <1>a, <1>s, <1>e, <1>15 DEF AllocLock, Goto, thrVars, ReadingInv
<1>16. CASE StoreReaderIdx(t)
  <2>1. \A v \in 0 .. id_ctr : Store(v)' = Store(v)
    BY <1>16, StoreEffect, Zenon
  <2>2. \A u \in Threads : (pc'[u] = "reading" <=> pc[u] = "reading") /\ (pc[u] = "reading" => u # t)
    BY <1>a, <1>16 DEF StoreReaderIdx, Goto
  <2>3. \A u \in Threads : pc[u] = "reading" => held[u] \in 0 .. id_ctr /\ qp'[u] = qp[u]
    BY <1>a, <1>16, <2>2 DEF StoreReaderIdx, ReadingInv
  <2> QED
    <3>1. id_ctr' = id_ctr + 1 /\ UNCHANGED <<next_to_retire, held, viewPtr, refs>>
      BY <1>16 DEF StoreReaderIdx
    <3>2. \A u \in Threads : pc[u] = "reading" => Store(held[u])' = Store(held[u])
      BY <2>1, <2>3, <3>1 DEF Store
    <3> QED
      BY <1>a, <2>2, <2>3, <3>1, <3>2 DEF ReadingInv
<1>17. CASE AddZero(t)
  <2>1. \A u \in Threads : pc'[u] = "reading" <=> pc[u] = "reading"
    BY <1>a, <1>17 DEF AddZero, SignalAlloc, Goto, LockInv
  <2> QED
    BY <1>a, <1>s, <1>e, <1>17, <2>1 DEF AddZero, thrVars, ReadingInv
<1>18. CASE PriorLock(t)
  BY <1>a, <1>s, <1>e, <1>18 DEF PriorLock, Goto, thrVars, memVars, ReadingInv
<1>19. CASE SeeZero(t)
  <2>1. \A u \in Threads : pc'[u] = "reading" <=> pc[u] = "reading"
    BY <1>a, <1>19 DEF SeeZero, LockInv
  <2>2. t \in Added /\ curr_id[t] = next_to_retire /\ qp[t] = next_to_retire % group_count
    BY <1>a, <1>19 DEF SeeZero, Added, IdInv, Waiting
  <2>3. ASSUME NEW u \in Threads, pc[u] = "reading" PROVE held[u] # next_to_retire
    <3>1. SUFFICES ASSUME held[u] = next_to_retire PROVE FALSE
      OBVIOUS
    <3>2. u \in Holders(qp[t])
      BY <1>a, <2>2, <2>3, <3>1 DEF ReadingInv, Holders
    <3> QED
      BY <1>a, <1>19, <2>2, <2>3, <3>2 DEF SeeZero, ZeroInv
  <2> QED
    BY <1>a, <1>e, <1>19, <2>1, <2>3 DEF SeeZero, ReadingInv, thrVars, memVars
<1>20. CASE RetireQp(t)
  <2>1. \A u \in Threads : pc'[u] = "reading" <=> pc[u] = "reading"
    BY <1>a, <1>20 DEF RetireQp, SignalAlloc, Goto, LockInv
  <2> QED
    BY <1>a, <1>s, <1>e, <1>20, <2>1 DEF RetireQp, thrVars, ReadingInv
<1>21. CASE RunCallback(t)
  BY <1>a, <1>s, <1>e, <1>21 DEF RunCallback, lockVars, ReadingInv
<1>22. CASE SynchronizeReturn(t)
  BY <1>a, <1>s, <1>e, <1>22 DEF SynchronizeReturn, Goto, lockVars, thrVars,
     memVars, ReadingInv
<1> QED
  BY <1>1, <1>2, <1>3, <1>4, <1>5, <1>6, <1>7, <1>8, <1>9, <1>10, <1>11,
     <1>12, <1>13, <1>14, <1>15, <1>16, <1>17, <1>18, <1>19, <1>20, <1>21, <1>22
     DEF ReadSide, GetHoldCurrentQp, Publish, Synchronize

\* Calls that can see their counter at zero.
LEMMA ZeroStep ==
    ASSUME IInv, NEW t \in Threads,
           ReadSide(t) \/ Publish(t) \/ TakeCallbacks(t) \/ Synchronize(t)
    PROVE  ZeroInv'
<1>a. /\ LockInv /\ IdInv /\ StoreInv /\ ViewInv /\ CheckInv /\ ReadingInv /\ ZeroInv
      /\ pc \in [Threads -> Pcs] /\ qp \in [Threads -> Slots] /\ curr_id \in [Threads -> Nat]
      /\ held \in [Threads -> Nat] /\ refs \in [Threads -> SUBSET Nat]
      /\ id_ctr \in Nat /\ uptr \in Nat /\ next_to_retire \in Nat
      /\ viewIdx \in [Threads -> Nat] /\ viewPtr \in [Threads -> Nat]
      /\ usersIdx \in [Slots -> Nat] /\ usersPtr \in [Slots -> Nat]
      /\ sawZero \in [Slots -> BOOLEAN]
  BY DEF IInv, TypeOK, TypeLock, TypeThread, TypeMemory, Objects
<1>u. UsersExact' /\ users' \in [Slots -> Nat]
  BY UsersStep, TypeStep DEF TypeOK, TypeLock
<1>1. CASE ReadLock(t)
  BY <1>a, <1>1 DEF ReadLock, Goto, lockVars, thrVars, memVars, ZeroInv, Added,
     Holders
<1>2. CASE ReadLockAgain(t)
  BY <1>a, <1>2 DEF ReadLockAgain, lockVars, memVars, ZeroInv, Added, Holders
<1>3. CASE LoadReaderIdx(t)
  BY <1>a, <1>3 DEF LoadReaderIdx, Goto, lockVars, ZeroInv, Added, Holders
<1>4. CASE AddUser(t)
  <2>1. Added' = Added
    BY <1>a, <1>4 DEF AddUser, Goto, Added
  <2>2. SUFFICES ASSUME NEW w \in Added, sawZero[qp[w]], NEW u \in Threads,
                        pc'[u] \in {"rl_check", "rl_sub", "reading"}, qp[u] = qp[w]
                 PROVE  \/ pc'[u] = "rl_sub"
                        \/ pc'[u] = "rl_check" /\ viewIdx'[u] > curr_id[w]
    BY <1>a, <1>4, <2>1 DEF AddUser, ZeroInv, Holders, thrVars
  <2>3. CASE u = t
    <3>1. usersIdx[qp[t]] > curr_id[w] /\ curr_id[w] \in Nat /\ qp[t] \in Slots
      BY <1>a, <2>2, <2>3 DEF ViewInv, Added
    <3> QED
      BY <1>a, <1>4, <2>3, <3>1 DEF AddUser, Goto
  <2>4. CASE u # t
    <3>1. pc'[u] = pc[u] /\ viewIdx'[u] = viewIdx[u]
      BY <1>a, <1>4, <2>4 DEF AddUser, Goto
    <3> QED
      BY <1>a, <2>2, <3>1 DEF ZeroInv, Holders
  <2> QED
    BY <2>3, <2>4
<1>5. CASE CheckReaderIdx(t)
  <2>1. Added' = Added /\ UNCHANGED <<qp, sawZero, curr_id>>
    BY <1>a, <1>5 DEF CheckReaderIdx, Goto, Added
  <2>2. SUFFICES ASSUME NEW w \in Added, sawZero[qp[w]], NEW u \in Threads,
                        pc'[u] \in {"rl_check", "rl_sub", "reading"}, qp[u] = qp[w]
                 PROVE  \/ pc'[u] = "rl_sub"
                        \/ pc'[u] = "rl_check" /\ viewIdx'[u] > curr_id[w]
    BY <2>1 DEF ZeroInv, Holders
  <2>3. CASE u = t
    <3>1. viewIdx[t] > curr_id[w]
      BY <1>a, <1>5, <2>2, <2>3 DEF CheckReaderIdx, ZeroInv, Holders
    <3>2. curr_id[w] >= next_to_retire /\ qp[w] = curr_id[w] % group_count /\ curr_id[w] \in Nat
      BY <1>a DEF IdInv, Added, Waiting
    <3>3. \A v \in viewIdx[t] .. id_ctr : Store(v).val # qp[t]
      <4>1. SUFFICES ASSUME NEW v \in viewIdx[t] .. id_ctr PROVE v % group_count # qp[t]
        BY <1>a DEF StoreInv
      <4>2. v \in Nat /\ curr_id[w] < v /\ v - curr_id[w] < group_count
        BY <1>a, <3>1, <3>2, FewWaiting
      <4> QED
        BY <2>2, <2>3, <3>2, <4>2, CloseIdsDiffer
    <3> QED
      BY <1>a, <1>5, <2>3, <3>3 DEF CheckReaderIdx, Goto
  <2>4. CASE u # t
    <3>1. pc'[u] = pc[u] /\ viewIdx'[u] = viewIdx[u]
      BY <1>a, <1>5, <2>4 DEF CheckReaderIdx, Goto
    <3> QED
      BY <1>a, <2>2, <3>1 DEF ZeroInv, Holders
  <2> QED
    BY <2>3, <2>4
<1>6. CASE SubUser(t)
  <2>1. /\ Added' = Added /\ \A w \in Added : qp'[w] = qp[w]
        /\ \A q \in Slots : Holders(q)' \subseteq Holders(q)
    BY <1>a, <1>6 DEF SubUser, Goto, Added, Holders
  <2>2. SUFFICES ASSUME NEW w \in Added, sawZero'[qp[w]], NEW u \in Holders(qp[w])'
                 PROVE  \/ pc'[u] = "rl_sub"
                        \/ pc'[u] = "rl_check" /\ viewIdx[u] > curr_id[w]
    BY <1>a, <1>6, <2>1 DEF SubUser, ZeroInv
  <2>3. PICK q \in Slots : q = qp[w]
    BY <1>a DEF Added
  <2>4. qp'[w] = qp[w]
    BY <2>1
  <2>5. u \in Holders(q)' /\ u \in Holders(q) /\ u # t /\ pc'[u] = pc[u]
    BY <1>a, <1>6, <2>1, <2>2, <2>3, <2>4 DEF SubUser, Goto, Holders
  <2>6. sawZero[q]
    <3>1. users'[q] # 0
      <4>1. Holders(q)' # {} /\ Holders(q)' \in SUBSET Threads
        BY <2>5 DEF Holders
      <4>2. users'[q] = Cardinality(Holders(q)')
        BY <1>u DEF UsersExact
      <4> QED
        BY <4>1, <4>2, ThreadCount
    <3> QED
      BY <1>a, <1>6, <2>2, <2>3, <3>1 DEF SubUser
  <2> QED
    BY <1>a, <2>3, <2>5, <2>6 DEF ZeroInv
<1>7. CASE Deref(t)
  BY <1>a, <1>7 DEF Deref, lockVars, ZeroInv, Added, Holders
<1>8. CASE ReadUnlockInner(t)
  BY <1>a, <1>8 DEF ReadUnlockInner, lockVars, memVars, ZeroInv, Added, Holders
<1>9. CASE ReadUnlock(t)
  <2>1. /\ Added' = Added /\ \A w \in Added : qp'[w] = qp[w]
        /\ \A q \in Slots : Holders(q)' \subseteq Holders(q)
    BY <1>a, <1>9 DEF ReadUnlock, Goto, Added, Holders
  <2>2. SUFFICES ASSUME NEW w \in Added, sawZero'[qp[w]], NEW u \in Holders(qp[w])'
                 PROVE  \/ pc'[u] = "rl_sub"
                        \/ pc'[u] = "rl_check" /\ viewIdx[u] > curr_id[w]
    BY <1>a, <1>9, <2>1 DEF ReadUnlock, ZeroInv
  <2>3. PICK q \in Slots : q = qp[w]
    BY <1>a DEF Added
  <2>4. qp'[w] = qp[w]
    BY <2>1
  <2>5. u \in Holders(q)' /\ u \in Holders(q) /\ u # t /\ pc'[u] = pc[u]
    BY <1>a, <1>9, <2>1, <2>2, <2>3, <2>4 DEF ReadUnlock, Goto, Holders
  <2>6. sawZero[q]
    <3>1. users'[q] # 0
      <4>1. Holders(q)' # {} /\ Holders(q)' \in SUBSET Threads
        BY <2>5 DEF Holders
      <4>2. users'[q] = Cardinality(Holders(q)')
        BY <1>u DEF UsersExact
      <4> QED
        BY <4>1, <4>2, ThreadCount
    <3> QED
      BY <1>a, <1>9, <2>2, <2>3, <3>1 DEF ReadUnlock
  <2> QED
    BY <1>a, <2>3, <2>5, <2>6 DEF ZeroInv
<1>10. CASE WriteLock(t)
  BY <1>a, <1>10 DEF WriteLock, Goto, thrVars, ZeroInv, Added, Holders
<1>11. CASE Assign(t)
  BY <1>a, <1>11 DEF Assign, Goto, lockVars, thrVars, ZeroInv, Added, Holders
<1>12. CASE RcuCall(t)
  BY <1>a, <1>12 DEF RcuCall, Goto, thrVars, memVars, ZeroInv, Added, Holders
<1>13. CASE WriteUnlock(t)
  BY <1>a, <1>13 DEF WriteUnlock, Goto, thrVars, memVars, ZeroInv, Added, Holders
<1>14. CASE TakeCallbacks(t)
  BY <1>a, <1>14 DEF TakeCallbacks, Goto, ZeroInv, Added, Holders
<1>15. CASE AllocLock(t)
  BY <1>a, <1>15 DEF AllocLock, Goto, thrVars, ZeroInv, Added, Holders
<1>16. CASE StoreReaderIdx(t)
  BY <1>a, <1>16 DEF StoreReaderIdx, Goto, ZeroInv, Added, Holders
<1>17. CASE AddZero(t)
  <2>1. /\ Added' = Added \cup {t} /\ UNCHANGED <<qp, curr_id, viewIdx>>
        /\ \A q \in Slots : Holders(q)' = Holders(q)
        /\ \A u \in Threads : pc[u] \in {"rl_check", "rl_sub"} => pc'[u] = pc[u]
    BY <1>a, <1>17 DEF AddZero, SignalAlloc, Goto, Added, Holders, LockInv, thrVars
  <2>2. SUFFICES ASSUME NEW w \in Added', sawZero'[qp[w]], NEW u \in Threads,
                        u \in Holders(qp[w])
                 PROVE  \/ pc[u] = "rl_sub"
                        \/ pc[u] = "rl_check" /\ viewIdx[u] > curr_id[w]
    BY <1>a, <2>1 DEF ZeroInv, Holders
  <2>3. w \in Threads /\ qp[w] \in Slots
    BY <1>a, <2>1 DEF Added
  <2>4. CASE qp[w] = qp[t]
    <3>1. users[qp[t]] = 0
      BY <1>a, <1>17, <2>2, <2>3, <2>4 DEF AddZero
    <3>2. Holders(qp[t]) # {} /\ Holders(qp[t]) \in SUBSET Threads
      BY <2>2, <2>4 DEF Holders
    <3> QED
      BY <2>3, <2>4, <3>1, <3>2, ThreadCount DEF IInv, UsersExact
  <2>5. CASE qp[w] # qp[t]
    <3>1. w \in Added /\ sawZero[qp[w]]
      BY <1>a, <1>17, <2>1, <2>2, <2>3, <2>5 DEF AddZero
    <3> QED
      BY <1>a, <2>2, <3>1 DEF ZeroInv
  <2> QED
    BY <2>4, <2>5
<1>18. CASE PriorLock(t)
  BY <1>a, <1>18 DEF PriorLock, Goto, thrVars, memVars, ZeroInv, Added, Holders
<1>19. CASE SeeZero(t)
  <2>1. /\ Added' \subseteq Added /\ UNCHANGED <<qp, curr_id, viewIdx, sawZero>>
        /\ \A q \in Slots : Holders(q)' = Holders(q)
        /\ \A u \in Threads : pc[u] \in {"rl_check", "rl_sub"} => pc'[u] = pc[u]
    BY <1>a, <1>19 DEF SeeZero, Added, Holders, LockInv, thrVars, memVars
  <2> QED
    BY <1>a, <2>1 DEF ZeroInv, Holders, Added
<1>20. CASE RetireQp(t)
  BY <1>a, <1>20 DEF RetireQp, Goto, SignalAlloc, thrVars, ZeroInv, Added, Holders
<1>21. CASE RunCallback(t)
  BY <1>a, <1>21 DEF RunCallback, lockVars, ZeroInv, Added, Holders
<1>22. CASE SynchronizeReturn(t)
  BY <1>a, <1>22 DEF SynchronizeReturn, Goto, lockVars, thrVars, memVars,
     ZeroInv, Added, Holders
<1> QED
  BY <1>1, <1>2, <1>3, <1>4, <1>5, <1>6, <1>7, <1>8, <1>9, <1>10, <1>11,
     <1>12, <1>13, <1>14, <1>15, <1>16, <1>17, <1>18, <1>19, <1>20, <1>21, <1>22
     DEF ReadSide, GetHoldCurrentQp, Publish, Synchronize

\* Objects on their way to release.
LEMMA ObjectStep ==
    ASSUME IInv, NEW t \in Threads,
           ReadSide(t) \/ Publish(t) \/ TakeCallbacks(t) \/ Synchronize(t)
    PROVE  ObjectInv'
<1>a. /\ LockInv /\ IdInv /\ StoreInv /\ ViewInv /\ ObjectInv
      /\ pc \in [Threads -> Pcs] /\ curr_id \in [Threads -> Nat]
      /\ my_cbs \in [Threads -> SUBSET Nat] /\ cb_items \subseteq Nat /\ freed \subseteq Nat
      /\ id_ctr \in Nat /\ uptr \in Nat /\ next_to_retire \in Nat /\ allocPtr \in Nat
      /\ viewPtr \in [Threads -> Nat]
  BY DEF IInv, TypeOK, TypeLock, TypeThread, TypeMemory, Objects
<1>s. /\ \A v \in 0 .. id_ctr : Store(v).ptr \in Nat
      /\ next_to_retire =< id_ctr
  BY StoreType, FewWaiting DEF IInv, TypeOK
<1>e. UNCHANGED reader_idx => \A v : Store(v)' = Store(v)
  BY DEF Store
<1>1. CASE ReadLock(t)
  BY <1>a, <1>s, <1>e, <1>1 DEF ReadLock, Goto, lockVars, thrVars, memVars,
     ObjectInv, Waiting
<1>2. CASE ReadLockAgain(t)
  BY <1>a, <1>s, <1>e, <1>2 DEF ReadLockAgain, lockVars, memVars, ObjectInv,
     Waiting
<1>3. CASE LoadReaderIdx(t)
  BY <1>a, <1>s, <1>e, <1>3 DEF LoadReaderIdx, Goto, lockVars, ObjectInv, Waiting
<1>4. CASE AddUser(t)
  BY <1>a, <1>s, <1>e, <1>4 DEF AddUser, Goto, thrVars, ObjectInv, Waiting
<1>5. CASE CheckReaderIdx(t)
  BY <1>a, <1>s, <1>e, <1>5 DEF CheckReaderIdx, Goto, lockVars, ObjectInv, Waiting
<1>6. CASE SubUser(t)
  BY <1>a, <1>s, <1>e, <1>6 DEF SubUser, Goto, thrVars, ObjectInv, Waiting
<1>7. CASE Deref(t)
  BY <1>a, <1>s, <1>e, <1>7 DEF Deref, lockVars, ObjectInv, Waiting
<1>8. CASE ReadUnlockInner(t)
  BY <1>a, <1>s, <1>e, <1>8 DEF ReadUnlockInner, lockVars, memVars, ObjectInv,
     Waiting
<1>9. CASE ReadUnlock(t)
  BY <1>a, <1>s, <1>e, <1>9 DEF ReadUnlock, Goto, ObjectInv, Waiting
<1>10. CASE WriteLock(t)
  BY <1>a, <1>s, <1>e, <1>10 DEF WriteLock, Goto, thrVars, ObjectInv, Waiting
<1>11. CASE Assign(t)
  BY <1>a, <1>s, <1>e, <1>11 DEF Assign, Goto, lockVars, thrVars, ObjectInv,
     Waiting
<1>12. CASE RcuCall(t)
  BY <1>a, <1>s, <1>e, <1>12 DEF RcuCall, Queued, Goto, thrVars, memVars, ObjectInv,
     Waiting
<1>13. CASE WriteUnlock(t)
  BY <1>a, <1>s, <1>e, <1>13 DEF WriteUnlock, Goto, thrVars, memVars, ObjectInv,
     Waiting
<1>14. CASE TakeCallbacks(t)
  <2>1. \A o \in my_cbs'[t] : o < viewPtr'[t]
    BY <1>a, <1>14 DEF TakeCallbacks, ObjectInv
  <2>2. \A u \in Threads \ {t} : pc'[u] = pc[u] /\ my_cbs'[u] = my_cbs[u] /\ viewPtr'[u] = viewPtr[u]
    BY <1>a, <1>14 DEF TakeCallbacks, Goto
  <2>3. pc'[t] = "u_lock"
    BY <1>a, <1>14 DEF TakeCallbacks, Goto
  <2> QED
    BY <1>a, <1>e, <1>14, <2>1, <2>2, <2>3 DEF TakeCallbacks, ItemsLeft, ObjectInv, Waiting
<1>15. CASE AllocLock(t)
  BY <1>a, <1>s, <1>e, <1>15 DEF AllocLock, Goto, thrVars, ObjectInv, Waiting
<1>16. CASE StoreReaderIdx(t)
  <2>2. \A v \in 0 .. id_ctr : Store(v)' = Store(v)
    BY <1>16, StoreEffect, Zenon
  <2>3. reader_idx'[id_ctr + 2].ptr = viewPtr[t]
    <3>1. reader_idx'[id_ctr + 2] = [val |-> current_alloc_idx', ptr |-> viewPtr[t]]
      BY <1>16, StoreEffect, Zenon
    <3> QED
      BY <3>1
  <2>4. Store(curr_id[t] + 1)'.ptr = viewPtr[t]
    <3>1. curr_id'[t] = id_ctr /\ (id_ctr + 1) + 1 = id_ctr + 2
      BY <1>a, <1>16 DEF StoreReaderIdx
    <3> QED
      BY <2>3, <3>1 DEF Store
  <2>5. \A o \in my_cbs[t] : o < viewPtr[t]
    BY <1>a, <1>16 DEF StoreReaderIdx, ObjectInv
  <2>6. ASSUME NEW u \in Waiting
        PROVE  u # t /\ Store(curr_id[u] + 1)' = Store(curr_id[u] + 1)
    <3>1. u # t /\ curr_id'[u] = curr_id[u] /\ curr_id[u] + 1 \in 0 .. id_ctr
      <4>1. pc[t] = "u_store" /\ curr_id' = [curr_id EXCEPT ![t] = id_ctr]
        BY <1>16 DEF StoreReaderIdx
      <4>2. u # t /\ u \in Threads
        BY <4>1 DEF Waiting
      <4> QED
        BY <1>a, <4>1, <4>2 DEF IdInv
    <3> QED
      BY <2>2, <3>1 DEF Store
  <2>7. Store(next_to_retire)' = Store(next_to_retire)
    <3>1. next_to_retire' = next_to_retire /\ next_to_retire \in 0 .. id_ctr
      BY <1>a, <1>s, <1>16 DEF StoreReaderIdx
    <3> QED
      BY <2>2, <3>1 DEF Store
  <2>8. /\ pc'[t] = "u_add0"
        /\ \A u \in Threads \ {t} : pc'[u] = pc[u] /\ viewPtr'[u] = viewPtr[u]
        /\ UNCHANGED <<my_cbs, cb_items, freed, uptr>>
    BY <1>a, <1>16 DEF StoreReaderIdx, Goto
  <2>9. Waiting' = Waiting \cup {t}
    BY <1>a, <2>8 DEF Waiting
  <2> QED
    BY <1>a, <2>4, <2>5, <2>6, <2>7, <2>8, <2>9 DEF ObjectInv
<1>17. CASE AddZero(t)
  <2>1. /\ pc'[t] = "p_lock" /\ t \in Waiting /\ Waiting' = Waiting
        /\ \A u \in Threads \ {t} : pc'[u] = pc[u] \/ (pc[u] = "u_wait" /\ pc'[u] = "u_lock")
    BY <1>a, <1>17 DEF AddZero, SignalAlloc, Goto, Waiting, LockInv
  <2>2. UNCHANGED <<my_cbs, cb_items, freed, uptr, viewPtr, curr_id, next_to_retire, reader_idx>>
    BY <1>17 DEF AddZero, thrVars
  <2> QED
    BY <1>a, <1>e, <2>1, <2>2 DEF ObjectInv
<1>18. CASE PriorLock(t)
  BY <1>a, <1>s, <1>e, <1>18 DEF PriorLock, Goto, thrVars, memVars, ObjectInv,
     Waiting
<1>19. CASE SeeZero(t)
  <2>1. /\ pc[t] = "p_spin" /\ pc'[t] = "r_lock" /\ t \in Waiting /\ Waiting' = Waiting \ {t}
        /\ \A u \in Threads \ {t} : pc'[u] = pc[u] \/ (pc[u] = "p_wait" /\ pc'[u] = "p_lock")
    BY <1>a, <1>19 DEF SeeZero, Waiting, LockInv
  <2>2. UNCHANGED <<my_cbs, cb_items, freed, uptr, viewPtr, curr_id, reader_idx>>
    BY <1>19 DEF SeeZero, thrVars, memVars
  <2>3. curr_id[t] = next_to_retire /\ next_to_retire' = next_to_retire + 1
        /\ next_to_retire + 1 \in 0 .. id_ctr
    BY <1>a, <1>19, <2>1 DEF SeeZero, IdInv
  <2>4. Store(next_to_retire).ptr =< Store(next_to_retire + 1).ptr
    BY <1>a, <1>s, <2>3 DEF StoreInv
  <2>5. Store(next_to_retire)' = Store(next_to_retire + 1)
    BY <2>2, <2>3 DEF Store
  <2>6. \A o \in Nat : o < Store(next_to_retire).ptr => o < Store(next_to_retire)'.ptr
    BY <1>a, <1>s, <2>3, <2>4, <2>5
  <2> QED
    BY <1>a, <1>e, <2>1, <2>2, <2>3, <2>5, <2>6 DEF ObjectInv
<1>20. CASE RetireQp(t)
  <2>1. /\ pc[t] = "r_lock" /\ pc'[t] = "s_cb" /\ Waiting' = Waiting
        /\ \A u \in Threads \ {t} : pc'[u] = pc[u] \/ (pc[u] = "u_wait" /\ pc'[u] = "u_lock")
    BY <1>a, <1>20 DEF RetireQp, SignalAlloc, Goto, Waiting, LockInv
  <2>2. /\ UNCHANGED <<my_cbs, cb_items, freed, uptr, curr_id, next_to_retire, reader_idx>>
        /\ \A u \in Threads \ {t} : viewPtr'[u] = viewPtr[u]
    BY <1>20 DEF RetireQp, thrVars
  <2> QED
    BY <1>a, <1>e, <2>1, <2>2 DEF ObjectInv
<1>21. CASE RunCallback(t)
  BY <1>a, <1>s, <1>e, <1>21 DEF RunCallback, lockVars, ObjectInv, Waiting
<1>22. CASE SynchronizeReturn(t)
  BY <1>a, <1>s, <1>e, <1>22 DEF SynchronizeReturn, Goto, lockVars, thrVars,
     memVars, ObjectInv, Waiting
<1> QED
  BY <1>1, <1>2, <1>3, <1>4, <1>5, <1>6, <1>7, <1>8, <1>9, <1>10, <1>11,
     <1>12, <1>13, <1>14, <1>15, <1>16, <1>17, <1>18, <1>19, <1>20, <1>21, <1>22
     DEF ReadSide, GetHoldCurrentQp, Publish, Synchronize

-----------------------------------------------------------------------------
(* The invariant. *)

\* ossl_rcu_lock_new establishes the invariant.
LEMMA InitIInv == Init => IInv
<1> SUFFICES ASSUME Init PROVE IInv
  OBVIOUS
<1>1. group_count \in Nat /\ group_count >= 2 /\ 0 \in Slots /\ 0 % group_count = 0
  <2>1. group_count \in Nat /\ group_count >= 2
    BY GroupCount
  <2>2. 0 % group_count = 0
    BY <2>1, DivMod, DivModUnique, Z3
  <2> QED
    BY <2>1, <2>2 DEF Slots
<1>2. Waiting = {} /\ Alloced = {} /\ Added = {} /\ \A q \in Slots : Holders(q) = {}
  BY DEF Init, Waiting, Alloced, Added, Holders
<1>3. Cardinality({}) = 0
  BY FS_EmptySet
<1>4. TypeOK
  <2>1. reader_idx \in Seq([val : Slots, ptr : Objects]) /\ Len(reader_idx) = id_ctr + 1
    BY <1>1 DEF Init, Objects
  <2>2. TypeLock /\ TypeThread
    BY <1>1 DEF Init, TypeLock, TypeThread, Objects
  <2>3. TypeMemory
    BY <2>1 DEF Init, TypeMemory, Objects
  <2>4. pc \in [Threads -> Pcs]
    BY DEF Init, Pcs
  <2> QED
    BY <2>2, <2>3, <2>4 DEF TypeOK
<1>5. LockInv
  BY ThreadsAssumption DEF Init, LockInv
<1>6. IdInv
  BY <1>1, <1>2, <1>3 DEF Init, IdInv
<1>7. StoreInv
  BY <1>1 DEF Init, StoreInv, Store
<1>8. ViewInv
  BY <1>2 DEF Init, ViewInv, Store
<1>9. UsersExact
  BY <1>2, <1>3 DEF Init, UsersExact
<1>10. CheckInv /\ ReadingInv /\ ZeroInv
  BY <1>2 DEF Init, CheckInv, ReadingInv, ZeroInv
<1>11. ObjectInv
  BY <1>2 DEF Init, ObjectInv
<1> QED
  BY <1>4, <1>5, <1>6, <1>7, <1>8, <1>9, <1>10, <1>11 DEF IInv

\* Every step of the lock's functions preserves it.
LEMMA NextIInv == IInv /\ [Next]_vars => IInv'
<1> SUFFICES ASSUME IInv, [Next]_vars PROVE IInv'
  OBVIOUS
<1>1. CASE Next
  BY <1>1, TypeStep, LockStep, IdStep, StoreStep, ViewStep, UsersStep, CheckStep,
     ReadingStep, ZeroStep, ObjectStep DEF Next, IInv
<1>2. CASE UNCHANGED vars
  <2> USE <1>2 DEF vars, lockVars, thrVars, memVars
  <2>1. TypeOK'
    BY DEF IInv, TypeOK, TypeLock, TypeThread, TypeMemory
  <2>2. LockInv' /\ CheckInv'
    BY DEF IInv, LockInv, CheckInv
  <2>3. IdInv'
    BY DEF IInv, IdInv, Waiting, Alloced
  <2>4. StoreInv' /\ ReadingInv'
    BY DEF IInv, StoreInv, ReadingInv, Store
  <2>5. ViewInv'
    BY DEF IInv, ViewInv, Added, Store
  <2>6. UsersExact'
    BY DEF IInv, UsersExact, Holders
  <2>7. ZeroInv'
    BY DEF IInv, ZeroInv, Added, Holders
  <2>8. ObjectInv'
    BY DEF IInv, ObjectInv, Waiting, Store
  <2> QED
    BY <2>1, <2>2, <2>3, <2>4, <2>5, <2>6, <2>7, <2>8 DEF IInv
<1> QED
  BY <1>1, <1>2

\* IInv holds in every reachable state.
THEOREM Invariance == Spec => []IInv
  BY InitIInv, NextIInv, PTL DEF Spec

\* Every reachable state is well typed; in particular no counter of the lock
\* goes below zero.
THEOREM TypeCorrect == Spec => []TypeOK
<1>1. IInv => TypeOK
  BY DEF IInv
<1> QED
  BY <1>1, Invariance, PTL

\* The promise of the lock, for all numbers of threads, qps, objects and calls
\* and under the weak memory of the module: no callback releases an object
\* that a read section still refers to.
THEOREM ReadersProtected == Spec => []NoUseAfterFree
<1>1. ASSUME IInv PROVE NoUseAfterFree
  <2>1. SUFFICES ASSUME NEW t \in Threads, NEW o \in refs[t], o \in freed PROVE FALSE
    BY DEF NoUseAfterFree
  <2>2. /\ held[t] \in 0 .. id_ctr /\ next_to_retire \in 0 .. id_ctr
        /\ next_to_retire =< held[t] /\ o >= Store(held[t]).ptr
        /\ o < Store(next_to_retire).ptr /\ o \in Nat
    <3>1. pc[t] = "reading" /\ o \in Nat /\ held[t] \in Nat
          /\ id_ctr \in Nat /\ next_to_retire \in Nat
      BY <1>1, <2>1 DEF IInv, ReadingInv, TypeOK, TypeLock, TypeThread, Objects
    <3> QED
      BY <1>1, <2>1, <3>1, FewWaiting DEF IInv, ReadingInv, ObjectInv
  <2>3. /\ Store(next_to_retire).ptr =< Store(held[t]).ptr
        /\ Store(next_to_retire).ptr \in Nat /\ Store(held[t]).ptr \in Nat
    BY <1>1, <2>2, StoreType DEF IInv, StoreInv, TypeOK
  <2> QED
    BY <2>2, <2>3
<1> QED
  BY <1>1, Invariance, PTL

\* The assertion of ossl_rcu_read_unlock never fires.
THEOREM CountersExact == Spec => []UsersExact
<1>1. IInv => UsersExact
  BY DEF IInv
<1> QED
  BY <1>1, Invariance, PTL

\* Readers can always enter through a qp nobody waits on, and no qp is waited
\* on twice.
THEOREM QpsDistinct == Spec => []ReadersHaveFreeQp
<1>1. ASSUME IInv PROVE ReadersHaveFreeQp
  <2>1. /\ id_ctr \in Nat /\ next_to_retire \in Nat /\ curr_id \in [Threads -> Nat]
        /\ id_ctr - next_to_retire < group_count /\ group_count \in Nat
    BY <1>1, FewWaiting DEF IInv, TypeOK, TypeLock, TypeThread
  <2>2. ASSUME NEW t \in Waiting PROVE qp[t] # current_alloc_idx
    <3>1. /\ curr_id[t] \in Nat /\ curr_id[t] < id_ctr /\ id_ctr - curr_id[t] < group_count
          /\ qp[t] = curr_id[t] % group_count /\ current_alloc_idx = id_ctr % group_count
      BY <1>1, <2>1 DEF IInv, IdInv, StoreInv, Waiting
    <3> QED
      BY <2>1, <3>1, CloseIdsDiffer
  <2>3. ASSUME NEW t \in Waiting, NEW u \in Waiting, t # u PROVE qp[t] # qp[u]
    <3>1. /\ curr_id[t] \in Nat /\ curr_id[u] \in Nat /\ curr_id[t] # curr_id[u]
          /\ curr_id[t] - curr_id[u] < group_count /\ curr_id[u] - curr_id[t] < group_count
          /\ qp[t] = curr_id[t] % group_count /\ qp[u] = curr_id[u] % group_count
      BY <1>1, <2>1, <2>3 DEF IInv, IdInv, Waiting
    <3>2. CASE curr_id[t] < curr_id[u]
      BY <3>1, <3>2, CloseIdsDiffer
    <3>3. CASE curr_id[u] < curr_id[t]
      BY <3>1, <3>3, CloseIdsDiffer
    <3> QED
      BY <3>1, <3>2, <3>3
  <2> QED
    BY <2>2, <2>3 DEF ReadersHaveFreeQp
<1> QED
  BY <1>1, Invariance, PTL

\* A call retires its id only when every read section entered through a store
\* of that id or earlier has ended.
THEOREM GraceHolds == Spec => GracePeriod
<1>1. ASSUME IInv, IInv', [Next]_vars, next_to_retire' # next_to_retire,
             NEW t \in Threads, pc[t] = "reading"
      PROVE  held[t] > next_to_retire
  <2>1. PICK u \in Threads : SeeZero(u)
    <3>1. PICK u \in Threads :
             ReadSide(u) \/ Publish(u) \/ TakeCallbacks(u) \/ Synchronize(u)
      BY <1>1 DEF Next, vars, lockVars
    <3>2. ~ReadSide(u)
      BY <1>1 DEF ReadSide, GetHoldCurrentQp, ReadLock, ReadLockAgain, LoadReaderIdx,
         AddUser, CheckReaderIdx, SubUser, Deref, ReadUnlockInner, ReadUnlock, lockVars
    <3>3. ~Publish(u) /\ ~TakeCallbacks(u)
      BY <1>1 DEF Publish, WriteLock, Assign, RcuCall, WriteUnlock, TakeCallbacks, lockVars
    <3>4. ~(AllocLock(u) \/ StoreReaderIdx(u) \/ AddZero(u) \/ PriorLock(u))
      BY <1>1 DEF AllocLock, StoreReaderIdx, AddZero, PriorLock
    <3>5. ~(RetireQp(u) \/ RunCallback(u) \/ SynchronizeReturn(u))
      BY <1>1 DEF RetireQp, RunCallback, SynchronizeReturn, lockVars
    <3> QED
      BY <3>1, <3>2, <3>3, <3>4, <3>5 DEF Synchronize
  <2>2. next_to_retire' = next_to_retire + 1 /\ held' = held /\ pc'[t] = "reading"
    BY <1>1, <2>1 DEF SeeZero, thrVars, IInv, LockInv
  <2> QED
    BY <1>1, <2>2 DEF IInv, ReadingInv, TypeOK, TypeLock, TypeThread
<1>2. IInv /\ IInv' /\ [Next]_vars =>
        [next_to_retire' # next_to_retire =>
           \A t \in Threads : pc[t] = "reading" => held[t] > next_to_retire]_vars
  BY <1>1
<1> QED
  BY <1>2, Invariance, PTL DEF Spec, GracePeriod

-----------------------------------------------------------------------------
(* Every callback runs once. *)

\* Objects that were handed to ossl_rcu_call.
Unpublished(o) == o \in cb_items \/ o \in freed \/ \E t \in Threads : o \in my_cbs[t]

\* Where a thread is inside ossl_synchronize_rcu, its callbacks taken.
Synchronizing(l) == l \in {"u_lock", "u_wait", "u_store", "u_add0", "p_lock", "p_wait",
                           "p_spin", "r_lock", "s_cb"}

\* An object is unpublished before it is handed over, and at most once: what has
\* been handed over is older than the object that a writer is about to hand over.
\* A thread has callbacks in hand only inside ossl_synchronize_rcu, so a new call
\* overwrites none.
OnceInv ==
    /\ CallbacksRunOnce
    /\ \A t \in Threads : my_cbs[t] = {} \/ Synchronizing(pc[t])
    /\ \A o \in Objects : Unpublished(o) =>
         o < uptr /\ \A u \in Threads : pc[u] = "w_call" => o < uptr - 1

\* The first part of CallbacksRunOnce.
LEMMA NoneLost ==
    CallbacksRunOnce => \A o \in 0 .. uptr - 1 :
        Unpublished(o) \/ \E t \in Threads : pc[t] = "w_call" /\ o = uptr - 1
  BY DEF CallbacksRunOnce, Unpublished

\* Steps that neither move nor publish objects.
LEMMA OnceUnchanged ==
    ASSUME OnceInv, UNCHANGED <<cb_items, my_cbs, freed, uptr>>,
           \A u \in Threads :
               /\ pc'[u] = "w_call" <=> pc[u] = "w_call"
               /\ Synchronizing(pc[u]) => Synchronizing(pc'[u]) \/ my_cbs[u] = {}
    PROVE  OnceInv'
<1>1. CallbacksRunOnce'
  BY DEF OnceInv, CallbacksRunOnce
<1>2. \A o : Unpublished(o)' <=> Unpublished(o)
  BY DEF Unpublished
<1>3. \A t \in Threads : my_cbs'[t] = {} \/ Synchronizing(pc'[t])
  BY DEF OnceInv
<1> QED
  BY <1>1, <1>2, <1>3 DEF OnceInv

\* Every step of the lock keeps the callback lists apart and loses nothing.
LEMMA OnceStep ==
    ASSUME IInv, OnceInv, NEW t \in Threads,
           ReadSide(t) \/ Publish(t) \/ TakeCallbacks(t) \/ Synchronize(t)
    PROVE  OnceInv'
<1>a. /\ LockInv /\ CallbacksRunOnce
      /\ pc \in [Threads -> Pcs] /\ my_cbs \in [Threads -> SUBSET Nat]
      /\ cb_items \subseteq Nat /\ freed \subseteq Nat /\ uptr \in Nat
  BY DEF IInv, OnceInv, TypeOK, TypeLock, TypeThread, TypeMemory, Objects
<1>b. \A o \in Nat : Unpublished(o) =>
        o < uptr /\ \A u \in Threads : pc[u] = "w_call" => o < uptr - 1
  BY DEF OnceInv, Objects
<1>1. CASE ReadSide(t)
  <2>1. UNCHANGED <<cb_items, my_cbs, freed, uptr>>
    BY <1>1 DEF ReadSide, GetHoldCurrentQp, ReadLock, ReadLockAgain, LoadReaderIdx,
       AddUser, CheckReaderIdx, SubUser, Deref, ReadUnlockInner, ReadUnlock, lockVars,
       thrVars, memVars
  <2>2. \A u \in Threads : /\ pc'[u] = "w_call" <=> pc[u] = "w_call"
                           /\ Synchronizing(pc[u]) => Synchronizing(pc'[u])
    BY <1>a, <1>1 DEF Synchronizing, ReadSide, GetHoldCurrentQp, ReadLock, ReadLockAgain, LoadReaderIdx,
       AddUser, CheckReaderIdx, SubUser, Deref, ReadUnlockInner, ReadUnlock, Goto
  <2> QED
    BY <2>1, <2>2, OnceUnchanged
<1>2. CASE WriteLock(t) \/ WriteUnlock(t)
  <2>1. UNCHANGED <<cb_items, my_cbs, freed, uptr>>
    BY <1>2 DEF WriteLock, WriteUnlock, thrVars, memVars
  <2>2. \A u \in Threads : /\ pc'[u] = "w_call" <=> pc[u] = "w_call"
                           /\ Synchronizing(pc[u]) => Synchronizing(pc'[u])
    BY <1>a, <1>2 DEF Synchronizing, WriteLock, WriteUnlock, Goto
  <2> QED
    BY <2>1, <2>2, OnceUnchanged
<1>3. CASE Assign(t)
  <2>1. /\ UNCHANGED <<cb_items, my_cbs, freed>> /\ uptr' = uptr + 1
        /\ pc[t] = "w_assign" /\ pc' = [pc EXCEPT ![t] = "w_call"]
    BY <1>3 DEF Assign, lockVars, thrVars, Goto
  <2>2. \A o : Unpublished(o)' <=> Unpublished(o)
    BY <2>1 DEF Unpublished
  <2>3. \A u \in Threads : pc[u] # "w_call"
    BY <1>a, <2>1 DEF LockInv
  <2>4. ASSUME NEW o \in 0 .. uptr' - 1
        PROVE  Unpublished(o)' \/ \E u \in Threads : pc'[u] = "w_call" /\ o = uptr' - 1
    <3>1. CASE o = uptr
      <4>1. pc'[t] = "w_call" /\ o = uptr' - 1
        BY <1>a, <2>1, <3>1
      <4> QED
        BY <4>1
    <3>2. CASE o \in 0 .. uptr - 1
      BY <1>a, <2>2, <2>3, <3>2, NoneLost
    <3> QED
      BY <1>a, <2>1, <3>1, <3>2
  <2>5. CallbacksRunOnce'
    BY <1>a, <2>1, <2>4 DEF CallbacksRunOnce, Unpublished
  <2>6. \A u \in Threads : my_cbs'[u] = {} \/ Synchronizing(pc'[u])
    BY <1>a, <2>1 DEF OnceInv, Synchronizing
  <2> QED
    BY <1>a, <1>b, <2>1, <2>2, <2>5, <2>6 DEF OnceInv, Objects
<1>4. CASE RcuCall(t)
  <2>1. /\ cb_items' = cb_items \cup {uptr - 1} /\ UNCHANGED <<my_cbs, freed, uptr>>
        /\ pc[t] = "w_call" /\ pc' = [pc EXCEPT ![t] = "w_unlock"]
    BY <1>4 DEF RcuCall, Queued, Goto, thrVars, memVars
  <2>2. uptr - 1 \in Nat
    BY <2>1 DEF IInv, ObjectInv, TypeOK, TypeMemory, Objects
  <2>3. ~Unpublished(uptr - 1)
    BY <1>b, <2>1, <2>2
  <2>4. \A u \in Threads : pc'[u] # "w_call"
    BY <1>a, <2>1 DEF LockInv
  <2>5. \A o : Unpublished(o)' <=> Unpublished(o) \/ o = uptr - 1
    BY <2>1 DEF Unpublished
  <2>6. \A o \in 0 .. uptr' - 1 : Unpublished(o)'
    BY <1>a, <2>1, <2>5, NoneLost
  <2>7. CallbacksRunOnce'
    BY <1>a, <2>1, <2>3, <2>6 DEF CallbacksRunOnce, Unpublished
  <2>8. \A u \in Threads : my_cbs'[u] = {} \/ Synchronizing(pc'[u])
    BY <1>a, <2>1 DEF OnceInv, Synchronizing
  <2> QED
    BY <1>a, <1>b, <2>1, <2>2, <2>4, <2>5, <2>7, <2>8 DEF OnceInv, Objects
<1>5. CASE TakeCallbacks(t)
  <2>1. /\ cb_items' = {} /\ UNCHANGED <<freed, uptr>>
        /\ my_cbs' = [my_cbs EXCEPT ![t] = cb_items]
        /\ pc[t] = "idle" /\ pc' = [pc EXCEPT ![t] = "u_lock"]
    BY <1>5 DEF TakeCallbacks, ItemsLeft, Goto
  <2>2. my_cbs[t] = {}
    BY <2>1 DEF OnceInv, Synchronizing
  <2>3. \A o : Unpublished(o)' <=> Unpublished(o)
    <3>1. \A o : Unpublished(o)' => Unpublished(o)
      BY <1>a, <2>1 DEF Unpublished
    <3>2. ASSUME NEW o, Unpublished(o) PROVE Unpublished(o)'
      <4>1. CASE o \in cb_items
        <5>1. o \in my_cbs'[t]
          BY <1>a, <2>1, <4>1
        <5> QED
          BY <5>1 DEF Unpublished
      <4>2. CASE o \in freed
        BY <2>1, <4>2 DEF Unpublished
      <4>3. CASE \E u \in Threads : o \in my_cbs[u]
        <5>1. PICK u \in Threads : o \in my_cbs[u]
          BY <4>3
        <5>2. o \in my_cbs'[u]
          BY <1>a, <2>1, <2>2, <5>1
        <5> QED
          BY <5>2 DEF Unpublished
      <4> QED
        BY <3>2, <4>1, <4>2, <4>3 DEF Unpublished
    <3> QED
      BY <3>1, <3>2
  <2>4. \A u \in Threads : pc'[u] = "w_call" <=> pc[u] = "w_call"
    BY <1>a, <2>1
  <2>5. \A o \in 0 .. uptr' - 1 :
           Unpublished(o)' \/ \E u \in Threads : pc'[u] = "w_call" /\ o = uptr' - 1
    BY <1>a, <2>1, <2>3, <2>4, NoneLost
  <2>6. CallbacksRunOnce'
    <3>1. \A u, w \in Threads : u # w => my_cbs'[u] \cap my_cbs'[w] = {}
      BY <1>a, <2>1 DEF CallbacksRunOnce
    <3>2. \A u \in Threads : my_cbs'[u] \cap (cb_items' \cup freed') = {}
      BY <1>a, <2>1 DEF CallbacksRunOnce
    <3>3. cb_items' \cap freed' = {}
      BY <2>1
    <3> QED
      BY <2>5, <3>1, <3>2, <3>3 DEF CallbacksRunOnce, Unpublished
  <2>7. \A u \in Threads : my_cbs'[u] = {} \/ Synchronizing(pc'[u])
    BY <1>a, <2>1 DEF OnceInv, Synchronizing
  <2> QED
    BY <1>b, <2>1, <2>3, <2>4, <2>6, <2>7 DEF OnceInv, Objects
<1>6. CASE RunCallback(t)
  <2>1. PICK o \in my_cbs[t] : /\ my_cbs' = [my_cbs EXCEPT ![t] = @ \ {o}]
                               /\ freed' = freed \cup {o}
    BY <1>6 DEF RunCallback
  <2>2. UNCHANGED <<cb_items, uptr, pc>> /\ pc[t] = "s_cb"
    BY <1>6 DEF RunCallback, lockVars
  <2>3. \A p : Unpublished(p)' <=> Unpublished(p)
    <3>1. \A p : Unpublished(p)' => Unpublished(p)
      BY <1>a, <2>1, <2>2 DEF Unpublished
    <3>2. ASSUME NEW p, Unpublished(p) PROVE Unpublished(p)'
      <4>1. CASE p \in cb_items \/ p \in freed \/ p = o
        BY <2>1, <2>2, <4>1 DEF Unpublished
      <4>2. CASE p # o /\ \E u \in Threads : p \in my_cbs[u]
        <5>1. PICK u \in Threads : p \in my_cbs[u]
          BY <4>2
        <5>2. p \in my_cbs'[u]
          BY <1>a, <2>1, <4>2, <5>1
        <5> QED
          BY <5>2 DEF Unpublished
      <4> QED
        BY <3>2, <4>1, <4>2 DEF Unpublished
    <3> QED
      BY <3>1, <3>2
  <2>4. \A p \in 0 .. uptr' - 1 :
           Unpublished(p)' \/ \E u \in Threads : pc'[u] = "w_call" /\ p = uptr' - 1
    BY <1>a, <2>2, <2>3, NoneLost
  <2>5. CallbacksRunOnce'
    <3>1. \A u, w \in Threads : u # w => my_cbs'[u] \cap my_cbs'[w] = {}
      BY <1>a, <2>1 DEF CallbacksRunOnce
    <3>2. \A u \in Threads : my_cbs'[u] \cap (cb_items' \cup freed') = {}
      BY <1>a, <2>1, <2>2 DEF CallbacksRunOnce
    <3>3. cb_items' \cap freed' = {}
      BY <1>a, <2>1, <2>2 DEF CallbacksRunOnce
    <3> QED
      BY <2>4, <3>1, <3>2, <3>3 DEF CallbacksRunOnce, Unpublished
  <2>6. \A u \in Threads : my_cbs'[u] = {} \/ Synchronizing(pc'[u])
    BY <1>a, <2>1, <2>2 DEF OnceInv, Synchronizing
  <2> QED
    BY <1>b, <2>2, <2>3, <2>5, <2>6 DEF OnceInv, Objects
<1>7. CASE AllocLock(t) \/ StoreReaderIdx(t) \/ AddZero(t) \/ PriorLock(t)
           \/ SeeZero(t) \/ RetireQp(t) \/ SynchronizeReturn(t)
  <2>1. UNCHANGED <<cb_items, my_cbs, freed, uptr>>
    BY <1>7 DEF AllocLock, StoreReaderIdx, AddZero, PriorLock, SeeZero, RetireQp,
       SynchronizeReturn, lockVars, thrVars, memVars
  <2>2. \A u \in Threads :
           /\ pc'[u] = "w_call" <=> pc[u] = "w_call"
           /\ Synchronizing(pc[u]) => Synchronizing(pc'[u]) \/ my_cbs[u] = {}
    <3>1. CASE AllocLock(t) \/ StoreReaderIdx(t) \/ PriorLock(t) \/ SynchronizeReturn(t)
      BY <1>a, <3>1 DEF AllocLock, StoreReaderIdx, PriorLock, SynchronizeReturn, Goto,
         Synchronizing
    <3>2. CASE AddZero(t) \/ RetireQp(t)
      BY <1>a, <3>2 DEF AddZero, RetireQp, SignalAlloc, Goto, Synchronizing, LockInv
    <3>3. CASE SeeZero(t)
      BY <1>a, <3>3 DEF SeeZero, Synchronizing, LockInv
    <3> QED
      BY <1>7, <3>1, <3>2, <3>3
  <2> QED
    BY <2>1, <2>2, OnceUnchanged
<1> QED
  BY <1>1, <1>2, <1>3, <1>4, <1>5, <1>6, <1>7 DEF Publish, Synchronize

\* A callback queued with ossl_rcu_call is on the list, taken by a call or run,
\* in one of these places and never in none: whichever of several overlapping
\* ossl_synchronize_rcu calls takes it, it is neither lost nor run twice.
THEOREM CallbackRunsOnce == Spec => []CallbacksRunOnce
<1>1. Init => OnceInv
  <2>1. ASSUME Init
        PROVE  /\ CallbacksRunOnce /\ \A o : ~Unpublished(o)
               /\ \A t \in Threads : my_cbs[t] = {}
    BY <2>1 DEF Init, CallbacksRunOnce, Unpublished
  <2> QED
    BY <2>1 DEF OnceInv
<1>2. ASSUME IInv, OnceInv, [Next]_vars PROVE OnceInv'
  <2>1. CASE UNCHANGED vars
    BY <1>2, <2>1, OnceUnchanged DEF vars, lockVars, thrVars, memVars
  <2>2. CASE Next
    BY <1>2, <2>2, OnceStep DEF Next
  <2> QED
    BY <1>2, <2>1, <2>2
<1>3. OnceInv => CallbacksRunOnce
  BY DEF OnceInv
<1> QED
  BY <1>1, <1>2, <1>3, Invariance, PTL DEF Spec

=============================================================================
