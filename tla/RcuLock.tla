------------------------------ MODULE RcuLock ------------------------------
(***************************************************************************)
(* The read-copy-update lock of crypto/threads_pthread.c, used by the      *)
(* lock-free hash table and by the configuration module lists.             *)
(*                                                                         *)
(* One action per atomic memory access or critical section of the code.    *)
(* Memory is weak, as the __ATOMIC_ orders of the code allow:              *)
(*  - reader_idx is the history of the values stored in it.  A thread has  *)
(*    a view: the oldest store a load of its may still return.  A load     *)
(*    picks any store from there on; an acquire load of a store joins the  *)
(*    view that the storing thread released with it.                       *)
(*  - the counters qp_group[q].users only change by read-modify-write      *)
(*    operations, which see the latest value.  A release operation adds    *)
(*    the thread's view to the counter's; an acquire operation joins it.   *)
(*    The plain load in ossl_synchronize_rcu may return any value the      *)
(*    counter had since that thread's own update of it.                    *)
(*  - the protected pointer is the history 0..uptr of the objects stored   *)
(*    in it; object v is the one of the v-th store.                        *)
(* A mutex hands the view of its last holder to the next one.              *)
(***************************************************************************)
EXTENDS Integers, FiniteSets, Sequences

CONSTANTS
    Readers,     \* threads that take the read side
    Writers,     \* threads that publish objects and synchronize
    NumWriters,  \* the argument of ossl_rcu_lock_new
    MaxSync,     \* bound: calls of ossl_synchronize_rcu
    MaxObj,      \* bound: stores to the protected pointer
    MaxDepth     \* bound: nesting of read sections of one thread

Threads == Readers \cup Writers

NoThread == "no thread"

ASSUME ThreadsAssumption == IsFiniteSet(Threads) /\ NoThread \notin Threads
ASSUME NumWritersAssumption == NumWriters \in Int

\* ossl_rcu_lock_new: "We need a minimum of 2 qp's"
group_count == IF NumWriters < 2 THEN 2 ELSE NumWriters

Slots == 0 .. group_count - 1
Objects == Nat

VARIABLES
    pc,                 \* where each thread is
    \* struct rcu_lock_st
    cb_items,           \* objects whose release waits for a synchronize
    id_ctr, next_to_retire, current_alloc_idx, writers_alloced,
    users,              \* qp_group[q].users
    alloc_lock, prior_lock, write_lock,     \* the holder, or NoThread
    alloc_signal, prior_signal,             \* threads in pthread_cond_wait
    \* per thread
    depth,              \* thread_qps[i].depth
    qp,                 \* the slot the thread holds or waits for; 0 if none
    curr_id,            \* local variable of ossl_synchronize_rcu
    my_cbs,             \* its local variable cb_items
    refs,               \* the objects a reader obtained in its read section
    held,               \* the store of reader_idx the read section relies on
    \* memory
    reader_idx,         \* the stores to reader_idx
    usersIdx, usersPtr, \* view released into qp_group[q].users
    sawZero,            \* users was 0 at some time since update_qp's update
    uptr,               \* number of the last store to the protected pointer
    viewIdx, viewPtr,   \* view of each thread: of reader_idx, of the pointer
    allocPtr,           \* view of the pointer handed on by alloc_lock
    freed               \* objects that a callback has released

ctrVars == <<id_ctr, next_to_retire, current_alloc_idx, writers_alloced>>
mtxVars == <<alloc_lock, prior_lock, write_lock, alloc_signal, prior_signal>>
lockVars == <<cb_items, ctrVars, users, mtxVars>>
thrVars == <<depth, qp, curr_id, my_cbs, refs, held>>
memVars == <<reader_idx, usersIdx, usersPtr, sawZero, uptr, viewIdx, viewPtr,
             allocPtr, freed>>
vars == <<pc, lockVars, thrVars, memVars>>

readerPcs == {"rl_load", "rl_add", "rl_check", "rl_sub", "reading"}
writerPcs == {"w_assign", "w_call", "w_unlock", "u_lock", "u_wait",
              "u_store", "u_add0", "p_lock", "p_wait", "p_spin", "r_lock", "s_cb"}
Pcs == {"idle"} \cup readerPcs \cup writerPcs

Later(a, b) == IF a < b THEN b ELSE a

\* The v-th store to reader_idx, from 0 (the zero of ossl_rcu_lock_new): the
\* index stored and the pointer view released with it.  update_qp's store with
\* the id k is store k + 1.
Store(v) == reader_idx[v + 1]

Goto(t, l) == pc' = [pc EXCEPT ![t] = l]

-----------------------------------------------------------------------------
(* ossl_rcu_lock_new: everything zeroed. *)
Init ==
    /\ pc = [t \in Threads |-> "idle"]
    /\ cb_items = {}
    /\ id_ctr = 0 /\ next_to_retire = 0
    /\ current_alloc_idx = 0 /\ writers_alloced = 0
    /\ users = [q \in Slots |-> 0]
    /\ alloc_lock = NoThread /\ prior_lock = NoThread /\ write_lock = NoThread
    /\ alloc_signal = {} /\ prior_signal = {}
    /\ depth = [t \in Threads |-> 0]
    /\ qp = [t \in Threads |-> 0]
    /\ curr_id = [t \in Threads |-> 0]
    /\ my_cbs = [t \in Threads |-> {}]
    /\ refs = [t \in Threads |-> {}]
    /\ held = [t \in Threads |-> 0]
    /\ reader_idx = <<[val |-> 0, ptr |-> 0]>>
    /\ usersIdx = [q \in Slots |-> 0] /\ usersPtr = [q \in Slots |-> 0]
    /\ sawZero = [q \in Slots |-> FALSE]
    /\ uptr = 0
    /\ viewIdx = [t \in Threads |-> 0] /\ viewPtr = [t \in Threads |-> 0]
    /\ allocPtr = 0
    /\ freed = {}

-----------------------------------------------------------------------------
(* The read side. *)

\* ossl_rcu_read_lock when the thread does not hold the lock yet.
ReadLock(t) ==
    /\ t \in Readers
    /\ pc[t] = "idle"
    /\ Goto(t, "rl_load")
    /\ UNCHANGED <<lockVars, thrVars, memVars>>

\* ossl_rcu_read_lock when it does: only the depth changes.
ReadLockAgain(t) ==
    /\ pc[t] = "reading"
    /\ depth[t] < MaxDepth
    /\ depth' = [depth EXCEPT ![t] = @ + 1]
    /\ UNCHANGED <<pc, lockVars, qp, curr_id, my_cbs, refs, held, memVars>>

\* get_hold_current_qp: the relaxed load of reader_idx.
LoadReaderIdx(t) ==
    /\ pc[t] = "rl_load"
    /\ \E v \in viewIdx[t] .. id_ctr :
        /\ qp' = [qp EXCEPT ![t] = Store(v).val]
        /\ viewIdx' = [viewIdx EXCEPT ![t] = v]
    /\ Goto(t, "rl_add")
    /\ UNCHANGED <<lockVars, depth, curr_id, my_cbs, refs, held, reader_idx,
                   usersIdx, usersPtr, sawZero, uptr, allocPtr, freed, viewPtr>>

AddUserRelaxed(t) ==
    /\ pc[t] = "rl_add"
    /\ users' = [users EXCEPT ![qp[t]] = @ + 1]
    /\ Goto(t, "rl_check")
    /\ UNCHANGED <<cb_items, ctrVars, mtxVars, thrVars, memVars>>

\* get_hold_current_qp: ATOMIC_ADD_FETCH(users, 1, ACQUIRE).
AddUser(t) ==
    /\ pc[t] = "rl_add"
    /\ users' = [users EXCEPT ![qp[t]] = @ + 1]
    /\ viewIdx' = [viewIdx EXCEPT ![t] = Later(@, usersIdx[qp[t]])]
    /\ viewPtr' = [viewPtr EXCEPT ![t] = Later(@, usersPtr[qp[t]])]
    /\ Goto(t, "rl_check")
    /\ UNCHANGED <<cb_items, ctrVars, mtxVars, thrVars, reader_idx, usersIdx,
                   usersPtr, sawZero, uptr, allocPtr, freed>>

\* get_hold_current_qp: the acquire re-load; ossl_rcu_read_lock then records
\* the hold with depth 1.
CheckReaderIdx(t) ==
    /\ pc[t] = "rl_check"
    /\ \E v \in viewIdx[t] .. id_ctr :
        /\ viewIdx' = [viewIdx EXCEPT ![t] = v]
        /\ viewPtr' = [viewPtr EXCEPT ![t] = Later(@, Store(v).ptr)]
        /\ \/ /\ Store(v).val = qp[t]
              /\ held' = [held EXCEPT ![t] = v]
              /\ depth' = [depth EXCEPT ![t] = 1]
              /\ Goto(t, "reading")
           \/ /\ Store(v).val # qp[t]
              /\ Goto(t, "rl_sub")
              /\ UNCHANGED <<held, depth>>
    /\ UNCHANGED <<lockVars, qp, curr_id, my_cbs, refs, reader_idx, usersIdx,
                   usersPtr, sawZero, uptr, allocPtr, freed>>

\* get_hold_current_qp: the relaxed decrement before the retry.  (A local that
\* the code does not read again is reset to 0, here and in the returns below.)
DropCountKept(q) == users[q]
DropCount(q) == users[q] - 1

SubUser(t) ==
    /\ pc[t] = "rl_sub"
    /\ users' = [users EXCEPT ![qp[t]] = DropCount(qp[t])]
    /\ sawZero' = [sawZero EXCEPT ![qp[t]] = @ \/ users'[qp[t]] = 0]
    /\ qp' = [qp EXCEPT ![t] = 0]
    /\ Goto(t, "rl_load")
    /\ UNCHANGED <<cb_items, ctrVars, mtxVars, depth, curr_id, my_cbs, refs, held, reader_idx, usersIdx,
                   usersPtr, uptr, viewIdx, viewPtr, allocPtr, freed>>

\* ossl_rcu_uptr_deref in a read section; the reader keeps what it obtained.
Deref(t) ==
    /\ pc[t] = "reading"
    /\ \E v \in viewPtr[t] .. uptr :
        /\ refs' = [refs EXCEPT ![t] = @ \cup {v}]
        /\ viewPtr' = [viewPtr EXCEPT ![t] = v]
    /\ UNCHANGED <<pc, lockVars, depth, qp, curr_id, my_cbs, held, reader_idx,
                   usersIdx, usersPtr, sawZero, uptr, allocPtr, freed, viewIdx>>

\* ossl_rcu_read_unlock of a nested section.
ReadUnlockInner(t) ==
    /\ pc[t] = "reading"
    /\ depth[t] > 1
    /\ depth' = [depth EXCEPT ![t] = @ - 1]
    /\ UNCHANGED <<pc, lockVars, qp, curr_id, my_cbs, refs, held, memVars>>

\* ossl_rcu_read_unlock of the outermost one: ATOMIC_SUB_FETCH(RELEASE).
ReadUnlock(t) ==
    /\ pc[t] = "reading"
    /\ depth[t] = 1
    /\ depth' = [depth EXCEPT ![t] = 0]
    /\ users' = [users EXCEPT ![qp[t]] = @ - 1]
    /\ sawZero' = [sawZero EXCEPT ![qp[t]] = @ \/ users'[qp[t]] = 0]
    /\ usersIdx' = [usersIdx EXCEPT ![qp[t]] = Later(@, viewIdx[t])]
    /\ usersPtr' = [usersPtr EXCEPT ![qp[t]] = Later(@, viewPtr[t])]
    /\ refs' = [refs EXCEPT ![t] = {}]
    /\ qp' = [qp EXCEPT ![t] = 0] /\ held' = [held EXCEPT ![t] = 0]
    /\ Goto(t, "idle")
    /\ UNCHANGED <<cb_items, ctrVars, mtxVars, curr_id, my_cbs,
                   reader_idx, uptr, viewIdx, viewPtr, allocPtr, freed>>

-----------------------------------------------------------------------------
(* Publishing a new object: write_lock, assign, rcu_call, write_unlock. *)

\* ossl_rcu_write_lock.  Every store of the pointer is made under this lock,
\* so its holder sees the last one.
WriteLock(t) ==
    /\ t \in Writers
    /\ pc[t] = "idle"
    /\ uptr < MaxObj
    /\ write_lock = NoThread
    /\ write_lock' = t
    /\ viewPtr' = [viewPtr EXCEPT ![t] = uptr]
    /\ Goto(t, "w_assign")
    /\ UNCHANGED <<cb_items, ctrVars, users, alloc_lock, prior_lock,
                   alloc_signal, prior_signal, thrVars, reader_idx, usersIdx,
                   usersPtr, sawZero, uptr, allocPtr, freed, viewIdx>>

\* ossl_rcu_assign_uptr: the release store of the next object.
Assign(t) ==
    /\ pc[t] = "w_assign"
    /\ uptr' = uptr + 1
    /\ viewPtr' = [viewPtr EXCEPT ![t] = uptr + 1]
    /\ Goto(t, "w_call")
    /\ UNCHANGED <<lockVars, thrVars, reader_idx, usersIdx, usersPtr, sawZero,
                   allocPtr, freed, viewIdx>>

\* new->next = lock->cb_items; lock->cb_items = new
QueuedAlone(o) == {o}
Queued(o) == cb_items \cup {o}

\* ossl_rcu_call with the object just replaced.
RcuCall(t) ==
    /\ pc[t] = "w_call"
    /\ cb_items' = Queued(uptr - 1)
    /\ Goto(t, "w_unlock")
    /\ UNCHANGED <<ctrVars, users, mtxVars, thrVars, memVars>>

\* ossl_rcu_write_unlock; the caller may synchronize now or leave the item
\* for a later synchronize of any thread.
WriteUnlock(t) ==
    /\ pc[t] = "w_unlock"
    /\ write_lock' = NoThread
    /\ Goto(t, "idle")
    /\ UNCHANGED <<cb_items, ctrVars, users, alloc_lock, prior_lock,
                   alloc_signal, prior_signal, thrVars, memVars>>

-----------------------------------------------------------------------------
(* ossl_synchronize_rcu. *)

\* Takes the pending callbacks under write_lock.  IdsLeft bounds the run: it
\* counts the calls under way that have no id yet.
IdsLeft == id_ctr + Cardinality({t \in Writers :
               pc[t] \in {"u_lock", "u_wait", "u_store"}}) < MaxSync

\* cb_items = lock->cb_items; lock->cb_items = NULL
ItemsLeft == {}

TakeCallbacks(t) ==
    /\ t \in Writers
    /\ pc[t] = "idle"
    /\ IdsLeft
    /\ write_lock = NoThread
    /\ my_cbs' = [my_cbs EXCEPT ![t] = cb_items]
    /\ cb_items' = ItemsLeft
    /\ viewPtr' = [viewPtr EXCEPT ![t] = uptr]
    /\ Goto(t, "u_lock")
    /\ UNCHANGED <<ctrVars, users, mtxVars, depth, qp, curr_id, refs, held,
                   reader_idx, usersIdx, usersPtr, sawZero, uptr, allocPtr, freed,
                   viewIdx>>

\* update_qp: the loop condition, and the increment of the allocation index.
NoQpLeftOver == group_count - writers_alloced < 1
NoQpAvailable == group_count - writers_alloced < 2

NextIdxUnwrapped(i) == i + 1
NextIdx(i) == (i + 1) % group_count

\* update_qp: lock alloc_lock (first, or again in pthread_cond_wait) and test
\* the loop condition.
AllocLock(t) ==
    /\ pc[t] = "u_lock"
    /\ alloc_lock = NoThread
    /\ viewPtr' = [viewPtr EXCEPT ![t] = Later(@, allocPtr)]
    /\ \/ /\ NoQpAvailable
          /\ alloc_signal' = alloc_signal \cup {t}
          /\ Goto(t, "u_wait")
          /\ UNCHANGED alloc_lock
       \/ /\ ~NoQpAvailable
          /\ alloc_lock' = t
          /\ Goto(t, "u_store")
          /\ UNCHANGED alloc_signal
    /\ UNCHANGED <<cb_items, ctrVars, users, prior_lock, write_lock,
                   prior_signal, thrVars, reader_idx, usersIdx, usersPtr, sawZero,
                   uptr, allocPtr, freed, viewIdx>>

\* update_qp: allocate the current qp and redirect the readers to the next.
StoreReaderIdx(t) ==
    /\ pc[t] = "u_store"
    /\ qp' = [qp EXCEPT ![t] = current_alloc_idx]
    /\ writers_alloced' = writers_alloced + 1
    /\ current_alloc_idx' = NextIdx(current_alloc_idx)
    /\ curr_id' = [curr_id EXCEPT ![t] = id_ctr]
    /\ id_ctr' = id_ctr + 1
    /\ reader_idx' = Append(reader_idx, [val |-> current_alloc_idx',
                                         ptr |-> viewPtr[t]])
    /\ viewIdx' = [viewIdx EXCEPT ![t] = id_ctr + 1]
    /\ Goto(t, "u_add0")
    /\ UNCHANGED <<cb_items, next_to_retire, users, mtxVars, depth, my_cbs,
                   refs, held, usersIdx, usersPtr, sawZero, uptr, allocPtr, freed,
                   viewPtr>>

\* pthread_cond_signal(&alloc_signal): one waiter, if any, runs on.  The
\* caller t goes to label l.
SignalNobody(t, l) == Goto(t, l) /\ UNCHANGED alloc_signal
SignalAlloc(t, l) ==
    \/ /\ alloc_signal = {}
       /\ Goto(t, l)
       /\ UNCHANGED alloc_signal
    \/ \E w \in alloc_signal :
        /\ alloc_signal' = alloc_signal \ {w}
        /\ pc' = [pc EXCEPT ![t] = l, ![w] = "u_lock"]

\* update_qp: ATOMIC_ADD_FETCH(users, 0, RELEASE), signal, unlock.
NotReleased(t) == usersIdx[qp[t]]
ReleasedIdx(t) == Later(usersIdx[qp[t]], viewIdx[t])

AddZero(t) ==
    /\ pc[t] = "u_add0"
    /\ usersIdx' = [usersIdx EXCEPT ![qp[t]] = ReleasedIdx(t)]
    /\ usersPtr' = [usersPtr EXCEPT ![qp[t]] = Later(@, viewPtr[t])]
    /\ sawZero' = [sawZero EXCEPT ![qp[t]] = users[qp[t]] = 0]
    /\ SignalAlloc(t, "p_lock")
    /\ alloc_lock' = NoThread
    /\ allocPtr' = viewPtr[t]
    /\ UNCHANGED <<cb_items, ctrVars, users, prior_lock, write_lock,
                   prior_signal, thrVars, reader_idx, uptr, viewIdx, viewPtr,
                   freed>>

\* Lock prior_lock (first, or again in pthread_cond_wait) and test the loop
\* condition.
AnyTurn(t) == TRUE
MyTurn(t) == next_to_retire = curr_id[t]

PriorLock(t) ==
    /\ pc[t] = "p_lock"
    /\ prior_lock = NoThread
    /\ \/ /\ ~MyTurn(t)
          /\ prior_signal' = prior_signal \cup {t}
          /\ Goto(t, "p_wait")
          /\ UNCHANGED prior_lock
       \/ /\ MyTurn(t)
          /\ prior_lock' = t
          /\ Goto(t, "p_spin")
          /\ UNCHANGED prior_signal
    /\ UNCHANGED <<cb_items, ctrVars, users, alloc_lock, write_lock,
                   alloc_signal, thrVars, memVars>>

\* The load of users returned 0: next_to_retire++, broadcast, unlock.  (What
\* this acquire load adds to the view is left out: a smaller view allows more.)
SeeZero(t) ==
    /\ pc[t] = "p_spin"
    /\ sawZero[qp[t]]
    /\ next_to_retire' = next_to_retire + 1
    /\ prior_signal' = {}
    /\ pc' = [u \in Threads |-> IF u = t THEN "r_lock"
                                ELSE IF u \in prior_signal THEN "p_lock"
                                ELSE pc[u]]
    /\ prior_lock' = NoThread
    /\ UNCHANGED <<cb_items, id_ctr, current_alloc_idx, writers_alloced, users,
                   alloc_lock, write_lock, alloc_signal, thrVars, memVars>>

\* retire_qp.
RetireQp(t) ==
    /\ pc[t] = "r_lock"
    /\ alloc_lock = NoThread
    /\ writers_alloced' = writers_alloced - 1
    /\ SignalAlloc(t, "s_cb")
    /\ viewPtr' = [viewPtr EXCEPT ![t] = Later(@, allocPtr)]
    /\ allocPtr' = viewPtr'[t]
    /\ UNCHANGED <<cb_items, id_ctr, next_to_retire, current_alloc_idx, users,
                   alloc_lock, prior_lock, write_lock, prior_signal, thrVars,
                   reader_idx, usersIdx, usersPtr, sawZero, uptr, freed, viewIdx>>

\* One callback: the object is released.
RunCallback(t) ==
    /\ pc[t] = "s_cb"
    /\ \E o \in my_cbs[t] :
        /\ my_cbs' = [my_cbs EXCEPT ![t] = @ \ {o}]
        /\ freed' = freed \cup {o}
    /\ UNCHANGED <<pc, lockVars, depth, qp, curr_id, refs, held, reader_idx,
                   usersIdx, usersPtr, sawZero, uptr, viewIdx, viewPtr, allocPtr>>

\* No callback left: ossl_synchronize_rcu returns.
SynchronizeReturn(t) ==
    /\ pc[t] = "s_cb"
    /\ my_cbs[t] = {}
    /\ Goto(t, "idle")
    /\ qp' = [qp EXCEPT ![t] = 0] /\ curr_id' = [curr_id EXCEPT ![t] = 0]
    /\ UNCHANGED <<lockVars, depth, my_cbs, refs, held, memVars>>

-----------------------------------------------------------------------------
GetHoldCurrentQp(t) ==
    LoadReaderIdx(t) \/ AddUser(t) \/ CheckReaderIdx(t) \/ SubUser(t)

ReadSide(t) ==
    ReadLock(t) \/ ReadLockAgain(t) \/ GetHoldCurrentQp(t) \/ Deref(t)
    \/ ReadUnlockInner(t) \/ ReadUnlock(t)

Publish(t) == WriteLock(t) \/ Assign(t) \/ RcuCall(t) \/ WriteUnlock(t)

Synchronize(t) ==
    AllocLock(t) \/ StoreReaderIdx(t) \/ AddZero(t) \/ PriorLock(t)
    \/ SeeZero(t) \/ RetireQp(t) \/ RunCallback(t) \/ SynchronizeReturn(t)

Next == \E t \in Threads :
    ReadSide(t) \/ Publish(t) \/ TakeCallbacks(t) \/ Synchronize(t)

Spec == Init /\ [][Next]_vars

(* What the code and its callers owe: a thread inside a function goes on, and *)
(* a reader ends its read section, whatever it nests in it.  Nobody is obliged *)
(* to start an operation.                                                      *)
Fairness ==
    /\ \A t \in Readers : /\ WF_vars(GetHoldCurrentQp(t))
                         /\ WF_vars(ReadUnlockInner(t)) /\ SF_vars(ReadUnlock(t))
    /\ \A t \in Writers : /\ WF_vars(Assign(t) \/ RcuCall(t) \/ WriteUnlock(t))
                         /\ WF_vars(Synchronize(t))

FairSpec == Spec /\ Fairness

-----------------------------------------------------------------------------
(* Properties *)

TypeLock ==
    /\ cb_items \subseteq Objects
    /\ id_ctr \in Nat /\ next_to_retire \in Nat
    /\ current_alloc_idx \in Slots /\ writers_alloced \in Nat
    /\ users \in [Slots -> Nat]
    /\ alloc_lock \in Threads \cup {NoThread}
    /\ prior_lock \in Threads \cup {NoThread}
    /\ write_lock \in Threads \cup {NoThread}
    /\ alloc_signal \subseteq Threads /\ prior_signal \subseteq Threads

TypeThread ==
    /\ depth \in [Threads -> Nat]
    /\ qp \in [Threads -> Slots]
    /\ curr_id \in [Threads -> Nat]
    /\ my_cbs \in [Threads -> SUBSET Objects]
    /\ refs \in [Threads -> SUBSET Objects]
    /\ held \in [Threads -> Nat]

TypeMemory ==
    /\ reader_idx \in Seq([val : Slots, ptr : Objects])
    /\ Len(reader_idx) = id_ctr + 1
    /\ usersIdx \in [Slots -> Nat] /\ usersPtr \in [Slots -> Objects]
    /\ sawZero \in [Slots -> BOOLEAN]
    /\ uptr \in Objects
    /\ viewIdx \in [Threads -> Nat] /\ viewPtr \in [Threads -> Objects]
    /\ allocPtr \in Objects
    /\ freed \subseteq Objects

\* Every variable keeps its type.  A slot index stays below group_count however
\* often update_qp moves on, and reader_idx has one store per id handed out.
TypeOK == pc \in [Threads -> Pcs] /\ TypeLock /\ TypeThread /\ TypeMemory

\* The promise of the lock: an object a reader obtained in a read section is
\* not released by a callback before that section ends.
NoUseAfterFree == \A t \in Threads : refs[t] \cap freed = {}

\* Threads that have added 1 to qp_group[q].users and not taken it back.
Holders(q) == {t \in Threads :
                 pc[t] \in {"rl_check", "rl_sub", "reading"} /\ qp[t] = q}

\* Threads between the store of reader_idx in update_qp and the end of the
\* wait for the readers of their qp.
Waiting == {t \in Threads :
              pc[t] \in {"u_add0", "p_lock", "p_wait", "p_spin"}}

\* Every counter is the number of its holders: ossl_rcu_read_unlock's
\* OPENSSL_assert(ret != UINT64_MAX) cannot fire.
UsersExact == \A q \in Slots : users[q] = Cardinality(Holders(q))

\* update_qp: readers always have a qp "that isn't yet being waited on", and
\* no two calls wait on the same qp.
ReadersHaveFreeQp ==
    /\ \A t \in Waiting : qp[t] # current_alloc_idx
    /\ \A t, u \in Waiting : t # u => qp[t] # qp[u]

\* No callback is lost and none runs twice.  Every object replaced so far has
\* its release on the list, taken by a call, or done, but for the one a writer
\* is about to pass to ossl_rcu_call; and it is in one of these places only.
CallbacksRunOnce ==
    /\ \A o \in 0 .. uptr - 1 :
        \/ o \in cb_items \cup freed
        \/ \E t \in Threads : o \in my_cbs[t]
        \/ \E t \in Threads : pc[t] = "w_call" /\ o = uptr - 1
    /\ cb_items \cap freed = {}
    /\ \A t \in Threads : my_cbs[t] \cap (cb_items \cup freed) = {}
    /\ \A t, u \in Threads : t # u => my_cbs[t] \cap my_cbs[u] = {}

\* next_to_retire moves past an id only when no read section entered through
\* a store of reader_idx of that id or earlier is left.
GracePeriod ==
    [][next_to_retire' # next_to_retire =>
         \A t \in Threads : pc[t] = "reading" => held[t] > next_to_retire]_vars

\* ossl_synchronize_rcu returns, if read sections end.
SynchronizeReturns == \A t \in Writers : pc[t] = "u_lock" ~> pc[t] = "idle"

-----------------------------------------------------------------------------
(* The inductive invariant behind these properties. *)

Alloced == Waiting \cup {t \in Threads : pc[t] = "r_lock"}

\* Waiting threads whose update of users is done.
Added == {t \in Threads : pc[t] \in {"p_lock", "p_wait", "p_spin"}}

LockInv ==
    \A t \in Threads :
        /\ alloc_lock = t <=> pc[t] \in {"u_store", "u_add0"}
        /\ prior_lock = t <=> pc[t] = "p_spin"
        /\ write_lock = t <=> pc[t] \in {"w_assign", "w_call", "w_unlock"}
        /\ t \in alloc_signal <=> pc[t] = "u_wait"
        /\ t \in prior_signal <=> pc[t] = "p_wait"

\* Ids and qps: the waiting calls own the ids next_to_retire .. id_ctr - 1,
\* one each, fewer than there are qps.
IdInv ==
    /\ writers_alloced = Cardinality(Alloced)
    /\ writers_alloced < group_count
    /\ \A t \in Threads : pc[t] = "u_store" => writers_alloced + 1 < group_count
    /\ id_ctr = next_to_retire + Cardinality(Waiting)
    /\ \A t \in Waiting : /\ curr_id[t] >= next_to_retire
                          /\ curr_id[t] < id_ctr
                          /\ qp[t] = curr_id[t] % group_count
    /\ \A t, u \in Waiting : t # u => curr_id[t] # curr_id[u]
    /\ \A t \in Threads : pc[t] = "p_spin" => curr_id[t] = next_to_retire

\* The stores to reader_idx go round the qps and release ever later pointers.
StoreInv ==
    /\ current_alloc_idx = id_ctr % group_count
    /\ \A v \in 0 .. id_ctr : /\ Store(v).val = v % group_count
                              /\ Store(v).ptr =< uptr
    /\ \A v, w \in 0 .. id_ctr : v =< w => Store(v).ptr =< Store(w).ptr

\* What the threads, the mutexes and the counters are known to have seen.
ViewInv ==
    /\ \A t \in Threads : viewIdx[t] =< id_ctr /\ viewPtr[t] =< uptr
    /\ allocPtr =< uptr
    /\ alloc_lock = NoThread => allocPtr >= Store(id_ctr).ptr
    /\ \A t \in Threads :
        /\ pc[t] \in {"u_store", "u_add0"} => viewPtr[t] >= Store(id_ctr).ptr
        /\ pc[t] = "u_add0" => viewIdx[t] > curr_id[t]
    /\ \A q \in Slots : usersIdx[q] =< id_ctr /\ usersPtr[q] =< uptr
    /\ \A k \in 0 .. next_to_retire - 1 : usersIdx[k % group_count] > k
    /\ \A w \in Added : usersIdx[qp[w]] > curr_id[w]

\* A reader about to re-load reader_idx cannot load a store of a retired id.
CheckInv ==
    \A t \in Threads : pc[t] = "rl_check" =>
        \A k \in 0 .. next_to_retire - 1 :
            k % group_count = qp[t] => viewIdx[t] > k

\* A read section relies on a store that is not retired, and on pointers at
\* least as late as that store released.
ReadingInv ==
    \A t \in Threads :
        /\ pc[t] = "reading" =>
             /\ next_to_retire =< held[t] /\ held[t] =< id_ctr
             /\ qp[t] = held[t] % group_count
             /\ viewPtr[t] >= Store(held[t]).ptr
             /\ \A o \in refs[t] : o >= Store(held[t]).ptr
        /\ pc[t] # "reading" => refs[t] = {}

\* Once a waiting call can see its counter at zero, whoever holds it will drop
\* it again without reading.
ZeroInv ==
    \A w \in Added : sawZero[qp[w]] =>
        \A t \in Holders(qp[w]) :
            \/ pc[t] = "rl_sub"
            \/ pc[t] = "rl_check" /\ viewIdx[t] > curr_id[w]

\* Objects on their way to release were unpublished before the store that
\* their release waits for.
ObjectInv ==
    /\ \A t \in Threads :
        /\ pc[t] = "w_call" => uptr > 0
        /\ pc[t] \in {"u_lock", "u_wait", "u_store"} =>
              \A o \in my_cbs[t] : o < viewPtr[t]
        /\ t \in Waiting => \A o \in my_cbs[t] : o < Store(curr_id[t] + 1).ptr
        /\ pc[t] \in {"r_lock", "s_cb"} =>
              \A o \in my_cbs[t] : o < Store(next_to_retire).ptr
    /\ \A o \in cb_items : o < uptr
    /\ \A o \in freed : o < Store(next_to_retire).ptr

\* All of it: inductive, and it implies the invariants above.  It ties each
\* ossl_synchronize_rcu call to the id, the qp and the store of reader_idx that
\* it owns, and each read section to a store that no call has retired.
IInv == TypeOK /\ LockInv /\ IdInv /\ StoreInv /\ ViewInv /\ UsersExact
        /\ CheckInv /\ ReadingInv /\ ZeroInv /\ ObjectInv

=============================================================================
