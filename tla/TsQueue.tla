------------------------------- MODULE TsQueue -------------------------------
(***************************************************************************)
(* The pthread port of the thread-safe queue                               *)
(* (inc/cutils/pthread/ts_queue.h) with the mutex it takes                 *)
(* (inc/cutils/pthread/mutex.h). The c11 port has the same control.        *)
(*                                                                         *)
(* A call is the run of one thread through the steps of the function:      *)
(*                                                                         *)
(*    idle -> lock -> test -> access -> count -> signal -> unlock -> idle  *)
(*                     |^                                    ^             *)
(*                     v|                                    |             *)
(*           waiting -> woken        (timed out: test -> unlock)           *)
(*                                                                         *)
(* A NO_SLEEP call is a timed call whose deadline has passed.              *)
(***************************************************************************)
EXTENDS Integers, FiniteSets

CONSTANTS
    Producers,      \* threads that call ts_queue_enqueue
    Consumers,      \* threads that call ts_queue_dequeue
    Items,          \* the non-NULL pointers that are queued
    NoItem,         \* the NULL pointer
    NoThread,       \* "owner" of a free mutex
    Size,           \* number of slots of pp_ptr_array
    Waits,          \* the timeouts callers use: "forever", "timed"
    LockDeadlines,  \* whether mutex_lock's deadline is a "valid" timespec or
                    \* an "invalid" one (tv_nsec beyond 10^9)
    WaitDeadlines,  \* the same of the deadline of a timed call's wait
    MaxCalls        \* bound: the number of calls each thread makes

Threads == Producers \cup Consumers

ASSUME SizeAssumption ==
    /\ Size \in Nat \ {0}
    /\ \E k \in 0..Size : Size = 2^k

ASSUME ConstantsAssumption ==
    /\ MaxCalls \in Nat
    /\ IsFiniteSet(Threads)
    /\ NoThread \notin Threads
    /\ NoItem \notin Items
    /\ Waits \subseteq {"forever", "timed"}
    /\ LockDeadlines \subseteq {"valid", "invalid"}
    /\ WaitDeadlines \subseteq {"valid", "invalid"}

VARIABLES
    head,       \* the number of slots claimed by enqueues so far
    tail,       \* the number of slots claimed by dequeues so far
    count,      \* p_queue->count
    array,      \* pp_ptr_array
    mtx,        \* the thread that owns the mutex, or NoThread
    waiters,    \* the threads blocked on cnd and on full_cnd
    pc,         \* pc[t]: the step thread t is at
    call,       \* call[t]: the arguments of thread t's call
    dl,         \* dl[t]: the deadlines thread t's call computed
    rval,       \* rval[t]: the last result of a condition wait
    slot,       \* slot[t]: the slot thread t claimed
    ret,        \* ret[t]: *pp_item of thread t's last dequeue
    retval,     \* retval[t]: the function's result
    left        \* left[t]: how many more calls thread t makes

ring == <<head, tail, count, array>>
sync == <<mtx, waiters>>
local == <<call, dl, slot, ret, retval, left>>
vars == <<head, tail, count, array, mtx, waiters, pc, call, dl, rval, slot,
          ret, retval, left>>

EnqueueCalls == [kind : {"enqueue"}, item : Items, wait : Waits]
DequeueCalls == [kind : {"dequeue"}, item : {NoItem}, wait : Waits]
Deadlines == [lock : LockDeadlines, wait : WaitDeadlines]

IsEnqueue(t) == call[t].kind = "enqueue"

\* Mutation: the full test off by one.
FullOffByOne == tail + Size < head

Full == tail + Size <= head
Empty == tail >= head
Index(n) == n % Size

-----------------------------------------------------------------------------
(* The mutex. mutex_lock turns WAIT_FOREVER into the deadline now plus     *)
(* 2^32-1 ms, adds its 295 ms to tv_nsec and does not carry: 295 ms of     *)
(* every second it hands pthread_mutex_timedlock an invalid timespec,      *)
(* which a contended mutex answers with EINVAL. A normal pthread mutex     *)
(* does not check its owner, so unlocking always frees it. The wait of 49  *)
(* days that a valid deadline allows is never over.                        *)

MutexLock(t) == mtx = NoThread /\ mtx' = t

MutexLockFails(t) ==
    /\ mtx # NoThread
    /\ dl[t].lock = "invalid"
    /\ UNCHANGED mtx

MutexUnlock == mtx' = NoThread

(* Condition variables (pthread). A wait frees the mutex and blocks in one *)
(* step; a signal wakes one blocked thread, if there is one.               *)

CondBlock(t, c) ==
    /\ waiters' = [waiters EXCEPT ![c] = @ \cup {t}]
    /\ MutexUnlock

CondSignal(c) ==
    \/ /\ waiters[c] = {}
       /\ UNCHANGED <<waiters, rval>>
    \/ \E w \in waiters[c] :
        /\ waiters' = [waiters EXCEPT ![c] = @ \ {w}]
        /\ rval' = [rval EXCEPT ![w] = "ok"]

-----------------------------------------------------------------------------
(* ts_queue_init: an empty queue. Nobody has made a call yet.              *)
Init ==
    /\ head = 0 /\ tail = 0 /\ count = 0
    /\ array = [i \in 0..Size-1 |-> NoItem]
    /\ mtx = NoThread
    /\ waiters = [c \in {"cnd", "full_cnd"} |-> {}]
    /\ pc = [t \in Threads |-> "idle"]
    /\ call \in {[t \in Threads |-> c] : c \in DequeueCalls}
    /\ dl \in {[t \in Threads |-> d] : d \in Deadlines}
    /\ rval = [t \in Threads |-> "ok"]
    /\ slot = [t \in Threads |-> 0]
    /\ ret = [t \in Threads |-> NoItem]
    /\ retval = [t \in Threads |-> FALSE]
    /\ left = [t \in Threads |-> MaxCalls]

Goto(t, from, to) == pc[t] = from /\ pc' = [pc EXCEPT ![t] = to]

\* Thread t calls the function: deadlines from the clock, retval = false.
Begin(t, calls) ==
    /\ Goto(t, "idle", "lock")
    /\ left[t] > 0
    /\ left' = [left EXCEPT ![t] = @ - 1]
    /\ \E c \in calls : call' = [call EXCEPT ![t] = c]
    /\ \E d \in Deadlines : dl' = [dl EXCEPT ![t] = d]
    /\ rval' = [rval EXCEPT ![t] = "ok"]
    /\ retval' = [retval EXCEPT ![t] = FALSE]
    /\ ret' = [ret EXCEPT ![t] = NoItem]
    /\ UNCHANGED <<ring, sync, slot>>

ts_queue_enqueue(t) == t \in Producers /\ Begin(t, EnqueueCalls)

ts_queue_dequeue(t) == t \in Consumers /\ Begin(t, DequeueCalls)

\* mutex_lock(&p_queue->mtx, WAIT_FOREVER): its result is not looked at.
Lock(t) ==
    /\ Goto(t, "lock", "test")
    /\ MutexLock(t) \/ MutexLockFails(t)
    /\ UNCHANGED <<ring, waiters, rval, local>>

\* Mutation: the loop does not look for a timeout.
DequeueMustWaitNoTimeout(t) == Empty

\* The conditions of the two while loops.
EnqueueMustWait(t) == Full /\ rval[t] # "ETIMEDOUT"
DequeueMustWait(t) == Empty /\ rval[t] # "ETIMEDOUT"

\* pthread_cond_wait, or pthread_cond_timedwait with a valid deadline.
Sleep(t, c) ==
    /\ call[t].wait = "forever" \/ dl[t].wait = "valid"
    /\ Goto(t, "test", "waiting")
    /\ CondBlock(t, c)
    /\ UNCHANGED <<ring, rval, local>>

\* pthread_cond_timedwait with an invalid deadline: EINVAL at once, with the
\* mutex still held, and the loop goes round.
Spin(t) ==
    /\ call[t].wait = "timed" /\ dl[t].wait = "invalid"
    /\ Goto(t, "test", "test")
    /\ rval' = [rval EXCEPT ![t] = "EINVAL"]
    /\ UNCHANGED <<ring, sync, local>>

EnqueueWait(t) ==
    IsEnqueue(t) /\ EnqueueMustWait(t) /\ (Sleep(t, "full_cnd") \/ Spin(t))

DequeueWait(t) ==
    ~IsEnqueue(t) /\ DequeueMustWait(t) /\ (Sleep(t, "cnd") \/ Spin(t))

\* atomic_fetch_add(&p_queue->head, 1) yields the slot to write.
EnqueueClaim(t) ==
    /\ IsEnqueue(t)
    /\ ~EnqueueMustWait(t)
    /\ rval[t] # "ETIMEDOUT"
    /\ Goto(t, "test", "access")
    /\ slot' = [slot EXCEPT ![t] = Index(head)]
    /\ head' = head + 1
    /\ UNCHANGED <<tail, count, array, sync, rval, call, dl, ret, retval, left>>

\* atomic_fetch_add(&p_queue->tail, 1) yields the slot to read.
DequeueClaim(t) ==
    /\ ~IsEnqueue(t)
    /\ ~DequeueMustWait(t)
    /\ rval[t] = "ok"
    /\ Goto(t, "test", "access")
    /\ slot' = [slot EXCEPT ![t] = Index(tail)]
    /\ tail' = tail + 1
    /\ UNCHANGED <<head, count, array, sync, rval, call, dl, ret, retval, left>>

\* The call timed out (or, for a dequeue, its wait failed): retval is false.
EnqueueGiveUp(t) ==
    /\ IsEnqueue(t)
    /\ rval[t] = "ETIMEDOUT"
    /\ Goto(t, "test", "unlock")
    /\ UNCHANGED <<ring, sync, rval, local>>

DequeueGiveUp(t) ==
    /\ ~IsEnqueue(t)
    /\ ~DequeueMustWait(t)
    /\ rval[t] # "ok"
    /\ Goto(t, "test", "unlock")
    /\ UNCHANGED <<ring, sync, rval, local>>

EnqueueStore(t) ==
    /\ IsEnqueue(t)
    /\ Goto(t, "access", "count")
    /\ array' = [array EXCEPT ![slot[t]] = call[t].item]
    /\ UNCHANGED <<head, tail, count, sync, rval, local>>

\* Mutation: the slot is looked up again after tail has moved on.
DequeueLoadLate(t) ==
    /\ ~IsEnqueue(t)
    /\ Goto(t, "access", "count")
    /\ ret' = [ret EXCEPT ![t] = array[Index(tail)]]
    /\ UNCHANGED <<ring, sync, rval, call, dl, slot, retval, left>>

DequeueLoad(t) ==
    /\ ~IsEnqueue(t)
    /\ Goto(t, "access", "count")
    /\ ret' = [ret EXCEPT ![t] = array[slot[t]]]
    /\ UNCHANGED <<ring, sync, rval, call, dl, slot, retval, left>>

\* Mutation: the mutex is released before the condition variable is signalled.
EnqueueCountUnlocks(t) ==
    /\ IsEnqueue(t)
    /\ Goto(t, "count", "signal")
    /\ count' = count + 1
    /\ MutexUnlock
    /\ UNCHANGED <<head, tail, array, waiters, rval, local>>

EnqueueCount(t) ==
    /\ IsEnqueue(t)
    /\ Goto(t, "count", "signal")
    /\ count' = count + 1
    /\ UNCHANGED <<head, tail, array, sync, rval, local>>

DequeueCount(t) ==
    /\ ~IsEnqueue(t)
    /\ Goto(t, "count", "signal")
    /\ count' = count - 1
    /\ UNCHANGED <<head, tail, array, sync, rval, local>>

\* A thread that a signal takes off a condition variable goes on to relock.
SignalStep(t, c) ==
    /\ pc[t] = "signal"
    /\ CondSignal(c)
    /\ pc' = [u \in Threads |->
                CASE u = t -> "unlock"
                  [] u \in waiters[c] \ waiters'[c] -> "woken"
                  [] OTHER -> pc[u]]
    /\ retval' = [retval EXCEPT ![t] = TRUE]
    /\ UNCHANGED <<ring, mtx, call, dl, slot, ret, left>>

\* Mutation: the signal is sent to the other condition variable.
EnqueueSignalOther(t) == IsEnqueue(t) /\ SignalStep(t, "full_cnd")

EnqueueSignal(t) == IsEnqueue(t) /\ SignalStep(t, "cnd")

\* Mutation: a signal only for the first free slot of a full queue.
DequeueSignalFirst(t) ==
    /\ ~IsEnqueue(t)
    /\ \/ count = Size - 1 /\ SignalStep(t, "full_cnd")
       \/ /\ count # Size - 1
          /\ Goto(t, "signal", "unlock")
          /\ retval' = [retval EXCEPT ![t] = TRUE]
          /\ UNCHANGED <<ring, sync, rval, call, dl, slot, ret, left>>

DequeueSignal(t) == ~IsEnqueue(t) /\ SignalStep(t, "full_cnd")

Unlock(t) ==
    /\ Goto(t, "unlock", "idle")
    /\ MutexUnlock
    /\ UNCHANGED <<ring, waiters, rval, local>>

-----------------------------------------------------------------------------
(* The condition variable's side of a blocked thread.                      *)

Wake(t, r) ==
    /\ Goto(t, "waiting", "woken")
    /\ waiters' = [c \in DOMAIN waiters |-> waiters[c] \ {t}]
    /\ rval' = [rval EXCEPT ![t] = r]
    /\ UNCHANGED <<ring, mtx, local>>

\* The deadline of a timed wait passes.
Timeout(t) == call[t].wait = "timed" /\ Wake(t, "ETIMEDOUT")

\* POSIX lets a wait return though nobody signalled.
SpuriousWakeup(t) == Wake(t, "ok")

\* Before it returns, a wait takes the mutex again.
Relock(t) ==
    /\ Goto(t, "woken", "test")
    /\ MutexLock(t)
    /\ UNCHANGED <<ring, waiters, rval, local>>

-----------------------------------------------------------------------------
Call(t) == ts_queue_enqueue(t) \/ ts_queue_dequeue(t)

\* The steps a thread takes by itself once its call has begun.
Step(t) ==
    \/ EnqueueWait(t) \/ EnqueueClaim(t) \/ EnqueueGiveUp(t)
    \/ EnqueueStore(t) \/ EnqueueCount(t) \/ EnqueueSignal(t)
    \/ DequeueWait(t) \/ DequeueClaim(t) \/ DequeueGiveUp(t)
    \/ DequeueLoad(t) \/ DequeueCount(t) \/ DequeueSignal(t)
    \/ Unlock(t)

\* No more calls are coming and nobody is inside one, or everyone inside
\* waits forever for a call that will not come.
Quiescent ==
    /\ \A t \in Threads : pc[t] \in {"idle", "waiting"}
    /\ \A t \in Threads : pc[t] = "idle" => left[t] = 0
    /\ \A t \in Threads : pc[t] = "waiting" => call[t].wait = "forever"
    /\ UNCHANGED vars

Next ==
    \/ \E t \in Threads :
        \/ Call(t) \/ Lock(t) \/ Step(t)
        \/ Timeout(t) \/ SpuriousWakeup(t) \/ Relock(t)
    \/ Quiescent

Spec == Init /\ [][Next]_vars

\* A thread that can run does, and a mutex that is free again and again is in
\* the end given to each thread that asks for it. A deadline is absolute, so
\* a timed wait that is begun again and again in the end returns ETIMEDOUT.
Fairness ==
    \A t \in Threads :
        /\ SF_vars(Lock(t) \/ Relock(t) \/ Step(t))
        /\ SF_vars(Timeout(t))

FairSpec == Spec /\ Fairness

-----------------------------------------------------------------------------
Critical == {"test", "access", "count", "signal", "unlock"}

PcSet == {"idle", "lock", "waiting", "woken"} \cup Critical

TypeOK ==
    /\ head \in Nat /\ tail \in Nat /\ count \in Int
    /\ array \in [0..Size-1 -> Items \cup {NoItem}]
    /\ mtx \in Threads \cup {NoThread}
    /\ waiters \in [{"cnd", "full_cnd"} -> SUBSET Threads]
    /\ pc \in [Threads -> PcSet]
    /\ call \in [Threads -> EnqueueCalls \cup DequeueCalls]
    /\ dl \in [Threads -> Deadlines]
    /\ rval \in [Threads -> {"ok", "ETIMEDOUT", "EINVAL"}]
    /\ slot \in [Threads -> 0..Size-1]
    /\ ret \in [Threads -> Items \cup {NoItem}]
    /\ retval \in [Threads -> BOOLEAN]
    /\ left \in [Threads -> 0..MaxCalls]
-----------------------------------------------------------------------------
(* Safety                                                                  *)

\* A thread is in the critical section of ts_queue_enqueue or
\* ts_queue_dequeue only with the mutex: "the mutex is only taken for
\* non-blocking operations", so taking it "is always blocking"
\* (inc/cutils/pthread/ts_queue.h, lines 153-155).
HoldsMutex == \A t \in Threads : pc[t] \in Critical => mtx = t

\* Where the slots an unfinished critical section has claimed or not yet
\* counted stand.
Uncounted(kind) ==
    Cardinality({t \in Threads :
                    call[t].kind = kind /\ pc[t] \in {"access", "count"}})

\* The indices never cross nor lap each other, and count says how many items
\* are queued up to the increment or decrement that is still to come: the
\* unlocked read of ts_queue_get_count is off by at most that.
RingSound ==
    /\ tail <= head /\ head <= tail + Size
    /\ count = (head - Uncounted("enqueue")) - (tail - Uncounted("dequeue"))

\* The threads that will take an item (or a free slot) without being woken
\* again: awake inside the loop and not timed out.
Awake(kind) ==
    {t \in Threads : /\ call[t].kind = kind
                     /\ pc[t] \in {"woken", "test"}
                     /\ rval[t] = "ok"}

\* The threads that have still to signal the other side.
Signalling(kind) ==
    {t \in Threads : /\ call[t].kind = kind
                     /\ pc[t] \in {"access", "count", "signal"}}

\* No wakeup is lost: as long as a consumer is blocked on cnd, each queued
\* item has an awake consumer or a signal under way; as long as a producer is
\* blocked on full_cnd, so has each free slot. The code signals once per
\* item, never broadcasts, and a call that times out leaves what it was
\* waiting for.
NoLostWakeup ==
    /\ waiters["cnd"] # {} =>
        head - tail <= Cardinality(Awake("dequeue") \cup Signalling("enqueue"))
    /\ waiters["full_cnd"] # {} =>
        tail + Size - head
            <= Cardinality(Awake("enqueue") \cup Signalling("dequeue"))

-----------------------------------------------------------------------------
(* Refinement: every call takes effect at once, when its slot is accessed. *)

Accessing(kind) ==
    Cardinality({t \in Threads : call[t].kind = kind /\ pc[t] = "access"})

QueueView ==
    LET lo == tail - Accessing("dequeue")
        hi == head - Accessing("enqueue")
    IN  [i \in 1..(hi - lo) |-> array[Index(lo + i - 1)]]

StatusView ==
    [t \in Threads |->
        CASE pc[t] = "idle" -> "idle"
          [] pc[t] \in {"count", "signal"} -> "done"
          [] pc[t] = "unlock" -> IF retval[t] THEN "done" ELSE "failed"
          [] OTHER -> "pending"]

Fifo == INSTANCE BoundedFifo WITH q <- QueueView, status <- StatusView

\* The ring with its mutex and condition variables is a linearisable bounded
\* FIFO: ts_queue_enqueue and ts_queue_dequeue return true exactly when their
\* item went in or came out, items come out in the order they went in, and a
\* WAIT_FOREVER call never returns false.
FifoSpec == Fifo!Spec

-----------------------------------------------------------------------------
(* Liveness                                                                *)

\* As long as no thread inside a timed call has an invalid wait deadline, calls
\* with a finite timeout return, whatever the other threads do, also when
\* mutex_lock fails and the call goes on without the mutex. The hypothesis is
\* needed: with a deadline that pthread_cond_timedwait refuses, a call goes round
\* its loop with the mutex held (Spin) and nobody can change the queue.
TimedCallReturns ==
    [](\A t \in Threads :
            pc[t] # "idle" /\ call[t].wait = "timed" => dl[t].wait = "valid")
        => \A t \in Threads :
            (pc[t] # "idle" /\ call[t].wait = "timed") ~> (pc[t] = "idle")

\* Where mutex_lock never fails, a thread does not stay blocked in
\* ts_queue_dequeue beside a queued item, nor in ts_queue_enqueue beside a free
\* slot.
NoStrandedWaiter ==
    [](\A t \in Threads : dl[t].lock = "valid") =>
        /\ \A t \in Threads :
            (t \in waiters["cnd"] /\ ~Empty) ~> (t \notin waiters["cnd"] \/ Empty)
        /\ \A t \in Threads :
            (t \in waiters["full_cnd"] /\ ~Full)
                ~> (t \notin waiters["full_cnd"] \/ Full)
=============================================================================
