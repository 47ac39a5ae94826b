---------------------------- MODULE TsQueueProofs ----------------------------
(***************************************************************************)
(* Proofs about TsQueue, for every number of threads, items, slots and     *)
(* calls.                                                                  *)
(***************************************************************************)
EXTENDS TsQueue, FiniteSetTheorems, SequenceTheorems, TLAPS

Kinds == {"enqueue", "dequeue"}

\* The slot index, a counter masked with size - 1, lies in the array.
LEMMA IndexInArray == \A n \in Nat : Index(n) \in 0..Size-1
  BY SizeAssumption DEF Index

\* What a call is, field by field.
LEMMA CallFields ==
  ASSUME TypeOK, NEW t \in Threads
  PROVE  /\ call[t].kind \in Kinds
         /\ call[t].item \in Items \cup {NoItem}
         /\ dl[t].lock \in LockDeadlines
  BY DEF TypeOK, EnqueueCalls, DequeueCalls, Deadlines, Kinds

\* Type correctness of every step of the queue, the mutex and the condition
\* variables (inc/cutils/pthread/ts_queue.h, lines 83-173).
THEOREM TypeCorrect == Spec => []TypeOK
<1>1. Init => TypeOK
  BY SizeAssumption, ConstantsAssumption DEF Init, TypeOK, PcSet, Critical
<1>2. TypeOK /\ [Next]_vars => TypeOK'
  <2> SUFFICES ASSUME TypeOK, [Next]_vars PROVE TypeOK'
    OBVIOUS
  <2> USE DEF Goto, ring, sync, local, PcSet, Critical
  <2>1. ASSUME NEW t \in Threads, NEW calls \in {EnqueueCalls, DequeueCalls},
               Begin(t, calls)
        PROVE  TypeOK'
    <3>1. pc' \in [Threads -> PcSet]
      BY <2>1 DEF TypeOK, Begin
    <3>2. left' \in [Threads -> 0..MaxCalls]
      BY <2>1, ConstantsAssumption DEF TypeOK, Begin
    <3>3. call' \in [Threads -> EnqueueCalls \cup DequeueCalls]
      BY <2>1 DEF TypeOK, Begin
    <3>4. dl' \in [Threads -> Deadlines]
      BY <2>1 DEF TypeOK, Begin
    <3>5. rval' \in [Threads -> {"ok", "ETIMEDOUT", "EINVAL"}]
      BY <2>1 DEF TypeOK, Begin
    <3>6. retval' \in [Threads -> BOOLEAN]
      BY <2>1 DEF TypeOK, Begin
    <3>7. ret' \in [Threads -> Items \cup {NoItem}]
      BY <2>1 DEF TypeOK, Begin
    <3>8. QED
      BY <2>1, <3>1, <3>2, <3>3, <3>4, <3>5, <3>6, <3>7
      DEF TypeOK, Begin
  <2>2. ASSUME NEW t \in Threads, Lock(t) PROVE TypeOK'
    BY <2>2 DEF TypeOK, Lock, MutexLock, MutexLockFails
  <2>3. ASSUME NEW t \in Threads, Step(t) PROVE TypeOK'
    <3>1. CASE EnqueueWait(t)
      <4>0. \E l \in PcSet : pc' = [pc EXCEPT ![t] = l]
        BY <3>1 DEF EnqueueWait, Sleep, Spin
      <4>1. pc' \in [Threads -> PcSet]
        BY <4>0 DEF TypeOK
      <4>2. mtx' \in Threads \cup {NoThread}
        BY <3>1 DEF TypeOK, EnqueueWait, Sleep, Spin, CondBlock,
             MutexUnlock
      <4>3. waiters' \in [{"cnd", "full_cnd"} -> SUBSET Threads]
        BY <3>1 DEF TypeOK, EnqueueWait, Sleep, Spin, CondBlock,
             MutexUnlock
      <4>4. rval' \in [Threads -> {"ok", "ETIMEDOUT", "EINVAL"}]
        BY <3>1 DEF TypeOK, EnqueueWait, Sleep, Spin, CondBlock,
             MutexUnlock
      <4>5. QED
        BY <3>1, <4>1, <4>2, <4>3, <4>4
        DEF TypeOK, EnqueueWait, Sleep, Spin, CondBlock,
             MutexUnlock
    <3>2. CASE DequeueWait(t)
      <4>0. \E l \in PcSet : pc' = [pc EXCEPT ![t] = l]
        BY <3>2 DEF DequeueWait, Sleep, Spin
      <4>1. pc' \in [Threads -> PcSet]
        BY <4>0 DEF TypeOK
      <4>2. mtx' \in Threads \cup {NoThread}
        BY <3>2 DEF TypeOK, DequeueWait, Sleep, Spin, CondBlock,
             MutexUnlock
      <4>3. waiters' \in [{"cnd", "full_cnd"} -> SUBSET Threads]
        BY <3>2 DEF TypeOK, DequeueWait, Sleep, Spin, CondBlock,
             MutexUnlock
      <4>4. rval' \in [Threads -> {"ok", "ETIMEDOUT", "EINVAL"}]
        BY <3>2 DEF TypeOK, DequeueWait, Sleep, Spin, CondBlock,
             MutexUnlock
      <4>5. QED
        BY <3>2, <4>1, <4>2, <4>3, <4>4
        DEF TypeOK, DequeueWait, Sleep, Spin, CondBlock,
             MutexUnlock
    <3>3. CASE EnqueueClaim(t)
      <4>1. pc' \in [Threads -> PcSet]
        BY <3>3 DEF TypeOK, EnqueueClaim
      <4>2. head' \in Nat
        BY <3>3 DEF TypeOK, EnqueueClaim
      <4>3. slot' \in [Threads -> 0..Size-1]
        BY <3>3, IndexInArray DEF TypeOK, EnqueueClaim
      <4>4. QED
        BY <3>3, <4>1, <4>2, <4>3
        DEF TypeOK, EnqueueClaim
    <3>4. CASE DequeueClaim(t)
      <4>1. pc' \in [Threads -> PcSet]
        BY <3>4 DEF TypeOK, DequeueClaim
      <4>2. tail' \in Nat
        BY <3>4 DEF TypeOK, DequeueClaim
      <4>3. slot' \in [Threads -> 0..Size-1]
        BY <3>4, IndexInArray DEF TypeOK, DequeueClaim
      <4>4. QED
        BY <3>4, <4>1, <4>2, <4>3
        DEF TypeOK, DequeueClaim
    <3>5. CASE EnqueueGiveUp(t)
      BY <3>5 DEF TypeOK, EnqueueGiveUp
    <3>6. CASE DequeueGiveUp(t)
      BY <3>6 DEF TypeOK, DequeueGiveUp
    <3>7. CASE EnqueueStore(t)
      BY <3>7, CallFields DEF TypeOK, EnqueueStore
    <3>8. CASE DequeueLoad(t)
      BY <3>8 DEF TypeOK, DequeueLoad
    <3>9. CASE EnqueueCount(t)
      BY <3>9 DEF TypeOK, EnqueueCount
    <3>10. CASE DequeueCount(t)
      BY <3>10 DEF TypeOK, DequeueCount
    <3>11. ASSUME NEW c \in {"cnd", "full_cnd"}, SignalStep(t, c) PROVE TypeOK'
      <4>1. pc' \in [Threads -> PcSet]
        BY <3>11 DEF TypeOK, SignalStep, CondSignal
      <4>2. waiters' \in [{"cnd", "full_cnd"} -> SUBSET Threads]
        <5>1. CASE waiters' = waiters
          BY <5>1 DEF TypeOK
        <5>2. ASSUME NEW w \in Threads,
                     waiters' = [waiters EXCEPT ![c] = @ \ {w}]
              PROVE  waiters' \in [{"cnd", "full_cnd"} -> SUBSET Threads]
          BY <5>2 DEF TypeOK
        <5>3. QED
          BY <3>11, <5>1, <5>2 DEF TypeOK, SignalStep, CondSignal
      <4>3. rval' \in [Threads -> {"ok", "ETIMEDOUT", "EINVAL"}]
        BY <3>11 DEF TypeOK, SignalStep, CondSignal
      <4>4. retval' \in [Threads -> BOOLEAN]
        BY <3>11 DEF TypeOK, SignalStep, CondSignal
      <4>5. QED
        BY <3>11, <4>1, <4>2, <4>3, <4>4
        DEF TypeOK, SignalStep, CondSignal
    <3>12. CASE Unlock(t)
      BY <3>12 DEF TypeOK, Unlock, MutexUnlock
    <3>13. QED
      BY <2>3, <3>1, <3>2, <3>3, <3>4, <3>5, <3>6, <3>7, <3>8, <3>9, <3>10,
         <3>11, <3>12 DEF Step, EnqueueSignal, DequeueSignal
  <2>4. ASSUME NEW t \in Threads, NEW r \in {"ok", "ETIMEDOUT"}, Wake(t, r)
        PROVE  TypeOK'
    <3>1. pc' \in [Threads -> PcSet]
      BY <2>4 DEF TypeOK, Wake
    <3>2. waiters' \in [{"cnd", "full_cnd"} -> SUBSET Threads]
      BY <2>4 DEF TypeOK, Wake
    <3>3. rval' \in [Threads -> {"ok", "ETIMEDOUT", "EINVAL"}]
      BY <2>4 DEF TypeOK, Wake
    <3>4. QED
      BY <2>4, <3>1, <3>2, <3>3
      DEF TypeOK, Wake
  <2>5. ASSUME NEW t \in Threads, Relock(t) PROVE TypeOK'
    BY <2>5 DEF TypeOK, Relock, MutexLock
  <2>6. CASE UNCHANGED vars
    BY <2>6 DEF TypeOK, vars
  <2>7. QED
    BY <2>1, <2>2, <2>3, <2>4, <2>5, <2>6
    DEF Next, Quiescent, Call, ts_queue_enqueue, ts_queue_dequeue, Timeout,
        SpuriousWakeup
<1>3. QED
  BY <1>1, <1>2, PTL DEF Spec
-----------------------------------------------------------------------------
(* Mutual exclusion rests on mutex_lock being granted. The hypothesis says *)
(* that its deadline is a valid timespec; run ts_queue_lock_einval shows   *)
(* that the conclusion fails without it.                                   *)

\* Every step that is taken by a thread keeps the critical section guarded:
\* entering it takes the mutex, and only the thread inside lets go of it.
LEMMA HoldsMutexStep ==
  ASSUME LockDeadlines \subseteq {"valid"}, TypeOK, HoldsMutex, [Next]_vars
  PROVE  HoldsMutex'
<1> USE DEF HoldsMutex, Critical, Goto
<1>1. ASSUME NEW t \in Threads, Call(t) PROVE HoldsMutex'
  BY <1>1 DEF TypeOK, Call, ts_queue_enqueue, ts_queue_dequeue, Begin, sync
<1>2. ASSUME NEW t \in Threads, Lock(t) PROVE HoldsMutex'
  <2>1. MutexLock(t)
    BY <1>2, CallFields DEF Lock, MutexLockFails
  <2>2. QED
    BY <1>2, <2>1, ConstantsAssumption DEF TypeOK, Lock, MutexLock
<1>3. ASSUME NEW t \in Threads, Step(t) PROVE HoldsMutex'
  <2>1. CASE EnqueueWait(t) \/ DequeueWait(t)
    BY <1>3, <2>1, ConstantsAssumption
    DEF TypeOK, EnqueueWait, DequeueWait, Sleep, Spin, CondBlock, MutexUnlock,
        sync
  <2>2. CASE EnqueueClaim(t) \/ DequeueClaim(t)
    BY <2>2 DEF TypeOK, EnqueueClaim, DequeueClaim, sync
  <2>3. CASE EnqueueGiveUp(t) \/ DequeueGiveUp(t)
    BY <2>3 DEF TypeOK, EnqueueGiveUp, DequeueGiveUp, sync
  <2>4. CASE EnqueueStore(t) \/ DequeueLoad(t)
    BY <2>4 DEF TypeOK, EnqueueStore, DequeueLoad, sync
  <2>5. CASE EnqueueCount(t) \/ DequeueCount(t)
    BY <2>5 DEF TypeOK, EnqueueCount, DequeueCount, sync
  <2>6. ASSUME NEW c \in {"cnd", "full_cnd"}, SignalStep(t, c) PROVE HoldsMutex'
    BY <2>6 DEF TypeOK, SignalStep
  <2>7. CASE Unlock(t)
    BY <2>7, ConstantsAssumption DEF TypeOK, Unlock, MutexUnlock
  <2>8. QED
    BY <1>3, <2>1, <2>2, <2>3, <2>4, <2>5, <2>6, <2>7
    DEF Step, EnqueueSignal, DequeueSignal
<1>4. ASSUME NEW t \in Threads, NEW r \in {"ok", "ETIMEDOUT"}, Wake(t, r)
      PROVE  HoldsMutex'
  BY <1>4 DEF TypeOK, Wake
<1>5. ASSUME NEW t \in Threads, Relock(t) PROVE HoldsMutex'
  BY <1>5, ConstantsAssumption DEF TypeOK, Relock, MutexLock
<1>6. CASE UNCHANGED vars
  BY <1>6 DEF vars
<1>7. QED
  BY <1>1, <1>2, <1>3, <1>4, <1>5, <1>6
  DEF Next, Quiescent, Timeout, SpuriousWakeup

\* The critical sections of ts_queue_enqueue and ts_queue_dequeue exclude each
\* other, for any number of threads, when the lock's deadline is valid.
THEOREM MutualExclusion ==
  ASSUME LockDeadlines \subseteq {"valid"}
  PROVE  Spec => []HoldsMutex
<1>1. Init => HoldsMutex
  BY DEF Init, HoldsMutex, Critical
<1>2. TypeOK /\ HoldsMutex /\ [Next]_vars => HoldsMutex'
  BY HoldsMutexStep
<1>3. QED
  BY <1>1, <1>2, TypeCorrect, PTL DEF Spec

-----------------------------------------------------------------------------
(* The ring. RingSound speaks of the size of a set of threads; under       *)
(* mutual exclusion at most one thread is in that set, and the inductive   *)
(* form says what count is when there is none and when there is one.       *)

\* A thread between its claim of a slot and its update of count.
InFlight(t) == pc[t] \in {"access", "count"}

\* The inductive form of RingSound.
RingInv ==
    /\ tail <= head
    /\ head <= tail + Size
    /\ (\A t \in Threads : ~InFlight(t)) => count = head - tail
    /\ \A t \in Threads :
        InFlight(t) =>
            count = IF IsEnqueue(t) THEN head - tail - 1 ELSE head - tail + 1

\* A step that leaves the ring, the calls and the threads between claim and
\* count alone keeps the invariant.
LEMMA RingInvFrame ==
  ASSUME RingInv, UNCHANGED <<head, tail, count>>,
         \A t \in Threads : InFlight(t)' <=> InFlight(t),
         \A t \in Threads : InFlight(t) => call'[t] = call[t]
  PROVE  RingInv'
  BY DEF RingInv, IsEnqueue

\* Each step keeps it: a thread claims only when no other is in flight.
LEMMA RingInvStep ==
  ASSUME TypeOK, HoldsMutex, HoldsMutex', RingInv, [Next]_vars
  PROVE  RingInv'
<1> USE SizeAssumption DEF Goto, InFlight
<1>1. ASSUME NEW t \in Threads, Call(t) PROVE RingInv'
  BY <1>1, RingInvFrame
  DEF TypeOK, Call, ts_queue_enqueue, ts_queue_dequeue, Begin, ring
<1>2. ASSUME NEW t \in Threads, Lock(t) PROVE RingInv'
  BY <1>2, RingInvFrame DEF TypeOK, Lock, ring, local
<1>3. ASSUME NEW t \in Threads, Step(t) PROVE RingInv'
  <2>1. CASE EnqueueWait(t) \/ DequeueWait(t)
    BY <2>1, RingInvFrame
    DEF TypeOK, EnqueueWait, DequeueWait, Sleep, Spin, ring, local
  <2>2. CASE EnqueueClaim(t)
    <3>1. \A u \in Threads \ {t} : ~InFlight(u) /\ ~InFlight(u)'
      BY <2>2 DEF TypeOK, HoldsMutex, Critical, EnqueueClaim
    <3>2. ~InFlight(t) /\ InFlight(t)' /\ IsEnqueue(t)'
      BY <2>2 DEF TypeOK, EnqueueClaim, IsEnqueue
    <3>3. tail <= head + 1 /\ head + 1 <= tail + Size
      BY <2>2 DEF TypeOK, RingInv, EnqueueClaim, EnqueueMustWait, Full
    <3>4. QED
      BY <2>2, <3>1, <3>2, <3>3 DEF TypeOK, RingInv, EnqueueClaim
  <2>3. CASE DequeueClaim(t)
    <3>1. \A u \in Threads \ {t} : ~InFlight(u) /\ ~InFlight(u)'
      BY <2>3 DEF TypeOK, HoldsMutex, Critical, DequeueClaim
    <3>2. ~InFlight(t) /\ InFlight(t)' /\ ~IsEnqueue(t)'
      BY <2>3 DEF TypeOK, DequeueClaim, IsEnqueue
    <3>3. tail + 1 <= head /\ head <= tail + 1 + Size
      BY <2>3 DEF TypeOK, RingInv, DequeueClaim, DequeueMustWait, Empty
    <3>4. QED
      BY <2>3, <3>1, <3>2, <3>3 DEF TypeOK, RingInv, DequeueClaim
  <2>4. CASE EnqueueGiveUp(t) \/ DequeueGiveUp(t)
    BY <2>4, RingInvFrame DEF TypeOK, EnqueueGiveUp, DequeueGiveUp, ring, local
  <2>5. CASE EnqueueStore(t)
    BY <2>5, RingInvFrame DEF TypeOK, EnqueueStore, local
  <2>6. CASE DequeueLoad(t)
    BY <2>6, RingInvFrame DEF TypeOK, DequeueLoad, ring
  <2>7. CASE EnqueueCount(t)
    <3>1. \A u \in Threads : ~InFlight(u)'
      BY <2>7 DEF TypeOK, HoldsMutex, Critical, EnqueueCount
    <3>2. count = head - tail - 1
      BY <2>7 DEF RingInv, EnqueueCount
    <3>3. QED
      BY <2>7, <3>1, <3>2 DEF TypeOK, RingInv, EnqueueCount
  <2>8. CASE DequeueCount(t)
    <3>1. \A u \in Threads : ~InFlight(u)'
      BY <2>8 DEF TypeOK, HoldsMutex, Critical, DequeueCount
    <3>2. count = head - tail + 1
      BY <2>8 DEF RingInv, DequeueCount
    <3>3. QED
      BY <2>8, <3>1, <3>2 DEF TypeOK, RingInv, DequeueCount
  <2>9. ASSUME NEW c \in {"cnd", "full_cnd"}, SignalStep(t, c) PROVE RingInv'
    <3>1. \A u \in Threads : ~InFlight(u) /\ ~InFlight(u)'
      BY <2>9 DEF TypeOK, HoldsMutex, Critical, SignalStep
    <3>2. QED
      BY <2>9, <3>1, RingInvFrame DEF SignalStep, ring
  <2>10. CASE Unlock(t)
    BY <2>10, RingInvFrame DEF TypeOK, Unlock, ring, local
  <2>11. QED
    BY <1>3, <2>1, <2>2, <2>3, <2>4, <2>5, <2>6, <2>7, <2>8, <2>9, <2>10
    DEF Step, EnqueueSignal, DequeueSignal
<1>4. ASSUME NEW t \in Threads, NEW r \in {"ok", "ETIMEDOUT"}, Wake(t, r)
      PROVE  RingInv'
  BY <1>4, RingInvFrame DEF TypeOK, Wake, ring, local
<1>5. ASSUME NEW t \in Threads, Relock(t) PROVE RingInv'
  BY <1>5, RingInvFrame DEF TypeOK, Relock, ring, local
<1>6. CASE UNCHANGED vars
  BY <1>6, RingInvFrame DEF vars
<1>7. QED
  BY <1>1, <1>2, <1>3, <1>4, <1>5, <1>6
  DEF Next, Quiescent, Timeout, SpuriousWakeup

\* From the inductive form to the property: the set whose size RingSound takes
\* is empty or a singleton.
LEMMA RingInvImpliesSound ==
  ASSUME TypeOK, HoldsMutex, RingInv
  PROVE  RingSound
<1> DEFINE U(kind) == {t \in Threads :
                         call[t].kind = kind /\ pc[t] \in {"access", "count"}}
<1>1. CASE \A t \in Threads : ~InFlight(t)
  <2>1. U("enqueue") = {} /\ U("dequeue") = {}
    BY <1>1 DEF InFlight
  <2>2. Uncounted("enqueue") = 0 /\ Uncounted("dequeue") = 0
    BY <2>1, FS_EmptySet DEF Uncounted
  <2>3. count = head - tail /\ tail <= head /\ head <= tail + Size
    BY <1>1 DEF RingInv
  <2>4. QED
    BY <2>2, <2>3 DEF RingSound, TypeOK
<1>2. ASSUME NEW t \in Threads, InFlight(t) PROVE RingSound
  <2>1. \A u \in Threads : InFlight(u) => u = t
    BY <1>2 DEF InFlight, HoldsMutex, Critical
  <2>2. CASE IsEnqueue(t)
    <3>1. U("enqueue") = {t} /\ U("dequeue") = {}
      BY <1>2, <2>1, <2>2 DEF InFlight, IsEnqueue
    <3>2. Uncounted("enqueue") = 1 /\ Uncounted("dequeue") = 0
      BY <3>1, FS_EmptySet, FS_Singleton DEF Uncounted
    <3>3. QED
      BY <1>2, <2>2, <3>2 DEF RingSound, RingInv, TypeOK
  <2>3. CASE ~IsEnqueue(t)
    <3>1. U("enqueue") = {} /\ U("dequeue") = {t}
      BY <1>2, <2>1, <2>3, CallFields DEF InFlight, IsEnqueue, Kinds
    <3>2. Uncounted("enqueue") = 0 /\ Uncounted("dequeue") = 1
      BY <3>1, FS_EmptySet, FS_Singleton DEF Uncounted
    <3>3. QED
      BY <1>2, <2>3, <3>2 DEF RingSound, RingInv, TypeOK
  <2>4. QED
    BY <2>2, <2>3
<1>3. QED
  BY <1>1, <1>2

\* head and tail of the ring never cross or lap and count agrees with them,
\* for any number of threads and slots, when the lock's deadline is valid.
THEOREM RingSoundness ==
  ASSUME LockDeadlines \subseteq {"valid"}
  PROVE  Spec => []RingSound
<1>1. Init => RingInv
  BY SizeAssumption DEF Init, RingInv, InFlight
<1>2. TypeOK /\ HoldsMutex /\ HoldsMutex' /\ RingInv /\ [Next]_vars => RingInv'
  BY RingInvStep
<1>3. TypeOK /\ HoldsMutex /\ RingInv => RingSound
  BY RingInvImpliesSound
<1>4. QED
  BY <1>1, <1>2, <1>3, TypeCorrect, MutualExclusion, PTL DEF Spec
-----------------------------------------------------------------------------
(* No lost wakeup. Both halves of NoLostWakeup have one form: while a      *)
(* thread is blocked on c, the supply it waits for does not exceed the     *)
(* number of threads that will take some of it or signal c. The argument   *)
(* does not need the mutex: each step moves the supply and the helpers     *)
(* together, whoever takes it.                                             *)

CondVars == {"cnd", "full_cnd"}

\* Which calls wait on c and which signal it, how much there is of what they
\* wait for, and who will take some of it or wake another.
WaitingKind(c) == IF c = "cnd" THEN "dequeue" ELSE "enqueue"
SignallingKind(c) == IF c = "cnd" THEN "enqueue" ELSE "dequeue"
Supply(c) == IF c = "cnd" THEN head - tail ELSE tail + Size - head
Helpers(c) == Awake(WaitingKind(c)) \cup Signalling(SignallingKind(c))

\* While a thread is blocked on c, everything it could wake for is spoken for.
Supplied(c) == waiters[c] # {} => Supply(c) <= Cardinality(Helpers(c))

\* A blocked thread is inside its wait, and blocked on the condition variable
\* of its kind of call.
WaitersSound ==
    \A c \in CondVars : \A w \in waiters[c] :
        pc[w] = "waiting" /\ call[w].kind = WaitingKind(c)

\* The inductive form of NoLostWakeup.
WakeupInv == WaitersSound /\ \A c \in CondVars : Supplied(c)

\* How the sizes of two sets of threads compare when one step leads from S to
\* T: nobody left, t joined, t alone left, or t left and w joined.
LEMMA SizesCompare ==
  ASSUME NEW S \in SUBSET Threads, NEW T \in SUBSET Threads
  PROVE  /\ Cardinality(S) \in Nat /\ Cardinality(T) \in Nat
         /\ S \subseteq T => Cardinality(S) <= Cardinality(T)
         /\ \A t \in Threads \ S :
              S \cup {t} \subseteq T => Cardinality(S) + 1 <= Cardinality(T)
         /\ \A t \in Threads :
              S \subseteq T \cup {t} => Cardinality(S) <= Cardinality(T) + 1
         /\ \A t \in Threads, w \in Threads \ S :
              (S \ {t}) \cup {w} \subseteq T => Cardinality(S) <= Cardinality(T)
<1>1. IsFiniteSet(Threads)
  BY ConstantsAssumption
<1>2. IsFiniteSet(S) /\ IsFiniteSet(T)
  BY <1>1, FS_Subset
<1>3. Cardinality(S) \in Nat /\ Cardinality(T) \in Nat
  BY <1>2, FS_CardinalityType
<1>4. ASSUME S \subseteq T PROVE Cardinality(S) <= Cardinality(T)
  BY <1>2, <1>4, FS_Subset
<1>5. ASSUME NEW t \in Threads \ S, S \cup {t} \subseteq T
      PROVE  Cardinality(S) + 1 <= Cardinality(T)
  <2>1. Cardinality(S \cup {t}) = Cardinality(S) + 1
    BY <1>2, FS_AddElement
  <2>2. Cardinality(S \cup {t}) <= Cardinality(T)
    BY <1>2, <1>5, FS_Subset
  <2>3. QED
    BY <2>1, <2>2
<1>6. ASSUME NEW t \in Threads, S \subseteq T \cup {t}
      PROVE  Cardinality(S) <= Cardinality(T) + 1
  <2>1. /\ IsFiniteSet(T \cup {t})
        /\ Cardinality(T \cup {t}) = Cardinality(T)
             \/ Cardinality(T \cup {t}) = Cardinality(T) + 1
    BY <1>2, FS_AddElement
  <2>2. Cardinality(S) <= Cardinality(T \cup {t})
    BY <1>6, <2>1, FS_Subset
  <2>3. QED
    BY <1>3, <2>1, <2>2
<1>7. ASSUME NEW t \in Threads, NEW w \in Threads \ S,
             (S \ {t}) \cup {w} \subseteq T
      PROVE  Cardinality(S) <= Cardinality(T)
  <2>1. /\ IsFiniteSet(S \ {t})
        /\ Cardinality(S \ {t}) = Cardinality(S)
             \/ Cardinality(S \ {t}) = Cardinality(S) - 1
    BY <1>2, FS_RemoveElement
  <2>2. w \notin S \ {t}
    OBVIOUS
  <2>3. Cardinality((S \ {t}) \cup {w}) = Cardinality(S \ {t}) + 1
    BY <2>1, <2>2, FS_AddElement
  <2>4. Cardinality((S \ {t}) \cup {w}) <= Cardinality(T)
    BY <1>2, <1>7, FS_Subset
  <2>5. QED
    BY <1>3, <2>1, <2>3, <2>4
<1>8. QED
  BY <1>3, <1>4, <1>5, <1>6, <1>7

\* The supply is a number, which may be negative where the lock fails.
LEMMA SupplyIsInt ==
  ASSUME TypeOK
  PROVE  \A c \in CondVars : Supply(c) \in Int
<1>1. head \in Nat /\ tail \in Nat
  BY DEF TypeOK
<1>2. QED
  BY ONLY <1>1, SizeAssumption DEF Supply

\* The ways a step can keep a condition variable supplied: nobody waits on it
\* any more, there is nothing to take, nobody who helps leaves, a helper comes
\* with one more item, one goes with it, or one is replaced by the thread it
\* wakes.
LEMMA SuppliedStep ==
  ASSUME TypeOK, TypeOK', NEW c \in CondVars, Supplied(c),
         NEW t \in Threads,
         \/ waiters'[c] = {}
         \/ Supply(c)' <= 0
         \/ /\ waiters[c] # {}
            /\ \/ /\ Supply(c)' <= Supply(c)
                  /\ Helpers(c) \subseteq Helpers(c)'
               \/ /\ Supply(c)' = Supply(c) + 1
                  /\ t \notin Helpers(c)
                  /\ Helpers(c) \cup {t} \subseteq Helpers(c)'
               \/ /\ Supply(c)' = Supply(c) - 1
                  /\ Helpers(c) \subseteq Helpers(c)' \cup {t}
               \/ /\ Supply(c)' <= Supply(c)
                  /\ \E w \in Threads \ Helpers(c) :
                       (Helpers(c) \ {t}) \cup {w} \subseteq Helpers(c)'
  PROVE  Supplied(c)'
<1>1. PICK S \in SUBSET Threads : S = Helpers(c)
  BY DEF Helpers, Awake, Signalling
<1>2. PICK T \in SUBSET Threads : T = Helpers(c)'
  BY DEF Helpers, Awake, Signalling
<1>3. PICK a \in Int : a = Supply(c)
  BY SupplyIsInt
<1>4. PICK b \in Int : b = Supply(c)'
  <2>1. head' \in Nat /\ tail' \in Nat
    BY DEF TypeOK
  <2>2. Supply(c)' \in Int
    BY ONLY <2>1, SizeAssumption DEF Supply
  <2>3. QED
    BY <2>2
<1>5. Cardinality(S) \in Nat /\ Cardinality(T) \in Nat
  BY SizesCompare
<1>6. waiters[c] # {} => a <= Cardinality(S)
  BY <1>1, <1>3 DEF Supplied
<1>7. SUFFICES ASSUME waiters'[c] # {} PROVE b <= Cardinality(T)
  BY <1>2, <1>4 DEF Supplied
<1>8. CASE b <= 0
  BY <1>5, <1>8
<1>9. CASE waiters[c] # {} /\ b <= a /\ S \subseteq T
  <2>1. Cardinality(S) <= Cardinality(T)
    BY <1>9, SizesCompare
  <2>2. QED
    BY <1>5, <1>6, <1>9, <2>1
<1>10. CASE waiters[c] # {} /\ b = a + 1 /\ t \notin S /\ S \cup {t} \subseteq T
  <2>1. Cardinality(S) + 1 <= Cardinality(T)
    BY <1>10, SizesCompare
  <2>2. QED
    BY <1>5, <1>6, <1>10, <2>1
<1>11. CASE waiters[c] # {} /\ b = a - 1 /\ S \subseteq T \cup {t}
  <2>1. Cardinality(S) <= Cardinality(T) + 1
    BY <1>11, SizesCompare
  <2>2. QED
    BY <1>5, <1>6, <1>11, <2>1
<1>12. CASE /\ waiters[c] # {}
            /\ b <= a
            /\ \E w \in Threads \ S : (S \ {t}) \cup {w} \subseteq T
  <2>1. Cardinality(S) <= Cardinality(T)
    BY <1>12, SizesCompare
  <2>2. QED
    BY <1>5, <1>6, <1>12, <2>1
<1>13. QED
  BY <1>1, <1>2, <1>3, <1>4, <1>7, <1>8, <1>9, <1>10, <1>11, <1>12

\* No thread but t moves on, begins a call or learns of a wait's result.
OthersKept(t) ==
    \A u \in Threads \ {t} :
        pc'[u] = pc[u] /\ call'[u] = call[u] /\ rval'[u] = rval[u]

\* Whether another thread helps depends on that thread alone.
LEMMA OthersHelp ==
  ASSUME NEW t \in Threads, OthersKept(t), NEW c \in CondVars
  PROVE  /\ Helpers(c) \subseteq Threads /\ Helpers(c)' \subseteq Threads
         /\ \A u \in Threads \ {t} : u \in Helpers(c) <=> u \in Helpers(c)'
  BY DEF OthersKept, Helpers, Awake, Signalling

\* A step of t that leaves the ring alone, blocks nobody and makes t no less of
\* a helper keeps the invariant.
LEMMA WakeupFrame ==
  ASSUME TypeOK, TypeOK', WakeupInv, NEW t \in Threads, OthersKept(t),
         UNCHANGED <<head, tail>>,
         \A c \in CondVars : waiters'[c] \subseteq waiters[c],
         \A c \in CondVars : t \notin waiters'[c],
         \A c \in CondVars : t \in Helpers(c) => t \in Helpers(c)'
  PROVE  WakeupInv'
<1>1. WaitersSound'
  BY ZenonT(60) DEF WakeupInv, WaitersSound, OthersKept, TypeOK, CondVars
<1>2. ASSUME NEW c \in CondVars PROVE Supplied(c)'
  <2>1. Helpers(c) \subseteq Helpers(c)'
    BY OthersHelp
  <2>2. Supply(c)' = Supply(c)
    BY DEF Supply
  <2>3. Supply(c) \in Int
    BY SizeAssumption DEF Supply, TypeOK
  <2>4. waiters'[c] = {} \/ waiters[c] # {}
    OBVIOUS
  <2>5. QED
    BY <2>1, <2>2, <2>3, <2>4, SuppliedStep DEF WakeupInv
<1>3. QED
  BY <1>1, <1>2 DEF WakeupInv

\* A thread that finds the queue empty (or full) leaves nothing to wait for,
\* whether it blocks or goes round the loop with EINVAL.
LEMMA WaitStep ==
  ASSUME TypeOK, TypeOK', WakeupInv, NEW t \in Threads, NEW c \in CondVars,
         call[t].kind = WaitingKind(c), Supply(c) <= 0,
         Sleep(t, c) \/ Spin(t)
  PROVE  WakeupInv'
<1> USE DEF Goto, ring, sync, local
<1>1. OthersKept(t) /\ UNCHANGED <<head, tail, call>>
  BY DEF OthersKept, TypeOK, Sleep, Spin
<1>2. /\ pc[t] = "test"
      /\ \A u \in Threads \ {t} : pc'[u] = pc[u]
      /\ Sleep(t, c) => pc'[t] = "waiting" /\ waiters'[c] = waiters[c] \cup {t}
      /\ Spin(t) => waiters'[c] = waiters[c]
      /\ \A e \in CondVars \ {c} : waiters'[e] = waiters[e]
  BY DEF TypeOK, CondVars, Sleep, Spin, CondBlock
<1>3. \A e \in CondVars : t \notin waiters[e]
  BY <1>2 DEF WakeupInv, WaitersSound
<1>4. WaitersSound'
  BY <1>1, <1>2, <1>3, SMTT(60) DEF WakeupInv, WaitersSound, CondVars, TypeOK
<1>5. ASSUME NEW e \in CondVars PROVE Supplied(e)'
  <2>1. CASE e = c
    <3>1. Supply(e)' <= 0
      BY <1>1, <2>1 DEF Supply
    <3>2. QED
      BY <3>1, SuppliedStep DEF WakeupInv
  <2>2. CASE e # c
    <3>1. t \notin Helpers(e)
      BY <1>2, <2>2 DEF Helpers, Awake, Signalling, WaitingKind, CondVars
    <3>2. Helpers(e) \subseteq Helpers(e)'
      BY <1>1, <3>1, OthersHelp
    <3>3. Supply(e)' = Supply(e) /\ Supply(e) \in Int
      BY <1>1, SizeAssumption DEF Supply, TypeOK
    <3>4. waiters'[e] = waiters[e]
      BY <1>2, <2>2
    <3>5. QED
      BY <3>2, <3>3, <3>4, SuppliedStep DEF WakeupInv
  <2>3. QED
    BY <2>1, <2>2
<1>6. QED
  BY <1>4, <1>5 DEF WakeupInv

\* A claim takes one unit of the supply of its own side, and adds one to the
\* other side's, whose condition variable the thread will signal.
LEMMA ClaimStep ==
  ASSUME TypeOK, TypeOK', WakeupInv, NEW t \in Threads,
         EnqueueClaim(t) \/ DequeueClaim(t)
  PROVE  WakeupInv'
<1> USE DEF Goto, ring, sync, local
<1>1. /\ OthersKept(t) /\ UNCHANGED <<call, waiters>>
      /\ pc[t] = "test" /\ pc'[t] = "access"
  BY DEF OthersKept, TypeOK, EnqueueClaim, DequeueClaim
<1>2. WaitersSound'
  BY <1>1, ZenonT(60) DEF WakeupInv, WaitersSound, OthersKept, TypeOK, CondVars
<1>3. PICK c \in CondVars, e \in CondVars :
        /\ e # c /\ call[t].kind = WaitingKind(c)
        /\ Supply(c)' = Supply(c) - 1
        /\ Supply(e)' = Supply(e) + 1
  <2>1. CASE EnqueueClaim(t)
    <3>1. call[t].kind = WaitingKind("full_cnd")
      BY <2>1 DEF EnqueueClaim, IsEnqueue, WaitingKind
    <3>2. /\ Supply("full_cnd")' = Supply("full_cnd") - 1
          /\ Supply("cnd")' = Supply("cnd") + 1
      BY <2>1, SizeAssumption DEF EnqueueClaim, Supply, TypeOK
    <3>3. QED
      BY <3>1, <3>2 DEF CondVars
  <2>2. CASE DequeueClaim(t)
    <3>1. call[t].kind = WaitingKind("cnd")
      BY <2>2, CallFields DEF DequeueClaim, IsEnqueue, WaitingKind, Kinds
    <3>2. /\ Supply("cnd")' = Supply("cnd") - 1
          /\ Supply("full_cnd")' = Supply("full_cnd") + 1
      BY <2>2, SizeAssumption DEF DequeueClaim, Supply, TypeOK
    <3>3. QED
      BY <3>1, <3>2 DEF CondVars
  <2>3. QED
    BY <2>1, <2>2
<1>4. Supplied(c)'
  <2>1. Helpers(c) \subseteq Helpers(c)' \cup {t}
    BY <1>1, OthersHelp
  <2>2. QED
    BY <1>1, <1>3, <2>1, SuppliedStep DEF WakeupInv
<1>5. Supplied(e)'
  <2>1. t \notin Helpers(e) /\ t \in Helpers(e)'
    BY <1>1, <1>3
    DEF Helpers, Awake, Signalling, WaitingKind, SignallingKind, CondVars
  <2>2. Helpers(e) \cup {t} \subseteq Helpers(e)'
    BY <1>1, <2>1, OthersHelp
  <2>3. QED
    BY <1>1, <1>3, <2>1, <2>2, SuppliedStep DEF WakeupInv
<1>6. QED
  BY <1>2, <1>3, <1>4, <1>5 DEF WakeupInv, CondVars

\* A signal takes the signalling thread out of the helpers and puts the woken
\* one in its place.
LEMMA SignalKeeps ==
  ASSUME TypeOK, TypeOK', WakeupInv, NEW t \in Threads, NEW c \in CondVars,
         call[t].kind = SignallingKind(c), SignalStep(t, c)
  PROVE  WakeupInv'
<1>1. pc[t] = "signal" /\ pc'[t] = "unlock" /\ UNCHANGED <<head, tail, call>>
  <2>1. pc[t] = "signal" /\ UNCHANGED <<head, tail, call>>
    BY DEF SignalStep, ring
  <2>2. t \notin waiters[c]
    BY <2>1 DEF WakeupInv, WaitersSound
  <2>3. pc'[t] = "unlock"
    BY <2>2 DEF SignalStep
  <2>4. QED
    BY <2>1, <2>3
<1>2. \A e \in CondVars : t \notin waiters[e]
  BY <1>1 DEF WakeupInv, WaitersSound
<1>3. \A e \in CondVars : Supply(e)' = Supply(e) /\ Supply(e) \in Int
  <2>1. \A e \in CondVars : Supply(e)' = Supply(e)
    BY <1>1 DEF Supply
  <2>2. QED
    BY <2>1, SupplyIsInt
<1>4. CASE waiters[c] = {}
  <2>1. UNCHANGED <<waiters, rval>> /\ OthersKept(t)
    BY <1>1, <1>4 DEF SignalStep, CondSignal, OthersKept, TypeOK
  <2>2. WaitersSound'
    BY <1>1, <1>2, <2>1, SMTT(60)
    DEF WakeupInv, WaitersSound, OthersKept, TypeOK, CondVars
  <2>3. Supplied(c)'
    BY <1>4, <2>1 DEF Supplied
  <2>4. ASSUME NEW e \in CondVars \ {c} PROVE Supplied(e)'
    <3>1. t \notin Helpers(e)
      BY <1>1 DEF Helpers, Awake, Signalling, SignallingKind, CondVars
    <3>2. Helpers(e) \subseteq Helpers(e)'
      BY <2>1, <3>1, OthersHelp
    <3>3. QED
      BY <1>3, <2>1, <3>2, SuppliedStep DEF WakeupInv
  <2>5. QED
    BY <2>2, <2>3, <2>4 DEF WakeupInv
<1>5. CASE waiters[c] # {}
  <2>1. PICK w \in waiters[c] :
          /\ waiters' = [waiters EXCEPT ![c] = @ \ {w}]
          /\ rval' = [rval EXCEPT ![w] = "ok"]
    BY <1>5 DEF SignalStep, CondSignal
  <2>2. w \in Threads /\ w # t /\ pc[w] = "waiting"
          /\ call[w].kind = WaitingKind(c)
    BY <1>2 DEF WakeupInv, WaitersSound, TypeOK, CondVars
  <2>3. waiters[c] \ waiters'[c] = {w}
    <3>1. waiters'[c] = waiters[c] \ {w}
      BY <2>1 DEF TypeOK, CondVars
    <3>2. QED
      BY <3>1
  <2>4. /\ pc'[w] = "woken" /\ rval'[w] = "ok"
        /\ \A u \in Threads \ {t, w} : pc'[u] = pc[u] /\ rval'[u] = rval[u]
    BY <2>1, <2>2, <2>3 DEF SignalStep, TypeOK
  <2>5. /\ waiters'[c] = waiters[c] \ {w}
        /\ \A e \in CondVars \ {c} : waiters'[e] = waiters[e]
    BY <2>1 DEF TypeOK, CondVars
  <2>6. \A e \in CondVars \ {c} : w \notin waiters[e]
    BY <2>2 DEF WakeupInv, WaitersSound, WaitingKind, CondVars
  <2>7. WaitersSound'
    <3>1. SUFFICES ASSUME NEW e \in CondVars, NEW u \in waiters'[e]
                   PROVE  pc'[u] = "waiting" /\ call'[u].kind = WaitingKind(e)
      BY DEF WaitersSound
    <3>2. u \in waiters[e] /\ u \in Threads \ {t, w}
      <4>1. u \in waiters[e] /\ u # w
        BY <2>5, <2>6
      <4>2. u \in Threads
        BY <4>1 DEF TypeOK, CondVars
      <4>3. QED
        BY <1>2, <4>1, <4>2
    <3>3. QED
      BY <1>1, <2>4, <3>2 DEF WakeupInv, WaitersSound
  <2>8. \A e \in CondVars : \A u \in Threads \ {t, w} :
          u \in Helpers(e) <=> u \in Helpers(e)'
    BY <1>1, <2>4 DEF Helpers, Awake, Signalling
  <2>9. w \in Helpers(c)' /\ \A e \in CondVars : w \notin Helpers(e)
    BY <1>1, <2>2, <2>4 DEF Helpers, Awake, Signalling
  <2>10. \A e \in CondVars : Helpers(e) \subseteq Threads
    BY DEF Helpers, Awake, Signalling
  <2>11. Supplied(c)'
    <3>1. w \in Threads \ Helpers(c)
      BY <2>2, <2>9
    <3>2. (Helpers(c) \ {t}) \cup {w} \subseteq Helpers(c)'
      BY <2>8, <2>9, <2>10
    <3>3. QED
      BY <1>3, <1>5, <3>1, <3>2, SuppliedStep DEF WakeupInv
  <2>12. ASSUME NEW e \in CondVars \ {c} PROVE Supplied(e)'
    <3>1. t \notin Helpers(e)
      BY <1>1 DEF Helpers, Awake, Signalling, SignallingKind, CondVars
    <3>2. Helpers(e) \subseteq Helpers(e)'
      BY <2>8, <2>9, <2>10, <3>1
    <3>3. waiters'[e] = {} \/ waiters[e] # {}
      BY <2>5
    <3>4. QED
      BY <1>3, <3>2, <3>3, SuppliedStep DEF WakeupInv
  <2>13. QED
    BY <2>7, <2>11, <2>12 DEF WakeupInv
<1>6. QED
  BY <1>4, <1>5

\* Every step of the queue keeps the invariant.
LEMMA WakeupInvStep ==
  ASSUME TypeOK, TypeOK', WakeupInv, [Next]_vars
  PROVE  WakeupInv'
<1> USE DEF Goto, ring, sync, local
<1>0. \A t \in Threads : pc[t] # "waiting" => \A c \in CondVars : t \notin waiters[c]
  BY DEF WakeupInv, WaitersSound
<1>1. ASSUME NEW t \in Threads, Call(t) PROVE WakeupInv'
  <2>1. /\ OthersKept(t) /\ UNCHANGED <<head, tail, waiters>>
        /\ pc[t] = "idle"
    BY <1>1 DEF TypeOK, Call, ts_queue_enqueue, ts_queue_dequeue, Begin,
         OthersKept
  <2>2. \A c \in CondVars : t \notin Helpers(c)
    BY <2>1 DEF Helpers, Awake, Signalling
  <2>3. QED
    BY <1>0, <2>1, <2>2, WakeupFrame
<1>2. ASSUME NEW t \in Threads, Lock(t) \/ Unlock(t) PROVE WakeupInv'
  <2>1. /\ OthersKept(t) /\ UNCHANGED <<head, tail, waiters>>
        /\ pc[t] \in {"lock", "unlock"}
    BY <1>2 DEF TypeOK, Lock, Unlock, OthersKept
  <2>2. \A c \in CondVars : t \notin Helpers(c)
    BY <2>1 DEF Helpers, Awake, Signalling
  <2>3. QED
    BY <1>0, <2>1, <2>2, WakeupFrame
<1>3. ASSUME NEW t \in Threads, EnqueueWait(t) \/ DequeueWait(t)
      PROVE  WakeupInv'
  <2>1. CASE EnqueueWait(t)
    <3>1. call[t].kind = WaitingKind("full_cnd")
      BY <2>1 DEF EnqueueWait, IsEnqueue, WaitingKind
    <3>2. Supply("full_cnd") <= 0
      BY <2>1, SizeAssumption
      DEF EnqueueWait, EnqueueMustWait, Full, Supply, TypeOK
    <3>3. QED
      BY <2>1, <3>1, <3>2, WaitStep DEF EnqueueWait, CondVars
  <2>2. CASE DequeueWait(t)
    <3>1. call[t].kind = WaitingKind("cnd")
      BY <2>2, CallFields DEF DequeueWait, IsEnqueue, WaitingKind, Kinds
    <3>2. Supply("cnd") <= 0
      BY <2>2 DEF DequeueWait, DequeueMustWait, Empty, Supply, TypeOK
    <3>3. QED
      BY <2>2, <3>1, <3>2, WaitStep DEF DequeueWait, CondVars
  <2>3. QED
    BY <1>3, <2>1, <2>2
<1>4. ASSUME NEW t \in Threads, EnqueueGiveUp(t) \/ DequeueGiveUp(t)
      PROVE  WakeupInv'
  <2>1. /\ OthersKept(t) /\ UNCHANGED <<head, tail, waiters>>
        /\ pc[t] = "test" /\ rval[t] # "ok"
    BY <1>4 DEF TypeOK, EnqueueGiveUp, DequeueGiveUp, OthersKept
  <2>2. \A c \in CondVars : t \notin Helpers(c)
    BY <2>1 DEF Helpers, Awake, Signalling
  <2>3. QED
    BY <1>0, <2>1, <2>2, WakeupFrame
<1>5. ASSUME NEW t \in Threads,
             \/ EnqueueStore(t) \/ DequeueLoad(t)
             \/ EnqueueCount(t) \/ DequeueCount(t)
      PROVE  WakeupInv'
  <2>1. /\ OthersKept(t) /\ UNCHANGED <<head, tail, waiters, call>>
        /\ pc[t] \in {"access", "count"} /\ pc'[t] \in {"count", "signal"}
    BY <1>5 DEF TypeOK, EnqueueStore, DequeueLoad, EnqueueCount, DequeueCount,
         OthersKept
  <2>2. \A c \in CondVars : t \in Helpers(c) => t \in Helpers(c)'
    BY <2>1 DEF Helpers, Awake, Signalling
  <2>3. QED
    BY <1>0, <2>1, <2>2, WakeupFrame
<1>6. ASSUME NEW t \in Threads, EnqueueSignal(t) \/ DequeueSignal(t)
      PROVE  WakeupInv'
  <2>1. PICK c \in CondVars :
          call[t].kind = SignallingKind(c) /\ SignalStep(t, c)
    BY <1>6, CallFields
    DEF EnqueueSignal, DequeueSignal, IsEnqueue, Kinds, SignallingKind, CondVars
  <2>2. QED
    BY <2>1, SignalKeeps
<1>7. ASSUME NEW t \in Threads, NEW r \in {"ok", "ETIMEDOUT"}, Wake(t, r)
      PROVE  WakeupInv'
  <2>1. /\ OthersKept(t) /\ UNCHANGED <<head, tail>>
        /\ pc[t] = "waiting"
        /\ \A c \in CondVars : waiters'[c] = waiters[c] \ {t}
    BY <1>7 DEF TypeOK, Wake, OthersKept, CondVars
  <2>2. \A c \in CondVars : t \notin Helpers(c)
    BY <2>1 DEF Helpers, Awake, Signalling
  <2>3. QED
    BY <2>1, <2>2, WakeupFrame
<1>8. ASSUME NEW t \in Threads, Relock(t) PROVE WakeupInv'
  <2>1. /\ OthersKept(t) /\ UNCHANGED <<head, tail, waiters, call, rval>>
        /\ pc[t] = "woken" /\ pc'[t] = "test"
    BY <1>8 DEF TypeOK, Relock, OthersKept
  <2>2. \A c \in CondVars : t \in Helpers(c) => t \in Helpers(c)'
    BY <2>1 DEF Helpers, Awake, Signalling
  <2>3. QED
    BY <1>0, <2>1, <2>2, WakeupFrame
<1>9. CASE UNCHANGED vars
  BY <1>9 DEF vars, WakeupInv, WaitersSound, Supplied, Supply, Helpers, Awake,
       Signalling
<1>10. QED
  BY <1>1, <1>2, <1>3, <1>4, <1>5, <1>6, <1>7, <1>8, <1>9, ClaimStep
  DEF Next, Quiescent, Step, Timeout, SpuriousWakeup

\* No wakeup is lost, for any number of threads, items and slots, and even
\* where mutex_lock fails: as long as a thread is blocked on cnd (full_cnd),
\* each queued item (free slot) has a thread awake for it or a signal still to
\* come, though ts_queue_enqueue and ts_queue_dequeue signal once and never
\* broadcast.
THEOREM WakeupsKept == Spec => []NoLostWakeup
<1>1. Init => WakeupInv
  BY DEF Init, WakeupInv, WaitersSound, Supplied, CondVars
<1>2. TypeOK /\ TypeOK' /\ WakeupInv /\ [Next]_vars => WakeupInv'
  BY WakeupInvStep
<1>3. WakeupInv => NoLostWakeup
  <2>1. WakeupInv => Supplied("cnd") /\ Supplied("full_cnd")
    BY DEF WakeupInv, CondVars
  <2>2. QED
    BY <2>1
    DEF NoLostWakeup, Supplied, Supply, Helpers, WaitingKind, SignallingKind
<1>4. QED
  BY <1>1, <1>2, <1>3, TypeCorrect, PTL DEF Spec
-----------------------------------------------------------------------------
(* Linearisability: TsQueue implements BoundedFifo under the refinement    *)
(* mapping QueueView, StatusView. Under mutual exclusion at most one call  *)
(* stands between its claim and its access, so the abstract queue ends one *)
(* slot short of the concrete one at the side of that call.                *)

\* The ends of the abstract queue.
Lo == tail - Accessing("dequeue")
Hi == head - Accessing("enqueue")

\* The claimed slot is the last one, still free (still filled) until its
\* access, and the other side has not come near it.
AccessInv ==
    \A t \in Threads : pc[t] = "access" =>
        IF IsEnqueue(t)
        THEN tail <= head - 1 /\ slot[t] = Index(head - 1)
        ELSE 1 <= tail /\ head <= tail - 1 + Size /\ slot[t] = Index(tail - 1)

\* Only a timed call sees a wait fail, and a call that has not signalled has
\* not succeeded.
ResultInv ==
    \A t \in Threads :
        /\ rval[t] # "ok" => call[t].wait = "timed"
        /\ pc[t] \in PcSet \ {"idle", "unlock"} => retval[t] = FALSE

\* Every step keeps what is known of the claimed slot.
LEMMA AccessInvStep ==
  ASSUME TypeOK, HoldsMutex, RingInv, AccessInv, [Next]_vars
  PROVE  AccessInv'
<1> USE DEF Goto, ring, sync, local
<1>1. ASSUME UNCHANGED <<head, tail>>,
             \A u \in Threads : pc'[u] = "access" =>
                pc[u] = "access" /\ call'[u] = call[u] /\ slot'[u] = slot[u]
      PROVE  AccessInv'
  BY <1>1 DEF AccessInv, IsEnqueue, Index
<1>2. ASSUME NEW t \in Threads, Call(t) PROVE AccessInv'
  BY <1>1, <1>2
  DEF TypeOK, Call, ts_queue_enqueue, ts_queue_dequeue, Begin
<1>3. ASSUME NEW t \in Threads, Lock(t) \/ Unlock(t) \/ Relock(t)
      PROVE  AccessInv'
  BY <1>1, <1>3 DEF TypeOK, Lock, Unlock, Relock
<1>4. ASSUME NEW t \in Threads, EnqueueWait(t) \/ DequeueWait(t)
      PROVE  AccessInv'
  BY <1>1, <1>4 DEF TypeOK, EnqueueWait, DequeueWait, Sleep, Spin
<1>5. ASSUME NEW t \in Threads, EnqueueClaim(t) PROVE AccessInv'
  <2>1. \A u \in Threads : pc'[u] = "access" => u = t
    BY <1>5 DEF TypeOK, HoldsMutex, Critical, EnqueueClaim
  <2>2. IsEnqueue(t)' /\ slot'[t] = Index(head) /\ tail' = tail /\ head' = head + 1
    BY <1>5 DEF TypeOK, EnqueueClaim, IsEnqueue
  <2>3. tail <= head /\ head' - 1 = head
    BY <2>2 DEF TypeOK, RingInv
  <2>4. QED
    BY <2>1, <2>2, <2>3 DEF AccessInv, Index
<1>6. ASSUME NEW t \in Threads, DequeueClaim(t) PROVE AccessInv'
  <2>1. \A u \in Threads : pc'[u] = "access" => u = t
    BY <1>6 DEF TypeOK, HoldsMutex, Critical, DequeueClaim
  <2>2. ~IsEnqueue(t)' /\ slot'[t] = Index(tail) /\ tail' = tail + 1 /\ head' = head
    BY <1>6 DEF TypeOK, DequeueClaim, IsEnqueue
  <2>3. head <= tail + Size /\ tail' - 1 = tail /\ 1 <= tail'
    BY <2>2 DEF TypeOK, RingInv
  <2>4. QED
    BY <2>1, <2>2, <2>3 DEF AccessInv, Index
<1>7. ASSUME NEW t \in Threads, EnqueueGiveUp(t) \/ DequeueGiveUp(t)
      PROVE  AccessInv'
  BY <1>1, <1>7 DEF TypeOK, EnqueueGiveUp, DequeueGiveUp
<1>8. ASSUME NEW t \in Threads,
             \/ EnqueueStore(t) \/ DequeueLoad(t)
             \/ EnqueueCount(t) \/ DequeueCount(t)
      PROVE  AccessInv'
  BY <1>1, <1>8
  DEF TypeOK, EnqueueStore, DequeueLoad, EnqueueCount, DequeueCount
<1>9. ASSUME NEW t \in Threads, NEW c \in CondVars, SignalStep(t, c)
      PROVE  AccessInv'
  <2>1. \A u \in Threads : pc'[u] = "access" => pc[u] = "access"
    BY <1>9 DEF TypeOK, SignalStep
  <2>2. QED
    BY <1>1, <1>9, <2>1 DEF SignalStep
<1>10. ASSUME NEW t \in Threads, NEW r \in {"ok", "ETIMEDOUT"}, Wake(t, r)
       PROVE  AccessInv'
  BY <1>1, <1>10 DEF TypeOK, Wake
<1>11. CASE UNCHANGED vars
  BY <1>1, <1>11 DEF vars
<1>12. QED
  BY <1>2, <1>3, <1>4, <1>5, <1>6, <1>7, <1>8, <1>9, <1>10, <1>11
  DEF Next, Quiescent, Step, EnqueueSignal, DequeueSignal, CondVars, Timeout,
      SpuriousWakeup

\* Every step keeps what is known of a call's results.
LEMMA ResultInvStep ==
  ASSUME TypeOK, WaitersSound, ResultInv, [Next]_vars
  PROVE  ResultInv'
<1> USE DEF Goto, ring, sync, local, PcSet, Critical
<1>1. ASSUME NEW t \in Threads, Call(t) PROVE ResultInv'
  BY <1>1, SMTT(60)
  DEF TypeOK, Call, ts_queue_enqueue, ts_queue_dequeue, Begin, ResultInv
<1>2. ASSUME NEW t \in Threads, Lock(t) \/ Unlock(t) \/ Relock(t)
      PROVE  ResultInv'
  BY <1>2, ZenonT(60) DEF TypeOK, Lock, Unlock, Relock, ResultInv
<1>3. ASSUME NEW t \in Threads, EnqueueWait(t) \/ DequeueWait(t)
      PROVE  ResultInv'
  <2>1. CASE \E c \in CondVars : Sleep(t, c)
    BY <2>1 DEF TypeOK, Sleep, ResultInv
  <2>2. CASE Spin(t)
    BY <2>2 DEF TypeOK, Spin, ResultInv
  <2>3. QED
    BY <1>3, <2>1, <2>2 DEF EnqueueWait, DequeueWait, CondVars
<1>4. ASSUME NEW t \in Threads, EnqueueClaim(t) \/ DequeueClaim(t)
      PROVE  ResultInv'
  BY <1>4, ZenonT(60) DEF TypeOK, EnqueueClaim, DequeueClaim, ResultInv
<1>5. ASSUME NEW t \in Threads, EnqueueGiveUp(t) \/ DequeueGiveUp(t)
      PROVE  ResultInv'
  BY <1>5 DEF TypeOK, EnqueueGiveUp, DequeueGiveUp, ResultInv
<1>6. ASSUME NEW t \in Threads,
             \/ EnqueueStore(t) \/ DequeueLoad(t)
             \/ EnqueueCount(t) \/ DequeueCount(t)
      PROVE  ResultInv'
  BY <1>6 DEF TypeOK, EnqueueStore, DequeueLoad, EnqueueCount, DequeueCount,
       ResultInv
<1>7. ASSUME NEW t \in Threads, NEW c \in CondVars, SignalStep(t, c)
      PROVE  ResultInv'
  <2>1. \A u \in Threads : rval'[u] = rval[u] \/ rval'[u] = "ok"
    BY <1>7 DEF TypeOK, SignalStep, CondSignal
  <2>2. \A u \in Threads \ {t} : retval'[u] = retval[u]
    BY <1>7 DEF TypeOK, SignalStep
  <2>3. \A u \in waiters[c] : pc[u] = "waiting"
    BY DEF WaitersSound
  <2>4. pc'[t] = "unlock"
    BY <1>7, <2>3 DEF SignalStep
  <2>5. \A u \in Threads \ {t} :
          pc'[u] = pc[u] \/ (pc[u] = "waiting" /\ pc'[u] = "woken")
    BY <1>7, <2>3 DEF SignalStep
  <2>6. call' = call
    BY <1>7 DEF SignalStep
  <2>7. QED
    BY <2>1, <2>2, <2>4, <2>5, <2>6 DEF ResultInv
<1>8. ASSUME NEW t \in Threads, Timeout(t) \/ SpuriousWakeup(t)
      PROVE  ResultInv'
  BY <1>8 DEF TypeOK, Timeout, SpuriousWakeup, Wake, ResultInv
<1>9. CASE UNCHANGED vars
  BY <1>9 DEF vars, ResultInv
<1>10. QED
  BY <1>1, <1>2, <1>3, <1>4, <1>5, <1>6, <1>7, <1>8, <1>9
  DEF Next, Quiescent, Step, EnqueueSignal, DequeueSignal, CondVars

\* A number is a multiple of the divisor and its remainder.
LEMMA DivisionIs ==
  ASSUME NEW m \in Nat \ {0}, NEW a \in Nat
  PROVE  /\ a = (a \div m) * m + (a % m)
         /\ a \div m \in Int /\ a % m \in 0..m-1
  OBVIOUS

\* Two counters less than Size apart do not share a slot.
LEMMA SlotsApart ==
  ASSUME NEW a \in Nat, NEW b \in Nat, a < b, b - a < Size
  PROVE  Index(a) # Index(b)
<1>1. SUFFICES ASSUME a % Size = b % Size PROVE FALSE
  BY DEF Index
<1>2. /\ a = (a \div Size) * Size + (a % Size)
      /\ a \div Size \in Int /\ a % Size \in 0..Size-1
  BY SizeAssumption, DivisionIs
<1>3. b = (b \div Size) * Size + (b % Size) /\ b \div Size \in Int
  BY SizeAssumption, DivisionIs
<1>4. PICK m \in Int : m = a \div Size
  BY <1>2
<1>5. PICK n \in Int : n = b \div Size
  BY <1>3
<1>6. (n - m) * Size = b - a
  BY <1>1, <1>2, <1>3, <1>4, <1>5, SizeAssumption
<1>7. \A k \in Int : k <= 0 => k * Size <= 0
  BY SizeAssumption
<1>8. \A k \in Int : k >= 1 => k * Size >= Size
  BY SizeAssumption
<1>9. QED
  BY <1>6, <1>7, <1>8, SizeAssumption

\* Where the ends of the abstract queue are.
EndsSound ==
    /\ (\A t \in Threads : pc[t] # "access") => Lo = tail /\ Hi = head
    /\ \A t \in Threads : pc[t] = "access" =>
         IF IsEnqueue(t) THEN Lo = tail /\ Hi = head - 1
                         ELSE Lo = tail - 1 /\ Hi = head

\* A call that stands before its access has moved its end of the ring, and not
\* yet the abstract queue's.
LEMMA EndsAre == TypeOK /\ HoldsMutex => EndsSound
<1> SUFFICES ASSUME TypeOK, HoldsMutex PROVE EndsSound
  OBVIOUS
<1> DEFINE A(kind) == {t \in Threads : call[t].kind = kind /\ pc[t] = "access"}
<1>1. ASSUME \A t \in Threads : pc[t] # "access"
      PROVE  Lo = tail /\ Hi = head
  <2>1. A("enqueue") = {} /\ A("dequeue") = {}
    BY <1>1
  <2>2. Accessing("enqueue") = 0 /\ Accessing("dequeue") = 0
    BY <2>1, FS_EmptySet DEF Accessing
  <2>3. QED
    BY <2>2 DEF Lo, Hi, TypeOK
<1>2. ASSUME NEW t \in Threads, pc[t] = "access"
      PROVE  IF IsEnqueue(t) THEN Lo = tail /\ Hi = head - 1
                             ELSE Lo = tail - 1 /\ Hi = head
  <2>1. \A u \in Threads : pc[u] = "access" => u = t
    BY <1>2 DEF HoldsMutex, Critical
  <2>2. CASE IsEnqueue(t)
    <3>1. A("enqueue") = {t} /\ A("dequeue") = {}
      BY <1>2, <2>1, <2>2 DEF IsEnqueue
    <3>2. Accessing("enqueue") = 1 /\ Accessing("dequeue") = 0
      BY <3>1, FS_EmptySet, FS_Singleton DEF Accessing
    <3>3. QED
      BY <2>2, <3>2 DEF Lo, Hi, TypeOK
  <2>3. CASE ~IsEnqueue(t)
    <3>1. A("enqueue") = {} /\ A("dequeue") = {t}
      BY <1>2, <2>1, <2>3, CallFields DEF IsEnqueue, Kinds
    <3>2. Accessing("enqueue") = 0 /\ Accessing("dequeue") = 1
      BY <3>1, FS_EmptySet, FS_Singleton DEF Accessing
    <3>3. QED
      BY <2>3, <3>2 DEF Lo, Hi, TypeOK
  <2>4. QED
    BY <2>2, <2>3
<1>3. QED
  BY <1>1, <1>2 DEF EndsSound

\* A step that moves no end and leaves the array alone leaves the abstract
\* queue alone.
LEMMA QueueKept ==
  ASSUME UNCHANGED array, Lo' = Lo, Hi' = Hi
  PROVE  QueueView' = QueueView
<1>1. QueueView = [i \in 1..(Hi - Lo) |-> array[Index(Lo + i - 1)]]
  BY DEF QueueView, Lo, Hi
<1>2. QueueView' = [i \in 1..(Hi' - Lo') |-> array'[Index(Lo' + i - 1)]]
  BY DEF QueueView, Lo, Hi, Index
<1>3. QED
  BY <1>1, <1>2

\* Neither does a step that neither claims nor accesses a slot.
LEMMA QueueFrame ==
  ASSUME UNCHANGED <<head, tail, array>>,
         \A t \in Threads : pc'[t] = "access" <=> pc[t] = "access",
         \A t \in Threads : pc[t] = "access" => call'[t] = call[t]
  PROVE  QueueView' = QueueView
<1>1. ASSUME NEW kind \in Kinds PROVE Accessing(kind)' = Accessing(kind)
  <2>1. {t \in Threads : call'[t].kind = kind /\ pc'[t] = "access"}
          = {t \in Threads : call[t].kind = kind /\ pc[t] = "access"}
    OBVIOUS
  <2>2. QED
    BY <2>1 DEF Accessing
<1>2. Lo' = Lo /\ Hi' = Hi
  BY <1>1 DEF Lo, Hi, Kinds
<1>3. QED
  BY <1>2, QueueKept

\* Where thread t stands in its abstract call.
StatusOf(t) ==
    CASE pc[t] = "idle" -> "idle"
      [] pc[t] \in {"count", "signal"} -> "done"
      [] pc[t] = "unlock" -> IF retval[t] THEN "done" ELSE "failed"
      [] OTHER -> "pending"

\* What the two ends of a step say of the abstract status of its thread, when
\* the step changes nobody else's.
LEMMA StatusMoves ==
  ASSUME NEW t \in Threads,
         \A u \in Threads \ {t} : StatusOf(u)' = StatusOf(u)
  PROVE  /\ StatusView[t] = StatusOf(t)
         /\ StatusView' = [StatusView EXCEPT ![t] = StatusOf(t)']
         /\ StatusOf(t)' = StatusOf(t) => StatusView' = StatusView
<1>1. StatusView = [u \in Threads |-> StatusOf(u)]
  BY DEF StatusView, StatusOf
<1>2. StatusView' = [u \in Threads |-> StatusOf(u)']
  BY DEF StatusView, StatusOf
<1>3. QED
  BY <1>1, <1>2

\* What an item of the array may be, and the items from slot lo up to slot hi.
Values == Items \cup {NoItem}
View(a, lo, hi) == [i \in 1..(hi - lo) |-> a[Index(lo + i - 1)]]

\* A view is a sequence.
LEMMA ViewIsSeq ==
  ASSUME NEW a \in [0..Size-1 -> Values], NEW lo \in Nat, NEW hi \in Nat,
         lo <= hi
  PROVE  /\ View(a, lo, hi) \in Seq(Values)
         /\ Len(View(a, lo, hi)) = hi - lo
         /\ \A i \in 1..(hi - lo) :
              View(a, lo, hi)[i] = a[Index(lo + i - 1)]
<1>1. PICK n \in Nat : n = hi - lo
  OBVIOUS
<1>2. \A i \in 1..n : lo + i - 1 \in Nat
  OBVIOUS
<1>3. \A i \in 1..n : a[Index(lo + i - 1)] \in Values
  BY <1>2, IndexInArray
<1>4. View(a, lo, hi) = [i \in 1..n |-> a[Index(lo + i - 1)]]
  BY <1>1 DEF View
<1>5. View(a, lo, hi) \in [1..n -> Values]
  BY <1>3, <1>4
<1>6. View(a, lo, hi) \in Seq(Values)
  BY <1>5, SeqDef
<1>7. Len(View(a, lo, hi)) = n
  <2>1. DOMAIN View(a, lo, hi) = 1..n
    BY <1>5
  <2>2. PICK s \in Seq(Values) : s = View(a, lo, hi)
    BY <1>6
  <2>3. Len(s) \in Nat /\ 1..Len(s) = 1..n
    BY <2>1, <2>2, LenProperties
  <2>4. Len(s) = n
    BY <2>3
  <2>5. QED
    BY <2>2, <2>4
<1>8. QED
  BY <1>1, <1>4, <1>6, <1>7

\* Storing into the slot after the last one appends to the view.
LEMMA StoreAppends ==
  ASSUME NEW a \in [0..Size-1 -> Values], NEW x \in Values,
         NEW lo \in Nat, NEW hi \in Nat, lo <= hi, hi < lo + Size
  PROVE  View([a EXCEPT ![Index(hi)] = x], lo, hi + 1)
           = Append(View(a, lo, hi), x)
<1>1. PICK b \in [0..Size-1 -> Values] : b = [a EXCEPT ![Index(hi)] = x]
  OBVIOUS
<1>2. PICK q \in Seq(Values) : q = View(a, lo, hi)
  BY ViewIsSeq
<1>3. PICK n \in Nat : n = hi - lo
  OBVIOUS
<1>4. PICK h \in Nat : h = hi + 1 /\ lo <= h /\ h - lo = n + 1
  BY <1>3
<1>5. PICK r \in Seq(Values) : r = View(b, lo, h)
  BY <1>4, ViewIsSeq
<1>6. Len(q) = n /\ \A i \in 1..n : q[i] = a[Index(lo + i - 1)]
  <2>1. /\ Len(View(a, lo, hi)) = hi - lo
        /\ \A i \in 1..(hi - lo) :
             View(a, lo, hi)[i] = a[Index(lo + i - 1)]
    BY ViewIsSeq, ZenonT(60)
  <2>2. QED
    BY ONLY <1>2, <1>3, <2>1
<1>7. Len(r) = n + 1 /\ \A i \in 1..(n + 1) : r[i] = b[Index(lo + i - 1)]
  <2>1. /\ Len(View(b, lo, h)) = h - lo
        /\ \A i \in 1..(h - lo) : View(b, lo, h)[i] = b[Index(lo + i - 1)]
    BY <1>4, ViewIsSeq, ZenonT(60)
  <2>2. QED
    BY ONLY <1>4, <1>5, <2>1
<1>8. \A i \in 1..n : r[i] = q[i]
  <2>1. SUFFICES ASSUME NEW i \in 1..n PROVE r[i] = q[i]
    OBVIOUS
  <2>2. PICK p \in Nat : p = lo + i - 1
    OBVIOUS
  <2>3. p < hi /\ hi - p < Size
    BY <1>3, <2>2, SizeAssumption
  <2>4. Index(p) \in 0..Size-1 /\ Index(p) # Index(hi)
    BY <2>3, IndexInArray, SlotsApart
  <2>5. b[Index(p)] = a[Index(p)]
    BY <1>1, <2>4
  <2>6. i \in 1..(n + 1)
    OBVIOUS
  <2>7. QED
    BY <1>6, <1>7, <2>2, <2>5, <2>6
<1>9. r[n + 1] = x
  <2>1. n + 1 \in 1..(n + 1) /\ lo + (n + 1) - 1 = hi
    BY <1>3
  <2>2. b[Index(hi)] = x
    BY <1>1, IndexInArray
  <2>3. QED
    BY <1>7, <2>1, <2>2
<1>10. PICK s \in Seq(Values) : s = Append(q, x)
  BY AppendProperties
<1>11. Len(s) = n + 1 /\ s[n + 1] = x /\ \A i \in 1..n : s[i] = q[i]
  BY <1>6, <1>10, AppendProperties
<1>12. \A i \in 1..(n + 1) : i \in 1..n \/ i = n + 1
  OBVIOUS
<1>13. \A i \in 1..(n + 1) : r[i] = s[i]
  BY <1>8, <1>9, <1>11, <1>12
<1>14. r = s
  BY <1>7, <1>11, <1>13, SeqEqual
<1>15. QED
  BY <1>4, <1>1, <1>2, <1>5, <1>10, <1>14

\* Moving past the first slot takes the head off the view.
LEMMA LoadTakes ==
  ASSUME NEW a \in [0..Size-1 -> Values],
         NEW lo \in Nat, NEW hi \in Nat, lo < hi
  PROVE  /\ View(a, lo, hi) # << >>
         /\ Head(View(a, lo, hi)) = a[Index(lo)]
         /\ Tail(View(a, lo, hi)) = View(a, lo + 1, hi)
<1>1. PICK n \in Nat : n + 1 = hi - lo
  <2>1. hi - lo - 1 \in Nat /\ (hi - lo - 1) + 1 = hi - lo
    OBVIOUS
  <2>2. QED
    BY <2>1
<1>2. PICK q \in Seq(Values) : q = View(a, lo, hi)
  BY ViewIsSeq
<1>3. Len(q) = n + 1 /\ \A i \in 1..(n + 1) : q[i] = a[Index(lo + i - 1)]
  <2>1. /\ Len(View(a, lo, hi)) = hi - lo
        /\ \A i \in 1..(hi - lo) :
             View(a, lo, hi)[i] = a[Index(lo + i - 1)]
    <3>1. lo <= hi
      OBVIOUS
    <3>2. QED
      BY <3>1, ViewIsSeq, Zenon
  <2>2. QED
    BY ONLY <1>1, <1>2, <2>1
<1>4. q # << >>
  <2>1. Len(<< >>) = 0
    BY EmptySeq
  <2>2. QED
    BY <1>3, <2>1
<1>5. Head(q) = a[Index(lo)]
  <2>1. 1 \in 1..(n + 1) /\ lo + 1 - 1 = lo
    OBVIOUS
  <2>2. Head(q) = q[1]
    BY <1>4
  <2>3. QED
    BY <1>3, <2>1, <2>2
<1>6. PICK r \in Seq(Values) : r = Tail(q)
  BY <1>4, HeadTailProperties
<1>7. Len(r) = n /\ \A i \in 1..n : r[i] = q[i + 1]
  BY <1>3, <1>4, <1>6, HeadTailProperties
<1>8. lo + 1 \in Nat /\ lo + 1 <= hi /\ hi - (lo + 1) = n
  BY <1>1
<1>9. PICK s \in Seq(Values) : s = View(a, lo + 1, hi)
  BY <1>8, ViewIsSeq
<1>10. Len(s) = n /\ \A i \in 1..n : s[i] = a[Index(lo + 1 + i - 1)]
  BY <1>8, <1>9, ViewIsSeq, ZenonT(60)
<1>11. \A i \in 1..n : i + 1 \in 1..(n + 1) /\ lo + (i + 1) - 1 = lo + 1 + i - 1
  OBVIOUS
<1>12. \A i \in 1..n : r[i] = s[i]
  BY <1>3, <1>7, <1>10, <1>11
<1>13. r = s
  BY <1>7, <1>10, <1>12, SeqEqual
<1>14. QED
  BY <1>2, <1>4, <1>5, <1>6, <1>9, <1>13

\* The abstract status, step by step of the function.
LEMMA StatusIs ==
  ASSUME NEW t \in Threads
  PROVE  /\ pc[t] = "idle" => StatusOf(t) = "idle"
         /\ pc[t] \in {"lock", "test", "waiting", "woken", "access"} =>
              StatusOf(t) = "pending"
         /\ pc[t] \in {"count", "signal"} => StatusOf(t) = "done"
         /\ pc[t] = "unlock" =>
              StatusOf(t) = IF retval[t] THEN "done" ELSE "failed"
         /\ pc'[t] = "idle" => StatusOf(t)' = "idle"
         /\ pc'[t] \in {"lock", "test", "waiting", "woken", "access"} =>
              StatusOf(t)' = "pending"
         /\ pc'[t] \in {"count", "signal"} => StatusOf(t)' = "done"
         /\ pc'[t] = "unlock" =>
              StatusOf(t)' = IF retval'[t] THEN "done" ELSE "failed"
         /\ pc'[t] = pc[t] /\ retval'[t] = retval[t] =>
              StatusOf(t)' = StatusOf(t)
  BY DEF StatusOf

\* The ends of the abstract queue before and after a step.
LEMMA EndsAreNext == TypeOK' /\ HoldsMutex' => EndsSound'
  BY EndsAre, PTL

\* Each step of the queue is one of the bounded FIFO's, or none.
LEMMA Simulation ==
  ASSUME TypeOK, TypeOK', HoldsMutex, HoldsMutex', RingInv, AccessInv,
         ResultInv, WaitersSound, [Next]_vars
  PROVE  [Fifo!Next]_(Fifo!vars)
<1> USE DEF Goto, ring, sync, local
<1>0. EndsSound /\ EndsSound'
  BY EndsAre, EndsAreNext
<1>1. ASSUME NEW t \in Threads, Call(t) PROVE Fifo!Invoke(t)
  <2>1. /\ pc[t] = "idle" /\ pc'[t] = "lock"
        /\ \A u \in Threads \ {t} :
             pc'[u] = pc[u] /\ retval'[u] = retval[u] /\ call'[u] = call[u]
    BY <1>1
    DEF TypeOK, Call, ts_queue_enqueue, ts_queue_dequeue, Begin
  <2>2. QueueView' = QueueView
    <3>1. UNCHANGED <<head, tail, array>>
      BY <1>1 DEF Call, ts_queue_enqueue, ts_queue_dequeue, Begin
    <3>2. QED
      BY <2>1, <3>1, QueueFrame
  <2>3. \E c \in Fifo!Calls : call' = [call EXCEPT ![t] = c]
    <3>1. EnqueueCalls \subseteq Fifo!Calls /\ DequeueCalls \subseteq Fifo!Calls
      BY ConstantsAssumption
      DEF EnqueueCalls, DequeueCalls, Fifo!Calls, Fifo!WaitKinds
    <3>2. QED
      BY <1>1, <3>1 DEF Call, ts_queue_enqueue, ts_queue_dequeue, Begin
  <2>4. ret' = [ret EXCEPT ![t] = NoItem]
    BY <1>1 DEF Call, ts_queue_enqueue, ts_queue_dequeue, Begin
  <2>5. StatusView[t] = "idle" /\ StatusView' = [StatusView EXCEPT ![t] = "pending"]
    <3>1. \A u \in Threads \ {t} : StatusOf(u)' = StatusOf(u)
      BY <2>1, StatusIs
    <3>2. StatusOf(t) = "idle" /\ StatusOf(t)' = "pending"
      BY <2>1, StatusIs
    <3>3. QED
      BY <3>1, <3>2, StatusMoves
  <2>6. QED
    BY <2>2, <2>3, <2>4, <2>5 DEF Fifo!Invoke
<1>2. ASSUME NEW t \in Threads, EnqueueStore(t) PROVE Fifo!Enqueue(t)
  <2>1. /\ pc[t] = "access" /\ pc'[t] = "count" /\ IsEnqueue(t)
        /\ \A u \in Threads \ {t} : pc'[u] = pc[u] /\ retval'[u] = retval[u]
        /\ UNCHANGED <<head, tail, call, ret>>
        /\ array' = [array EXCEPT ![slot[t]] = call[t].item]
    BY <1>2 DEF TypeOK, EnqueueStore
  <2>2. \A u \in Threads : pc'[u] # "access"
    BY <2>1 DEF HoldsMutex, Critical
  <2>3. Lo = tail /\ Hi = head - 1 /\ Lo' = tail /\ Hi' = head
    BY <1>0, <2>1, <2>2 DEF EndsSound
  <2>4. tail <= head - 1 /\ head <= tail + Size /\ slot[t] = Index(head - 1)
    BY <2>1 DEF AccessInv, RingInv
  <2>5. PICK lo \in Nat, hi \in Nat : lo = tail /\ hi = head - 1 /\ hi + 1 = head
    BY <2>4 DEF TypeOK
  <2>6. lo <= hi /\ hi < lo + Size
    BY <2>4, <2>5, SizeAssumption DEF TypeOK
  <2>7. PICK a \in [0..Size-1 -> Values], x \in Values :
          a = array /\ x = call[t].item
    BY CallFields DEF TypeOK, Values
  <2>8. QueueView = View(a, lo, hi)
    <3>1. QueueView = View(array, Lo, Hi)
      BY DEF QueueView, View, Lo, Hi
    <3>2. QED
      BY <2>3, <2>5, <2>7, <3>1
  <2>9. QueueView' = View([a EXCEPT ![Index(hi)] = x], lo, hi + 1)
    <3>1. QueueView' = View(array', Lo', Hi')
      BY DEF QueueView, View, Lo, Hi, Index
    <3>2. array' = [a EXCEPT ![Index(hi)] = x]
      BY <2>1, <2>4, <2>5, <2>7
    <3>3. QED
      BY <2>3, <2>5, <3>1, <3>2
  <2>10. QueueView' = Append(QueueView, x)
    BY <2>6, <2>8, <2>9, StoreAppends
  <2>11. Len(QueueView) < Size
    <3>1. Len(View(a, lo, hi)) = hi - lo
      BY <2>6, ViewIsSeq
    <3>2. hi - lo < Size
      BY <2>6, SizeAssumption
    <3>3. QED
      BY <2>8, <3>1, <3>2
  <2>12. StatusView[t] = "pending" /\ StatusView' = [StatusView EXCEPT ![t] = "done"]
    <3>1. \A u \in Threads \ {t} : StatusOf(u)' = StatusOf(u)
      BY <2>1, StatusIs
    <3>2. StatusOf(t) = "pending" /\ StatusOf(t)' = "done"
      BY <2>1, StatusIs
    <3>3. QED
      BY <3>1, <3>2, StatusMoves
  <2>13. QED
    BY <2>1, <2>7, <2>10, <2>11, <2>12 DEF Fifo!Enqueue, IsEnqueue
<1>3. ASSUME NEW t \in Threads, DequeueLoad(t) PROVE Fifo!Dequeue(t)
  <2>1. /\ pc[t] = "access" /\ pc'[t] = "count" /\ ~IsEnqueue(t)
        /\ \A u \in Threads \ {t} : pc'[u] = pc[u] /\ retval'[u] = retval[u]
        /\ UNCHANGED <<head, tail, array, call>>
        /\ ret' = [ret EXCEPT ![t] = array[slot[t]]]
    BY <1>3 DEF TypeOK, DequeueLoad
  <2>2. \A u \in Threads : pc'[u] # "access"
    BY <2>1 DEF HoldsMutex, Critical
  <2>3. Lo = tail - 1 /\ Hi = head /\ Lo' = tail /\ Hi' = head
    BY <1>0, <2>1, <2>2 DEF EndsSound
  <2>4. 1 <= tail /\ tail <= head /\ slot[t] = Index(tail - 1)
    BY <2>1 DEF AccessInv, RingInv
  <2>5. PICK lo \in Nat, hi \in Nat : lo = tail - 1 /\ lo + 1 = tail /\ hi = head
    BY <2>4 DEF TypeOK
  <2>6. lo < hi
    BY <2>4, <2>5 DEF TypeOK
  <2>7. PICK a \in [0..Size-1 -> Values] : a = array
    BY DEF TypeOK, Values
  <2>8. QueueView = View(a, lo, hi)
    <3>1. QueueView = View(array, Lo, Hi)
      BY DEF QueueView, View, Lo, Hi
    <3>2. QED
      BY <2>3, <2>5, <2>7, <3>1
  <2>9. QueueView' = View(a, lo + 1, hi)
    <3>1. QueueView' = View(array', Lo', Hi')
      BY DEF QueueView, View, Lo, Hi, Index
    <3>2. QED
      BY <2>1, <2>3, <2>5, <2>7, <3>1
  <2>10. /\ QueueView # << >> /\ QueueView' = Tail(QueueView)
         /\ ret' = [ret EXCEPT ![t] = Head(QueueView)]
    <3>1. /\ View(a, lo, hi) # << >>
          /\ Head(View(a, lo, hi)) = a[Index(lo)]
          /\ Tail(View(a, lo, hi)) = View(a, lo + 1, hi)
      BY <2>6, LoadTakes
    <3>2. array[slot[t]] = a[Index(lo)]
      BY <2>4, <2>5, <2>7
    <3>3. QED
      BY <2>1, <2>8, <2>9, <3>1, <3>2
  <2>11. StatusView[t] = "pending" /\ StatusView' = [StatusView EXCEPT ![t] = "done"]
    <3>1. \A u \in Threads \ {t} : StatusOf(u)' = StatusOf(u)
      BY <2>1, StatusIs
    <3>2. StatusOf(t) = "pending" /\ StatusOf(t)' = "done"
      BY <2>1, StatusIs
    <3>3. QED
      BY <3>1, <3>2, StatusMoves
  <2>12. call[t].kind = "dequeue"
    BY <2>1, CallFields DEF IsEnqueue, Kinds
  <2>13. QED
    BY <2>1, <2>10, <2>11, <2>12 DEF Fifo!Dequeue
<1>4. ASSUME NEW t \in Threads, EnqueueGiveUp(t) \/ DequeueGiveUp(t)
      PROVE  Fifo!Fail(t)
  <2>1. /\ pc[t] = "test" /\ pc'[t] = "unlock" /\ rval[t] # "ok"
        /\ \A u \in Threads \ {t} : pc'[u] = pc[u]
        /\ UNCHANGED <<head, tail, array, call, ret, retval>>
    BY <1>4 DEF TypeOK, EnqueueGiveUp, DequeueGiveUp
  <2>2. QueueView' = QueueView
    BY <2>1, QueueFrame
  <2>3. call[t].wait = "timed" /\ retval[t] = FALSE
    BY <2>1 DEF ResultInv, PcSet, Critical
  <2>4. StatusView[t] = "pending" /\ StatusView' = [StatusView EXCEPT ![t] = "failed"]
    <3>1. \A u \in Threads \ {t} : StatusOf(u)' = StatusOf(u)
      BY <2>1, StatusIs
    <3>2. StatusOf(t) = "pending" /\ StatusOf(t)' = "failed"
      BY <2>1, <2>3, StatusIs
    <3>3. QED
      BY <3>1, <3>2, StatusMoves
  <2>5. QED
    BY <2>1, <2>2, <2>3, <2>4 DEF Fifo!Fail
<1>5. ASSUME NEW t \in Threads, Unlock(t) PROVE Fifo!Return(t)
  <2>1. /\ pc[t] = "unlock" /\ pc'[t] = "idle"
        /\ \A u \in Threads \ {t} : pc'[u] = pc[u]
        /\ UNCHANGED <<head, tail, array, call, ret, retval>>
    BY <1>5 DEF TypeOK, Unlock
  <2>2. QueueView' = QueueView
    BY <2>1, QueueFrame
  <2>3. /\ StatusView[t] \in {"done", "failed"}
        /\ StatusView' = [StatusView EXCEPT ![t] = "idle"]
    <3>1. \A u \in Threads \ {t} : StatusOf(u)' = StatusOf(u)
      BY <2>1, StatusIs
    <3>2. StatusOf(t) \in {"done", "failed"} /\ StatusOf(t)' = "idle"
      BY <2>1, StatusIs
    <3>3. QED
      BY <3>1, <3>2, StatusMoves
  <2>4. QED
    BY <2>1, <2>2, <2>3 DEF Fifo!Return
<1>6. ASSUME NEW t \in Threads, UNCHANGED <<call, ret>>,
             QueueView' = QueueView,
             \A u \in Threads : StatusOf(u)' = StatusOf(u)
      PROVE  UNCHANGED Fifo!vars
  BY <1>6, StatusMoves DEF Fifo!vars
<1>7. ASSUME NEW t \in Threads, EnqueueClaim(t) \/ DequeueClaim(t)
      PROVE  UNCHANGED Fifo!vars
  <2>1. /\ pc[t] = "test" /\ pc'[t] = "access"
        /\ \A u \in Threads \ {t} : pc'[u] = pc[u]
        /\ UNCHANGED <<array, call, ret, retval>>
    BY <1>7 DEF TypeOK, EnqueueClaim, DequeueClaim
  <2>2. \A u \in Threads : pc[u] # "access"
    BY <2>1 DEF HoldsMutex, Critical
  <2>3. Lo = tail /\ Hi = head
    BY <1>0, <2>2 DEF EndsSound
  <2>4. Lo' = tail /\ Hi' = head
    <3>1. IF IsEnqueue(t)' THEN Lo' = tail' /\ Hi' = head' - 1
                           ELSE Lo' = tail' - 1 /\ Hi' = head'
      BY <1>0, <2>1 DEF EndsSound
    <3>2. IsEnqueue(t)' <=> IsEnqueue(t)
      BY <2>1 DEF IsEnqueue
    <3>3. /\ IsEnqueue(t) => tail' = tail /\ head' = head + 1
          /\ ~IsEnqueue(t) => tail' = tail + 1 /\ head' = head
      BY <1>7 DEF EnqueueClaim, DequeueClaim
    <3>4. CASE IsEnqueue(t)
      BY <3>1, <3>2, <3>3, <3>4 DEF TypeOK
    <3>5. CASE ~IsEnqueue(t)
      BY <3>1, <3>2, <3>3, <3>5 DEF TypeOK
    <3>6. QED
      BY <3>4, <3>5
  <2>5. QueueView' = QueueView
    BY <2>1, <2>3, <2>4, QueueKept
  <2>6. \A u \in Threads : StatusOf(u)' = StatusOf(u)
    BY <2>1, StatusIs
  <2>7. QED
    BY <1>6, <2>1, <2>5, <2>6
<1>8. ASSUME NEW t \in Threads,
             \/ Lock(t) \/ Relock(t) \/ EnqueueWait(t) \/ DequeueWait(t)
             \/ Timeout(t) \/ SpuriousWakeup(t)
      PROVE  UNCHANGED Fifo!vars
  <2>1. /\ pc[t] \in {"lock", "test", "waiting", "woken"}
        /\ pc'[t] \in {"test", "waiting", "woken"}
        /\ \A u \in Threads \ {t} : pc'[u] = pc[u]
        /\ UNCHANGED <<head, tail, array, call, ret, retval>>
    <3>1. CASE Lock(t) \/ Relock(t)
      BY <3>1 DEF TypeOK, Lock, Relock
    <3>2. CASE EnqueueWait(t) \/ DequeueWait(t)
      BY <3>2 DEF TypeOK, EnqueueWait, DequeueWait, Sleep, Spin
    <3>3. CASE Timeout(t) \/ SpuriousWakeup(t)
      BY <3>3 DEF TypeOK, Timeout, SpuriousWakeup, Wake
    <3>4. QED
      BY <1>8, <3>1, <3>2, <3>3
  <2>2. QueueView' = QueueView
    BY <2>1, QueueFrame
  <2>3. \A u \in Threads : StatusOf(u)' = StatusOf(u)
    BY <2>1, StatusIs
  <2>4. QED
    BY <1>6, <2>1, <2>2, <2>3
<1>9. ASSUME NEW t \in Threads, EnqueueCount(t) \/ DequeueCount(t)
      PROVE  UNCHANGED Fifo!vars
  <2>1. /\ pc[t] = "count" /\ pc'[t] = "signal"
        /\ \A u \in Threads \ {t} : pc'[u] = pc[u]
        /\ UNCHANGED <<head, tail, array, call, ret, retval>>
    BY <1>9 DEF TypeOK, EnqueueCount, DequeueCount
  <2>2. QueueView' = QueueView
    BY <2>1, QueueFrame
  <2>3. \A u \in Threads : StatusOf(u)' = StatusOf(u)
    BY <2>1, StatusIs
  <2>4. QED
    BY <1>6, <2>1, <2>2, <2>3
<1>10. ASSUME NEW t \in Threads, NEW c \in CondVars, SignalStep(t, c)
       PROVE  UNCHANGED Fifo!vars
  <2>1. /\ pc[t] = "signal" /\ retval'[t] = TRUE
        /\ \A u \in Threads \ {t} : retval'[u] = retval[u]
        /\ UNCHANGED <<head, tail, array, call, ret>>
    BY <1>10 DEF TypeOK, SignalStep
  <2>2. \A u \in waiters[c] : pc[u] = "waiting"
    BY DEF WaitersSound
  <2>3. pc'[t] = "unlock"
    BY <1>10, <2>2 DEF SignalStep
  <2>4. \A u \in Threads \ {t} :
          pc'[u] = pc[u] \/ (pc[u] = "waiting" /\ pc'[u] = "woken")
    BY <1>10, <2>2 DEF SignalStep
  <2>5. QueueView' = QueueView
    BY <2>1, <2>3, <2>4, QueueFrame
  <2>6. \A u \in Threads : StatusOf(u)' = StatusOf(u)
    BY <2>1, <2>3, <2>4, StatusIs
  <2>7. QED
    BY <1>6, <2>1, <2>5, <2>6
<1>11. CASE UNCHANGED vars
  <2>1. UNCHANGED <<head, tail, array, pc, call, ret, retval>>
    BY <1>11 DEF vars
  <2>2. QueueView' = QueueView
    BY <2>1, QueueFrame
  <2>3. StatusView' = StatusView
    BY <2>1 DEF StatusView
  <2>4. QED
    BY <2>1, <2>2, <2>3 DEF Fifo!vars
<1>12. QED
  BY <1>1, <1>2, <1>3, <1>4, <1>5, <1>7, <1>8, <1>9, <1>10, <1>11
  DEF Next, Quiescent, Step, EnqueueSignal, DequeueSignal, CondVars, Fifo!Next

\* The initial queue is the empty FIFO.
LEMMA InitialFifo == Init => Fifo!Init
<1> SUFFICES ASSUME Init PROVE Fifo!Init
  OBVIOUS
<1>1. QueueView = << >>
  <2>1. Accessing("enqueue") = 0 /\ Accessing("dequeue") = 0
    <3>1. \A kind : {t \in Threads : call[t].kind = kind /\ pc[t] = "access"} = {}
      BY DEF Init
    <3>2. QED
      BY <3>1, FS_EmptySet DEF Accessing
  <2>2. QueueView = [i \in 1..(0 - 0) |-> array[Index(0 + i - 1)]]
    BY <2>1 DEF Init, QueueView
  <2>3. QED
    BY <2>2
<1>2. StatusView = [t \in Threads |-> "idle"]
  BY DEF Init, StatusView
<1>3. call \in [Threads -> Fifo!Calls]
  <2>1. DequeueCalls \subseteq Fifo!Calls
    BY ConstantsAssumption DEF DequeueCalls, Fifo!Calls, Fifo!WaitKinds
  <2>2. QED
    BY <2>1 DEF Init
<1>4. ret = [t \in Threads |-> NoItem]
  BY DEF Init
<1>5. QED
  BY <1>1, <1>2, <1>3, <1>4 DEF Fifo!Init

\* The ring with its mutex and condition variables is a linearisable bounded
\* FIFO, for any number of threads, items and slots, when the lock's deadline
\* is valid: a call takes effect at its access to the array, returns true
\* exactly when it did, and with WAIT_FOREVER always did.
THEOREM Linearisable ==
  ASSUME LockDeadlines \subseteq {"valid"}
  PROVE  Spec => FifoSpec
<1>1. Init => RingInv /\ AccessInv /\ ResultInv /\ WakeupInv
  BY SizeAssumption DEF Init, RingInv, InFlight, AccessInv, ResultInv, WakeupInv,
     WaitersSound, Supplied, CondVars
<1>2. TypeOK /\ HoldsMutex /\ HoldsMutex' /\ RingInv /\ [Next]_vars => RingInv'
  BY RingInvStep
<1>3. TypeOK /\ HoldsMutex /\ RingInv /\ AccessInv /\ [Next]_vars => AccessInv'
  BY AccessInvStep
<1>4. TypeOK /\ TypeOK' /\ WakeupInv /\ [Next]_vars => WakeupInv'
  BY WakeupInvStep
<1>5. WakeupInv => WaitersSound
  BY DEF WakeupInv
<1>6. TypeOK /\ WaitersSound /\ ResultInv /\ [Next]_vars => ResultInv'
  BY ResultInvStep
<1>7. TypeOK /\ TypeOK' /\ HoldsMutex /\ HoldsMutex' /\ RingInv /\ AccessInv
        /\ ResultInv /\ WaitersSound /\ [Next]_vars
      => [Fifo!Next]_(Fifo!vars)
  BY Simulation
<1>8. QED
  BY <1>1, <1>2, <1>3, <1>4, <1>5, <1>6, <1>7, InitialFifo, TypeCorrect,
     MutualExclusion, PTL DEF Spec, FifoSpec, Fifo!Spec
=============================================================================
