--------------------------- MODULE EventFlagProofs ---------------------------
(***************************************************************************)
(* Proofs about EventFlag, for every number of threads, every flag word    *)
(* and every set of waits.                                                 *)
(***************************************************************************)
EXTENDS EventFlag, TLAPS

\* Type correctness of event_flag_wait, event_flag_send and event_flag_clear
\* (inc/cutils/pthread/event_flag.h, lines 60-152); what a wait reports in
\* *p_actual_flags is part of the flags it asked for.
THEOREM TypeCorrect == Spec => []TypeOK
<1>1. Init => TypeOK
  BY DEF Init, TypeOK, Threads
<1>2. TypeOK /\ [Next]_vars => TypeOK'
  <2> SUFFICES ASSUME TypeOK, [Next]_vars PROVE TypeOK'
    OBVIOUS
  <2> USE DEF Goto, Critical, Acquire, Release, Threads
  <2>1. ASSUME NEW w \in Waiters, event_flag_wait(w) PROVE TypeOK'
    BY <2>1 DEF TypeOK, event_flag_wait
  <2>2. ASSUME NEW w \in Waiters, WaitStep(w) PROVE TypeOK'
    <3>1. CASE WaitLock(w)
      BY <3>1 DEF TypeOK, WaitLock
    <3>2. CASE WaitLockFails(w)
      BY <3>2 DEF TypeOK, WaitLockFails
    <3>3. CASE WaitMet(w)
      <4>1. Kept(req[w]) \subseteq Bits /\ Actual(req[w]) \subseteq Bits
            /\ Actual(req[w]) \subseteq req[w].mask
        BY DEF TypeOK, Kept, Actual
      <4>2. QED
        BY <3>3, <4>1 DEF TypeOK, WaitMet
    <3>4. CASE WaitBlock(w)
      BY <3>4 DEF TypeOK, WaitBlock
    <3>5. CASE WaitInvalid(w)
      BY <3>5 DEF TypeOK, WaitInvalid
    <3>6. CASE WaitRelock(w)
      BY <3>6 DEF TypeOK, WaitRelock
    <3>7. CASE WaitTimedOut(w)
      BY <3>7 DEF TypeOK, WaitTimedOut
    <3>8. QED
      BY <2>2, <3>1, <3>2, <3>3, <3>4, <3>5, <3>6, <3>7 DEF WaitStep
  <2>3. ASSUME NEW w \in Waiters, Timeout(w) PROVE TypeOK'
    BY <2>3 DEF TypeOK, Timeout
  <2>4. ASSUME NEW w \in Waiters, SpuriousWakeup(w) PROVE TypeOK'
    BY <2>4 DEF TypeOK, SpuriousWakeup
  <2>5. ASSUME NEW s \in Setters, event_flag_send(s) PROVE TypeOK'
    BY <2>5 DEF TypeOK, event_flag_send, Begin
  <2>6. ASSUME NEW s \in Setters, event_flag_clear(s) PROVE TypeOK'
    BY <2>6 DEF TypeOK, event_flag_clear, Begin
  <2>7. ASSUME NEW s \in Setters, SetterStep(s) PROVE TypeOK'
    <3>1. CASE SetterLock(s)
      BY <3>1 DEF TypeOK, SetterLock
    <3>2. CASE SendSet(s)
      BY <3>2 DEF TypeOK, SendSet
    <3>3. CASE SendBroadcast(s)
      BY <3>3 DEF TypeOK, SendBroadcast
    <3>4. CASE ClearBits(s)
      BY <3>4 DEF TypeOK, ClearBits
    <3>5. CASE SetterUnlock(s)
      BY <3>5 DEF TypeOK, SetterUnlock
    <3>6. QED
      BY <2>7, <3>1, <3>2, <3>3, <3>4, <3>5 DEF SetterStep
  <2>8. CASE UNCHANGED vars
    BY <2>8 DEF TypeOK, vars
  <2>9. QED
    BY <2>1, <2>2, <2>3, <2>4, <2>5, <2>6, <2>7, <2>8 DEF Next
<1>3. QED
  BY <1>1, <1>2, PTL DEF Spec

-----------------------------------------------------------------------------
\* A wait that has not returned has no result yet.
NoResultYet == \A w \in Waiters : pc[w] # "idle" => result[w] = "none"

\* The inductive form of HoldsMutex.
MutexInv == TypeOK /\ HoldsMutex /\ NoResultYet

\* Every step keeps the mutex with the thread in the critical section, and
\* gives a wait its result only when it returns.
LEMMA MutexInduction == MutexInv /\ [Next]_vars => HoldsMutex' /\ NoResultYet'
<1> SUFFICES ASSUME MutexInv, [Next]_vars PROVE HoldsMutex' /\ NoResultYet'
  OBVIOUS
<1> USE FlagAssumption 
       DEF MutexInv, TypeOK, HoldsMutex, NoResultYet, Goto, Critical, Acquire,
           Release, Threads
<1>1. ASSUME NEW w \in Waiters, event_flag_wait(w) PROVE HoldsMutex' /\ NoResultYet'
  BY <1>1 DEF event_flag_wait
<1>2. ASSUME NEW w \in Waiters, WaitStep(w) PROVE HoldsMutex' /\ NoResultYet'
  <2>1. CASE WaitLock(w)
    BY <2>1 DEF WaitLock
  <2>2. CASE WaitLockFails(w)
    BY <2>2 DEF WaitLockFails
  <2>3. CASE WaitMet(w)
    BY <2>3 DEF WaitMet
  <2>4. CASE WaitBlock(w)
    BY <2>4 DEF WaitBlock
  <2>5. CASE WaitInvalid(w)
    BY <2>5 DEF WaitInvalid
  <2>6. CASE WaitRelock(w)
    BY <2>6 DEF WaitRelock
  <2>7. CASE WaitTimedOut(w)
    BY <2>7 DEF WaitTimedOut
  <2>8. QED
    BY <1>2, <2>1, <2>2, <2>3, <2>4, <2>5, <2>6, <2>7 DEF WaitStep
<1>3. ASSUME NEW w \in Waiters, Timeout(w) \/ SpuriousWakeup(w)
      PROVE  HoldsMutex' /\ NoResultYet'
  BY <1>3 DEF Timeout, SpuriousWakeup
<1>4. ASSUME NEW s \in Setters, event_flag_send(s) \/ event_flag_clear(s)
      PROVE  HoldsMutex' /\ NoResultYet'
  BY <1>4 DEF event_flag_send, event_flag_clear, Begin
<1>5. ASSUME NEW s \in Setters, SetterStep(s) PROVE HoldsMutex' /\ NoResultYet'
  <2>1. CASE SetterLock(s)
    BY <1>5, <2>1 DEF SetterLock
  <2>2. CASE SendSet(s)
    BY <2>2 DEF SendSet
  <2>3. CASE SendBroadcast(s)
    BY <2>3 DEF SendBroadcast
  <2>4. CASE ClearBits(s)
    BY <2>4 DEF ClearBits
  <2>5. CASE SetterUnlock(s)
    BY <2>5 DEF SetterUnlock
  <2>6. QED
    BY <1>5, <2>1, <2>2, <2>3, <2>4, <2>5 DEF SetterStep
<1>6. CASE UNCHANGED vars
  BY <1>6 DEF vars
<1>7. QED
  BY <1>1, <1>2, <1>3, <1>4, <1>5, <1>6 DEF Next

\* The inductive invariant holds of event_flag_wait, event_flag_send and
\* event_flag_clear together.
LEMMA MutexInvHolds == Spec => []MutexInv
<1>1. Init => MutexInv
  BY DEF Init, TypeOK, HoldsMutex, NoResultYet, MutexInv, Critical, Threads
<1>2. MutexInv /\ TypeOK' /\ [Next]_vars => MutexInv'
  BY MutexInduction DEF MutexInv
<1>3. QED
  BY <1>1, <1>2, TypeCorrect, PTL DEF Spec

\* Mutual exclusion: whoever looks at or changes the flag word in
\* event_flag_wait, event_flag_send or event_flag_clear owns p_flags->mtx.
THEOREM MutualExclusion == Spec => []HoldsMutex
<1>1. MutexInv => HoldsMutex
  BY DEF MutexInv
<1>2. QED
  BY <1>1, MutexInvHolds, PTL

-----------------------------------------------------------------------------
\* No wakeup is lost: a thread stays blocked in event_flag_wait only while its
\* flags are not there, or until the broadcast of the send that has set them.
THEOREM NoSleepThroughFlags == Spec => []BlockedUnmet
<1>1. Init => BlockedUnmet
  BY DEF Init, BlockedUnmet, Threads
<1>2. MutexInv /\ BlockedUnmet /\ [Next]_vars => BlockedUnmet'
  <2> SUFFICES ASSUME MutexInv, BlockedUnmet, [Next]_vars,
                      NEW v \in Waiters, pc'[v] = "blocked", Met(req[v])'
               PROVE  \E s \in Setters : pc'[s] = "broadcast"
    BY DEF BlockedUnmet
  <2> USE FlagAssumption
       DEF MutexInv, TypeOK, BlockedUnmet, Goto, Acquire, Release, Threads
  <2>1. ASSUME NEW w \in Waiters, event_flag_wait(w)
        PROVE  \E s \in Setters : pc'[s] = "broadcast"
    BY <2>1 DEF event_flag_wait, Met, Actual
  <2>2. ASSUME NEW w \in Waiters, WaitStep(w)
        PROVE  \E s \in Setters : pc'[s] = "broadcast"
    <3>1. CASE WaitMet(w)
      <4>1. v # w /\ pc[v] = "blocked" /\ req'[v] = req[v]
        BY <3>1 DEF WaitMet
      <4>2. val' \subseteq val
        BY <3>1 DEF WaitMet, Kept
      <4>3. Met(req[v])
        BY <4>1, <4>2 DEF Met, Actual
      <4>4. QED
        BY <3>1, <4>1, <4>3 DEF WaitMet
    <3>2. CASE WaitBlock(w)
      BY <3>2 DEF WaitBlock, Met, Actual
    <3>3. CASE WaitLock(w) \/ WaitLockFails(w) \/ WaitInvalid(w)
                \/ WaitRelock(w) \/ WaitTimedOut(w)
      BY <3>3 DEF WaitLock, WaitLockFails, WaitInvalid, WaitRelock,
                  WaitTimedOut, Met, Actual
    <3>4. QED
      BY <2>2, <3>1, <3>2, <3>3 DEF WaitStep
  <2>3. ASSUME NEW w \in Waiters, Timeout(w) \/ SpuriousWakeup(w)
        PROVE  \E s \in Setters : pc'[s] = "broadcast"
    BY <2>3 DEF Timeout, SpuriousWakeup, Met, Actual
  <2>4. ASSUME NEW s \in Setters, event_flag_send(s) \/ event_flag_clear(s)
        PROVE  \E u \in Setters : pc'[u] = "broadcast"
    BY <2>4 DEF event_flag_send, event_flag_clear, Begin, Met, Actual
  <2>5. ASSUME NEW s \in Setters, SetterStep(s)
        PROVE  \E u \in Setters : pc'[u] = "broadcast"
    <3>1. CASE SendSet(s)
      BY <3>1 DEF SendSet
    <3>2. CASE SendBroadcast(s)
      BY <3>2 DEF SendBroadcast
    <3>3. CASE ClearBits(s)
      <4>1. pc[v] = "blocked" /\ req'[v] = req[v] /\ val' \subseteq val
        BY <3>3 DEF ClearBits
      <4>2. Met(req[v])
        BY <4>1 DEF Met, Actual
      <4>3. QED
        BY <3>3, <4>1, <4>2 DEF ClearBits
    <3>4. CASE SetterLock(s) \/ SetterUnlock(s)
      BY <3>4 DEF SetterLock, SetterUnlock, Met, Actual
    <3>5. QED
      BY <2>5, <3>1, <3>2, <3>3, <3>4 DEF SetterStep
  <2>6. CASE UNCHANGED vars
    BY <2>6 DEF vars, Met, Actual
  <2>7. QED
    BY <2>1, <2>2, <2>3, <2>4, <2>5, <2>6 DEF Next
<1>3. QED
  BY <1>1, <1>2, MutexInvHolds, PTL DEF Spec

-----------------------------------------------------------------------------
\* Flags are consumed at most once: check_flags takes a bit out of the word
\* only for the wait that reports it; otherwise only event_flag_clear does.
THEOREM Consumption == Spec => ConsumedOnce
<1> DEFINE Taken(b) ==
      \/ \E w \in Waiters :
          /\ req[w].type \in {"OR_CLEAR", "AND_CLEAR"}
          /\ result[w] = "none" /\ result'[w] = "true" /\ b \in act'[w]
          /\ act'[w] \cap val' = {}
      \/ \E s \in Setters : pc[s] = "clear" /\ b \in arg[s]
<1>1. MutexInv /\ [Next]_vars => [\A b \in val \ val' : Taken(b)]_vars
  <2> SUFFICES ASSUME MutexInv, Next, NEW b \in val \ val' PROVE Taken(b)
    OBVIOUS
  <2> USE DEF MutexInv, TypeOK, Goto
  <2>1. ASSUME NEW w \in Waiters, event_flag_wait(w) \/ WaitStep(w)
                                   \/ Timeout(w) \/ SpuriousWakeup(w)
        PROVE  Taken(b)
    <3>1. WaitMet(w)
      BY <2>1 DEF event_flag_wait, WaitStep, Timeout, SpuriousWakeup, WaitLock,
           WaitLockFails, WaitBlock, WaitInvalid, WaitRelock, WaitTimedOut
    <3>2. /\ req[w].type \in {"OR_CLEAR", "AND_CLEAR"}
          /\ b \in Actual(req[w])
          /\ Actual(req[w]) \cap val' = {}
      BY <3>1 DEF WaitMet, Kept
    <3>3. result[w] = "none"
      BY <3>1 DEF WaitMet, NoResultYet
    <3>4. result'[w] = "true" /\ act'[w] = Actual(req[w])
      BY <3>1 DEF WaitMet
    <3>5. QED
      BY <3>2, <3>3, <3>4
  <2>2. ASSUME NEW s \in Setters, event_flag_send(s) \/ event_flag_clear(s)
                                   \/ SetterStep(s)
        PROVE  Taken(b)
    BY <2>2 DEF event_flag_send, event_flag_clear, Begin, SetterStep, SetterLock,
         SendSet, SendBroadcast, ClearBits, SetterUnlock
  <2>3. QED
    BY <2>1, <2>2 DEF Next
<1>2. QED
  BY <1>1, MutexInvHolds, PTL DEF Spec, ConsumedOnce
=============================================================================
