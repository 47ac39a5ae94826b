------------------------- MODULE DispatchQueueProofs -------------------------
(***************************************************************************)
(* Proofs about DispatchQueue, for every number of posting and destroying  *)
(* threads, of blocks and of posts.                                        *)
(***************************************************************************)
EXTENDS DispatchQueue, FiniteSetTheorems, SequenceTheorems, TLAPS

-----------------------------------------------------------------------------
(* The inductive invariant.                                                *)

\* The worker's states before it takes the kill request, the states of a client
\* inside dispatch_async_f, and those of the one dispatch_queue_destroy that
\* was not refused.
Working == {"dequeue", "run", "free"}
PostingStates == {"idle", "alloc", "enqueue"}
DestroyStates == {"kill", "wait", "check", "blocked", "woken", "join", "pool",
                  "queue", "returned"}

\* x is on the queue.
InQueue(x) == \E i \in 1..Len(queue) : queue[i] = x

\* Which states go with which kind of thread, who has a block in hand, and that
\* a post has been counted when it writes its action.
HandsInv ==
    /\ \A t \in Callers :
        /\ pc[t] \in PostingStates
        /\ pc[t] = "enqueue" <=> mem[t] \in Blocks
        /\ pc[t] = "alloc" => posts[t] \in 1..MaxPosts
    /\ \A d \in Destroyers : pc[d] \in DestroyStates \cup {"idle", "refused"}
    /\ wpc \in {"run", "free"} <=> cur \in Blocks

\* Every block is in one place, and written once it is not free.
OwnInv ==
    /\ \A i, j \in 1..Len(queue) : queue[i] = queue[j] /\ queue[i] \in Blocks => i = j
    /\ \A i \in 1..Len(queue) :
        queue[i] \in Blocks =>
            /\ queue[i] \notin free /\ queue[i] # cur
            /\ \A t \in Callers : mem[t] # queue[i]
    /\ \A t \in Callers :
        mem[t] \in Blocks =>
            /\ mem[t] \notin free /\ mem[t] # cur
            /\ \A u \in Callers : mem[u] = mem[t] => u = t
    /\ cur \in Blocks => cur \notin free
    /\ \A b \in Blocks :
        b \in free \/ b = cur \/ (\E t \in Callers : mem[t] = b) \/ InQueue(b)
    /\ \A b \in Blocks \ free : action[b] \in Actions

\* The actions taken off the queue so far.
Taken == Len(ran) + (IF wpc = "run" THEN 1 ELSE 0)

\* What stands in the queue before a kill request is what is posted and not
\* taken, in the order of posted; without a kill request that is all of it.
OrderInv ==
    /\ RunsInOrder
    /\ wpc = "run" =>
        Len(ran) < Len(posted) /\ action[cur] = posted[Len(ran) + 1]
    /\ wpc \in Working =>
        /\ \A i \in 1..Len(queue) :
            (\A j \in 1..i : queue[j] # Kill) =>
                /\ Taken + i <= Len(posted)
                /\ action[queue[i]] = posted[Taken + i]
        /\ ~InQueue(Kill) => Len(posted) = Taken + Len(queue)

\* One dispatch_queue_destroy goes on, the flag is set from its start, and it
\* frees the pool and the queue when the worker has ended.
DestroyerInv ==
    /\ \A d, e \in Destroyers :
        pc[d] \in DestroyStates /\ pc[e] \in DestroyStates => d = e
    /\ \A d \in Destroyers : pc[d] \in DestroyStates => destroying
    /\ \A d \in Destroyers : pc[d] \in {"pool", "queue", "returned"} => wpc = "ended"
    /\ ~plive \/ ~qlive => destroying

\* It sends the kill request once.
KillInv ==
    InQueue(Kill) \/ wpc \notin Working =>
        destroying /\ \A d \in Destroyers : pc[d] # "kill"

\* When no post was under way at its start none is beside it, the kill request
\* is the last thing on the queue, and the worker that takes it has run
\* everything.
DrainInv ==
    destroying /\ ~overlap =>
        /\ \A t \in Callers : pc[t] = "idle"
        /\ \A i \in 1..Len(queue) : queue[i] = Kill => i = Len(queue)
        /\ wpc \in Working /\ InQueue(Kill) => Len(posted) = Taken + Len(queue) - 1
        /\ wpc \notin Working => queue = <<>> /\ ran = posted

\* Who owns the mutex of the exit signal.
SignalInv ==
    /\ sig.mtx = Worker <=> wpc \in {"set", "unset"}
    /\ \A d \in Destroyers : sig.mtx = d <=> pc[d] = "check"

\* The inductive invariant.
DispatchInv ==
    /\ TypeOK /\ HandsInv /\ OwnInv /\ OrderInv
    /\ DestroyerInv /\ KillInv /\ DrainInv /\ SignalInv /\ AssertionCauses

-----------------------------------------------------------------------------
(* Sequences at their two ends.                                            *)

\* What Append makes of a sequence.
LEMMA AppendIs ==
  ASSUME NEW S, NEW s \in Seq(S), NEW x \in S
  PROVE  /\ Append(s, x) \in Seq(S)
         /\ Len(s) \in Nat
         /\ Len(Append(s, x)) = Len(s) + 1
         /\ \A i \in 1..Len(s) : Append(s, x)[i] = s[i]
         /\ Append(s, x)[Len(s) + 1] = x
  BY AppendProperties, LenProperties

\* What Head and Tail make of a sequence that is not empty.
LEMMA TailIs ==
  ASSUME NEW S, NEW s \in Seq(S), s # <<>>
  PROVE  /\ Tail(s) \in Seq(S)
         /\ Len(s) \in Nat \ {0}
         /\ Len(Tail(s)) = Len(s) - 1
         /\ \A i \in 1..(Len(s) - 1) : Tail(s)[i] = s[i + 1]
         /\ Head(s) = s[1] /\ Head(s) \in S
<1>1. Len(s) \in Nat \ {0}
  BY EmptySeq
<1>2. /\ Tail(s) \in Seq(S) /\ Len(Tail(s)) = Len(s) - 1
      /\ \A i \in 1..Len(Tail(s)) : Tail(s)[i] = s[i + 1]
  BY HeadTailProperties
<1>3. Head(s) = s[1]
  OBVIOUS
<1>4. s[1] \in S
  BY <1>1, ElementOfSeq
<1>5. QED
  BY <1>1, <1>2, <1>3, <1>4

-----------------------------------------------------------------------------
(* Type correctness. A post enqueues a block it has written, which is      *)
(* where the other invariants come in.                                     *)

\* The states of all clients.
PcStates == PostingStates \cup DestroyStates \cup {"refused"}

\* Each step keeps the types.
LEMMA TypesKept ==
  ASSUME TypeOK, HandsInv, OwnInv, [Next]_vars
  PROVE  TypeOK'
<1> USE DEF Goto, Crash, blocks, teardown, log, PcStates, PostingStates,
            DestroyStates
<1>1. ASSUME NEW t \in Callers, dispatch_async_f(t) PROVE TypeOK'
  <2>1. posts' \in [Callers -> 0..MaxPosts]
    BY <1>1, DispatchAssumption DEF TypeOK, dispatch_async_f
  <2>2. QED
    BY <1>1, <2>1 DEF TypeOK, dispatch_async_f
<1>2. ASSUME NEW t \in Callers, PostAlloc(t) PROVE TypeOK'
  <2>1. CASE plive /\ free # {}
    <3>1. PICK b \in free :
            /\ free' = free \ {b}
            /\ mem' = [mem EXCEPT ![t] = b]
            /\ action' = [action EXCEPT ![b] = <<t, posts[t]>>]
      BY <1>2, <2>1 DEF PostAlloc
    <3>2. <<t, posts[t]>> \in Actions
      BY <1>2, <2>1 DEF PostAlloc, HandsInv, Actions
    <3>3. action' \in [Blocks -> Actions \cup {<<>>}]
      BY <3>1, <3>2 DEF TypeOK
    <3>4. free' \in SUBSET Blocks /\ mem' \in [Callers -> Blocks \cup {NoBlock}]
      BY <3>1 DEF TypeOK
    <3>5. QED
      BY <1>2, <2>1, <3>3, <3>4, ZenonT(60) DEF TypeOK, PostAlloc
  <2>2. CASE ~(plive /\ free # {})
    BY <1>2, <2>2 DEF TypeOK, PostAlloc
  <2>3. QED
    BY <2>1, <2>2
<1>3. ASSUME NEW t \in Callers, PostEnqueue(t) PROVE TypeOK'
  <2>1. CASE qlive /\ Len(queue) < Size
    <3>1. mem[t] \in Blocks /\ action[mem[t]] \in Actions
      BY <1>3, <2>1 DEF PostEnqueue, HandsInv, OwnInv
    <3>2. queue' \in Seq(Blocks \cup {Kill})
      <4>1. queue \in Seq(Blocks \cup {Kill}) /\ mem[t] \in Blocks \cup {Kill}
        BY <3>1 DEF TypeOK
      <4>2. Append(queue, mem[t]) \in Seq(Blocks \cup {Kill})
        BY <4>1, AppendIs
      <4>3. QED
        BY <1>3, <2>1, <4>2 DEF PostEnqueue
    <3>3. posted' \in Seq(Actions)
      <4>1. posted \in Seq(Actions)
        BY DEF TypeOK
      <4>2. Append(posted, action[mem[t]]) \in Seq(Actions)
        BY <3>1, <4>1, AppendIs
      <4>3. QED
        BY <1>3, <2>1, <4>2 DEF PostEnqueue
    <3>4. QED
      BY <1>3, <2>1, <3>2, <3>3, ZenonT(60) DEF TypeOK, PostEnqueue
  <2>2. CASE ~(qlive /\ Len(queue) < Size)
    BY <1>3, <2>2 DEF TypeOK, PostEnqueue
  <2>3. QED
    BY <2>1, <2>2
<1>4. CASE WorkerDequeue
  <2>1. queue' \in Seq(Blocks \cup {Kill}) /\ Head(queue) \in Blocks \cup {Kill}
    <3>1. queue \in Seq(Blocks \cup {Kill})
      BY DEF TypeOK
    <3>2. QED
      BY <1>4, <3>1, TailIs DEF WorkerDequeue
  <2>2. QED
    BY <1>4, <2>1 DEF TypeOK, WorkerDequeue
<1>5. CASE WorkerRun
  <2>1. ran \in Seq(Actions) /\ action[cur] \in Actions
    BY <1>5 DEF TypeOK, WorkerRun, HandsInv, OwnInv
  <2>2. ran' \in Seq(Actions)
    BY <1>5, <2>1, AppendIs DEF WorkerRun
  <2>3. QED
    BY <1>5, <2>2 DEF TypeOK, WorkerRun
<1>6. CASE WorkerFree
  BY <1>6 DEF TypeOK, WorkerFree, HandsInv
<1>7. CASE WorkerSignalLock \/ WorkerSignalUnlock
  BY <1>7, ZenonT(60) DEF TypeOK, WorkerSignalLock, WorkerSignalUnlock
<1>8. CASE WorkerSignalSet
  BY <1>8 DEF TypeOK, WorkerSignalSet
<1>9. CASE WorkerEnd
  BY <1>9 DEF TypeOK, WorkerEnd
<1>10. ASSUME NEW d \in Destroyers, dispatch_queue_destroy(d) PROVE TypeOK'
  BY <1>10 DEF TypeOK, dispatch_queue_destroy
<1>11. ASSUME NEW d \in Destroyers, DestroyKill(d) PROVE TypeOK'
  <2>1. CASE Len(queue) < Size
    <3>1. queue' \in Seq(Blocks \cup {Kill})
      <4>1. queue \in Seq(Blocks \cup {Kill})
        BY DEF TypeOK
      <4>2. QED
        BY <1>11, <2>1, <4>1, AppendIs DEF DestroyKill
    <3>2. QED
      BY <1>11, <2>1, <3>1, ZenonT(60) DEF TypeOK, DestroyKill
  <2>2. CASE ~(Len(queue) < Size)
    BY <1>11, <2>2 DEF TypeOK, DestroyKill
  <2>3. QED
    BY <2>1, <2>2
<1>12. ASSUME NEW d \in Destroyers, DestroyWaitLock(d) PROVE TypeOK'
  <2>1. sig' \in [val : BOOLEAN, mtx : Destroyers \cup {Worker, NoThread}]
    BY <1>12 DEF TypeOK, DestroyWaitLock
  <2>2. pc' \in [Callers \cup Destroyers -> PcStates]
    BY <1>12 DEF TypeOK, DestroyWaitLock
  <2>3. QED
    BY <1>12, <2>1, <2>2 DEF TypeOK, DestroyWaitLock
<1>13. ASSUME NEW d \in Destroyers, DestroyWaitCheck(d) PROVE TypeOK'
  BY <1>13 DEF TypeOK, DestroyWaitCheck
<1>14. ASSUME NEW d \in Destroyers, DestroySpuriousWakeup(d) \/ DestroyRelock(d)
       PROVE  TypeOK'
  <2>1. CASE DestroySpuriousWakeup(d)
    BY <2>1 DEF TypeOK, DestroySpuriousWakeup
  <2>2. CASE DestroyRelock(d)
    <3>1. sig' \in [val : BOOLEAN, mtx : Destroyers \cup {Worker, NoThread}]
      BY <2>2 DEF TypeOK, DestroyRelock
    <3>2. pc' \in [Callers \cup Destroyers -> PcStates]
      BY <2>2 DEF TypeOK, DestroyRelock
    <3>3. QED
      BY <2>2, <3>1, <3>2 DEF TypeOK, DestroyRelock
  <2>3. QED
    BY <1>14, <2>1, <2>2
<1>15. ASSUME NEW d \in Destroyers, DestroyJoin(d) \/ DestroyPool(d) \/ DestroyQueue(d)
       PROVE  TypeOK'
  BY <1>15, ZenonT(60) DEF TypeOK, DestroyJoin, DestroyPool, DestroyQueue
<1>16. CASE UNCHANGED vars
  BY <1>16 DEF TypeOK, vars
<1>17. QED
  BY <1>1, <1>2, <1>3, <1>4, <1>5, <1>6, <1>7, <1>8, <1>9, <1>10, <1>11, <1>12,
     <1>13, <1>14, <1>15, <1>16
  DEF Next, Finished, PostStep, WorkerStep, DestroyStep

-----------------------------------------------------------------------------
(* The threads and what they have in hand.                                 *)

\* A block is not NoBlock, and a client is not a destroyer.
LEMMA Distinct ==
  /\ NoBlock \notin Blocks /\ Kill \notin Blocks
  /\ \A t \in Callers : t \notin Destroyers
  /\ NoThread \notin Destroyers /\ Worker # NoThread /\ Worker \notin Destroyers
  /\ Worker \in Callers
  BY DispatchAssumption DEF Callers

\* Each step keeps the hands.
LEMMA HandsKept ==
  ASSUME TypeOK, HandsInv, [Next]_vars
  PROVE  HandsInv'
<1> USE Distinct DEF Goto, Crash, blocks, teardown, log, PostingStates,
                     DestroyStates
<1>0. ASSUME UNCHANGED <<mem, posts, cur, wpc, pc>> PROVE HandsInv'
  BY <1>0 DEF HandsInv
<1>1. ASSUME NEW t \in Callers, dispatch_async_f(t) PROVE HandsInv'
  BY <1>1, DispatchAssumption DEF TypeOK, HandsInv, dispatch_async_f
<1>2. ASSUME NEW t \in Callers, PostAlloc(t) PROVE HandsInv'
  <2>1. CASE plive /\ free # {}
    <3>1. PICK b \in Blocks : mem' = [mem EXCEPT ![t] = b]
      BY <1>2, <2>1 DEF PostAlloc, TypeOK
    <3>2. /\ pc' = [pc EXCEPT ![t] = "enqueue"] /\ pc[t] = "alloc"
          /\ UNCHANGED <<posts, cur, wpc>>
      BY <1>2, <2>1 DEF PostAlloc
    <3>3. QED
      BY <3>1, <3>2 DEF TypeOK, HandsInv
  <2>2. CASE ~(plive /\ free # {})
    BY <1>0, <1>2, <2>2 DEF PostAlloc
  <2>3. QED
    BY <2>1, <2>2
<1>3. ASSUME NEW t \in Callers, PostEnqueue(t) PROVE HandsInv'
  <2>1. CASE qlive /\ Len(queue) < Size
    BY <1>3, <2>1, ZenonT(60) DEF TypeOK, HandsInv, PostEnqueue
  <2>2. CASE ~(qlive /\ Len(queue) < Size)
    BY <1>0, <1>3, <2>2 DEF PostEnqueue
  <2>3. QED
    BY <2>1, <2>2
<1>4. CASE WorkerDequeue
  <2>1. Head(queue) \in Blocks \cup {Kill}
    <3>1. queue \in Seq(Blocks \cup {Kill})
      BY DEF TypeOK
    <3>2. QED
      BY <1>4, <3>1, TailIs DEF WorkerDequeue
  <2>2. QED
    BY <1>4, <2>1 DEF TypeOK, HandsInv, WorkerDequeue
<1>5. CASE WorkerRun \/ WorkerFree
  BY <1>5 DEF TypeOK, HandsInv, WorkerRun, WorkerFree
<1>6. CASE WorkerSignalLock \/ WorkerSignalUnlock \/ WorkerEnd
  BY <1>6 DEF TypeOK, HandsInv, WorkerSignalLock, WorkerSignalUnlock, WorkerEnd
<1>7. CASE WorkerSignalSet
  BY <1>7 DEF TypeOK, HandsInv, WorkerSignalSet
<1>8. ASSUME NEW d \in Destroyers, UNCHANGED <<mem, posts, cur, wpc>>,
             \E l \in DestroyStates \cup {"refused"} : pc' = [pc EXCEPT ![d] = l]
      PROVE  HandsInv'
  BY <1>8 DEF TypeOK, HandsInv
<1>9. ASSUME NEW d \in Destroyers,
             \/ dispatch_queue_destroy(d) \/ DestroySpuriousWakeup(d)
             \/ DestroyStep(d)
      PROVE  HandsInv'
  <2>1. UNCHANGED <<mem, posts, cur, wpc>>
    BY <1>9 DEF DestroyStep, dispatch_queue_destroy, DestroySpuriousWakeup,
         DestroyKill, DestroyWaitLock, DestroyWaitCheck, DestroyRelock,
         DestroyJoin, DestroyPool, DestroyQueue
  <2>2. \/ pc' = pc
        \/ \E l \in DestroyStates \cup {"refused"} : pc' = [pc EXCEPT ![d] = l]
    BY <1>9 DEF DestroyStep, dispatch_queue_destroy, DestroySpuriousWakeup,
         DestroyKill, DestroyWaitLock, DestroyWaitCheck, DestroyRelock,
         DestroyJoin, DestroyPool, DestroyQueue
  <2>3. QED
    BY <1>0, <1>8, <2>1, <2>2
<1>10. CASE UNCHANGED vars
  BY <1>0, <1>10 DEF vars
<1>11. QED
  BY <1>1, <1>2, <1>3, <1>4, <1>5, <1>6, <1>7, <1>9, <1>10
  DEF Next, Finished, PostStep, WorkerStep

-----------------------------------------------------------------------------
(* The blocks.                                                             *)

\* The steps of the exit signal, of the destroying threads after the kill
\* request and of every failed assertion move no block and no action.
LEMMA OwnFrame ==
  ASSUME OwnInv, UNCHANGED <<queue, free, action, cur, mem>>
  PROVE  OwnInv'
  BY DEF OwnInv, InQueue

\* A free block goes into the hands of a posting thread, written.
LEMMA OwnAlloc ==
  ASSUME TypeOK, HandsInv, OwnInv, NEW t \in Callers, pc[t] = "alloc",
         NEW b \in free,
         free' = free \ {b},
         mem' = [mem EXCEPT ![t] = b],
         action' = [action EXCEPT ![b] = <<t, posts[t]>>],
         UNCHANGED <<queue, cur>>
  PROVE  OwnInv'
<1>1. mem[t] \notin Blocks /\ b \in Blocks
  BY DEF HandsInv, TypeOK
<1>2. /\ mem'[t] = b /\ \A u \in Callers \ {t} : mem'[u] = mem[u]
      /\ action'[b] \in Actions
      /\ \A c \in Blocks \ {b} : action'[c] = action[c]
  BY <1>1 DEF HandsInv, TypeOK, Actions
<1>3. \A i, j \in 1..Len(queue') :
        queue'[i] = queue'[j] /\ queue'[i] \in Blocks => i = j
  BY DEF OwnInv
<1>4. \A i \in 1..Len(queue') :
        queue'[i] \in Blocks =>
            /\ queue'[i] \notin free' /\ queue'[i] # cur'
            /\ \A u \in Callers : mem'[u] # queue'[i]
  BY <1>2 DEF OwnInv
<1>5. \A u \in Callers :
        mem'[u] \in Blocks =>
            /\ mem'[u] \notin free' /\ mem'[u] # cur'
            /\ \A v \in Callers : mem'[v] = mem'[u] => v = u
  BY <1>1, <1>2 DEF OwnInv
<1>6. cur' \in Blocks => cur' \notin free'
  BY DEF OwnInv
<1>7. \A c \in Blocks :
        c \in free' \/ c = cur' \/ (\E u \in Callers : mem'[u] = c) \/ InQueue(c)'
  BY <1>1, <1>2 DEF OwnInv, InQueue
<1>8. \A c \in Blocks \ free' : action'[c] \in Actions
  BY <1>2 DEF OwnInv
<1>9. QED
  BY <1>3, <1>4, <1>5, <1>6, <1>7, <1>8 DEF OwnInv

\* A block in the hands of a thread, or a kill request, goes to the end of the
\* queue.
LEMMA OwnEnqueue ==
  ASSUME TypeOK, OwnInv, NEW x \in Blocks \cup {Kill},
         queue' = Append(queue, x),
         \/ x = Kill /\ mem' = mem
         \/ \E t \in Callers : x = mem[t] /\ mem' = [mem EXCEPT ![t] = NoBlock],
         UNCHANGED <<free, action, cur>>
  PROVE  OwnInv'
<1> USE Distinct
<1>1. PICK n \in Nat : n = Len(queue)
  BY DEF TypeOK
<1>2. /\ Len(queue') = n + 1 /\ queue'[n + 1] = x
      /\ \A i \in 1..n : queue'[i] = queue[i]
  <2>1. queue \in Seq(Blocks \cup {Kill})
    BY DEF TypeOK
  <2>2. QED
    BY <1>1, <2>1, AppendIs
<1>3. \A i \in 1..(n + 1) : i \in 1..n \/ i = n + 1
  OBVIOUS
<1>4. /\ \A u \in Callers : mem'[u] \in Blocks => mem'[u] = mem[u] /\ mem'[u] # x
      /\ \A u \in Callers : mem[u] \in Blocks /\ mem[u] # x => mem'[u] = mem[u]
      /\ x \in Blocks => \E t \in Callers : mem[t] = x
  BY DEF OwnInv, TypeOK
<1>5. \A i, j \in 1..(n + 1) :
        queue'[i] = queue'[j] /\ queue'[i] \in Blocks => i = j
  BY <1>1, <1>2, <1>3, <1>4 DEF OwnInv
<1>6. \A i \in 1..(n + 1) :
        queue'[i] \in Blocks =>
            /\ queue'[i] \notin free' /\ queue'[i] # cur'
            /\ \A u \in Callers : mem'[u] # queue'[i]
  BY <1>1, <1>2, <1>3, <1>4 DEF OwnInv
<1>7. \A u \in Callers :
        mem'[u] \in Blocks =>
            /\ mem'[u] \notin free' /\ mem'[u] # cur'
            /\ \A v \in Callers : mem'[v] = mem'[u] => v = u
  BY <1>4 DEF OwnInv
<1>8. \A c \in Blocks :
        c \in free' \/ c = cur' \/ (\E u \in Callers : mem'[u] = c) \/ InQueue(c)'
  <2>1. SUFFICES ASSUME NEW c \in Blocks
        PROVE  c \in free' \/ c = cur' \/ (\E u \in Callers : mem'[u] = c)
                 \/ InQueue(c)'
    OBVIOUS
  <2>2. CASE c \in free \/ c = cur
    BY <2>2
  <2>3. ASSUME NEW u \in Callers, mem[u] = c
        PROVE  (\E v \in Callers : mem'[v] = c) \/ InQueue(c)'
    <3>1. CASE c = x
      <4>1. n + 1 \in 1..Len(queue') /\ queue'[n + 1] = c
        BY <1>2, <3>1
      <4>2. QED
        BY <4>1 DEF InQueue
    <3>2. CASE c # x
      BY <1>4, <2>3, <3>2
    <3>3. QED
      BY <3>1, <3>2
  <2>4. ASSUME NEW i \in 1..n, queue[i] = c PROVE InQueue(c)'
    <3>1. i \in 1..Len(queue') /\ queue'[i] = c
      BY <1>2, <2>4
    <3>2. QED
      BY <3>1 DEF InQueue
  <2>5. QED
    BY <1>1, <2>2, <2>3, <2>4 DEF OwnInv, InQueue
<1>9. cur' \in Blocks => cur' \notin free'
  BY DEF OwnInv
<1>10. \A b \in Blocks \ free' : action'[b] \in Actions
  BY DEF OwnInv
<1>11. QED
  BY <1>2, <1>5, <1>6, <1>7, <1>8, <1>9, <1>10 DEF OwnInv

\* The block at the head of the queue becomes the worker's; a kill request
\* becomes nobody's.
LEMMA OwnDequeue ==
  ASSUME TypeOK, HandsInv, OwnInv, WorkerDequeue
  PROVE  OwnInv'
<1> USE Distinct DEF blocks
<1>1. PICK n \in Nat : Len(queue) = n + 1
  <2>1. Len(queue) \in Nat \ {0}
    BY TailIs DEF TypeOK, WorkerDequeue
  <2>2. Len(queue) - 1 \in Nat /\ Len(queue) = (Len(queue) - 1) + 1
    BY <2>1
  <2>3. QED
    BY <2>2
<1>2. /\ Len(queue') = n /\ \A i \in 1..n : queue'[i] = queue[i + 1]
      /\ Head(queue) = queue[1] /\ queue[1] \in Blocks \cup {Kill}
  <2>1. queue \in Seq(Blocks \cup {Kill}) /\ queue # <<>> /\ queue' = Tail(queue)
    BY DEF TypeOK, WorkerDequeue
  <2>2. QED
    BY <1>1, <2>1, TailIs
<1>3. /\ \A i \in 1..n : i + 1 \in 1..(n + 1) /\ i + 1 # 1
      /\ \A i, j \in 1..n : i + 1 = j + 1 => i = j
      /\ 1 \in 1..(n + 1)
      /\ \A i \in 1..(n + 1) : i = 1 \/ (i - 1 \in 1..n /\ (i - 1) + 1 = i)
  OBVIOUS
<1>4. /\ cur \notin Blocks
      /\ queue[1] \in Blocks => cur' = queue[1]
      /\ queue[1] \notin Blocks => cur' \notin Blocks
      /\ UNCHANGED <<free, action, mem>>
  BY <1>2 DEF WorkerDequeue, HandsInv
<1>5. \A i, j \in 1..n : queue'[i] = queue'[j] /\ queue'[i] \in Blocks => i = j
  BY <1>1, <1>2, <1>3 DEF OwnInv
<1>6. \A i \in 1..n :
        queue'[i] \in Blocks =>
            /\ queue'[i] \notin free' /\ queue'[i] # cur'
            /\ \A u \in Callers : mem'[u] # queue'[i]
  BY <1>1, <1>2, <1>3, <1>4 DEF OwnInv
<1>7. \A u \in Callers :
        mem'[u] \in Blocks =>
            /\ mem'[u] \notin free' /\ mem'[u] # cur'
            /\ \A v \in Callers : mem'[v] = mem'[u] => v = u
  BY <1>1, <1>3, <1>4 DEF OwnInv
<1>8. cur' \in Blocks => cur' \notin free'
  BY <1>1, <1>3, <1>4 DEF OwnInv
<1>9. \A c \in Blocks :
        c \in free' \/ c = cur' \/ (\E u \in Callers : mem'[u] = c) \/ InQueue(c)'
  <2>1. ASSUME NEW c \in Blocks, NEW i \in 1..(n + 1), queue[i] = c
        PROVE  c = cur' \/ InQueue(c)'
    <3>1. CASE i = 1
      BY <1>4, <2>1, <3>1
    <3>2. CASE i # 1
      <4>1. PICK k \in 1..n : i = k + 1
        BY <1>3, <3>2
      <4>2. k \in 1..Len(queue') /\ queue'[k] = c
        BY <1>2, <2>1, <4>1
      <4>3. QED
        BY <4>2 DEF InQueue
    <3>3. QED
      BY <3>1, <3>2
  <2>2. QED
    BY <1>1, <1>4, <2>1 DEF OwnInv, InQueue
<1>10. \A b \in Blocks \ free' : action'[b] \in Actions
  BY <1>4 DEF OwnInv
<1>11. QED
  BY <1>2, <1>5, <1>6, <1>7, <1>8, <1>9, <1>10, SMTT(60) DEF OwnInv

\* Each step keeps every block in one place.
LEMMA OwnKept ==
  ASSUME TypeOK, HandsInv, OwnInv, [Next]_vars
  PROVE  OwnInv'
<1> USE Distinct DEF Goto, Crash, blocks, teardown, log
<1>1. ASSUME NEW t \in Callers, dispatch_async_f(t) PROVE OwnInv'
  BY <1>1, OwnFrame DEF dispatch_async_f
<1>2. ASSUME NEW t \in Callers, PostAlloc(t) PROVE OwnInv'
  BY <1>2, OwnAlloc, OwnFrame DEF PostAlloc
<1>3. ASSUME NEW t \in Callers, PostEnqueue(t) PROVE OwnInv'
  <2>1. CASE qlive /\ Len(queue) < Size
    <3>1. mem[t] \in Blocks
      BY <1>3, <2>1 DEF PostEnqueue, HandsInv
    <3>2. PICK x \in Blocks : x = mem[t]
      BY <3>1
    <3>3. /\ queue' = Append(queue, x) /\ mem' = [mem EXCEPT ![t] = NoBlock]
          /\ UNCHANGED <<free, action, cur>>
      BY <1>3, <2>1, <3>2 DEF PostEnqueue
    <3>4. QED
      BY <3>2, <3>3, OwnEnqueue
  <2>2. CASE ~(qlive /\ Len(queue) < Size)
    BY <1>3, <2>2, OwnFrame DEF PostEnqueue
  <2>3. QED
    BY <2>1, <2>2
<1>4. CASE WorkerFree
  BY <1>4 DEF WorkerFree, HandsInv, OwnInv, InQueue
<1>5. CASE WorkerRun \/ WorkerSignalLock \/ WorkerSignalSet
             \/ WorkerSignalUnlock \/ WorkerEnd
  BY <1>5, OwnFrame DEF WorkerRun, WorkerSignalLock, WorkerSignalSet,
       WorkerSignalUnlock, WorkerEnd
<1>6. ASSUME NEW d \in Destroyers, DestroyKill(d) PROVE OwnInv'
  <2>1. CASE Len(queue) < Size
    <3>1. PICK x \in Blocks \cup {Kill} : x = Kill
      OBVIOUS
    <3>2. queue' = Append(queue, x) /\ UNCHANGED <<free, action, cur, mem>>
      BY <1>6, <2>1, <3>1 DEF DestroyKill
    <3>3. QED
      BY <3>1, <3>2, OwnEnqueue
  <2>2. CASE ~(Len(queue) < Size)
    BY <1>6, <2>2, OwnFrame DEF DestroyKill
  <2>3. QED
    BY <2>1, <2>2
<1>7. ASSUME NEW d \in Destroyers,
             \/ dispatch_queue_destroy(d) \/ DestroySpuriousWakeup(d)
             \/ DestroyWaitLock(d) \/ DestroyWaitCheck(d) \/ DestroyRelock(d)
             \/ DestroyJoin(d) \/ DestroyPool(d) \/ DestroyQueue(d)
      PROVE  OwnInv'
  BY <1>7, OwnFrame
  DEF dispatch_queue_destroy, DestroySpuriousWakeup, DestroyWaitLock,
      DestroyWaitCheck, DestroyRelock, DestroyJoin, DestroyPool, DestroyQueue
<1>8. CASE UNCHANGED vars
  BY <1>8, OwnFrame DEF vars
<1>9. QED
  BY <1>1, <1>2, <1>3, <1>4, <1>5, <1>6, <1>7, <1>8, OwnDequeue
  DEF Next, Finished, PostStep, WorkerStep, DestroyStep

-----------------------------------------------------------------------------
(* The order of the actions.                                               *)

\* The lengths are numbers, and what has been taken off the queue is what ran
\* and, while an action runs, that one.
LEMMA Lengths ==
  ASSUME TypeOK
  PROVE  /\ Len(queue) \in Nat /\ Len(posted) \in Nat /\ Len(ran) \in Nat
         /\ Taken \in Nat
         /\ wpc = "run" => Taken = Len(ran) + 1
         /\ wpc # "run" => Taken = Len(ran)
<1>1. Len(queue) \in Nat /\ Len(posted) \in Nat /\ Len(ran) \in Nat
  BY LenProperties DEF TypeOK
<1>2. QED
  BY <1>1 DEF Taken

\* A step that moves no action, and writes no block that holds a pending one,
\* keeps the order.
LEMMA OrderFrame ==
  ASSUME OrderInv, UNCHANGED <<queue, posted, ran>>,
         wpc' = "run" <=> wpc = "run",
         wpc' \in Working => wpc \in Working,
         wpc = "run" => action'[cur'] = action[cur],
         \A i \in 1..Len(queue) :
            queue[i] # Kill => action'[queue[i]] = action[queue[i]]
  PROVE  OrderInv'
<1>1. Taken' = Taken
  BY DEF Taken
<1>2. RunsInOrder'
  BY DEF OrderInv, RunsInOrder
<1>3. wpc' = "run" =>
        Len(ran') < Len(posted') /\ action'[cur'] = posted'[Len(ran') + 1]
  BY DEF OrderInv
<1>4. ASSUME wpc' \in Working, NEW i \in 1..Len(queue'),
             \A j \in 1..i : queue'[j] # Kill
      PROVE  /\ Taken' + i <= Len(posted')
             /\ action'[queue'[i]] = posted'[Taken' + i]
  <2>1. i \in 1..i
    BY <1>4
  <2>2. queue[i] # Kill
    BY <1>4, <2>1
  <2>3. QED
    BY <1>1, <1>4, <2>2 DEF OrderInv
<1>5. wpc' \in Working /\ ~InQueue(Kill)' => Len(posted') = Taken' + Len(queue')
  BY <1>1 DEF OrderInv, InQueue
<1>6. QED
  BY <1>2, <1>3, <1>4, <1>5 DEF OrderInv

\* The worker takes the oldest action that has not been taken.
LEMMA OrderDequeue ==
  ASSUME TypeOK, TypeOK', HandsInv, OrderInv, WorkerDequeue
  PROVE  OrderInv'
<1> USE Distinct DEF blocks, log
<1>1. PICK n \in Nat : Len(queue) = n + 1
  <2>1. Len(queue) \in Nat \ {0}
    BY TailIs DEF TypeOK, WorkerDequeue
  <2>2. Len(queue) - 1 \in Nat /\ Len(queue) = (Len(queue) - 1) + 1
    BY <2>1
  <2>3. QED
    BY <2>2
<1>2. /\ Len(queue') = n /\ \A i \in 1..n : queue'[i] = queue[i + 1]
      /\ Head(queue) = queue[1]
  <2>1. queue \in Seq(Blocks \cup {Kill}) /\ queue # <<>> /\ queue' = Tail(queue)
    BY DEF TypeOK, WorkerDequeue
  <2>2. QED
    BY <1>1, <2>1, TailIs
<1>3. wpc = "dequeue" /\ UNCHANGED <<posted, ran, action>>
  BY DEF WorkerDequeue
<1>4. PICK r \in Nat, p \in Nat : r = Len(ran) /\ p = Len(posted) /\ Taken = r
  BY <1>3, Lengths
<1>5. RunsInOrder'
  BY <1>3 DEF OrderInv, RunsInOrder
<1>6. /\ \A i \in 1..(n + 1) :
            (\A j \in 1..i : queue[j] # Kill) =>
                r + i <= p /\ action[queue[i]] = posted[r + i]
      /\ ~InQueue(Kill) => p = r + (n + 1)
  BY <1>1, <1>3, <1>4 DEF OrderInv, Working
<1>7. CASE queue[1] = Kill
  <2>1. wpc' = "exit"
    BY <1>2, <1>7 DEF WorkerDequeue
  <2>2. QED
    BY <1>5, <2>1 DEF OrderInv, Working
<1>8. CASE queue[1] # Kill
  <2>1. wpc' = "run" /\ cur' = queue[1]
    BY <1>2, <1>8 DEF WorkerDequeue
  <2>2. Taken' = r + 1
    BY <1>3, <1>4, <2>1 DEF Taken
  <2>3. r + 1 <= p /\ action[queue[1]] = posted[r + 1]
    <3>1. 1 \in 1..(n + 1) /\ \A j \in 1..1 : j = 1
      OBVIOUS
    <3>2. QED
      BY <1>6, <1>8, <3>1
  <2>4. ASSUME NEW i \in 1..n, \A j \in 1..i : queue'[j] # Kill
        PROVE  (r + 1) + i <= p /\ action[queue'[i]] = posted[(r + 1) + i]
    <3>1. i + 1 \in 1..(n + 1) /\ r + (i + 1) = (r + 1) + i
      OBVIOUS
    <3>2. \A j \in 1..(i + 1) : queue[j] # Kill
      <4>1. SUFFICES ASSUME NEW j \in 1..(i + 1), j # 1 PROVE queue[j] # Kill
        BY <1>8
      <4>2. PICK k \in 1..i : j = k + 1
        <5>1. j - 1 \in 1..i /\ j = (j - 1) + 1
          BY <4>1
        <5>2. QED
          BY <5>1
      <4>3. k \in 1..n
        OBVIOUS
      <4>4. QED
        BY <1>2, <2>4, <4>2, <4>3
    <3>3. queue'[i] = queue[i + 1]
      BY <1>2
    <3>4. QED
      BY <1>6, <3>1, <3>2, <3>3
  <2>5. ~InQueue(Kill)' => p = (r + 1) + n
    <3>1. SUFFICES ASSUME ~InQueue(Kill)' PROVE ~InQueue(Kill)
      BY <1>6
    <3>2. \A j \in 1..(n + 1) : queue[j] # Kill
      <4>1. SUFFICES ASSUME NEW j \in 1..(n + 1), j # 1 PROVE queue[j] # Kill
        BY <1>8
      <4>2. PICK k \in 1..n : j = k + 1
        <5>1. j - 1 \in 1..n /\ j = (j - 1) + 1
          BY <4>1
        <5>2. QED
          BY <5>1
      <4>3. queue'[k] # Kill
        BY <1>2, <3>1 DEF InQueue
      <4>4. QED
        BY <1>2, <4>2, <4>3
    <3>3. QED
      BY <1>1, <3>2 DEF InQueue
  <2>6. Len(ran') = r /\ Len(posted') = p
    BY <1>3, <1>4
  <2>7. /\ Len(ran') < Len(posted')
        /\ action'[cur'] = posted'[Len(ran') + 1]
    BY <1>3, <2>1, <2>3, <2>6
  <2>8. \A i \in 1..Len(queue') :
          (\A j \in 1..i : queue'[j] # Kill) =>
            /\ Taken' + i <= Len(posted')
            /\ action'[queue'[i]] = posted'[Taken' + i]
    BY <1>2, <1>3, <2>2, <2>4, <2>6
  <2>9. ~InQueue(Kill)' => Len(posted') = Taken' + Len(queue')
    BY <1>2, <2>2, <2>5, <2>6
  <2>10. QED
    BY <1>5, <2>7, <2>8, <2>9 DEF OrderInv
<1>9. QED
  BY <1>7, <1>8, SMTT(60)

\* What is put on the queue behind a kill request is never taken; before one,
\* a posted action comes after all the others.
LEMMA OrderEnqueue ==
  ASSUME TypeOK, TypeOK', HandsInv, OrderInv, NEW x \in Blocks \cup {Kill},
         queue' = Append(queue, x), UNCHANGED <<ran, wpc, cur, action>>,
         \/ x = Kill /\ posted' = posted
         \/ x # Kill /\ action[x] \in Actions /\ posted' = Append(posted, action[x])
  PROVE  OrderInv'
<1>1. PICK n \in Nat, r \in Nat, p \in Nat, k \in Nat :
        n = Len(queue) /\ r = Len(ran) /\ p = Len(posted) /\ k = Taken
  BY Lengths
<1>2. /\ Len(queue') = n + 1 /\ queue'[n + 1] = x
      /\ \A i \in 1..n : queue'[i] = queue[i]
  <2>1. queue \in Seq(Blocks \cup {Kill})
    BY DEF TypeOK
  <2>2. QED
    BY <1>1, <2>1, AppendIs
<1>3. /\ \A i \in 1..p : posted'[i] = posted[i]
      /\ x = Kill => Len(posted') = p
      /\ x # Kill => Len(posted') = p + 1 /\ posted'[p + 1] = action[x]
  <2>1. posted \in Seq(Actions)
    BY DEF TypeOK
  <2>2. CASE x = Kill
    BY <1>1, <2>2
  <2>3. CASE x # Kill
    <3>1. /\ Len(Append(posted, action[x])) = Len(posted) + 1
          /\ \A i \in 1..Len(posted) : Append(posted, action[x])[i] = posted[i]
          /\ Append(posted, action[x])[Len(posted) + 1] = action[x]
      BY <2>1, <2>3, AppendIs
    <3>2. QED
      BY <1>1, <2>3, <3>1
  <2>4. QED
    BY <2>2, <2>3
<1>4. PICK q \in Nat : q = Len(posted') /\ p <= q
  BY <1>3
<1>5. Taken' = k
  BY <1>1 DEF Taken
<1>6. r <= p /\ \A i \in 1..r : ran[i] = posted[i]
  BY <1>1 DEF OrderInv, RunsInOrder
<1>7. RunsInOrder'
  <2>1. \A i \in 1..r : i \in 1..p
    BY <1>6
  <2>2. r <= q /\ \A i \in 1..r : ran[i] = posted'[i]
    BY <1>3, <1>4, <1>6, <2>1
  <2>3. QED
    BY <1>1, <1>4, <2>2 DEF RunsInOrder
<1>8. wpc' = "run" =>
        Len(ran') < Len(posted') /\ action'[cur'] = posted'[Len(ran') + 1]
  <2>1. SUFFICES ASSUME wpc = "run"
        PROVE  r < q /\ action[cur] = posted'[r + 1]
    BY <1>1, <1>4
  <2>2. r < p /\ action[cur] = posted[r + 1]
    BY <1>1, <2>1 DEF OrderInv
  <2>3. r + 1 \in 1..p
    BY <2>2
  <2>4. QED
    BY <1>3, <1>4, <2>2, <2>3
<1>9. ASSUME wpc \in Working
      PROVE  /\ \A i \in 1..(n + 1) :
                  (\A j \in 1..i : queue'[j] # Kill) =>
                    /\ k + i <= q
                    /\ action[queue'[i]] = posted'[k + i]
             /\ ~InQueue(Kill)' => q = k + (n + 1)
  <2>1. /\ \A i \in 1..n :
             (\A j \in 1..i : queue[j] # Kill) =>
                k + i <= p /\ action[queue[i]] = posted[k + i]
        /\ ~InQueue(Kill) => p = k + n
    BY <1>1, <1>9 DEF OrderInv
  <2>2. ASSUME NEW i \in 1..n, \A j \in 1..i : queue'[j] # Kill
        PROVE  k + i <= q /\ action[queue'[i]] = posted'[k + i]
    <3>1. \A j \in 1..i : j \in 1..n
      OBVIOUS
    <3>2. \A j \in 1..i : queue[j] # Kill
      BY <1>2, <2>2, <3>1
    <3>3. k + i <= p /\ action[queue[i]] = posted[k + i]
      BY <2>1, <3>2
    <3>4. k + i \in 1..p
      BY <3>3
    <3>5. QED
      BY <1>2, <1>3, <1>4, <3>3, <3>4
  <2>3. ASSUME \A j \in 1..(n + 1) : queue'[j] # Kill
        PROVE  /\ q = k + (n + 1)
               /\ action[queue'[n + 1]] = posted'[k + (n + 1)]
    <3>1. n + 1 \in 1..(n + 1) /\ \A j \in 1..n : j \in 1..(n + 1)
      OBVIOUS
    <3>2. x # Kill /\ \A j \in 1..n : queue[j] # Kill
      BY <1>2, <2>3, <3>1
    <3>3. p = k + n
      BY <1>1, <2>1, <3>2 DEF InQueue
    <3>4. p + 1 = k + (n + 1)
      BY <3>3
    <3>5. QED
      BY <1>2, <1>3, <1>4, <3>2, <3>4
  <2>4. \A i \in 1..(n + 1) : i \in 1..n \/ i = n + 1
    OBVIOUS
  <2>5. \A i \in 1..(n + 1) :
          (\A j \in 1..i : queue'[j] # Kill) =>
            k + i <= q /\ action[queue'[i]] = posted'[k + i]
    <3>1. SUFFICES ASSUME NEW i \in 1..(n + 1), \A j \in 1..i : queue'[j] # Kill
                   PROVE  k + i <= q /\ action[queue'[i]] = posted'[k + i]
      OBVIOUS
    <3>2. CASE i \in 1..n
      BY <2>2, <3>1, <3>2
    <3>3. CASE i = n + 1
      <4>1. q = k + (n + 1) /\ action[queue'[n + 1]] = posted'[k + (n + 1)]
        BY <2>3, <3>1, <3>3
      <4>2. QED
        BY <3>3, <4>1
    <3>4. QED
      BY <2>4, <3>2, <3>3
  <2>6. ~InQueue(Kill)' => q = k + (n + 1)
    BY <1>2, <2>3 DEF InQueue
  <2>7. QED
    BY <2>5, <2>6
<1>10. QED
  BY <1>2, <1>4, <1>5, <1>7, <1>8, <1>9 DEF OrderInv

\* The action that returns is the oldest that has not returned.
LEMMA OrderRun ==
  ASSUME TypeOK, TypeOK', HandsInv, OwnInv, OrderInv, WorkerRun
  PROVE  OrderInv'
<1> USE DEF blocks, log
<1>1. PICK r \in Nat, p \in Nat :
        r = Len(ran) /\ p = Len(posted) /\ Taken = r + 1
  BY Lengths DEF WorkerRun
<1>2. /\ wpc = "run" /\ wpc' = "free"
      /\ UNCHANGED <<queue, posted, action>>
  BY DEF WorkerRun
<1>3. /\ Len(ran') = r + 1 /\ ran'[r + 1] = action[cur]
      /\ \A i \in 1..r : ran'[i] = ran[i]
  <2>1. ran \in Seq(Actions) /\ action[cur] \in Actions
    BY <1>2 DEF TypeOK, HandsInv, OwnInv
  <2>2. PICK x \in Actions : x = action[cur]
    BY <2>1
  <2>3. ran' = Append(ran, x)
    BY <2>2 DEF WorkerRun
  <2>4. QED
    BY <1>1, <2>1, <2>2, <2>3, AppendIs
<1>4. Taken' = r + 1
  BY <1>2, <1>3 DEF Taken
<1>5. r < p /\ action[cur] = posted[r + 1]
  BY <1>1, <1>2 DEF OrderInv
<1>6. RunsInOrder'
  <2>1. \A i \in 1..(r + 1) : i \in 1..r \/ i = r + 1
    OBVIOUS
  <2>2. \A i \in 1..r : ran[i] = posted[i]
    BY <1>1 DEF OrderInv, RunsInOrder
  <2>3. \A i \in 1..(r + 1) : ran'[i] = posted[i]
    BY <1>3, <1>5, <2>1, <2>2
  <2>4. QED
    BY <1>1, <1>2, <1>3, <1>5, <2>3 DEF RunsInOrder
<1>7. /\ \A i \in 1..Len(queue') :
            (\A j \in 1..i : queue'[j] # Kill) =>
                /\ Taken' + i <= Len(posted')
                /\ action'[queue'[i]] = posted'[Taken' + i]
      /\ ~InQueue(Kill)' => Len(posted') = Taken' + Len(queue')
  BY <1>1, <1>2, <1>4 DEF OrderInv, Working, InQueue
<1>8. QED
  BY <1>2, <1>6, <1>7 DEF OrderInv

\* Each step keeps the order.
LEMMA OrderKept ==
  ASSUME TypeOK, TypeOK', HandsInv, OwnInv, OrderInv, [Next]_vars
  PROVE  OrderInv'
<1> USE Distinct DEF Goto, Crash, blocks, teardown, log
<1>0. ASSUME UNCHANGED <<queue, action, cur, wpc, posted, ran>> PROVE OrderInv'
  BY <1>0, OrderFrame
<1>1. ASSUME NEW t \in Callers, PostAlloc(t) PROVE OrderInv'
  <2>1. CASE plive /\ free # {}
    <3>1. PICK b \in free : action' = [action EXCEPT ![b] = <<t, posts[t]>>]
      BY <1>1, <2>1 DEF PostAlloc
    <3>2. UNCHANGED <<queue, cur, wpc, posted, ran>>
      BY <1>1, <2>1 DEF PostAlloc
    <3>3. wpc = "run" => action'[cur'] = action[cur]
      BY <3>1, <3>2 DEF HandsInv, OwnInv, TypeOK
    <3>4. ASSUME NEW i \in 1..Len(queue), queue[i] # Kill
          PROVE  action'[queue[i]] = action[queue[i]]
      <4>1. queue[i] \in Blocks \cup {Kill}
        BY ElementOfSeq DEF TypeOK
      <4>2. queue[i] \in Blocks /\ queue[i] # b
        BY <3>4, <4>1 DEF OwnInv
      <4>3. QED
        BY <3>1, <4>2 DEF TypeOK
    <3>5. QED
      BY <3>2, <3>3, <3>4, OrderFrame
  <2>2. CASE ~(plive /\ free # {})
    BY <1>0, <1>1, <2>2 DEF PostAlloc
  <2>3. QED
    BY <2>1, <2>2
<1>2. ASSUME NEW t \in Callers, PostEnqueue(t) PROVE OrderInv'
  <2>1. CASE qlive /\ Len(queue) < Size
    <3>1. mem[t] \in Blocks /\ action[mem[t]] \in Actions
      BY <1>2, <2>1 DEF PostEnqueue, HandsInv, OwnInv
    <3>2. PICK x \in Blocks : x = mem[t]
      BY <3>1
    <3>3. /\ queue' = Append(queue, x) /\ posted' = Append(posted, action[x])
          /\ UNCHANGED <<ran, wpc, cur, action>>
      BY <1>2, <2>1, <3>2 DEF PostEnqueue
    <3>4. x # Kill /\ action[x] \in Actions /\ x \in Blocks \cup {Kill}
      BY <3>1, <3>2
    <3>5. QED
      BY <3>3, <3>4, OrderEnqueue
  <2>2. CASE ~(qlive /\ Len(queue) < Size)
    BY <1>0, <1>2, <2>2 DEF PostEnqueue
  <2>3. QED
    BY <2>1, <2>2
<1>3. CASE WorkerFree
  <2>1. /\ wpc = "free" /\ wpc' = "dequeue"
        /\ UNCHANGED <<queue, posted, ran, action>>
    BY <1>3 DEF WorkerFree
  <2>2. QED
    BY <2>1, OrderFrame DEF Working
<1>4. CASE WorkerSignalLock \/ WorkerSignalSet \/ WorkerSignalUnlock \/ WorkerEnd
  <2>1. /\ wpc \notin Working /\ wpc' \notin Working
        /\ UNCHANGED <<queue, posted, ran, action, cur>>
    BY <1>4 DEF WorkerSignalLock, WorkerSignalSet, WorkerSignalUnlock, WorkerEnd,
         Working
  <2>2. QED
    BY <2>1, OrderFrame DEF Working
<1>5. ASSUME NEW d \in Destroyers, DestroyKill(d) PROVE OrderInv'
  <2>1. CASE Len(queue) < Size
    <3>1. PICK x \in Blocks \cup {Kill} : x = Kill
      OBVIOUS
    <3>2. /\ queue' = Append(queue, x) /\ posted' = posted
          /\ UNCHANGED <<ran, wpc, cur, action>>
      BY <1>5, <2>1, <3>1 DEF DestroyKill
    <3>3. QED
      BY <3>1, <3>2, OrderEnqueue
  <2>2. CASE ~(Len(queue) < Size)
    BY <1>0, <1>5, <2>2 DEF DestroyKill
  <2>3. QED
    BY <2>1, <2>2
<1>6. ASSUME NEW d \in Destroyers,
             \/ dispatch_queue_destroy(d) \/ DestroySpuriousWakeup(d)
             \/ DestroyWaitLock(d) \/ DestroyWaitCheck(d) \/ DestroyRelock(d)
             \/ DestroyJoin(d) \/ DestroyPool(d) \/ DestroyQueue(d)
      PROVE  OrderInv'
  BY <1>0, <1>6
  DEF dispatch_queue_destroy, DestroySpuriousWakeup, DestroyWaitLock,
      DestroyWaitCheck, DestroyRelock, DestroyJoin, DestroyPool, DestroyQueue
<1>7. ASSUME NEW t \in Callers, dispatch_async_f(t) PROVE OrderInv'
  BY <1>0, <1>7 DEF dispatch_async_f
<1>8. CASE UNCHANGED vars
  BY <1>0, <1>8 DEF vars
<1>9. QED
  BY <1>1, <1>2, <1>3, <1>4, <1>5, <1>6, <1>7, <1>8, OrderDequeue, OrderRun
  DEF Next, Finished, PostStep, WorkerStep, DestroyStep

-----------------------------------------------------------------------------
(* The destruction.                                                        *)

\* Each step but its own start keeps who destroys.
LEMMA DestroyerKept ==
  ASSUME TypeOK, HandsInv, DestroyerInv, [Next]_vars
  PROVE  DestroyerInv'
<1> USE Distinct DEF Goto, Crash, blocks, teardown, log
<1> DEFINE Ending == {"pool", "queue", "returned"}
<1>0. ASSUME UNCHANGED <<destroying, plive, qlive>>,
             wpc = "ended" => wpc' = "ended",
             \A d \in Destroyers :
                /\ pc'[d] \in DestroyStates => pc[d] \in DestroyStates
                /\ pc'[d] \in Ending => pc[d] \in Ending
      PROVE  DestroyerInv'
  BY <1>0 DEF DestroyerInv
<1>1. ASSUME NEW t \in Callers, dispatch_async_f(t) \/ PostAlloc(t) \/ PostEnqueue(t)
      PROVE  DestroyerInv'
  <2>1. \A d \in Destroyers : pc'[d] = pc[d]
    BY <1>1 DEF dispatch_async_f, PostAlloc, PostEnqueue, TypeOK
  <2>2. UNCHANGED <<destroying, plive, qlive, wpc>>
    BY <1>1 DEF dispatch_async_f, PostAlloc, PostEnqueue
  <2>3. QED
    BY <1>0, <2>1, <2>2
<1>2. CASE WorkerStep
  <2>1. UNCHANGED <<destroying, plive, qlive>> /\ wpc # "ended"
    BY <1>2 DEF WorkerStep, WorkerDequeue, WorkerRun, WorkerFree, WorkerSignalLock,
         WorkerSignalSet, WorkerSignalUnlock, WorkerEnd
  <2>2. \A d \in Destroyers :
          pc'[d] = pc[d] \/ (pc[d] = "blocked" /\ pc'[d] = "woken")
    BY <1>2 DEF TypeOK, WorkerStep, WorkerDequeue, WorkerRun, WorkerFree,
         WorkerSignalLock, WorkerSignalSet, WorkerSignalUnlock, WorkerEnd
  <2>3. QED
    BY <1>0, <2>1, <2>2 DEF DestroyStates
<1>3. ASSUME NEW d \in Destroyers, dispatch_queue_destroy(d) PROVE DestroyerInv'
  <2>1. /\ pc' = [pc EXCEPT ![d] = IF destroying THEN "refused" ELSE "kill"]
        /\ destroying' = TRUE /\ UNCHANGED <<plive, qlive, wpc>>
        /\ d \in DOMAIN pc
    BY <1>3 DEF dispatch_queue_destroy, TypeOK
  <2>2. QED
    BY <2>1 DEF DestroyerInv, DestroyStates, TypeOK
<1>4. ASSUME NEW d \in Destroyers,
             \/ DestroyKill(d) \/ DestroyWaitLock(d) \/ DestroyWaitCheck(d)
             \/ DestroyRelock(d) \/ DestroySpuriousWakeup(d)
      PROVE  DestroyerInv'
  <2>1. UNCHANGED <<destroying, plive, qlive, wpc>>
    BY <1>4 DEF DestroyKill, DestroyWaitLock, DestroyWaitCheck, DestroyRelock,
         DestroySpuriousWakeup
  <2>2. \A e \in Destroyers :
          \/ pc'[e] = pc[e]
          \/ /\ pc[e] \in {"kill", "wait", "check", "blocked", "woken"}
             /\ pc'[e] \in {"wait", "check", "join", "blocked", "woken"}
    BY <1>4 DEF TypeOK, DestroyKill, DestroyWaitLock, DestroyWaitCheck,
         DestroyRelock, DestroySpuriousWakeup
  <2>3. QED
    BY <1>0, <2>1, <2>2 DEF DestroyStates
<1>5. ASSUME NEW d \in Destroyers, DestroyJoin(d) \/ DestroyPool(d) \/ DestroyQueue(d)
      PROVE  DestroyerInv'
  <2>1. /\ pc[d] \in {"join", "pool", "queue"} /\ pc'[d] \in Ending
        /\ \A e \in Destroyers \ {d} : pc'[e] = pc[e]
        /\ UNCHANGED <<destroying, wpc>>
        /\ pc[d] = "join" => wpc = "ended"
    BY <1>5 DEF TypeOK, DestroyJoin, DestroyPool, DestroyQueue
  <2>2. destroying /\ wpc = "ended"
    BY <2>1 DEF DestroyerInv, DestroyStates
  <2>3. QED
    BY <2>1, <2>2 DEF DestroyerInv, DestroyStates
<1>6. CASE UNCHANGED vars
  BY <1>0, <1>6 DEF vars
<1>7. QED
  BY <1>1, <1>2, <1>3, <1>4, <1>5, <1>6
  DEF Next, Finished, PostStep, DestroyStep

\* Whether a kill request is in a queue that grows or shrinks by one.
LEMMA KillSeen ==
  ASSUME TypeOK
  PROVE  /\ \A x \in Blocks \cup {Kill} :
              queue' = Append(queue, x) =>
                (InQueue(Kill)' <=> InQueue(Kill) \/ x = Kill)
         /\ queue # <<>> /\ queue' = Tail(queue) =>
              /\ InQueue(Kill)' => InQueue(Kill)
              /\ Head(queue) = Kill => InQueue(Kill)
         /\ queue' = queue => (InQueue(Kill)' <=> InQueue(Kill))
<1>1. queue \in Seq(Blocks \cup {Kill}) /\ Len(queue) \in Nat
  BY LenProperties DEF TypeOK
<1>2. ASSUME NEW x \in Blocks \cup {Kill}, queue' = Append(queue, x)
      PROVE  InQueue(Kill)' <=> InQueue(Kill) \/ x = Kill
  <2>1. /\ Len(queue') = Len(queue) + 1 /\ queue'[Len(queue) + 1] = x
        /\ \A i \in 1..Len(queue) : queue'[i] = queue[i]
    BY <1>1, <1>2, AppendIs
  <2>2. QED
    BY <1>1, <2>1 DEF InQueue
<1>3. ASSUME queue # <<>>, queue' = Tail(queue)
      PROVE  /\ InQueue(Kill)' => InQueue(Kill)
             /\ Head(queue) = Kill => InQueue(Kill)
  <2>1. /\ Len(queue) \in Nat \ {0} /\ Len(queue') = Len(queue) - 1
        /\ \A i \in 1..(Len(queue) - 1) : queue'[i] = queue[i + 1]
        /\ Head(queue) = queue[1]
    BY <1>1, <1>3, TailIs
  <2>2. QED
    BY <2>1 DEF InQueue
<1>4. queue' = queue => (InQueue(Kill)' <=> InQueue(Kill))
  BY DEF InQueue
<1>5. QED
  BY <1>2, <1>3, <1>4

\* Each step keeps the kill request a single one.
LEMMA KillKept ==
  ASSUME TypeOK, HandsInv, DestroyerInv, KillInv, [Next]_vars
  PROVE  KillInv'
<1> USE Distinct DEF Goto, Crash, blocks, teardown, log
<1>0. ASSUME InQueue(Kill)' => InQueue(Kill) \/ wpc \notin Working,
             wpc' \notin Working => InQueue(Kill) \/ wpc \notin Working,
             destroying' = destroying,
             \A d \in Destroyers : pc'[d] = "kill" => pc[d] = "kill"
      PROVE  KillInv'
  BY <1>0 DEF KillInv
<1>1. ASSUME NEW t \in Callers, dispatch_async_f(t) \/ PostAlloc(t)
      PROVE  KillInv'
  <2>1. \A d \in Destroyers : pc'[d] = pc[d]
    BY <1>1 DEF dispatch_async_f, PostAlloc, TypeOK
  <2>2. UNCHANGED <<destroying, queue, wpc>>
    BY <1>1 DEF dispatch_async_f, PostAlloc
  <2>3. QED
    BY <1>0, <2>1, <2>2, KillSeen
<1>2. ASSUME NEW t \in Callers, PostEnqueue(t) PROVE KillInv'
  <2>1. \A d \in Destroyers : pc'[d] = pc[d]
    BY <1>2 DEF PostEnqueue, TypeOK
  <2>2. UNCHANGED <<destroying, wpc>>
    BY <1>2 DEF PostEnqueue
  <2>3. InQueue(Kill)' => InQueue(Kill)
    <3>1. CASE queue' = queue
      BY <3>1, KillSeen
    <3>2. CASE queue' # queue
      <4>1. mem[t] \in Blocks /\ queue' = Append(queue, mem[t])
        BY <1>2, <3>2 DEF PostEnqueue, HandsInv
      <4>2. PICK x \in Blocks : x = mem[t]
        BY <4>1
      <4>3. QED
        BY <4>1, <4>2, KillSeen
    <3>3. QED
      BY <3>1, <3>2
  <2>4. QED
    BY <1>0, <2>1, <2>2, <2>3
<1>3. CASE WorkerDequeue
  <2>1. UNCHANGED <<destroying, pc>> /\ queue # <<>> /\ queue' = Tail(queue)
          /\ (wpc' \notin Working => Head(queue) = Kill)
    BY <1>3 DEF WorkerDequeue, Working
  <2>2. QED
    BY <1>0, <2>1, KillSeen
<1>4. CASE WorkerRun \/ WorkerFree \/ WorkerSignalLock \/ WorkerSignalSet
             \/ WorkerSignalUnlock \/ WorkerEnd
  <2>1. /\ UNCHANGED <<destroying, queue>>
        /\ wpc' \notin Working => wpc \notin Working
    BY <1>4 DEF WorkerRun, WorkerFree, WorkerSignalLock, WorkerSignalSet,
         WorkerSignalUnlock, WorkerEnd, Working
  <2>2. \A d \in Destroyers : pc'[d] = "kill" => pc[d] = "kill"
    BY <1>4 DEF TypeOK, WorkerRun, WorkerFree, WorkerSignalLock, WorkerSignalSet,
         WorkerSignalUnlock, WorkerEnd
  <2>3. QED
    BY <1>0, <2>1, <2>2, KillSeen
<1>5. ASSUME NEW d \in Destroyers, dispatch_queue_destroy(d) PROVE KillInv'
  <2>1. /\ UNCHANGED <<queue, wpc>> /\ destroying' = TRUE
        /\ pc' = [pc EXCEPT ![d] = IF destroying THEN "refused" ELSE "kill"]
    BY <1>5 DEF dispatch_queue_destroy
  <2>2. QED
    BY <2>1, KillSeen DEF KillInv, TypeOK
<1>6. ASSUME NEW d \in Destroyers, DestroyKill(d) PROVE KillInv'
  <2>1. pc[d] = "kill" /\ UNCHANGED <<destroying, wpc>>
    BY <1>6 DEF DestroyKill
  <2>2. destroying /\ \A e \in Destroyers \ {d} : pc[e] # "kill"
    BY <2>1 DEF DestroyerInv, DestroyStates
  <2>3. CASE Len(queue) < Size
    <3>1. pc' = [pc EXCEPT ![d] = "wait"]
      BY <1>6, <2>3 DEF DestroyKill
    <3>2. QED
      BY <2>1, <2>2, <3>1 DEF KillInv, TypeOK
  <2>4. CASE ~(Len(queue) < Size)
    <3>1. UNCHANGED <<queue, pc>>
      BY <1>6, <2>4 DEF DestroyKill
    <3>2. QED
      BY <1>0, <2>1, <3>1, KillSeen
  <2>5. QED
    BY <2>3, <2>4
<1>7. ASSUME NEW d \in Destroyers,
             \/ DestroySpuriousWakeup(d) \/ DestroyWaitLock(d)
             \/ DestroyWaitCheck(d) \/ DestroyRelock(d)
             \/ DestroyJoin(d) \/ DestroyPool(d) \/ DestroyQueue(d)
      PROVE  KillInv'
  <2>1. UNCHANGED <<destroying, queue, wpc>>
    BY <1>7 DEF DestroySpuriousWakeup, DestroyWaitLock, DestroyWaitCheck,
         DestroyRelock, DestroyJoin, DestroyPool, DestroyQueue
  <2>2. \A e \in Destroyers : pc'[e] = "kill" => pc[e] = "kill"
    BY <1>7 DEF TypeOK, DestroySpuriousWakeup, DestroyWaitLock, DestroyWaitCheck,
         DestroyRelock, DestroyJoin, DestroyPool, DestroyQueue
  <2>3. QED
    BY <1>0, <2>1, <2>2, KillSeen
<1>8. CASE UNCHANGED vars
  BY <1>0, <1>8, KillSeen DEF vars
<1>9. QED
  BY <1>1, <1>2, <1>3, <1>4, <1>5, <1>6, <1>7, <1>8
  DEF Next, Finished, PostStep, WorkerStep, DestroyStep

\* A step that moves no action and starts no call keeps what is drained.
LEMMA DrainFrame ==
  ASSUME DrainInv, UNCHANGED <<queue, posted, ran, destroying, overlap>>,
         wpc' = "run" <=> wpc = "run",
         wpc' \in Working <=> wpc \in Working,
         destroying => \A t \in Callers : pc[t] = "idle" => pc'[t] = "idle"
  PROVE  DrainInv'
<1>1. Taken' = Taken
  BY DEF Taken
<1>2. InQueue(Kill)' <=> InQueue(Kill)
  BY DEF InQueue
<1>3. QED
  BY <1>1, <1>2 DEF DrainInv

\* The kill request goes behind everything that was accepted, and when the
\* worker takes it, it takes the last thing.
LEMMA DrainDequeue ==
  ASSUME TypeOK, TypeOK', OrderInv, KillInv, DrainInv, WorkerDequeue
  PROVE  DrainInv'
<1> USE DEF blocks, teardown, log
<1>1. SUFFICES ASSUME destroying', ~overlap' PROVE DrainInv'
  BY DEF DrainInv
<1>2. wpc = "dequeue" /\ UNCHANGED <<destroying, overlap, pc, posted, ran>>
  BY DEF WorkerDequeue
<1>3. /\ \A t \in Callers : pc[t] = "idle"
      /\ \A i \in 1..Len(queue) : queue[i] = Kill => i = Len(queue)
      /\ InQueue(Kill) => Len(posted) = Taken + Len(queue) - 1
  BY <1>1, <1>2, SMTT(60) DEF DrainInv, Working
<1>4. PICK n \in Nat : Len(queue) = n + 1
  <2>1. Len(queue) \in Nat \ {0}
    BY TailIs DEF TypeOK, WorkerDequeue
  <2>2. Len(queue) - 1 \in Nat /\ Len(queue) = (Len(queue) - 1) + 1
    BY <2>1
  <2>3. QED
    BY <2>2
<1>5. /\ Len(queue') = n /\ \A i \in 1..n : queue'[i] = queue[i + 1]
      /\ Head(queue) = queue[1] /\ queue' \in Seq(Blocks \cup {Kill})
  <2>1. queue \in Seq(Blocks \cup {Kill}) /\ queue # <<>> /\ queue' = Tail(queue)
    BY DEF TypeOK, WorkerDequeue
  <2>2. QED
    BY <1>4, <2>1, TailIs
<1>6. PICK r \in Nat, p \in Nat : r = Len(ran) /\ p = Len(posted) /\ Taken = r
  BY <1>2, Lengths
<1>7. \A i \in 1..Len(queue') : queue'[i] = Kill => i = Len(queue')
  <2>1. \A i \in 1..n : i + 1 \in 1..(n + 1) /\ (i + 1 = n + 1 => i = n)
    OBVIOUS
  <2>2. QED
    BY <1>3, <1>4, <1>5, <2>1
<1>8. CASE queue[1] = Kill
  <2>1. 1 \in 1..(n + 1) /\ (1 = n + 1 => n = 0)
    OBVIOUS
  <2>2. n = 0 /\ InQueue(Kill)
    BY <1>3, <1>4, <1>8, <2>1 DEF InQueue
  <2>3. queue' = <<>>
    BY <1>5, <2>2
  <2>4. p = r
    BY <1>3, <1>4, <1>6, <2>2
  <2>5. ran = posted
    <3>1. ran \in Seq(Actions) /\ posted \in Seq(Actions) /\ Len(ran) = Len(posted)
      BY <1>6, <2>4 DEF TypeOK
    <3>2. \A i \in 1..Len(ran) : ran[i] = posted[i]
      BY DEF OrderInv, RunsInOrder
    <3>3. QED
      BY <3>1, <3>2, SeqEqual
  <2>6. wpc' = "exit"
    BY <1>5, <1>8 DEF WorkerDequeue
  <2>7. QED
    BY <1>2, <1>3, <1>7, <2>3, <2>5, <2>6 DEF DrainInv, Working
<1>9. CASE queue[1] # Kill
  <2>1. wpc' = "run"
    BY <1>5, <1>9 DEF WorkerDequeue
  <2>2. Taken' = r + 1
    BY <1>2, <1>6, <2>1 DEF Taken
  <2>3. InQueue(Kill)' => InQueue(Kill)
    BY KillSeen DEF WorkerDequeue
  <2>4. InQueue(Kill)' => Len(posted') = Taken' + Len(queue') - 1
    BY <1>2, <1>3, <1>4, <1>5, <1>6, <2>2, <2>3, SMTT(60)
  <2>5. QED
    BY <1>2, <1>3, <1>7, <2>1, <2>4 DEF DrainInv, Working
<1>10. QED
  BY <1>8, <1>9

\* Each step keeps what is drained.
LEMMA DrainKept ==
  ASSUME TypeOK, TypeOK', HandsInv, OrderInv, DestroyerInv, KillInv, DrainInv,
         [Next]_vars
  PROVE  DrainInv'
<1> USE Distinct DEF Goto, Crash, blocks, teardown, log
<1>0. ASSUME UNCHANGED <<queue, posted, ran, destroying, overlap, wpc>>,
             \A t \in Callers : pc'[t] = pc[t]
      PROVE  DrainInv'
  BY <1>0, DrainFrame
<1>1. ASSUME NEW t \in Callers, dispatch_async_f(t) PROVE DrainInv'
  <2>1. UNCHANGED <<queue, posted, ran, destroying, overlap, wpc>>
    BY <1>1 DEF dispatch_async_f
  <2>2. destroying => \A u \in Callers : pc[u] = "idle" => pc'[u] = "idle"
    BY <1>1 DEF dispatch_async_f, TypeOK
  <2>3. QED
    BY <2>1, <2>2, DrainFrame
<1>2. ASSUME NEW t \in Callers, PostAlloc(t) \/ PostEnqueue(t) PROVE DrainInv'
  <2>1. pc[t] # "idle" /\ UNCHANGED <<destroying, overlap>>
    BY <1>2 DEF PostAlloc, PostEnqueue
  <2>2. ~(destroying /\ ~overlap)
    BY <2>1 DEF DrainInv
  <2>3. QED
    BY <2>1, <2>2 DEF DrainInv
<1>3. CASE WorkerRun
  <2>1. /\ wpc = "run" /\ wpc' = "free"
        /\ UNCHANGED <<queue, posted, destroying, overlap, pc>>
    BY <1>3 DEF WorkerRun
  <2>2. Taken' = Taken
    <3>1. ran \in Seq(Actions \cup {<<>>})
      BY SeqMonotonic DEF TypeOK
    <3>2. action[cur] \in Actions \cup {<<>>}
      BY <2>1 DEF TypeOK, HandsInv
    <3>3. Len(ran') = Len(ran) + 1 /\ Len(ran) \in Nat
      BY <1>3, <3>1, <3>2, AppendIs DEF WorkerRun
    <3>4. QED
      BY <2>1, <3>3 DEF Taken
  <2>3. InQueue(Kill)' <=> InQueue(Kill)
    BY <2>1, KillSeen
  <2>4. QED
    BY <2>1, <2>2, <2>3 DEF DrainInv, Working
<1>4. CASE WorkerFree \/ WorkerSignalLock \/ WorkerSignalSet
             \/ WorkerSignalUnlock \/ WorkerEnd
  <2>1. /\ UNCHANGED <<queue, posted, ran, destroying, overlap>>
        /\ wpc' # "run" /\ wpc # "run"
        /\ wpc' \in Working <=> wpc \in Working
    BY <1>4 DEF WorkerFree, WorkerSignalLock, WorkerSignalSet,
         WorkerSignalUnlock, WorkerEnd, Working
  <2>2. \A t \in Callers : pc[t] = "idle" => pc'[t] = "idle"
    BY <1>4 DEF TypeOK, WorkerFree, WorkerSignalLock, WorkerSignalSet,
         WorkerSignalUnlock, WorkerEnd
  <2>3. QED
    BY <2>1, <2>2, DrainFrame
<1>5. ASSUME NEW d \in Destroyers, dispatch_queue_destroy(d) PROVE DrainInv'
  <2>1. /\ UNCHANGED <<queue, posted, ran, wpc>>
        /\ overlap' = (overlap \/ (~destroying /\ \E t \in Callers : pc[t] # "idle"))
        /\ \A t \in Callers : pc'[t] = pc[t]
    BY <1>5 DEF dispatch_queue_destroy, TypeOK
  <2>2. CASE destroying
    <3>1. UNCHANGED <<destroying, overlap>>
      BY <1>5, <2>1, <2>2 DEF dispatch_queue_destroy, TypeOK
    <3>2. QED
      BY <1>0, <2>1, <3>1
  <2>3. CASE ~destroying
    <3>1. ~InQueue(Kill) /\ wpc \in Working
      BY <2>3 DEF KillInv
    <3>2. ~InQueue(Kill)' /\ wpc' \in Working
      BY <2>1, <3>1, KillSeen
    <3>3. \A i \in 1..Len(queue') : queue'[i] # Kill
      BY <3>2 DEF InQueue
    <3>4. ~overlap' => \A t \in Callers : pc'[t] = "idle"
      BY <2>1, <2>3
    <3>5. QED
      BY <3>2, <3>3, <3>4 DEF DrainInv
  <2>4. QED
    BY <2>2, <2>3
<1>6. ASSUME NEW d \in Destroyers, DestroyKill(d) PROVE DrainInv'
  <2>1. /\ pc[d] = "kill" /\ UNCHANGED <<posted, ran, destroying, overlap, wpc>>
        /\ \A t \in Callers : pc'[t] = pc[t]
    BY <1>6 DEF DestroyKill, TypeOK
  <2>2. ~InQueue(Kill) /\ wpc \in Working
    BY <2>1 DEF KillInv
  <2>3. CASE Len(queue) < Size
    <3>1. PICK n \in Nat, k \in Nat : n = Len(queue) /\ k = Taken
      BY Lengths
    <3>2. /\ Len(queue') = n + 1 /\ \A i \in 1..n : queue'[i] = queue[i]
      <4>1. queue \in Seq(Blocks \cup {Kill}) /\ queue' = Append(queue, Kill)
        BY <1>6, <2>3 DEF TypeOK, DestroyKill
      <4>2. QED
        BY <3>1, <4>1, AppendIs
    <3>3. \A i \in 1..(n + 1) : i \in 1..n \/ i = n + 1
      OBVIOUS
    <3>4. \A i \in 1..Len(queue') : queue'[i] = Kill => i = Len(queue')
      BY <2>2, <3>1, <3>2, <3>3 DEF InQueue
    <3>5. Taken' = k
      BY <2>1, <3>1 DEF Taken
    <3>6. Len(posted) = k + n
      BY <2>2, <3>1 DEF OrderInv
    <3>7. Len(posted') = Taken' + Len(queue') - 1
      BY <2>1, <3>2, <3>5, <3>6
    <3>8. wpc' \in Working
      BY <2>1, <2>2
    <3>9. destroying' /\ ~overlap' => \A t \in Callers : pc'[t] = "idle"
      BY <2>1 DEF DrainInv
    <3>10. QED
      BY <3>4, <3>7, <3>8, <3>9 DEF DrainInv
  <2>4. CASE ~(Len(queue) < Size)
    <3>1. UNCHANGED queue
      BY <1>6, <2>4 DEF DestroyKill
    <3>2. QED
      BY <1>0, <2>1, <3>1
  <2>5. QED
    BY <2>3, <2>4
<1>7. ASSUME NEW d \in Destroyers,
             \/ DestroySpuriousWakeup(d) \/ DestroyWaitLock(d)
             \/ DestroyWaitCheck(d) \/ DestroyRelock(d)
             \/ DestroyJoin(d) \/ DestroyPool(d) \/ DestroyQueue(d)
      PROVE  DrainInv'
  <2>1. UNCHANGED <<queue, posted, ran, destroying, overlap, wpc>>
    BY <1>7 DEF DestroySpuriousWakeup, DestroyWaitLock, DestroyWaitCheck,
         DestroyRelock, DestroyJoin, DestroyPool, DestroyQueue
  <2>2. \A t \in Callers : pc'[t] = pc[t]
    BY <1>7 DEF TypeOK, DestroySpuriousWakeup, DestroyWaitLock, DestroyWaitCheck,
         DestroyRelock, DestroyJoin, DestroyPool, DestroyQueue
  <2>3. QED
    BY <1>0, <2>1, <2>2
<1>8. CASE UNCHANGED vars
  BY <1>0, <1>8 DEF vars
<1>9. QED
  BY <1>1, <1>2, <1>3, <1>4, <1>5, <1>6, <1>7, <1>8, DrainDequeue
  DEF Next, Finished, PostStep, WorkerStep, DestroyStep

\* Each step keeps who owns the signal's mutex.
LEMMA SignalKept ==
  ASSUME TypeOK, TypeOK', HandsInv, SignalInv, [Next]_vars
  PROVE  SignalInv'
<1> USE Distinct DEF Goto, Crash, blocks, teardown, log
<1>0. ASSUME UNCHANGED sig,
             wpc' \in {"set", "unset"} <=> wpc \in {"set", "unset"},
             \A d \in Destroyers : pc[d] = "check" <=> pc'[d] = "check"
      PROVE  SignalInv'
  BY <1>0 DEF SignalInv
<1>1. ASSUME NEW t \in Callers, dispatch_async_f(t) \/ PostAlloc(t) \/ PostEnqueue(t)
      PROVE  SignalInv'
  <2>1. \A d \in Destroyers : pc'[d] = pc[d]
    BY <1>1 DEF dispatch_async_f, PostAlloc, PostEnqueue, TypeOK
  <2>2. UNCHANGED <<sig, wpc>>
    BY <1>1 DEF dispatch_async_f, PostAlloc, PostEnqueue
  <2>3. QED
    BY <1>0, <2>1, <2>2
<1>2. CASE WorkerDequeue \/ WorkerRun \/ WorkerFree \/ WorkerEnd
  BY <1>0, <1>2 DEF WorkerDequeue, WorkerRun, WorkerFree, WorkerEnd
<1>3. CASE WorkerSignalLock
  <2>1. wpc' = "set" /\ sig.mtx = NoThread /\ sig'.mtx = Worker /\ pc' = pc
    BY <1>3 DEF WorkerSignalLock, TypeOK
  <2>2. QED
    BY <2>1, DispatchAssumption DEF SignalInv
<1>4. CASE WorkerSignalSet
  <2>1. /\ wpc = "set" /\ wpc' = "unset" /\ sig'.mtx = sig.mtx
        /\ \A d \in Destroyers : pc[d] = "check" <=> pc'[d] = "check"
    BY <1>4 DEF WorkerSignalSet, TypeOK
  <2>2. QED
    BY <2>1 DEF SignalInv
<1>5. CASE WorkerSignalUnlock
  <2>1. wpc = "unset" /\ wpc' = "leaving" /\ sig'.mtx = NoThread /\ pc' = pc
    BY <1>5 DEF WorkerSignalUnlock, TypeOK
  <2>2. \A d \in Destroyers : d # Worker /\ d # NoThread
    BY DispatchAssumption
  <2>3. Worker # NoThread
    BY DispatchAssumption DEF Callers
  <2>4. QED
    BY <2>1, <2>2, <2>3 DEF SignalInv
<1>6. ASSUME NEW d \in Destroyers,
             \/ dispatch_queue_destroy(d) \/ DestroyKill(d)
             \/ DestroySpuriousWakeup(d)
             \/ DestroyJoin(d) \/ DestroyPool(d) \/ DestroyQueue(d)
      PROVE  SignalInv'
  <2>1. UNCHANGED <<sig, wpc>>
    BY <1>6 DEF dispatch_queue_destroy, DestroyKill, DestroySpuriousWakeup,
         DestroyJoin, DestroyPool, DestroyQueue
  <2>2. \A e \in Destroyers : pc[e] = "check" <=> pc'[e] = "check"
    BY <1>6 DEF TypeOK, dispatch_queue_destroy, DestroyKill,
         DestroySpuriousWakeup, DestroyJoin, DestroyPool, DestroyQueue
  <2>3. QED
    BY <1>0, <2>1, <2>2
<1>7. ASSUME NEW d \in Destroyers, DestroyWaitLock(d) \/ DestroyRelock(d)
      PROVE  SignalInv'
  <2>1. CASE UNCHANGED <<sig, wpc, pc>>
    BY <1>0, <2>1
  <2>2. CASE ~UNCHANGED <<sig, wpc, pc>>
    <3>1. sig.mtx = NoThread /\ sig'.mtx = d /\ wpc' = wpc
      BY <1>7, <2>2 DEF DestroyWaitLock, DestroyRelock, TypeOK
    <3>2. \A e \in Destroyers : pc'[e] = IF e = d THEN "check" ELSE pc[e]
      BY <1>7, <2>2 DEF DestroyWaitLock, DestroyRelock, TypeOK
    <3>3. \A e \in Destroyers : e # Worker /\ e # NoThread
      BY DispatchAssumption
    <3>4. Worker # NoThread
      BY DispatchAssumption DEF Callers
    <3>5. QED
      BY <3>1, <3>2, <3>3, <3>4 DEF SignalInv
  <2>3. QED
    BY <2>1, <2>2
<1>8. ASSUME NEW d \in Destroyers, DestroyWaitCheck(d) PROVE SignalInv'
  <2>1. pc[d] = "check" /\ sig'.mtx = NoThread /\ wpc' = wpc
    BY <1>8 DEF DestroyWaitCheck
  <2>2. pc'[d] # "check" /\ \A e \in Destroyers : e # d => pc'[e] = pc[e]
    BY <1>8 DEF DestroyWaitCheck, TypeOK
  <2>3. \A e \in Destroyers : e # Worker /\ e # NoThread
    BY DispatchAssumption
  <2>4. Worker # NoThread
    BY DispatchAssumption DEF Callers
  <2>5. QED
    BY <2>1, <2>2, <2>3, <2>4 DEF SignalInv
<1>9. CASE UNCHANGED vars
  BY <1>0, <1>9 DEF vars
<1>10. QED
  BY <1>1, <1>2, <1>3, <1>4, <1>5, <1>6, <1>7, <1>8, <1>9
  DEF Next, Finished, PostStep, WorkerStep, DestroyStep

-----------------------------------------------------------------------------
(* The assertions.                                                         *)

\* The queue has as many slots as there are blocks: when it is full, without a
\* kill request, it holds every one of them.
LEMMA FullHoldsAll ==
  ASSUME TypeOK, OwnInv, ~InQueue(Kill), ~(Len(queue) < Size)
  PROVE  \A b \in Blocks : InQueue(b)
<1> SUFFICES ASSUME NEW b \in Blocks, ~InQueue(b) PROVE FALSE
  OBVIOUS
<1>1. PICK n \in Nat : n = Len(queue)
  BY LenProperties DEF TypeOK
<1>2. \A i \in 1..n : queue[i] \in Blocks \ {b}
  <2>1. \A i \in 1..n : queue[i] \in Blocks \cup {Kill}
    BY <1>1, ElementOfSeq DEF TypeOK
  <2>2. QED
    BY <1>1, <2>1 DEF InQueue
<1>3. \A i, j \in 1..n : queue[i] = queue[j] => i = j
  BY <1>1, <1>2 DEF OwnInv
<1>4. [i \in 1..n |-> queue[i]] \in Injection(1..n, Blocks \ {b})
  BY <1>2, <1>3 DEF Injection, IsInjective
<1>5. /\ IsFiniteSet(Blocks \ {b}) /\ Size \in Nat
      /\ Cardinality(Blocks \ {b}) = Size - 1
  BY FS_RemoveElement, FS_CardinalityType, DispatchAssumption DEF Size
<1>6. IsFiniteSet(1..n) /\ Cardinality(1..n) = n
  BY FS_Interval
<1>7. n <= Size - 1
  BY <1>4, <1>5, <1>6, FS_Injection
<1>8. QED
  BY <1>1, <1>5, <1>7

\* A post that is under way while the queue is destroyed was so from the start.
LEMMA PostOverlaps ==
  ASSUME DrainInv, destroying, NEW t \in Callers, pc[t] # "idle"
  PROVE  overlap
  BY DEF DrainInv

\* Each step keeps the causes of the assertions: a step that fails one has it.
LEMMA AssertsKept ==
  ASSUME TypeOK, HandsInv, OwnInv, DestroyerInv, KillInv, DrainInv, SignalInv,
         AssertionCauses, [Next]_vars
  PROVE  AssertionCauses'
<1> USE DEF Goto, Crash, blocks, teardown, log
<1>1. CASE UNCHANGED vars
  BY <1>1 DEF AssertionCauses, vars
<1>2. CASE crashed = "no" /\ crashed' = crashed
  BY <1>2 DEF AssertionCauses
<1>3. ASSUME NEW t \in Callers, crashed = "no", crashed' # crashed, PostAlloc(t)
      PROVE  AssertionCauses'
  <2>1. /\ crashed' = "post" /\ pc[t] = "alloc" /\ ~(plive /\ free # {})
        /\ free' = free /\ overlap' = overlap
    BY <1>3 DEF PostAlloc
  <2>2. ~plive => overlap
    BY <2>1, PostOverlaps DEF DestroyerInv
  <2>3. QED
    BY <2>1, <2>2 DEF AssertionCauses
<1>4. ASSUME NEW t \in Callers, crashed = "no", crashed' # crashed, PostEnqueue(t)
      PROVE  AssertionCauses'
  <2>1. /\ crashed' = "post" /\ pc[t] = "enqueue" /\ ~(qlive /\ Len(queue) < Size)
        /\ overlap' = overlap
    BY <1>4 DEF PostEnqueue
  <2>2. ~qlive => overlap
    BY <2>1, PostOverlaps DEF DestroyerInv
  <2>3. InQueue(Kill) => overlap
    BY <2>1, PostOverlaps DEF KillInv
  <2>4. mem[t] \in Blocks /\ ~InQueue(mem[t])
    BY <2>1 DEF HandsInv, OwnInv, InQueue
  <2>5. InQueue(Kill) \/ Len(queue) < Size
    BY <2>4, FullHoldsAll
  <2>6. QED
    BY <2>1, <2>2, <2>3, <2>5 DEF AssertionCauses
<1>5. ASSUME NEW d \in Destroyers, crashed = "no", crashed' # crashed, DestroyKill(d)
      PROVE  AssertionCauses'
  <2>1. /\ crashed' = "kill" /\ pc[d] = "kill" /\ ~(Len(queue) < Size)
        /\ queue' = queue
    BY <1>5 DEF DestroyKill
  <2>2. ~InQueue(Kill)
    BY <2>1 DEF KillInv
  <2>3. \A b \in Blocks : InQueue(b)
    BY <2>1, <2>2, FullHoldsAll
  <2>4. QED
    BY <2>1, <2>3 DEF AssertionCauses, InQueue
<1>6. ASSUME NEW d \in Destroyers, crashed = "no", crashed' # crashed,
             DestroyWaitLock(d)
      PROVE  AssertionCauses'
  <2>1. /\ crashed' = "signal" /\ pc[d] = "wait" /\ sig.mtx # NoThread
        /\ wpc' = wpc
    BY <1>6 DEF DestroyWaitLock
  <2>2. sig.mtx \in Destroyers \cup {Worker}
    BY <2>1 DEF TypeOK
  <2>3. sig.mtx \notin Destroyers
    BY <2>1 DEF SignalInv, DestroyerInv, DestroyStates
  <2>4. QED
    BY <2>1, <2>2, <2>3 DEF AssertionCauses, SignalInv
<1>7. ASSUME NEW t \in Callers, dispatch_async_f(t) PROVE crashed' = crashed
  BY <1>7 DEF dispatch_async_f
<1>8. ASSUME WorkerStep PROVE crashed' = crashed
  BY <1>8 DEF WorkerStep, WorkerDequeue, WorkerRun, WorkerFree, WorkerSignalLock,
     WorkerSignalSet, WorkerSignalUnlock, WorkerEnd
<1>9. ASSUME NEW d \in Destroyers,
             \/ dispatch_queue_destroy(d) \/ DestroyWaitCheck(d)
             \/ DestroySpuriousWakeup(d) \/ DestroyRelock(d)
             \/ DestroyJoin(d) \/ DestroyPool(d) \/ DestroyQueue(d)
      PROVE  crashed' = crashed
  BY <1>9 DEF dispatch_queue_destroy, DestroyWaitCheck, DestroySpuriousWakeup,
     DestroyRelock, DestroyJoin, DestroyPool, DestroyQueue
<1>10. QED
  <2>1. UNCHANGED vars \/ crashed = "no"
    BY DEF Next, Finished
  <2>2. CASE crashed = "no" /\ crashed' # crashed
    BY <1>1, <1>3, <1>4, <1>5, <1>6, <1>7, <1>8, <1>9, <2>2
    DEF Next, Finished, PostStep, DestroyStep
  <2>3. QED
    BY <1>1, <1>2, <2>1, <2>2

-----------------------------------------------------------------------------
(* The theorems.                                                           *)

\* Initially nothing is posted, every block is free and nobody is inside.
LEMMA InitInv == Init => DispatchInv
<1> SUFFICES ASSUME Init PROVE DispatchInv
  OBVIOUS
<1> USE DEF Init
<1>1. Len(queue) = 0 /\ Len(posted) = 0 /\ Len(ran) = 0
  BY EmptySeq
<1>2. TypeOK
  <2>1. posts \in [Callers -> 0..MaxPosts]
    BY DispatchAssumption
  <2>2. <<>> \in Seq(Blocks \cup {Kill}) /\ <<>> \in Seq(Actions)
    BY EmptySeq
  <2>3. QED
    BY <2>1, <2>2 DEF TypeOK
<1>3. HandsInv
  BY Distinct DEF HandsInv, PostingStates, DestroyStates
<1>4. OwnInv
  BY <1>1, Distinct DEF OwnInv, InQueue
<1>5. OrderInv
  <2>1. Taken = 0
    BY <1>1 DEF Taken
  <2>2. QED
    BY <1>1, <2>1 DEF OrderInv, RunsInOrder, InQueue
<1>6. DestroyerInv /\ KillInv /\ DrainInv
  BY <1>1 DEF DestroyerInv, KillInv, DrainInv, InQueue, DestroyStates, Working
<1>7. SignalInv /\ AssertionCauses
  BY Distinct DEF SignalInv, AssertionCauses
<1>8. QED
  BY <1>2, <1>3, <1>4, <1>5, <1>6, <1>7 DEF DispatchInv

\* DispatchInv is inductive.
LEMMA DispatchInvariant == Spec => []DispatchInv
<1>1. ASSUME DispatchInv, [Next]_vars PROVE DispatchInv'
  <2>1. TypeOK' /\ HandsInv' /\ OwnInv'
    BY <1>1, TypesKept, HandsKept, OwnKept DEF DispatchInv
  <2>2. OrderInv' /\ DestroyerInv' /\ KillInv'
    BY <1>1, <2>1, OrderKept, DestroyerKept, KillKept DEF DispatchInv
  <2>3. DrainInv' /\ SignalInv' /\ AssertionCauses'
    BY <1>1, <2>1, DrainKept, SignalKept, AssertsKept DEF DispatchInv
  <2>4. QED
    BY <2>1, <2>2, <2>3 DEF DispatchInv
<1>2. QED
  BY <1>1, InitInv, PTL DEF Spec

\* Type correctness, for every number of threads, blocks and posts: each step
\* of dispatch_queue.c leaves every variable in its set, so a post only ever
\* enqueues a block, and the worker only ever runs an action that was written.
THEOREM TypeCorrect == Spec => []TypeOK
  BY DispatchInvariant, PTL DEF DispatchInv

\* Actions run once each, in the order in which dispatch_async_f enqueued them,
\* whichever blocks of the pool they were written to.
THEOREM ActionsInOrder == Spec => []RunsInOrder
  BY DispatchInvariant, PTL DEF DispatchInv, OrderInv

\* The assertions of dispatch_async_f and dispatch_queue_destroy fail in the
\* cases AssertionCauses names and in no other: the queue of a pool as large as
\* itself has room for every block that pool_alloc gave.
THEOREM AssertsExplained == Spec => []AssertionCauses
  BY DispatchInvariant, PTL DEF DispatchInv

\* Every block of the pool is in one place: free, in a post's hands, in one
\* slot of the queue, or with the worker.
THEOREM BlocksKept == Spec => []BlocksConserved
<1>1. ASSUME DispatchInv PROVE BlocksConserved
  <2> SUFFICES ASSUME NEW b \in Blocks
               PROVE  Cardinality({<<"free", x>> : x \in free \cap {b}}
                        \cup {<<"cur", x>> : x \in {cur} \cap {b}}
                        \cup {<<"mem", t>> : t \in {u \in Callers : mem[u] = b}}
                        \cup {<<"queue", i>> :
                                i \in {j \in 1..Len(queue) : queue[j] = b}}) = 1
    BY DEF BlocksConserved
  <2> DEFINE F == {<<"free", x>> : x \in free \cap {b}}
             C == {<<"cur", x>> : x \in {cur} \cap {b}}
             M == {<<"mem", t>> : t \in {u \in Callers : mem[u] = b}}
             Q == {<<"queue", i>> : i \in {j \in 1..Len(queue) : queue[j] = b}}
  <2>0. OwnInv
    BY <1>1 DEF DispatchInv
  <2>1. b \in free =>
            b # cur /\ (\A t \in Callers : mem[t] # b) /\ ~InQueue(b)
    BY <2>0 DEF OwnInv, InQueue
  <2>2. b = cur => (\A t \in Callers : mem[t] # b) /\ ~InQueue(b)
    BY <2>0 DEF OwnInv, InQueue
  <2>3. \A t \in Callers : mem[t] = b =>
            (\A u \in Callers : mem[u] = b => u = t) /\ ~InQueue(b)
    BY <2>0 DEF OwnInv, InQueue
  <2>4. \A i, j \in 1..Len(queue) : queue[i] = b /\ queue[j] = b => i = j
    BY <2>0 DEF OwnInv
  <2>5. F = IF b \in free THEN {<<"free", b>>} ELSE {}
    OBVIOUS
  <2>6. C = IF b = cur THEN {<<"cur", b>>} ELSE {}
    OBVIOUS
  <2>7. (\A t \in Callers : mem[t] # b) => M = {}
    OBVIOUS
  <2>8. ~InQueue(b) => Q = {}
    BY DEF InQueue
  <2>9. \E p : F \cup C \cup M \cup Q = {p}
    <3>1. CASE b \in free
      BY <2>1, <2>5, <2>6, <2>7, <2>8, <3>1
    <3>2. CASE b \notin free /\ b = cur
      BY <2>2, <2>5, <2>6, <2>7, <2>8, <3>2
    <3>3. ASSUME b \notin free, b # cur, NEW t \in Callers, mem[t] = b
          PROVE  F \cup C \cup M \cup Q = {<<"mem", t>>}
      <4>1. {u \in Callers : mem[u] = b} = {t}
        BY <2>3, <3>3
      <4>2. M = {<<"mem", t>>}
        BY <4>1
      <4>3. QED
        BY <2>3, <2>5, <2>6, <2>8, <3>3, <4>2
    <3>4. ASSUME b \notin free, b # cur, \A t \in Callers : mem[t] # b,
                 NEW i \in 1..Len(queue), queue[i] = b
          PROVE  F \cup C \cup M \cup Q = {<<"queue", i>>}
      <4>1. {j \in 1..Len(queue) : queue[j] = b} = {i}
        BY <2>4, <3>4
      <4>2. Q = {<<"queue", i>>}
        BY <4>1
      <4>3. QED
        BY <2>5, <2>6, <2>7, <3>4, <4>2
    <3>5. QED
      BY <2>0, <3>1, <3>2, <3>3, <3>4 DEF OwnInv, InQueue
  <2>10. QED
    BY <2>9, FS_Singleton
<1>2. QED
  BY <1>1, DispatchInvariant, PTL

\* dispatch_queue_destroy takes the pool and the queue apart when the worker
\* has ended and, if no post was under way at its start, when every accepted
\* action has run, every block is free and no post is left that will use them.
THEOREM DestroyFindsDrained == Spec => []DestroyDrains
<1>1. ASSUME DispatchInv PROVE DestroyDrains
  <2> SUFFICES ASSUME NEW d \in Destroyers, pc[d] \in {"pool", "queue", "returned"}
               PROVE  /\ wpc = "ended"
                      /\ ~overlap =>
                            /\ queue = <<>> /\ ran = posted
                            /\ free = Blocks
                            /\ \A t \in Callers : pc[t] \notin {"alloc", "enqueue"}
    BY DEF DestroyDrains
  <2>1. wpc = "ended" /\ destroying
    BY <1>1 DEF DispatchInv, DestroyerInv, DestroyStates
  <2>2. ASSUME ~overlap
        PROVE  /\ queue = <<>> /\ ran = posted
               /\ \A t \in Callers : pc[t] = "idle"
    BY <1>1, <2>1, <2>2 DEF DispatchInv, DrainInv, Working
  <2>3. ASSUME ~overlap PROVE free = Blocks
    <3>1. cur \notin Blocks /\ \A t \in Callers : mem[t] \notin Blocks
      BY <1>1, <2>1, <2>2, <2>3 DEF DispatchInv, HandsInv
    <3>2. \A b \in Blocks : ~InQueue(b)
      <4>1. Len(queue) = 0
        BY <2>2, <2>3, EmptySeq
      <4>2. QED
        BY <4>1 DEF InQueue
    <3>3. \A b \in Blocks :
            b \in free \/ b = cur \/ (\E t \in Callers : mem[t] = b) \/ InQueue(b)
      BY <1>1 DEF DispatchInv, OwnInv
    <3>4. free \subseteq Blocks
      BY <1>1 DEF DispatchInv, TypeOK
    <3>5. QED
      BY <3>1, <3>2, <3>3, <3>4
  <2>4. QED
    BY <2>1, <2>2, <2>3
<1>2. QED
  BY <1>1, DispatchInvariant, PTL
=============================================================================
