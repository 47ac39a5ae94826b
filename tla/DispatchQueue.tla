---------------------------- MODULE DispatchQueue ----------------------------
(***************************************************************************)
(* The dispatch queue (src/dispatch_queue.c, inc/cutils/dispatch_queue.h): *)
(* clients post actions, one worker thread runs them in turn, and          *)
(* dispatch_queue_destroy ends the worker with a kill request and takes    *)
(* the queue, its pool and its exit signal apart.                          *)
(*                                                                         *)
(* The ts_queue and the pool are used through what BoundedFifo and Pool    *)
(* show of them; the exit signal (inc/cutils/signal.h, an event flag) is   *)
(* modelled down to its mutex. A failed assertion writes through address   *)
(* zero: the process is gone.                                              *)
(***************************************************************************)
EXTENDS Integers, Sequences, FiniteSets

CONSTANTS
    Posters,        \* threads that call dispatch_async_f
    Destroyers,     \* threads that call dispatch_queue_destroy
    Worker,         \* the queue's own thread; its actions may post, too
    Blocks,         \* the elements of the pool; as many as queue slots
    NoBlock,        \* no element
    Kill,           \* the kill request: the address of the queue itself
    NoThread,       \* "owner" of a free mutex
    MaxPosts        \* bound: the number of posts of each thread

Callers == Posters \cup {Worker}
Size == Cardinality(Blocks)

ASSUME DispatchAssumption ==
    /\ IsFiniteSet(Blocks) /\ Blocks # {}
    /\ NoBlock \notin Blocks /\ Kill \notin Blocks
    /\ Worker \notin Posters \cup Destroyers
    /\ Posters \cap Destroyers = {}
    /\ NoThread \notin Callers \cup Destroyers
    /\ MaxPosts \in Nat

VARIABLES
    queue,      \* the contents of p_queue->queue, oldest first
    qlive,      \* p_queue->queue has not been destroyed
    free,       \* the free blocks of p_queue->p_pool
    plive,      \* p_queue->p_pool has not been destroyed
    action,     \* action[b]: the action written to block b
    destroying, \* p_queue->destroying
    wpc,        \* where the worker is
    cur,        \* the block of the action the worker runs
    pc,         \* pc[t]: where the call of client thread t is
    mem,        \* mem[t]: the block a posting thread has allocated
    posts,      \* posts[t]: how many posts thread t has begun
    sig,        \* the exit signal: its flag and the owner of its mutex
    crashed,    \* "no", or the call whose assertion has failed
    overlap,    \* a post was under way when the queue's destruction began
    posted,     \* the actions enqueued so far, in that order
    ran         \* the actions whose function has returned

blocks == <<free, action, cur, mem>>
teardown == <<qlive, plive, destroying, overlap>>
log == <<posted, ran>>
vars == <<queue, qlive, free, plive, action, destroying, wpc, cur, pc, mem,
          posts, sig, crashed, overlap, posted, ran>>

-----------------------------------------------------------------------------
(* dispatch_queue_create                                                   *)
Init ==
    /\ queue = <<>> /\ qlive = TRUE
    /\ free = Blocks /\ plive = TRUE
    /\ action = [b \in Blocks |-> <<>>]
    /\ destroying = FALSE
    /\ wpc = "dequeue" /\ cur = NoBlock
    /\ pc = [t \in Callers \cup Destroyers |-> "idle"]
    /\ mem = [t \in Callers |-> NoBlock]
    /\ posts = [t \in Callers |-> 0]
    /\ sig = [val |-> FALSE, mtx |-> NoThread]
    /\ crashed = "no" /\ overlap = FALSE
    /\ posted = <<>> /\ ran = <<>>

Goto(t, from, to) == pc[t] = from /\ pc' = [pc EXCEPT ![t] = to]

\* CUTILS_ASSERT(cond): when it fails the process stops where it is.
Crash(call) == crashed' = call

-----------------------------------------------------------------------------
(* dispatch_async_f                                                        *)

\* Mutation: the flag is not looked at.
dispatch_async_fUnchecked(t) ==
    /\ Goto(t, "idle", "alloc")
    /\ posts[t] < MaxPosts
    /\ t = Worker => wpc = "run"
    /\ posts' = [posts EXCEPT ![t] = @ + 1]
    /\ UNCHANGED <<queue, teardown, blocks, wpc, sig, crashed, log>>

\* The call starts with a look at the flag: a queue that is being destroyed
\* refuses it. An action that runs may post to its own queue.
dispatch_async_f(t) ==
    /\ pc[t] = "idle"
    /\ posts[t] < MaxPosts
    /\ t = Worker => wpc = "run"
    /\ posts' = [posts EXCEPT ![t] = @ + 1]
    /\ pc' = [pc EXCEPT ![t] = IF destroying THEN "idle" ELSE "alloc"]
    /\ UNCHANGED <<queue, teardown, blocks, wpc, sig, crashed, log>>

\* pool_alloc and the assertion that it gave a block. The pool of a destroyed
\* queue is the NULL pointer, which gives none.
PostAlloc(t) ==
    \/ /\ plive /\ free # {}
       /\ Goto(t, "alloc", "enqueue")
       /\ \E b \in free :
            /\ free' = free \ {b}
            /\ mem' = [mem EXCEPT ![t] = b]
            /\ action' = [action EXCEPT ![b] = <<t, posts[t]>>]
       /\ UNCHANGED <<queue, teardown, wpc, cur, posts, sig, crashed, log>>
    \/ /\ ~(plive /\ free # {})
       /\ pc[t] = "alloc"
       /\ Crash("post")
       /\ UNCHANGED <<queue, teardown, blocks, wpc, pc, posts, sig, log>>

\* Mutation: the newest action goes first.
PostEnqueueFront(t) ==
    /\ qlive /\ Len(queue) < Size
    /\ Goto(t, "enqueue", "idle")
    /\ queue' = <<mem[t]>> \o queue
    /\ posted' = Append(posted, action[mem[t]])
    /\ mem' = [mem EXCEPT ![t] = NoBlock]
    /\ UNCHANGED <<teardown, free, action, cur, wpc, posts, sig, crashed, ran>>

\* ts_queue_enqueue with NO_SLEEP and the assertion that it took the block.
PostEnqueue(t) ==
    \/ /\ qlive /\ Len(queue) < Size
       /\ Goto(t, "enqueue", "idle")
       /\ queue' = Append(queue, mem[t])
       /\ posted' = Append(posted, action[mem[t]])
       /\ mem' = [mem EXCEPT ![t] = NoBlock]
       /\ UNCHANGED <<teardown, free, action, cur, wpc, posts, sig, crashed, ran>>
    \/ /\ ~(qlive /\ Len(queue) < Size)
       /\ pc[t] = "enqueue"
       /\ Crash("post")
       /\ UNCHANGED <<queue, teardown, blocks, wpc, pc, posts, sig, log>>

-----------------------------------------------------------------------------
(* dispatch_queue_worker                                                   *)

WorkerDequeue ==
    /\ wpc = "dequeue"
    /\ queue # <<>>
    /\ queue' = Tail(queue)
    /\ IF Head(queue) = Kill
       THEN wpc' = "exit" /\ UNCHANGED cur
       ELSE wpc' = "run" /\ cur' = Head(queue)
    /\ UNCHANGED <<teardown, free, action, mem, pc, posts, sig, crashed, log>>

\* The action's function returns; a post it made has returned before.
WorkerRun ==
    /\ wpc = "run"
    /\ pc[Worker] = "idle"
    /\ wpc' = "free"
    /\ ran' = Append(ran, action[cur])
    /\ UNCHANGED <<queue, teardown, blocks, pc, posts, sig, crashed, posted>>

\* Mutation: the block is not given back.
WorkerFreeLeak ==
    /\ wpc = "free"
    /\ wpc' = "dequeue"
    /\ cur' = NoBlock
    /\ UNCHANGED <<queue, teardown, free, action, mem, pc, posts, sig, crashed, log>>

\* pool_free: the block has one reference.
WorkerFree ==
    /\ wpc = "free"
    /\ wpc' = "dequeue"
    /\ free' = free \cup {cur}
    /\ cur' = NoBlock
    /\ UNCHANGED <<queue, teardown, action, mem, pc, posts, sig, crashed, log>>

\* signal_send: lock, set the flag and wake the waiter, unlock.
WorkerSignalLock ==
    /\ wpc = "exit"
    /\ sig.mtx = NoThread
    /\ sig' = [sig EXCEPT !.mtx = Worker]
    /\ wpc' = "set"
    /\ UNCHANGED <<queue, teardown, blocks, pc, posts, crashed, log>>

\* Mutation: the waiter is not woken.
WorkerSignalSetQuiet ==
    /\ wpc = "set"
    /\ sig' = [sig EXCEPT !.val = TRUE]
    /\ wpc' = "unset"
    /\ UNCHANGED <<queue, teardown, blocks, pc, posts, crashed, log>>

WorkerSignalSet ==
    /\ wpc = "set"
    /\ sig' = [sig EXCEPT !.val = TRUE]
    /\ pc' = [t \in DOMAIN pc |-> IF pc[t] = "blocked" THEN "woken" ELSE pc[t]]
    /\ wpc' = "unset"
    /\ UNCHANGED <<queue, teardown, blocks, posts, crashed, log>>

WorkerSignalUnlock ==
    /\ wpc = "unset"
    /\ sig' = [sig EXCEPT !.mtx = NoThread]
    /\ wpc' = "leaving"
    /\ UNCHANGED <<queue, teardown, blocks, pc, posts, crashed, log>>

\* task_runner returns: the thread has ended and can be joined.
WorkerEnd ==
    /\ wpc = "leaving"
    /\ wpc' = "ended"
    /\ UNCHANGED <<queue, teardown, blocks, pc, posts, sig, crashed, log>>

-----------------------------------------------------------------------------
(* dispatch_queue_destroy                                                  *)

\* atomic_flag_test_and_set: the first caller goes on, the others return.
dispatch_queue_destroy(d) ==
    /\ pc[d] = "idle"
    /\ destroying' = TRUE
    /\ overlap' = (overlap \/ (~destroying /\ \E t \in Callers : pc[t] # "idle"))
    /\ pc' = [pc EXCEPT ![d] = IF destroying THEN "refused" ELSE "kill"]
    /\ UNCHANGED <<queue, qlive, plive, blocks, wpc, posts, sig, crashed, log>>

\* Mutation: the kill request overtakes the queued actions.
DestroyKillFront(d) ==
    /\ Len(queue) < Size
    /\ Goto(d, "kill", "wait")
    /\ queue' = <<Kill>> \o queue
    /\ UNCHANGED <<teardown, blocks, wpc, posts, sig, crashed, log>>

\* ts_queue_enqueue of the kill request with NO_SLEEP, asserted.
DestroyKill(d) ==
    \/ /\ Len(queue) < Size
       /\ Goto(d, "kill", "wait")
       /\ queue' = Append(queue, Kill)
       /\ UNCHANGED <<teardown, blocks, wpc, posts, sig, crashed, log>>
    \/ /\ ~(Len(queue) < Size)
       /\ pc[d] = "kill"
       /\ Crash("kill")
       /\ UNCHANGED <<queue, teardown, blocks, wpc, pc, posts, sig, log>>

\* signal_wait takes the signal's mutex with pthread_mutex_timedlock and the
\* deadline zero: a taken mutex is a timeout, and the assertion fails.
DestroyWaitLock(d) ==
    \/ /\ sig.mtx = NoThread
       /\ Goto(d, "wait", "check")
       /\ sig' = [sig EXCEPT !.mtx = d]
       /\ UNCHANGED <<queue, teardown, blocks, wpc, posts, crashed, log>>
    \/ /\ sig.mtx # NoThread
       /\ pc[d] = "wait"
       /\ Crash("signal")
       /\ UNCHANGED <<queue, teardown, blocks, wpc, pc, posts, sig, log>>

\* check_flags with WAIT_OR_CLEAR, or pthread_cond_wait.
DestroyWaitCheck(d) ==
    /\ Goto(d, "check", IF sig.val THEN "join" ELSE "blocked")
    /\ sig' = [val |-> FALSE, mtx |-> NoThread]
    /\ UNCHANGED <<queue, teardown, blocks, wpc, posts, crashed, log>>

DestroySpuriousWakeup(d) ==
    /\ Goto(d, "blocked", "woken")
    /\ UNCHANGED <<queue, teardown, blocks, wpc, posts, sig, crashed, log>>

DestroyRelock(d) ==
    /\ sig.mtx = NoThread
    /\ Goto(d, "woken", "check")
    /\ sig' = [sig EXCEPT !.mtx = d]
    /\ UNCHANGED <<queue, teardown, blocks, wpc, posts, crashed, log>>

\* task_destroy_static joins the worker's thread.
DestroyJoin(d) ==
    /\ wpc = "ended"
    /\ Goto(d, "join", "pool")
    /\ UNCHANGED <<queue, teardown, blocks, wpc, posts, sig, crashed, log>>

DestroyPool(d) ==
    /\ Goto(d, "pool", "queue")
    /\ plive' = FALSE
    /\ UNCHANGED <<queue, qlive, destroying, overlap, blocks, wpc, posts, sig, crashed, log>>

\* ts_queue_destroy and signal_free: the queue is gone.
DestroyQueue(d) ==
    /\ Goto(d, "queue", "returned")
    /\ qlive' = FALSE
    /\ UNCHANGED <<queue, plive, destroying, overlap, blocks, wpc, posts, sig, crashed, log>>

-----------------------------------------------------------------------------
PostStep(t) == PostAlloc(t) \/ PostEnqueue(t)

WorkerStep ==
    \/ WorkerDequeue \/ WorkerRun \/ WorkerFree
    \/ WorkerSignalLock \/ WorkerSignalSet \/ WorkerSignalUnlock
    \/ WorkerEnd

DestroyStep(d) ==
    \/ DestroyKill(d) \/ DestroyWaitLock(d) \/ DestroyWaitCheck(d)
    \/ DestroyRelock(d) \/ DestroyJoin(d) \/ DestroyPool(d) \/ DestroyQueue(d)

\* The program has ended, or the queue has been destroyed and its clients have
\* come back.
Finished ==
    /\ \/ crashed # "no"
       \/ /\ \A d \in Destroyers : pc[d] \in {"returned", "refused"}
          /\ \A t \in Callers : pc[t] = "idle"
    /\ UNCHANGED vars

Next ==
    \/ /\ crashed = "no"
       /\ \/ \E t \in Callers : dispatch_async_f(t) \/ PostStep(t)
          \/ WorkerStep
          \/ \E d \in Destroyers :
                \/ dispatch_queue_destroy(d) \/ DestroyStep(d)
                \/ DestroySpuriousWakeup(d)
    \/ Finished

Spec == Init /\ [][Next]_vars

\* A thread that can run does; the signal's mutex, free again and again, is in
\* the end given to the thread that asks for it.
Fairness ==
    /\ SF_vars(crashed = "no" /\ WorkerStep)
    /\ \A t \in Callers : WF_vars(crashed = "no" /\ PostStep(t))
    /\ \A d \in Destroyers : SF_vars(crashed = "no" /\ DestroyStep(d))

FairSpec == Spec /\ Fairness
-----------------------------------------------------------------------------
Actions == Callers \X (1..MaxPosts)

TypeOK ==
    /\ queue \in Seq(Blocks \cup {Kill})
    /\ qlive \in BOOLEAN /\ plive \in BOOLEAN /\ destroying \in BOOLEAN
    /\ free \in SUBSET Blocks
    /\ action \in [Blocks -> Actions \cup {<<>>}]
    /\ wpc \in {"dequeue", "run", "free", "exit", "set", "unset", "leaving",
            "ended"}
    /\ cur \in Blocks \cup {NoBlock}
    /\ pc \in [Callers \cup Destroyers ->
                {"idle", "alloc", "enqueue", "kill", "wait", "check", "blocked",
                 "woken", "join", "pool", "queue", "returned", "refused"}]
    /\ mem \in [Callers -> Blocks \cup {NoBlock}]
    /\ posts \in [Callers -> 0..MaxPosts]
    /\ sig \in [val : BOOLEAN, mtx : Destroyers \cup {Worker, NoThread}]
    /\ crashed \in {"no", "post", "kill", "signal"} /\ overlap \in BOOLEAN
    /\ posted \in Seq(Actions) /\ ran \in Seq(Actions)

\* The assertions fail in these cases only: a post that overlaps the
\* destruction, or finds every block taken; a kill request when every slot
\* holds an action; a wait for the exit of a worker that is inside
\* signal_send. In particular the queue, as large as the pool, has room for
\* every block a post got.
AssertionCauses ==
    /\ crashed = "post" => overlap \/ free = {}
    /\ crashed = "kill" => \A b \in Blocks : \E i \in 1..Len(queue) : queue[i] = b
    /\ crashed = "signal" => wpc \in {"set", "unset"}

\* Actions run one at a time, each once, in the order dispatch_async_f put
\* them on the queue, also when the pool's blocks are used over and over.
RunsInOrder ==
    /\ Len(ran) <= Len(posted)
    /\ \A i \in 1..Len(ran) : ran[i] = posted[i]

\* A block is free, in one thread's hands, in one slot of the queue, or the
\* worker's: none is lost and none is written while its action is pending.
BlocksConserved ==
    \A b \in Blocks :
        Cardinality({<<"free", x>> : x \in free \cap {b}}
            \cup {<<"cur", x>> : x \in {cur} \cap {b}}
            \cup {<<"mem", t>> : t \in {u \in Callers : mem[u] = b}}
            \cup {<<"queue", i>> : i \in {j \in 1..Len(queue) : queue[j] = b}}) = 1

\* The dispatch_queue_destroy that takes the queue apart finds the worker ended;
\* when no post was under way at its start it also finds every accepted action
\* run, every block free, and no post that is still going to use them.
DestroyDrains ==
    \A d \in Destroyers :
        pc[d] \in {"pool", "queue", "returned"} =>
            /\ wpc = "ended"
            /\ ~overlap =>
                /\ queue = <<>> /\ ran = posted
                /\ free = Blocks
                /\ \A t \in Callers : pc[t] \notin {"alloc", "enqueue"}

\* An accepted action runs, even if the queue is destroyed meanwhile, unless
\* its post overlapped the destruction.
AcceptedRuns ==
    [](crashed = "no" /\ ~overlap) =>
        \A n \in 1..(MaxPosts * Cardinality(Callers)) :
            (Len(posted) >= n) ~> (Len(ran) >= n)

\* dispatch_queue_destroy returns, unless an assertion fails.
DestroyReturns ==
    [](crashed = "no") =>
        \A d \in Destroyers :
            (pc[d] # "idle") ~> (pc[d] \in {"returned", "refused"})
=============================================================================
