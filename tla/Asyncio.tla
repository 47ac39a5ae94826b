------------------------------ MODULE Asyncio --------------------------------
(***************************************************************************)
(* Asynchronous I/O (src/asyncio.c): an instance has a receive and a       *)
(* transmit side, each on a dispatch queue of its own. A controller starts *)
(* and stops the instance by posting starter_f and finisher_f to the sides *)
(* and waiting for the flag that the last side to finish sends. The        *)
(* receive side keeps posting rx_f to itself; a client allocates a token,  *)
(* fills it and sends it, which posts tx_f.                                *)
(*                                                                         *)
(* The dispatch queues are FIFOs that are large enough (EndCauses says     *)
(* how large that is); the pools are those of module Pool, where a         *)
(* destroyed pool gives nothing and takes nothing back.                    *)
(*                                                                         *)
(*   worker s:  wait -> create -> ready [-> post] -> started_rx ...        *)
(*                 | -> finish -> destroy -> stopped_rx ...                *)
(*                 | -> rx -> alloc -> reading -> callback -> repost -> ...*)
(*                 | -> tx -> write -> tx_free                             *)
(*              ... -> done -> wait                                        *)
(*                                                                         *)
(* Both sides test, in trigger_start_completion and                        *)
(* trigger_stop_completion, whether they are the last, with two loads; so  *)
(* both may be, and one of them may still be storing init_state when the   *)
(* controller has gone on.                                                 *)
(***************************************************************************)
EXTENDS Integers, Sequences, FiniteSets

CONSTANTS
    Tokens,      \* the blocks of the transmit pool
    Buffers,     \* the blocks of the receive pool
    Clients,     \* threads that send
    Callback,    \* the receive callback, which may send, too
    None,        \* no token, no action
    MaxStarts,   \* bound: how often the instance is started
    MaxSends     \* bound: how many tokens each caller allocates

Sides == {"rx", "tx"}
Callers == Clients \cup {Callback}
Blocks == Tokens \cup Buffers
BlocksOf(s) == IF s = "rx" THEN Buffers ELSE Tokens

ASSUME AsyncioAssumption ==
    /\ IsFiniteSet(Tokens) /\ IsFiniteSet(Buffers) /\ Tokens \cap Buffers = {}
    /\ Buffers # {}
    /\ None \notin Blocks /\ Callback \notin Clients
    /\ {"start", "finish", "rx"} \cap (Tokens \cup {None}) = {}
    /\ MaxStarts \in Nat /\ MaxSends \in Nat

VARIABLES
    workers,    \* the sides that have a worker
    init_state, \* the state of the instance
    side,       \* side[s]: the init_state of side s
    stopped,    \* stream_stopped
    flags,      \* the flags set in event_flag
    flive,      \* event_flag has not been freed
    plive,      \* plive[s]: the pool of side s exists
    free,       \* the blocks in the pools
    refs,       \* refs[b]: the retain count of block b
    queue,      \* queue[s]: the actions posted to side s
    wpc,        \* wpc[s]: where the worker of s is
    wact,       \* wact[s]: the action it runs
    wbuf,       \* the receive buffer of rx_f
    cpc,        \* where the controller is
    cside,      \* the side it is at
    closing,    \* asyncio_destroy_instance has been called
    life,       \* how often the instance has been started
    phase,      \* what the controllers have last been told
    apc,        \* apc[a]: where the call of caller a is
    tok,        \* tok[a]: the token it has
    tlife,      \* tlife[a]: the life it called for the token in
    sends,      \* sends[a]: how many tokens it has allocated
    stale,      \* a call tested the state in one life and acted in the next
    ended       \* "no", or why the program has ended

instance == <<workers, init_state, side, stopped, flags, flive>>
pools == <<plive, free, refs>>
work == <<queue, wpc, wact, wbuf>>
control == <<cpc, cside, closing, life, phase>>
callers == <<apc, tok, tlife, sends, stale>>
vars == <<workers, init_state, side, stopped, flags, flive, plive, free, refs,
          queue, wpc, wact, wbuf, cpc, cside, closing, life, phase, apc, tok,
          tlife, sends, stale, ended>>

-----------------------------------------------------------------------------
(* asyncio_create_instance, with one or two workers.                       *)
Init ==
    /\ workers \in (SUBSET Sides) \ {{}}
    /\ init_state = "Uninitialized"
    /\ side = [s \in Sides |-> "Uninitialized"]
    /\ stopped = TRUE
    /\ flags = {} /\ flive = TRUE
    /\ plive = [s \in Sides |-> FALSE]
    /\ free = {} /\ refs = [b \in Blocks |-> 0]
    /\ queue = [s \in Sides |-> <<>>]
    /\ wpc = [s \in Sides |-> "wait"]
    /\ wact = [s \in Sides |-> None]
    /\ wbuf = None
    /\ cpc = "idle"
    /\ cside = "rx"
    /\ closing = FALSE /\ life = 0 /\ phase = "stopped"
    /\ apc = [a \in Callers |-> "idle"]
    /\ tok = [a \in Callers |-> None]
    /\ tlife = [a \in Callers |-> 0]
    /\ sends = [a \in Callers |-> 0]
    /\ stale = FALSE /\ ended = "no"

End(why) == ended' = why

Post(s, action) == queue' = [queue EXCEPT ![s] = Append(@, action)]

\* pool_free: an assertion guards the count; a destroyed pool keeps nothing.
PoolFree(s, b) ==
    IF refs[b] = 0
    THEN End("double_free") /\ UNCHANGED <<refs, free>>
    ELSE /\ refs' = [refs EXCEPT ![b] = @ - 1]
         /\ free' = IF refs[b] = 1 /\ plive[s] THEN free \cup {b} ELSE free
         /\ UNCHANGED ended

-----------------------------------------------------------------------------
(* asyncio_start. When the compare-and-exchange fails nothing changes.     *)
asyncio_start ==
    /\ cpc = "idle" /\ ~closing
    /\ life < MaxStarts
    /\ init_state = "Uninitialized"
    /\ init_state' = "Initializing"
    /\ life' = life + 1 /\ phase' = "starting"
    /\ cpc' = "clear_started"
    /\ UNCHANGED <<workers, side, stopped, flags, flive, pools, work, cside,
                   closing, callers, ended>>

\* Mutation: the flag of an earlier start is not cleared.
StartClearNot ==
    /\ cpc = "clear_started"
    /\ cpc' = "store"
    /\ cside' = "rx"
    /\ UNCHANGED <<instance, pools, work, closing, life, phase, callers, ended>>

StartClear ==
    /\ cpc = "clear_started"
    /\ flags' = flags \ {"started"}
    /\ cpc' = "store"
    /\ cside' = "rx"
    /\ UNCHANGED <<workers, init_state, side, stopped, flive, pools, work,
                   closing, life, phase, callers, ended>>

\* The receive side first, then the transmit side, then pc.
AfterSide(again, pc) ==
    /\ cpc' = IF cside = "rx" THEN again ELSE pc
    /\ cside' = IF cside = "rx" THEN "tx" ELSE "rx"

\* asyncio_start_rx_thread, asyncio_start_tx_thread: the state ...
StartStore ==
    /\ cpc = "store"
    /\ IF cside \in workers
       THEN /\ side' = [side EXCEPT ![cside] = "Initializing"]
            /\ cpc' = "dispatch"
            /\ UNCHANGED cside
       ELSE AfterSide("store", "run") /\ UNCHANGED side
    /\ UNCHANGED <<workers, init_state, stopped, flags, flive, pools, work,
                   closing, life, phase, callers, ended>>

\* ... and starter_f.
StartDispatch ==
    /\ cpc = "dispatch"
    /\ Post(cside, "start")
    /\ AfterSide("store", "run")
    /\ UNCHANGED <<instance, pools, wpc, wact, wbuf, closing, life, phase,
                   callers, ended>>

StartRun ==
    /\ cpc = "run"
    /\ stopped' = FALSE
    /\ cpc' = "await_started"
    /\ UNCHANGED <<workers, init_state, side, flags, flive, pools, work, cside,
                   closing, life, phase, callers, ended>>

\* event_flag_wait returns; the flag stays set.
StartReturn ==
    /\ cpc = "await_started"
    /\ "started" \in flags
    /\ phase' = "running"
    /\ cpc' = "idle"
    /\ UNCHANGED <<instance, pools, work, cside, closing, life, callers, ended>>

-----------------------------------------------------------------------------
(* asyncio_stop, and asyncio_destroy_instance, which stops first.          *)

\* Where a stop that is over, or has nothing to do, goes on.
StopOver == IF closing' THEN "free_flag" ELSE "idle"

StopBegin ==
    IF init_state = "Initialized"
    THEN /\ init_state' = "Uninitializing" /\ phase' = "stopping"
         /\ cpc' = "test_stopped"
    ELSE cpc' = StopOver /\ UNCHANGED <<init_state, phase>>

asyncio_stop ==
    /\ cpc = "idle" /\ ~closing
    /\ init_state = "Initialized"
    /\ UNCHANGED closing
    /\ StopBegin
    /\ UNCHANGED <<workers, side, stopped, flags, flive, pools, work, cside,
                   life, callers, ended>>

\* The client destroys an instance it is not starting or stopping.
asyncio_destroy_instance ==
    /\ cpc = "idle" /\ ~closing
    /\ closing' = TRUE
    /\ StopBegin
    /\ UNCHANGED <<workers, side, stopped, flags, flive, pools, work, cside,
                   life, callers, ended>>

StopTest ==
    /\ cpc = "test_stopped"
    /\ UNCHANGED closing
    /\ cpc' = IF stopped THEN StopOver ELSE "clear_stopped"
    /\ UNCHANGED <<instance, pools, work, cside, life, phase, callers, ended>>

StopClear ==
    /\ cpc = "clear_stopped"
    /\ flags' = flags \ {"stopped"}
    /\ cpc' = "set_stopped"
    /\ UNCHANGED <<workers, init_state, side, stopped, flive, pools, work, cside,
                   closing, life, phase, callers, ended>>

StopSet ==
    /\ cpc = "set_stopped"
    /\ stopped' = TRUE
    /\ cpc' = "claim"
    /\ cside' = "rx"
    /\ UNCHANGED <<workers, init_state, side, flags, flive, pools, work, closing,
                   life, phase, callers, ended>>

\* asyncio_stop_rx_thread, asyncio_stop_tx_thread: the state, if it was
\* Initialized (a side that is still starting fails an assertion) ...
StopClaim ==
    /\ cpc = "claim"
    /\ CASE side[cside] = "Initialized" ->
                /\ side' = [side EXCEPT ![cside] = "Uninitializing"]
                /\ cpc' = "finish"
                /\ UNCHANGED <<cside, ended>>
         [] side[cside] = "Initializing" ->
                End("unexpected_state") /\ UNCHANGED <<side, cpc, cside>>
         [] OTHER ->
                AfterSide("claim", "await_stopped") /\ UNCHANGED <<side, ended>>
    /\ UNCHANGED <<workers, init_state, stopped, flags, flive, pools, work,
                   closing, life, phase, callers>>

\* ... and finisher_f.
StopDispatch ==
    /\ cpc = "finish"
    /\ Post(cside, "finish")
    /\ AfterSide("claim", "await_stopped")
    /\ UNCHANGED <<instance, pools, wpc, wact, wbuf, closing, life, phase,
                   callers, ended>>

StopReturn ==
    /\ cpc = "await_stopped"
    /\ "stopped" \in flags
    /\ phase' = "stopped"
    /\ UNCHANGED closing
    /\ cpc' = StopOver
    /\ UNCHANGED <<instance, pools, work, cside, life, callers, ended>>

DestroyFlag ==
    /\ cpc = "free_flag"
    /\ flive' = FALSE
    /\ cpc' = "gone"
    /\ UNCHANGED <<workers, init_state, side, stopped, flags, pools, work, cside,
                   closing, life, phase, callers, ended>>

\* The four seconds of a wait are over.
Timeout ==
    /\ \/ cpc = "await_started" /\ "started" \notin flags
       \/ cpc = "await_stopped" /\ "stopped" \notin flags
    /\ End("timeout")
    /\ UNCHANGED <<instance, pools, work, control, callers>>

-----------------------------------------------------------------------------
(* The worker of a side.                                                   *)

WorkerGo(s, pc) == wpc' = [wpc EXCEPT ![s] = pc]

\* A step that only moves the worker.
WorkerOnly(s, pc) ==
    /\ WorkerGo(s, pc)
    /\ UNCHANGED <<instance, pools, queue, wact, wbuf, control, callers, ended>>

WorkerTake(s) ==
    /\ wpc[s] = "wait"
    /\ queue[s] # <<>>
    /\ LET a == Head(queue[s])
       IN  /\ wact' = [wact EXCEPT ![s] = a]
           /\ WorkerGo(s, IF a = "start" THEN "create"
                          ELSE IF a = "finish" THEN "finish"
                          ELSE IF a = "rx" THEN "rx" ELSE "tx")
    /\ queue' = [queue EXCEPT ![s] = Tail(@)]
    /\ UNCHANGED <<instance, pools, wbuf, control, callers, ended>>

\* The dispatch queue frees the block of the action.
WorkerDone(s) ==
    /\ wpc[s] = "done"
    /\ WorkerGo(s, "wait")
    /\ wact' = [wact EXCEPT ![s] = None]
    /\ UNCHANGED <<instance, pools, queue, wbuf, control, callers, ended>>

\* starter_f: pool_create clears the headers of all blocks. Who could look at
\* the pool meanwhile acts on a test of an earlier life (stale) ...
StarterCreate(s) ==
    /\ wpc[s] = "create"
    /\ plive' = [plive EXCEPT ![s] = TRUE]
    /\ free' = free \cup BlocksOf(s)
    /\ refs' = [b \in Blocks |-> IF b \in BlocksOf(s) THEN 0 ELSE refs[b]]
    /\ WorkerGo(s, "ready")
    /\ UNCHANGED <<instance, queue, wact, wbuf, control, callers, ended>>

StarterReady(s) ==
    /\ wpc[s] = "ready"
    /\ side' = [side EXCEPT ![s] = "Initialized"]
    /\ WorkerGo(s, IF s = "rx" THEN "post" ELSE "started_rx")
    /\ UNCHANGED <<workers, init_state, stopped, flags, flive, pools, queue, wact,
                   wbuf, control, callers, ended>>

\* ... and the receive side posts the first rx_f.
StarterPost(s) ==
    /\ wpc[s] = "post"
    /\ Post(s, "rx")
    /\ WorkerGo(s, "started_rx")
    /\ UNCHANGED <<instance, pools, wact, wbuf, control, callers, ended>>

\* Mutation: a side without a worker is waited for.
SideStartedBoth(o) == side[o] = "Initialized"

\* trigger_start_completion: two loads ...
SideStarted(o) == o \in workers => side[o] = "Initialized"

StartedRx(s) ==
    /\ wpc[s] = "started_rx"
    /\ WorkerOnly(s, IF SideStarted("rx") THEN "started_tx" ELSE "done")

StartedTx(s) ==
    /\ wpc[s] = "started_tx"
    /\ WorkerOnly(s, IF SideStarted("tx") THEN "started" ELSE "done")

\* ... the state of the instance, and the flag.
StartedStore(s) ==
    /\ wpc[s] = "started"
    /\ init_state' = "Initialized"
    /\ WorkerGo(s, "send_started")
    /\ UNCHANGED <<workers, side, stopped, flags, flive, pools, queue, wact, wbuf,
                   control, callers, ended>>

StartedSend(s) ==
    /\ wpc[s] = "send_started"
    /\ flags' = flags \cup {"started"}
    /\ WorkerGo(s, "done")
    /\ UNCHANGED <<workers, init_state, side, stopped, flive, pools, queue, wact,
                   wbuf, control, callers, ended>>

\* finisher_f: the state, and then the pool ...
Finisher(s) ==
    /\ wpc[s] = "finish"
    /\ IF side[s] = "Uninitializing"
       THEN side' = [side EXCEPT ![s] = "Uninitialized"] /\ WorkerGo(s, "destroy")
       ELSE WorkerGo(s, "stopped_rx") /\ UNCHANGED side
    /\ UNCHANGED <<workers, init_state, stopped, flags, flive, pools, queue, wact,
                   wbuf, control, callers, ended>>

FinisherDestroy(s) ==
    /\ wpc[s] = "destroy"
    /\ plive' = [plive EXCEPT ![s] = FALSE]
    /\ free' = free \ BlocksOf(s)
    /\ WorkerGo(s, "stopped_rx")
    /\ UNCHANGED <<instance, refs, queue, wact, wbuf, control, callers, ended>>

\* ... and trigger_stop_completion.
SideStopped(o) == side[o] = "Uninitialized"

StoppedRx(s) ==
    /\ wpc[s] = "stopped_rx"
    /\ WorkerOnly(s, IF SideStopped("rx") THEN "stopped_tx" ELSE "done")

StoppedTx(s) ==
    /\ wpc[s] = "stopped_tx"
    /\ WorkerOnly(s, IF SideStopped("tx") THEN "stopped" ELSE "done")

StoppedStore(s) ==
    /\ wpc[s] = "stopped"
    /\ init_state' = "Uninitialized"
    /\ WorkerGo(s, "send_stopped")
    /\ UNCHANGED <<workers, side, stopped, flags, flive, pools, queue, wact, wbuf,
                   control, callers, ended>>

\* event_flag_send, also on a flag that has been freed.
StoppedSend(s) ==
    /\ wpc[s] = "send_stopped"
    /\ flags' = flags \cup {"stopped"}
    /\ WorkerGo(s, "done")
    /\ UNCHANGED <<workers, init_state, side, stopped, flive, pools, queue, wact,
                   wbuf, control, callers, ended>>

-----------------------------------------------------------------------------
(* rx_f                                                                    *)

\* Mutation: the receiver goes on whatever the state of its side is.
ReceiveAlways(s) == wpc[s] = "rx" /\ WorkerOnly(s, "alloc")

Receive(s) ==
    /\ wpc[s] = "rx"
    /\ WorkerOnly(s, IF side["rx"] = "Initialized" THEN "alloc" ELSE "done")

\* Without a buffer the action sleeps and is posted again.
ReceiveAlloc(s) ==
    /\ wpc[s] = "alloc"
    /\ IF plive["rx"] /\ free \cap Buffers # {}
       THEN /\ \E b \in free \cap Buffers :
                /\ free' = free \ {b}
                /\ refs' = [refs EXCEPT ![b] = @ + 1]
                /\ wbuf' = b
            /\ WorkerGo(s, "reading")
            /\ UNCHANGED queue
       ELSE Post("rx", "rx") /\ WorkerGo(s, "done") /\ UNCHANGED <<free, refs, wbuf>>
    /\ UNCHANGED <<instance, plive, wact, control, callers, ended>>

\* The client's read function returns bytes, or none.
ReceiveRead(s) ==
    /\ wpc[s] = "reading"
    /\ \E pc \in {"callback", "repost"} : WorkerOnly(s, pc)

\* rx_callback calls asyncio_release_rx_buffer.
asyncio_release_rx_buffer(s) ==
    /\ wpc[s] = "callback"
    /\ PoolFree("rx", wbuf)
    /\ UNCHANGED <<instance, plive, work, control, callers>>

\* rx_callback has returned.
ReceiveCallback(s) ==
    /\ wpc[s] = "callback"
    /\ apc[Callback] = "idle"
    /\ WorkerOnly(s, "repost")

ReceiveRepost(s) ==
    /\ wpc[s] = "repost"
    /\ Post("rx", "rx")
    /\ WorkerGo(s, "rx_free")
    /\ UNCHANGED <<instance, pools, wact, wbuf, control, callers, ended>>

ReceiveFree(s) ==
    /\ wpc[s] = "rx_free"
    /\ PoolFree("rx", wbuf)
    /\ wbuf' = IF refs[wbuf] = 0 THEN wbuf ELSE None
    /\ WorkerGo(s, "done")
    /\ UNCHANGED <<instance, plive, queue, wact, control, callers>>

-----------------------------------------------------------------------------
(* tx_f                                                                    *)

\* Mutation: a message that is not written keeps its token.
TransmitDrop(s) ==
    /\ wpc[s] = "tx"
    /\ WorkerOnly(s, IF init_state = "Initialized" THEN "write" ELSE "done")

Transmit(s) ==
    /\ wpc[s] = "tx"
    /\ WorkerOnly(s, IF init_state = "Initialized" THEN "write" ELSE "tx_free")

\* Mutation: a message that was written is freed here and by tx_f.
TransmitWriteFrees(s) ==
    /\ wpc[s] = "write"
    /\ PoolFree("tx", wact[s])
    /\ WorkerGo(s, "tx_free")
    /\ UNCHANGED <<instance, plive, queue, wact, wbuf, control, callers>>

\* The client's write and notification functions have run.
TransmitWrite(s) == wpc[s] = "write" /\ WorkerOnly(s, "tx_free")

\* The token is freed whether or not it was written.
TransmitFree(s) ==
    /\ wpc[s] = "tx_free"
    /\ PoolFree("tx", wact[s])
    /\ WorkerGo(s, "done")
    /\ UNCHANGED <<instance, plive, queue, wact, wbuf, control, callers>>

-----------------------------------------------------------------------------
(* The callers' functions: a test of the state, and then the operation.    *)

CallerOnly(a, pc) ==
    /\ apc' = [apc EXCEPT ![a] = pc]
    /\ UNCHANGED <<instance, pools, work, control, tok, tlife, sends, stale,
                   ended>>

\* The callback's calls are inside the callback.
MayCall(a) ==
    /\ apc[a] = "idle" /\ ~closing
    /\ a = Callback => wpc["rx"] = "callback"

\* A call whose test fails changes nothing.
asyncio_allocate_tx_token(a) ==
    /\ MayCall(a)
    /\ tok[a] = None /\ sends[a] < MaxSends
    /\ side["tx"] = "Initialized"
    /\ apc' = [apc EXCEPT ![a] = "alloc"]
    /\ tlife' = [tlife EXCEPT ![a] = life]
    /\ UNCHANGED <<instance, pools, work, control, tok, sends, stale, ended>>

TokenAlloc(a) ==
    /\ apc[a] = "alloc"
    /\ apc' = [apc EXCEPT ![a] = "idle"]
    /\ IF plive["tx"] /\ free \cap Tokens # {}
       THEN /\ \E t \in free \cap Tokens :
                /\ free' = free \ {t}
                /\ refs' = [refs EXCEPT ![t] = @ + 1]
                /\ tok' = [tok EXCEPT ![a] = t]
            /\ sends' = [sends EXCEPT ![a] = @ + 1]
            /\ stale' = (stale \/ tlife[a] # life)
       ELSE UNCHANGED <<free, refs, tok, sends, stale>>
    /\ UNCHANGED <<instance, plive, work, control, tlife, ended>>

\* A client does not begin to use a token of an earlier life.
Fresh(a) == tok[a] # None /\ tlife[a] = life

asyncio_send_buffer(a) ==
    /\ MayCall(a) /\ Fresh(a)
    /\ ~stopped /\ side["tx"] = "Initialized"
    /\ CallerOnly(a, "send")

SendDispatch(a) ==
    /\ apc[a] = "send"
    /\ Post("tx", tok[a])
    /\ tok' = [tok EXCEPT ![a] = None]
    /\ apc' = [apc EXCEPT ![a] = "idle"]
    /\ stale' = (stale \/ ~Fresh(a))
    /\ UNCHANGED <<instance, pools, wpc, wact, wbuf, control, tlife, sends, ended>>

asyncio_release_tx_token(a) ==
    /\ MayCall(a) /\ Fresh(a)
    /\ side["tx"] = "Initialized"
    /\ CallerOnly(a, "release")

ReleaseFree(a) ==
    /\ apc[a] = "release"
    /\ PoolFree("tx", tok[a])
    /\ tok' = [tok EXCEPT ![a] = None]
    /\ apc' = [apc EXCEPT ![a] = "idle"]
    /\ stale' = (stale \/ ~Fresh(a))
    /\ UNCHANGED <<instance, plive, work, control, tlife, sends>>

\* A token of an earlier life is forgotten.
Forget(a) ==
    /\ apc[a] = "idle"
    /\ tok[a] # None /\ ~Fresh(a)
    /\ tok' = [tok EXCEPT ![a] = None]
    /\ UNCHANGED <<instance, pools, work, control, apc, tlife, sends, stale,
                   ended>>

-----------------------------------------------------------------------------
ControllerStep ==
    \/ StartClear \/ StartStore \/ StartDispatch \/ StartRun
    \/ StartReturn \/ StopTest \/ StopClear \/ StopSet
    \/ StopClaim \/ StopDispatch \/ StopReturn \/ DestroyFlag

WorkerStep(s) ==
    \/ WorkerTake(s) \/ WorkerDone(s)
    \/ StarterCreate(s) \/ StarterReady(s) \/ StarterPost(s)
    \/ StartedRx(s) \/ StartedTx(s) \/ StartedStore(s) \/ StartedSend(s)
    \/ Finisher(s) \/ FinisherDestroy(s)
    \/ StoppedRx(s) \/ StoppedTx(s) \/ StoppedStore(s) \/ StoppedSend(s)
    \/ Receive(s) \/ ReceiveAlloc(s) \/ ReceiveRead(s) \/ ReceiveCallback(s)
    \/ ReceiveRepost(s) \/ ReceiveFree(s)
    \/ Transmit(s) \/ TransmitWrite(s) \/ TransmitFree(s)

CallerStep(a) ==
    \/ TokenAlloc(a) \/ SendDispatch(a) \/ ReleaseFree(a)

Running ==
    \/ asyncio_start \/ asyncio_stop \/ asyncio_destroy_instance
    \/ ControllerStep \/ Timeout
    \/ \E s \in Sides : WorkerStep(s) \/ asyncio_release_rx_buffer(s)
    \/ \E a \in Callers :
        \/ asyncio_allocate_tx_token(a) \/ asyncio_send_buffer(a)
        \/ asyncio_release_tx_token(a) \/ Forget(a) \/ CallerStep(a)

Finished ==
    /\ ended # "no" \/ cpc = "gone"
    /\ UNCHANGED vars

Next ==
    \/ ended = "no" /\ Running
    \/ Finished

Spec == Init /\ [][Next]_vars

-----------------------------------------------------------------------------
States == {"Uninitialized", "Uninitializing", "Initializing", "Initialized"}
Actions == {"start", "finish", "rx"} \cup Tokens

ControllerSteps ==
    {"idle", "clear_started", "store", "dispatch", "run", "await_started",
     "test_stopped", "clear_stopped", "set_stopped", "claim", "finish", "await_stopped",
     "free_flag", "gone"}

WorkerSteps ==
    {"wait", "done", "create", "ready", "post", "started_rx", "started_tx", "started",
     "send_started", "finish", "destroy", "stopped_rx", "stopped_tx", "stopped",
     "send_stopped", "rx", "alloc", "reading", "callback", "repost", "rx_free",
     "tx", "write", "tx_free"}

InstanceType ==
    /\ workers \subseteq Sides
    /\ init_state \in States /\ side \in [Sides -> States]
    /\ stopped \in BOOLEAN /\ flive \in BOOLEAN
    /\ flags \subseteq {"started", "stopped"}

PoolsType ==
    /\ plive \in [Sides -> BOOLEAN]
    /\ free \subseteq Blocks /\ refs \in [Blocks -> Nat]

WorkType ==
    /\ queue \in [Sides -> Seq(Actions)]
    /\ wpc \in [Sides -> WorkerSteps]
    /\ wact \in [Sides -> Actions \cup {None}]
    /\ wbuf \in Buffers \cup {None}

ControlType ==
    /\ cpc \in ControllerSteps /\ cside \in Sides
    /\ closing \in BOOLEAN
    /\ life \in 0..MaxStarts
    /\ phase \in {"starting", "running", "stopping", "stopped"}

CallersType ==
    /\ apc \in [Callers -> {"idle", "alloc", "send", "release"}]
    /\ tok \in [Callers -> Tokens \cup {None}]
    /\ tlife \in [Callers -> 0..MaxStarts]
    /\ sends \in [Callers -> 0..MaxSends]
    /\ stale \in BOOLEAN

TypeOK ==
    /\ InstanceType /\ PoolsType /\ WorkType /\ ControlType /\ CallersType
    /\ ended \in {"no", "double_free", "unexpected_state", "timeout"}

\* The worker of s is in what is left of finisher_f after its state change.
InTail(s) ==
    wpc[s] \in {"destroy", "stopped_rx", "stopped_tx", "stopped", "send_stopped"}

\* What asyncio_start and asyncio_stop have told the controller stays true until
\* its next call: no store of a starter or a finisher that was late undoes it.
\* Started, the instance and its sides are Initialized, their pools exist and
\* the stream is not stopped, so that a message that is accepted is written.
\* Stopped, both sides are down, nothing that was posted will bring one up or
\* take one down, and at most one worker still has the end of its finisher to
\* run. That one may send the flag again, after asyncio_destroy_instance has
\* freed it.
HandshakeHolds ==
    /\ phase = "running" =>
        /\ init_state = "Initialized" /\ ~stopped
        /\ \A s \in workers : side[s] = "Initialized" /\ plive[s]
    /\ phase = "stopped" =>
        /\ init_state = "Uninitialized" /\ stopped
        /\ \A s \in Sides :
            /\ side[s] = "Uninitialized"
            /\ \A i \in DOMAIN queue[s] : queue[s][i] \notin {"start", "finish"}
        /\ Cardinality({s \in Sides : InTail(s)}) <= 1

\* The action is posted to s or s has not completed it.
Pending(s, action) ==
    \/ \E i \in DOMAIN queue[s] : queue[s][i] = action
    \/ wact[s] = action /\ wpc[s] # "done"

\* While the controller waits for a flag that is not set, some worker has a
\* starter, or a finisher, that is not done: the sides never both conclude, in
\* the loads of trigger_start_completion and trigger_stop_completion, that the
\* other one is going to send it.
CompletionPending ==
    /\ cpc = "await_started" /\ "started" \notin flags =>
        \E s \in workers : Pending(s, "start")
    /\ cpc = "await_stopped" /\ "stopped" \notin flags =>
        \E s \in workers : Pending(s, "finish")

\* The rx_f that are posted, that run and have not posted the next one, or that
\* the starter is about to post.
Readers ==
    Cardinality({i \in DOMAIN queue["rx"] : queue["rx"][i] = "rx"})
        + (IF wpc["rx"] \in {"post", "rx", "alloc", "reading", "callback", "repost"}
           THEN 1 ELSE 0)

\* The receive side has exactly one chain of rx_f while it is up, whatever was
\* left in the queue by the stop before, and finds its pool whole.
ReceiverRuns ==
    /\ side["rx"] = "Initialized" => Readers = 1
    /\ wpc["rx"] = "alloc" => plive["rx"] /\ Buffers \subseteq free

\* Who has a reference to token t of the present life.
TokenOwners(t) ==
    {<<"caller", a>> : a \in {x \in Callers : tok[x] = t /\ tlife[x] = life}}
        \cup {<<"queue", i>> : i \in {j \in DOMAIN queue["tx"] : queue["tx"][j] = t}}
        \cup {<<"worker", s>> : s \in {x \in {"tx"} :
                                        wact[x] = t /\ wpc[x] \in {"tx", "write", "tx_free"}}}

\* While the transmit side is up a token is in it exactly when nobody has a
\* reference: none is lost and none is given out twice, also when messages are
\* dropped by a stop. Excepted is a call that tested the state before a stop and
\* used its token after the next start.
TokensConserved ==
    side["tx"] \in {"Initialized", "Uninitializing"} /\ ~stale =>
        \A t \in Tokens :
            /\ refs[t] = Cardinality(TokenOwners(t))
            /\ t \in free <=> refs[t] = 0

\* The blocks of the dispatch queue of s in use.
Demand(s) == Len(queue[s]) + (IF wpc[s] = "wait" THEN 0 ELSE 1)

\* What ends the program. A block is freed twice only by such a call, or if the
\* receive callback calls asyncio_release_rx_buffer on the buffer that rx_f frees
\* itself. The assertions of asyncio_stop on the states of the sides hold. And
\* the assertion of dispatch_async_f, which fails when its queue has no block
\* left, holds if the client has chosen this many blocks.
EndCauses ==
    /\ ended # "unexpected_state"
    /\ ended = "double_free" => stale \/ \E b \in Buffers : wbuf = b /\ refs[b] = 0
    /\ Demand("rx") <= 3
    /\ ~stale => Demand("tx") <= Cardinality(Tokens) + 2
=============================================================================
