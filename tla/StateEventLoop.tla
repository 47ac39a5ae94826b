--------------------------- MODULE StateEventLoop ----------------------------
(***************************************************************************)
(* The state event loop (src/state_event_loop.c) with its state machines   *)
(* (src/state_machine.c). The worker of a dispatch queue hands each posted *)
(* event to every machine in turn, then to the listeners, and releases it; *)
(* Main, a client thread, starts, stops and dismantles the loop; Posters   *)
(* post. The callbacks of the pre-processor, of the states and of the      *)
(* listeners run on the worker and may post or stop the loop; those that a *)
(* start or a stop of Main runs on Main's thread only do what a Poster may.*)
(*                                                                         *)
(* The event pool is the one of module Pool. The dispatch queue's FIFO and *)
(* block pool, which has as many blocks as the queue has slots, are used   *)
(* through what BoundedFifo and Pool show of them; dispatch_async_f and    *)
(* dispatch_queue_destroy are stepped through as in DispatchQueue: a post  *)
(* that has passed the test of destroying races with the destruction. The  *)
(* exit signal is reduced to the time for which the worker has its mutex.  *)
(*                                                                         *)
(*   worker:  wait -> pre -> handle -> valid -> handling -> transition     *)
(*                            ^                                  v         *)
(*                            |                          exit -> exiting   *)
(*                            |                                  v         *)
(*                            +--- next machine --- entering <- enter      *)
(*                                                         initing         *)
(*            ... -> notify -> release -> free -> wait                     *)
(*            wait -> leaving -> signal -> ended                           *)
(*                                                                         *)
(* Nothing in the code keeps state_machine_start and state_machine_stop    *)
(* from running on a machine that the worker is using; overlap records it. *)
(***************************************************************************)
EXTENDS Integers, Sequences, FiniteSets

CONSTANTS
    N,          \* the number of state machines
    States,     \* the state ids
    Start,      \* start_state_id of every machine
    NoState,    \* a NULL current_state
    MaxStates,  \* STATE_MAC_MAX_STATES
    Events,     \* the blocks of the event pool, as many as queue slots
    NoEvent,    \* no event
    Kill,       \* the dispatch queue's kill request
    Posters,    \* client threads that post
    Worker,     \* the dispatch queue's thread; its callbacks post, too
    MaxPosts,   \* bound: the number of posts
    MaxStarts   \* bound: how often Main starts the loop

Machines == 1..N
Callers == Posters \cup {Worker}

ASSUME LoopAssumption ==
    /\ N \in Nat \ {0} /\ MaxStates \in Nat /\ MaxPosts \in Nat /\ MaxStarts \in Nat
    /\ IsFiniteSet(Events) /\ IsFiniteSet(States)
    /\ Start \in States /\ NoState \notin States
    /\ NoEvent \notin Events /\ Kill \notin Events
    /\ Worker \notin Posters

VARIABLES
    sm,         \* sm[i]: state machine i
    preproc,    \* a pre-processor is installed
    free,       \* the free event blocks
    refs,       \* refs[e]: the reference count of event e
    plive,      \* the event pool has not been destroyed
    queue,      \* the dispatch queue's events, oldest first
    destroying, \* the dispatch queue is being destroyed
    blive,      \* its block pool has not been destroyed
    qlive,      \* nor has its ts_queue
    wpc,        \* where the worker is
    wev,        \* the event it processes
    wi,         \* the machine it is at
    wst,        \* the state whose f_init it runs
    mpc,        \* where Main is
    mi,         \* the machine it is at
    starts,     \* how often Main has started the loop
    pc,         \* pc[t]: where the post of thread t is
    mem,        \* mem[t]: the event it has allocated
    posts,      \* how many posts have begun
    retained,   \* the events a listener has retained for later
    leaked,     \* the events whose post the dispatch queue refused
    inside,     \* inside[i]: the state of i that was entered and not yet left
    ended,      \* "no", or why the program has ended
    overlap,    \* a start or a stop has met a machine in the worker's hands
    racing,     \* a post was past its test when the destruction began
    stopped     \* the machines stopped since they were last started

loop == <<preproc, plive, starts>>
dispatch == <<destroying, blive, qlive, racing>>
pool == <<free, refs, retained, leaked>>
machine == <<sm, inside, stopped>>
worker == <<wpc, wev, wi, wst>>
main == <<mpc, mi>>
poster == <<pc, mem, posts>>
vars == <<sm, preproc, free, refs, plive, queue, destroying, blive, qlive, wpc,
          wev, wi, wst, mpc, mi, starts, pc, mem, posts, retained, leaked,
          inside, ended, overlap, racing, stopped>>

-----------------------------------------------------------------------------
(* state_event_loop_init: the queue runs, the machines have no states yet. *)
Init ==
    /\ sm = [i \in Machines |->
                [current |-> NoState, started |-> FALSE, requested |-> FALSE,
                 next |-> Start, states |-> {}, once |-> {}]]
    /\ preproc = FALSE
    /\ free = Events /\ refs = [e \in Events |-> 0] /\ plive = TRUE
    /\ queue = <<>> /\ destroying = FALSE /\ blive = TRUE /\ qlive = TRUE
    /\ wpc = "wait" /\ wev = NoEvent /\ wi = 1 /\ wst = NoState
    /\ mpc = "idle" /\ mi = 1 /\ starts = 0
    /\ pc = [t \in Callers |-> "idle"]
    /\ mem = [t \in Callers |-> NoEvent]
    /\ posts = 0
    /\ retained = {} /\ leaked = {}
    /\ inside = [i \in Machines |-> NoState]
    /\ ended = "no" /\ overlap = FALSE /\ racing = FALSE /\ stopped = {}

End(why) == ended' = why

\* enter_state: f_init on the first entry, then f_enter.
EnterState(i) ==
    /\ sm' = [sm EXCEPT ![i].once = @ \cup {sm[i].current}]
    /\ inside' = [inside EXCEPT ![i] = sm[i].current]
    /\ UNCHANGED stopped

-----------------------------------------------------------------------------
(* Main: the client that owns the loop.                                    *)

\* state_event_loop_add_state: a full machine ignores the state.
state_event_loop_add_state(i, s) ==
    /\ mpc = "idle" /\ starts = 0
    /\ s \notin sm[i].states
    /\ Cardinality(sm[i].states) < MaxStates
    /\ sm' = [sm EXCEPT ![i].states = @ \cup {s}]
    /\ UNCHANGED <<loop, dispatch, pool, queue, worker, main, poster, inside, stopped, ended>>

\* Taken only before the first machine has been started.
state_event_loop_install_event_pre_proc ==
    /\ mpc = "idle"
    /\ ~sm[1].started
    /\ preproc' = TRUE
    /\ UNCHANGED <<plive, starts, dispatch, pool, queue, machine, worker, main,
                   poster, ended>>

\* The client starts a loop that is not running.
state_event_loop_start ==
    /\ mpc = "idle"
    /\ starts < MaxStarts
    /\ \A i \in Machines : sm[i].current = NoState
    /\ starts' = starts + 1
    /\ mpc' = "load" /\ mi' = 1
    /\ UNCHANGED <<preproc, plive, dispatch, pool, queue, machine, worker, poster,
                   ended>>

\* state_machine_start: the initial state, which must have been registered ...
StartLoad ==
    /\ mpc = "load"
    /\ \/ /\ Start \in sm[mi].states
          /\ sm' = [sm EXCEPT ![mi].current = Start]
          /\ stopped' = stopped \ {mi}
          /\ mpc' = "flag"
          /\ UNCHANGED ended
       \/ /\ Start \notin sm[mi].states
          /\ End("start_state")
          /\ UNCHANGED <<sm, stopped, mpc>>
    /\ UNCHANGED <<loop, dispatch, pool, queue, worker, mi, poster, inside>>

\* ... the flag that lets events in ...
StartFlag ==
    /\ mpc = "flag"
    /\ sm' = [sm EXCEPT ![mi].started = TRUE]
    /\ mpc' = "enter"
    /\ UNCHANGED <<loop, dispatch, pool, queue, worker, mi, poster, inside, stopped,
                   ended>>

\* ... and the callbacks, on whatever current_state is by now.
StartEnter ==
    /\ mpc = "enter"
    /\ \/ /\ sm[mi].current # NoState
          /\ EnterState(mi)
          /\ mpc' = IF mi < N THEN "load" ELSE "idle"
          /\ mi' = IF mi < N THEN mi + 1 ELSE 1
          /\ UNCHANGED ended
       \/ /\ sm[mi].current = NoState
          /\ End("null")
          /\ UNCHANGED <<machine, main>>
    /\ UNCHANGED <<loop, dispatch, pool, queue, worker, poster>>

state_event_loop_stop ==
    /\ mpc = "idle"
    /\ starts > 0
    /\ mpc' = "stop" /\ mi' = 1
    /\ UNCHANGED <<loop, dispatch, pool, queue, machine, worker, poster, ended>>

\* state_machine_stop's changes. The started flag stays set.
Stopped(m) == [m EXCEPT !.current = NoState,
                        !.requested = IF m.current = NoState THEN @ ELSE FALSE]

\* One machine after the other, in stop and at the end of deinit.
StopMachine ==
    /\ mpc \in {"stop", "deinit_stop"}
    /\ inside' = [inside EXCEPT ![mi] = IF sm[mi].current = NoState THEN @ ELSE NoState]
    /\ sm' = [sm EXCEPT ![mi] = Stopped(@)]
    /\ stopped' = stopped \cup {mi}
    /\ mi' = IF mi < N THEN mi + 1 ELSE 1
    /\ mpc' = IF mi < N THEN mpc ELSE IF mpc = "stop" THEN "idle" ELSE "deinit_pool"
    /\ UNCHANGED <<loop, dispatch, pool, queue, worker, poster, ended>>

\* dispatch_queue_destroy: the flag ...
state_event_loop_deinit ==
    /\ mpc = "idle"
    /\ destroying' = TRUE
    /\ racing' = (\E t \in Callers : pc[t] \in {"block", "enqueue"})
    /\ mpc' = "kill"
    /\ UNCHANGED <<loop, blive, qlive, pool, queue, machine, worker, mi, poster, ended>>

\* ... the kill request, with the assertion that the queue took it ...
DeinitKill ==
    /\ mpc = "kill"
    /\ IF Len(queue) < Cardinality(Events)
       THEN queue' = Append(queue, Kill) /\ mpc' = "wait" /\ UNCHANGED ended
       ELSE End("kill") /\ UNCHANGED <<queue, mpc>>
    /\ UNCHANGED <<loop, dispatch, pool, machine, worker, mi, poster>>

\* ... signal_wait, which fails, as an assertion then does, if the worker has
\* the mutex of the exit signal at that moment ...
DeinitWait ==
    /\ mpc = "wait"
    /\ IF wpc = "signal"
       THEN End("exit_signal") /\ UNCHANGED mpc
       ELSE mpc' = "join" /\ UNCHANGED ended
    /\ UNCHANGED <<loop, dispatch, pool, queue, machine, worker, mi, poster>>

\* ... the end of the worker ...
DeinitJoin ==
    /\ mpc = "join"
    /\ wpc = "ended"
    /\ mpc' = "drop_blocks"
    /\ UNCHANGED <<loop, dispatch, pool, queue, machine, worker, mi, poster, ended>>

\* ... and that of the block pool and of the ts_queue, as they are.
DeinitBlocks ==
    /\ mpc = "drop_blocks"
    /\ blive' = FALSE
    /\ mpc' = "drop_queue"
    /\ UNCHANGED <<loop, destroying, qlive, racing, pool, queue, machine, worker, mi,
                   poster, ended>>

DeinitQueue ==
    /\ mpc = "drop_queue"
    /\ qlive' = FALSE
    /\ mpc' = "deinit_stop"
    /\ UNCHANGED <<loop, destroying, blive, racing, pool, queue, machine, worker, mi,
                   poster, ended>>

\* notifier_deinit and pool_destroy.
DeinitPool ==
    /\ mpc = "deinit_pool"
    /\ mpc' = "done"
    /\ plive' = FALSE
    /\ UNCHANGED <<preproc, starts, dispatch, pool, queue, machine, worker, mi, poster,
                   ended>>

-----------------------------------------------------------------------------
(* state_event_loop_post                                                   *)

\* The worker is in a callback: the pre-processor, f_valid_event,
\* f_handle_event, f_exit, f_init, f_enter or a listener.
InCallback ==
    \/ wpc = "pre" /\ preproc
    \/ wpc \in {"valid", "handling", "exiting", "initing", "entering", "notify"}

state_event_loop_post(t) ==
    /\ pc[t] = "idle"
    /\ posts < MaxPosts
    /\ t = Worker => InCallback
    /\ posts' = posts + 1
    /\ pc' = [pc EXCEPT ![t] = "alloc"]
    /\ UNCHANGED <<loop, dispatch, pool, queue, machine, worker, main, mem, ended>>

\* state_event_loop_allocate_event, with its assertion. The pool of a loop that
\* has been taken apart is the NULL pointer, which gives no event.
PostAlloc(t) ==
    /\ pc[t] = "alloc"
    /\ \/ /\ plive
          /\ \E e \in free :
                /\ free' = free \ {e}
                /\ refs' = [refs EXCEPT ![e] = 1]
                /\ mem' = [mem EXCEPT ![t] = e]
          /\ pc' = [pc EXCEPT ![t] = "dispatch"]
          /\ UNCHANGED ended
       \/ /\ ~plive \/ free = {}
          /\ End("event_pool")
          /\ UNCHANGED <<free, refs, mem, pc>>
    /\ UNCHANGED <<loop, dispatch, retained, leaked, queue, machine, worker, main, posts>>

\* The copy of the event, which reads the element size from the pool, and the
\* test of dispatch_async_f, whose result is ignored: a refused event is not
\* released.
PostTest(t) ==
    /\ pc[t] = "dispatch"
    /\ \/ /\ plive /\ destroying
          /\ leaked' = leaked \cup {mem[t]}
          /\ mem' = [mem EXCEPT ![t] = NoEvent]
          /\ pc' = [pc EXCEPT ![t] = "idle"]
          /\ UNCHANGED ended
       \/ /\ plive /\ ~destroying
          /\ pc' = [pc EXCEPT ![t] = "block"]
          /\ UNCHANGED <<leaked, mem, ended>>
       \/ /\ ~plive
          /\ End("event_pool")
          /\ UNCHANGED <<leaked, pc, mem>>
    /\ UNCHANGED <<loop, dispatch, free, refs, retained, queue, machine, worker, main, posts>>

\* The blocks of the dispatch queue in use, each named by the event it carries.
\* The worker has one more from the release of its event until it frees it.
Blocks ==
    {e \in Events :
        \/ \E i \in 1..Len(queue) : queue[i] = e
        \/ \E u \in Callers : pc[u] = "enqueue" /\ mem[u] = e
        \/ wev = e}
BlocksInUse == Cardinality(Blocks) + (IF wpc = "free" THEN 1 ELSE 0)

\* pool_alloc of a block, with its assertion.
PostBlock(t) ==
    /\ pc[t] = "block"
    /\ IF blive /\ BlocksInUse < Cardinality(Events)
       THEN pc' = [pc EXCEPT ![t] = "enqueue"] /\ UNCHANGED ended
       ELSE End("dispatch_pool") /\ UNCHANGED pc
    /\ UNCHANGED <<loop, dispatch, pool, queue, machine, worker, main, mem, posts>>

\* ts_queue_enqueue, with its assertion: also behind the kill request.
PostEnqueue(t) ==
    /\ pc[t] = "enqueue"
    /\ IF qlive /\ Len(queue) < Cardinality(Events)
       THEN /\ queue' = Append(queue, mem[t])
            /\ pc' = [pc EXCEPT ![t] = "idle"]
            /\ mem' = [mem EXCEPT ![t] = NoEvent]
            /\ UNCHANGED ended
       ELSE End("dispatch_queue") /\ UNCHANGED <<queue, pc, mem>>
    /\ UNCHANGED <<loop, dispatch, pool, machine, worker, main, posts>>

-----------------------------------------------------------------------------
(* The worker: state_event_loop_exec_queue_f for each event.               *)

WorkerTake ==
    /\ wpc = "wait"
    /\ queue # <<>>
    /\ queue' = Tail(queue)
    /\ IF Head(queue) = Kill
       THEN wpc' = "leaving" /\ UNCHANGED wev
       ELSE wpc' = "pre" /\ wev' = Head(queue)
    /\ UNCHANGED <<loop, dispatch, pool, machine, wi, wst, main, poster, ended>>

\* signal_send has the mutex of the exit signal ...
WorkerSignal ==
    /\ wpc = "leaving"
    /\ wpc' = "signal"
    /\ UNCHANGED <<loop, dispatch, pool, queue, machine, wev, wi, wst, main, poster, ended>>

\* ... gives it back, and the thread ends.
WorkerEnd ==
    /\ wpc = "signal"
    /\ wpc' = "ended"
    /\ UNCHANGED <<loop, dispatch, pool, queue, machine, wev, wi, wst, main, poster, ended>>

\* event_pre_proc_f has run, if one is installed.
WorkerPre ==
    /\ wpc = "pre"
    /\ pc[Worker] = "idle"
    /\ wpc' = "handle" /\ wi' = 1
    /\ UNCHANGED <<loop, dispatch, pool, queue, machine, wev, wst, main, poster, ended>>

\* Mutation: an event reaches a machine that has not been started.
WorkerHandleUnstarted ==
    /\ wpc = "handle"
    /\ IF sm[wi].current = NoState
       THEN End("null") /\ UNCHANGED wpc
       ELSE wpc' = "valid" /\ UNCHANGED ended
    /\ UNCHANGED <<loop, dispatch, pool, queue, machine, wev, wi, wst, main, poster>>

\* state_machine_handle_event calls f_valid_event of a machine that is marked
\* as started. One that was stopped still is, and its current_state is NULL.
WorkerHandle ==
    /\ wpc = "handle"
    /\ IF sm[wi].started /\ sm[wi].current = NoState
       THEN End("null") /\ UNCHANGED wpc
       ELSE /\ wpc' = IF sm[wi].started THEN "valid" ELSE "transition"
            /\ UNCHANGED ended
    /\ UNCHANGED <<loop, dispatch, pool, queue, machine, wev, wi, wst, main, poster>>

\* f_valid_event has refused the event, or f_handle_event is called.
WorkerValid ==
    /\ wpc = "valid"
    /\ pc[Worker] = "idle"
    /\ \/ wpc' = "transition" /\ UNCHANGED ended
       \/ sm[wi].current # NoState /\ wpc' = "handling" /\ UNCHANGED ended
       \/ sm[wi].current = NoState /\ End("null") /\ UNCHANGED wpc
    /\ UNCHANGED <<loop, dispatch, pool, queue, machine, wev, wi, wst, main, poster>>

\* Mutation: every handled event requests a transition.
RequestsAlways(m, s) == TRUE

\* The transition is latched if f_handle_event returned another state.
Requests(m, s) == m.requested \/ s # m.current

\* f_handle_event has returned the next state.
WorkerHandled ==
    /\ wpc = "handling"
    /\ pc[Worker] = "idle"
    /\ IF sm[wi].current = NoState
       THEN End("null") /\ UNCHANGED <<sm, wpc>>
       ELSE /\ \E s \in States :
                sm' = [sm EXCEPT ![wi].next = s,
                                 ![wi].requested = Requests(sm[wi], s)]
            /\ wpc' = "transition"
            /\ UNCHANGED ended
    /\ UNCHANGED <<loop, dispatch, pool, queue, inside, stopped, wev, wi, wst, main, poster>>

NextMachine ==
    /\ wpc' = IF wi < N THEN "handle" ELSE "notify"
    /\ wi' = IF wi < N THEN wi + 1 ELSE 1

\* state_machine_transition: nothing to do, or the tests before the callbacks.
WorkerTransition ==
    /\ wpc = "transition"
    /\ LET m == sm[wi]
           due == m.requested /\ m.started
       IN  /\ sm' = [sm EXCEPT ![wi].requested = @ /\ ~due]
           /\ CASE due /\ m.current = NoState ->
                    End("null") /\ UNCHANGED <<wpc, wi>>
                [] due /\ m.current # NoState /\ m.current # m.next
                       /\ m.next \notin m.states ->
                    End("next_state") /\ UNCHANGED <<wpc, wi>>
                [] due /\ m.current # NoState /\ m.current # m.next
                       /\ m.next \in m.states ->
                    wpc' = "exit" /\ UNCHANGED <<wi, ended>>
                [] OTHER -> NextMachine /\ UNCHANGED ended
    /\ UNCHANGED <<loop, dispatch, pool, queue, inside, stopped, wev, wst, main, poster>>

\* Mutation: the current state is replaced without its f_exit.
WorkerExitNot ==
    /\ wpc = "exit"
    /\ wpc' = "exiting"
    /\ UNCHANGED <<loop, dispatch, pool, queue, machine, wev, wi, wst, main, poster, ended>>

\* f_exit of the current state is called ...
WorkerExit ==
    /\ wpc = "exit"
    /\ IF sm[wi].current = NoState
       THEN End("null") /\ UNCHANGED <<inside, wpc>>
       ELSE /\ inside' = [inside EXCEPT ![wi] = NoState]
            /\ wpc' = "exiting"
            /\ UNCHANGED ended
    /\ UNCHANGED <<loop, dispatch, pool, queue, sm, stopped, wev, wi, wst, main, poster>>

\* ... and returns, and the next state takes the place of the current one, also
\* if f_exit has stopped the machine ...
WorkerExited ==
    /\ wpc = "exiting"
    /\ pc[Worker] = "idle"
    /\ sm' = [sm EXCEPT ![wi].current = sm[wi].next]
    /\ wpc' = "enter"
    /\ UNCHANGED <<loop, dispatch, pool, queue, inside, stopped, wev, wi, wst, main,
                   poster, ended>>

\* ... to be entered: enter_state calls f_init the first time ...
WorkerEnter ==
    /\ wpc = "enter"
    /\ \/ /\ sm[wi].current \in sm[wi].once
          /\ EnterState(wi)
          /\ wpc' = "entering"
          /\ UNCHANGED <<wst, ended>>
       \/ /\ sm[wi].current \notin sm[wi].once \cup {NoState}
          /\ sm' = [sm EXCEPT ![wi].once = @ \cup {sm[wi].current}]
          /\ wst' = sm[wi].current
          /\ wpc' = "initing"
          /\ UNCHANGED <<inside, stopped, ended>>
       \/ /\ sm[wi].current = NoState
          /\ End("null")
          /\ UNCHANGED <<machine, wpc, wst>>
    /\ UNCHANGED <<loop, dispatch, pool, queue, wev, wi, main, poster>>

\* ... then f_enter, also if f_init has stopped the machine ...
WorkerInited ==
    /\ wpc = "initing"
    /\ pc[Worker] = "idle"
    /\ inside' = [inside EXCEPT ![wi] = wst]
    /\ wst' = NoState
    /\ wpc' = "entering"
    /\ UNCHANGED <<loop, dispatch, pool, queue, sm, stopped, wev, wi, main, poster, ended>>

\* ... which returns.
WorkerEntered ==
    /\ wpc = "entering"
    /\ pc[Worker] = "idle"
    /\ NextMachine
    /\ UNCHANGED <<loop, dispatch, pool, queue, machine, wev, wst, main, poster, ended>>

\* notifier_post_notification: a listener may retain the event for later.
WorkerNotify ==
    /\ wpc = "notify"
    /\ pc[Worker] = "idle"
    /\ wpc' = "release"
    /\ \/ UNCHANGED <<refs, retained>>
       \/ /\ wev \notin retained
          /\ retained' = retained \cup {wev}
          /\ refs' = [refs EXCEPT ![wev] = @ + 1]
    /\ UNCHANGED <<loop, dispatch, free, leaked, queue, machine, wev, wi, wst, main,
                   poster, ended>>

\* state_event_loop_release_event is pool_free.
Release(e) ==
    /\ refs' = [refs EXCEPT ![e] = @ - 1]
    /\ free' = IF refs[e] = 1 THEN free \cup {e} ELSE free

\* Mutation: the event is released only if no listener has it.
WorkerReleaseUnlessRetained ==
    /\ wpc = "release"
    /\ IF wev \in retained THEN UNCHANGED <<refs, free>> ELSE Release(wev)
    /\ wpc' = "free" /\ wev' = NoEvent
    /\ UNCHANGED <<loop, dispatch, retained, leaked, queue, machine, wi, wst, main,
                   poster, ended>>

WorkerRelease ==
    /\ wpc = "release"
    /\ Release(wev)
    /\ wpc' = "free" /\ wev' = NoEvent
    /\ UNCHANGED <<loop, dispatch, retained, leaked, queue, machine, wi, wst, main,
                   poster, ended>>

\* The dispatch queue frees the block of the action.
WorkerFree ==
    /\ wpc = "free"
    /\ wpc' = "wait"
    /\ UNCHANGED <<loop, dispatch, pool, queue, machine, wev, wi, wst, main, poster, ended>>

\* A callback stops the loop, in the thread in which events are handled.
WorkerStop ==
    /\ InCallback
    /\ pc[Worker] = "idle"
    /\ \E i \in Machines : sm[i].current # NoState
    /\ inside' = [i \in Machines |-> IF sm[i].current = NoState THEN inside[i] ELSE NoState]
    /\ sm' = [i \in Machines |-> Stopped(sm[i])]
    /\ stopped' = Machines
    /\ UNCHANGED <<loop, dispatch, pool, queue, worker, main, poster, ended>>

\* A listener is done with an event it retained. The pool of a loop that has
\* been taken apart is the NULL pointer: pool_free then does nothing.
ListenerRelease(e) ==
    /\ e \in retained
    /\ plive
    /\ Release(e)
    /\ retained' = retained \ {e}
    /\ UNCHANGED <<loop, dispatch, leaked, queue, machine, worker, main, poster, ended>>

-----------------------------------------------------------------------------
WorkerStep ==
    \/ WorkerTake \/ WorkerSignal \/ WorkerEnd \/ WorkerPre
    \/ WorkerHandle \/ WorkerValid \/ WorkerHandled \/ WorkerTransition
    \/ WorkerExit \/ WorkerExited \/ WorkerEnter \/ WorkerInited \/ WorkerEntered
    \/ WorkerNotify \/ WorkerRelease \/ WorkerFree

PostStep(t) == PostAlloc(t) \/ PostTest(t) \/ PostBlock(t) \/ PostEnqueue(t)

MainStep ==
    \/ StartLoad \/ StartFlag \/ StartEnter \/ StopMachine
    \/ DeinitKill \/ DeinitWait \/ DeinitJoin \/ DeinitBlocks \/ DeinitQueue
    \/ DeinitPool

MainAt == IF mpc \in {"load", "flag", "enter", "stop", "deinit_stop"} THEN {mi} ELSE {}
WorkerAt ==
    IF wpc \in {"handle", "valid", "handling", "transition", "exit", "exiting",
                "enter", "initing", "entering"}
    THEN {wi} ELSE {}

Finished ==
    /\ ended # "no" \/ mpc = "done"
    /\ UNCHANGED vars

\* A step of a program that has not ended; clash says that it is itself a stop
\* of a machine that somebody is at.
Run(A, clash) ==
    /\ ended = "no"
    /\ A
    /\ overlap' = (overlap \/ clash \/ (MainAt \cap WorkerAt)' # {})

Next ==
    \/ \E i \in Machines, s \in States : Run(state_event_loop_add_state(i, s), FALSE)
    \/ Run(state_event_loop_install_event_pre_proc, FALSE)
    \/ Run(state_event_loop_start, FALSE)
    \/ Run(state_event_loop_stop, FALSE)
    \/ Run(state_event_loop_deinit, FALSE)
    \/ Run(MainStep, FALSE)
    \/ \E t \in Callers :
        Run(state_event_loop_post(t), FALSE) \/ Run(PostStep(t), FALSE)
    \/ Run(WorkerStep, FALSE)
    \/ Run(WorkerStop, MainAt # {} \/ wpc \in {"exiting", "initing"})
    \/ \E e \in Events : Run(ListenerRelease(e), FALSE)
    \/ Finished

Spec == Init /\ [][Next]_vars

-----------------------------------------------------------------------------
Ends == {"no", "null", "start_state", "next_state", "event_pool",
         "dispatch_pool", "dispatch_queue", "kill", "exit_signal"}

TypeOK ==
    /\ sm \in [Machines ->
                [current : States \cup {NoState}, started : BOOLEAN,
                 requested : BOOLEAN, next : States, states : SUBSET States,
                 once : SUBSET States]]
    /\ \A b \in {preproc, plive, destroying, blive, qlive, overlap, racing} : b \in BOOLEAN
    /\ free \subseteq Events /\ retained \subseteq Events /\ leaked \subseteq Events
    /\ refs \in [Events -> Nat]
    /\ queue \in Seq(Events \cup {Kill})
    /\ wev \in Events \cup {NoEvent}
    /\ wi \in Machines /\ mi \in Machines
    /\ wst \in States \cup {NoState}
    /\ starts \in 0..MaxStarts
    /\ pc \in [Callers -> {"idle", "alloc", "dispatch", "block", "enqueue"}]
    /\ mem \in [Callers -> Events \cup {NoEvent}]
    /\ posts \in 0..MaxPosts
    /\ inside \in [Machines -> States \cup {NoState}]
    /\ stopped \subseteq Machines
    /\ ended \in Ends

\* f_enter and f_exit alternate and are paired, over any number of starts,
\* transitions and stops: the state a machine has entered and not left is its
\* current state, except between the two callbacks of a transition and during
\* a start. This holds as long as the client keeps its starts and stops apart
\* from the machine the worker is at, and no f_exit or f_init stops the loop.
\* state_event_loop_deinit takes the loop apart when the worker has ended and,
\* if no post was past its test of destroying when it began, every accepted
\* event has been handled; it leaves no state entered.
CallbacksPaired ==
    /\ ~overlap /\ ended = "no" =>
        \A i \in Machines :
            inside[i] = IF \/ wpc \in {"exiting", "enter", "initing"} /\ wi = i
                           \/ mpc \in {"flag", "enter"} /\ mi = i
                        THEN NoState ELSE sm[i].current
    /\ mpc \in {"drop_blocks", "drop_queue", "deinit_stop", "deinit_pool", "done"} =>
        wpc = "ended" /\ (~racing => queue = <<>>)
    /\ mpc \in {"deinit_pool", "done"} /\ ~overlap =>
        \A i \in Machines : inside[i] = NoState

\* A machine transitions before the next one sees the event, and a request is
\* never left over for a later event: requests exist only between
\* f_handle_event and the transition of the machine the worker is at ("each
\* state machine processing and transitioning before the next state machine
\* processes the event", docs/state_event_loop.md, lines 7-8).
TransitionsSettled ==
    ~overlap /\ ended = "no" =>
        \A i \in Machines :
            sm[i].requested =>
                /\ wpc = "transition" /\ wi = i
                /\ sm[i].next # sm[i].current

\* The owners of references to event e.
Owners(e) ==
    {<<"post", t>> : t \in {u \in Callers : mem[u] = e}}
        \cup {<<"queue", i>> : i \in {j \in 1..Len(queue) : queue[j] = e}}
        \cup {<<"worker", x>> : x \in {wev} \cap {e}}
        \cup {<<"listener", x>> : x \in retained \cap {e}}
        \cup {<<"leaked", x>> : x \in leaked \cap {e}}

\* An event block is free exactly when nobody has a reference to it. When the
\* worker has ended and no post is under way, the references that nobody will
\* release are those of listeners, of posts that dispatch_async_f refused, and,
\* if a post raced with the destruction, of events accepted behind the kill
\* request.
EventsConserved ==
    \A e \in Events :
        /\ refs[e] = Cardinality(Owners(e))
        /\ e \in free <=> refs[e] = 0
        /\ wpc = "ended" /\ mem = [t \in Callers |-> NoEvent] /\ e \notin free =>
            \/ e \in retained \cup leaked
            \/ racing /\ \E i \in 1..Len(queue) : queue[i] = e

\* What ends the program. A post finds no event only if all are in use or the
\* loop has been taken apart. The dispatch queue, which has as many blocks as
\* the event pool, runs out of them only while the worker has released its
\* event and not yet freed its block; otherwise a post fails in it, at the
\* blocks or at a queue that the kill request has filled, only if it raced with
\* the destruction. The kill request finds no room only if all events are
\* queued. A NULL current_state is met only at a machine that was stopped and
\* has not been started again, even if starts and stops overlap the worker.
EndCauses ==
    /\ ended = "event_pool" => free = {} \/ mpc = "done"
    /\ ended = "dispatch_pool" => wpc = "free" \/ (racing /\ wpc = "ended")
    /\ ended = "dispatch_queue" => destroying /\ racing
    /\ ended = "kill" => \A e \in Events : \E i \in 1..Len(queue) : queue[i] = e
    /\ ended = "null" =>
        \/ mpc = "enter" /\ mi \in stopped
        \/ WorkerAt \cap stopped # {}
=============================================================================
