------------------------------ MODULE FreeRtos ------------------------------
(***************************************************************************)
(* The queue and the event flag of the FreeRTOS port                       *)
(* (inc/cutils/freertos/ts_queue.h, event_flag.h, task.h), called by tasks *)
(* of distinct priorities and by an interrupt handler. The kernel is       *)
(* external: a task that readies one of a higher priority is preempted by  *)
(* it; a handler only learns of it, and has to yield at its end. Items are *)
(* not told apart, the queue is their number.                              *)
(***************************************************************************)
EXTENDS Integers, FiniteSets

CONSTANTS
    Tasks,          \* their priorities: 1 is the lowest, 0 the idle task's
    Sizes,          \* sizes a queue is asked for
    Bits,           \* the usable bits, EVENT_FLAG_VALID_BITS
    Reserved,       \* bits of the word beyond them
    Asked,          \* the sets of bits that calls are made with
    MaxIsrCalls     \* bound: the calls of one interrupt handler

\* A kernel has a highest priority, and keeps some bits of the word to itself;
\* a call may name any bits.
ASSUME PriorityAssumption ==
    Tasks \subseteq Nat \ {0} /\ \E n \in Tasks : \A t \in Tasks : t <= n
ASSUME BitsAssumption ==
    Bits \cap Reserved = {} /\ \A b \in Asked : b \subseteq Bits \cup Reserved

VARIABLES
    size,           \* of the queue; 0 without a handle
    count,          \* its items
    group,          \* the handle of the event group
    bits,           \* the bits that are set
    call,           \* the kernel call a task is in
    running,        \* the task that has the processor
    isr,            \* the interrupt handler
    deferred,       \* a handler has accepted a deferred context switch
    waited          \* how the last event_flag_wait to end did

rtosvars == <<size, count, group, bits, call, running, isr, deferred, waited>>
qvars == <<size, count>>
evars == <<group, bits, waited>>

Idle == 0
Timeouts == {"none", "some", "forever"}
NoCall == [fn |-> "none"]
NoIsr == [on |-> FALSE, calls |-> 0, flag |-> FALSE, woken |-> FALSE]
NotWaited == [ret |-> FALSE, met |-> FALSE, beyond |-> FALSE]

\* The task of the highest priority.
HighestOf(S) == IF S = {} THEN Idle ELSE CHOOSE t \in S : \A u \in S : u <= t

RtosInit ==
    /\ size = 0 /\ count = 0
    /\ group = FALSE /\ bits = {}
    /\ call = [t \in Tasks |-> NoCall]
    /\ running = HighestOf(Tasks)
    /\ isr = NoIsr /\ deferred = FALSE
    /\ waited = NotWaited

-----------------------------------------------------------------------------
(* The kernel.                                                             *)

Blocked(c, t) == c[t].fn # "none" /\ c[t].blocked
Waiting(fn) == {t \in Tasks : Blocked(call, t) /\ call[t].fn = fn}

\* The context switch of a task's call.
Schedule(c) == running' = HighestOf({t \in Tasks : ~Blocked(c, t)})

\* The task of the highest priority among those that wait is readied.
WakeOne(c, fn) ==
    IF Waiting(fn) = {} THEN c
    ELSE [c EXCEPT ![HighestOf(Waiting(fn))].blocked = FALSE]

InTask(t) == running = t /\ ~isr.on
MayCall(t) == InTask(t) /\ call[t] = NoCall

-----------------------------------------------------------------------------
\* Only a power of two is accepted. No task uses the queue.
ts_queue_init(t, n) ==
    /\ MayCall(t) /\ size = 0
    /\ \E k \in 0..n : n = 2^k
    /\ size' = n /\ count' = 0
    /\ UNCHANGED <<evars, call, running, isr, deferred>>

ts_queue_destroy(t) ==
    /\ MayCall(t) /\ size # 0
    /\ \A u \in Tasks : call[u].fn \notin {"send", "receive"}
    /\ size' = 0 /\ count' = 0
    /\ UNCHANGED <<evars, call, running, isr, deferred>>

\* What xQueueSend and xQueueReceive do, when called and when woken: the item
\* is moved, or the task waits for the rest of its time, or gives up.
Attempt(t, c) ==
    LET possible == IF c.fn = "send" THEN count < size ELSE count > 0
        other == IF c.fn = "send" THEN "receive" ELSE "send"
        after == CASE possible -> WakeOne([call EXCEPT ![t] = NoCall], other)
                   [] ~possible /\ c.left = "none" -> [call EXCEPT ![t] = NoCall]
                   [] OTHER -> [call EXCEPT ![t] = [c EXCEPT !.blocked = TRUE]]
    IN  /\ call' = after
        /\ count' = IF ~possible THEN count
                    ELSE IF c.fn = "send" THEN count + 1 ELSE count - 1
        /\ Schedule(after)
        /\ UNCHANGED <<size, evars, isr, deferred>>

ts_queue_enqueue(t, wait_ms) ==
    /\ MayCall(t) /\ size # 0
    /\ Attempt(t, [fn |-> "send", left |-> wait_ms, blocked |-> FALSE])

ts_queue_dequeue(t, wait_ms) ==
    /\ MayCall(t) /\ size # 0
    /\ Attempt(t, [fn |-> "receive", left |-> wait_ms, blocked |-> FALSE])

Resume(t) ==
    /\ InTask(t) /\ call[t].fn \in {"send", "receive"}
    /\ Attempt(t, call[t])

-----------------------------------------------------------------------------
event_flag_new(t) ==
    /\ MayCall(t) /\ ~group
    /\ group' = TRUE /\ bits' = {}
    /\ UNCHANGED <<qvars, waited, call, running, isr, deferred>>

\* No task waits.
event_flag_free(t) ==
    /\ MayCall(t) /\ group
    /\ \A u \in Tasks : call[u].fn # "bits"
    /\ group' = FALSE
    /\ UNCHANGED <<qvars, bits, waited, call, running, isr, deferred>>

Met(c, b) == IF c.all THEN c.required \intersect Bits \subseteq b
             ELSE c.required \intersect b # {}

\* Mutation: all the bits are asked for, and one of them is enough.
ReturnsAny(c, got) == got \intersect c.required # {}

\* What event_flag_wait makes of the bits it got, with the bits it was asked
\* for and not those it has asked the kernel for.
Returns(c, got) ==
    IF c.all THEN got \intersect c.required = c.required
    ELSE got \intersect c.required # {}

WaitEnds(c, got, met) ==
    [ret |-> Returns(c, got), met |-> met,
     beyond |-> c.all /\ c.required \intersect Reserved # {}]

\* xEventGroupWaitBits; the bits asked for are masked with the usable ones.
event_flag_wait(t, required, all, clear, wait_ms) ==
    LET c == [fn |-> "bits", required |-> required, all |-> all, clear |-> clear,
              left |-> wait_ms, blocked |-> TRUE, got |-> {}]
        ends == Met(c, bits) \/ wait_ms = "none"
        after == IF ends THEN call ELSE [call EXCEPT ![t] = c]
    IN  /\ MayCall(t) /\ group
        /\ required \intersect Bits # {}
        /\ waited' = IF ends THEN WaitEnds(c, bits, Met(c, bits)) ELSE waited
        /\ bits' = IF ends /\ Met(c, bits) /\ clear THEN bits \ required ELSE bits
        /\ call' = after /\ Schedule(after)
        /\ UNCHANGED <<qvars, group, isr, deferred>>

\* Woken with the bits that were set then, or timed out with those set now.
WaitResume(t) ==
    LET c == call[t]
        got == IF c.got # {} THEN c.got ELSE bits
        late == c.got = {} /\ Met(c, bits)
    IN  /\ InTask(t) /\ call[t].fn = "bits"
        /\ waited' = WaitEnds(c, got, c.got # {} \/ late)
        /\ bits' = IF late /\ c.clear THEN bits \ c.required ELSE bits
        /\ call' = [call EXCEPT ![t] = NoCall]
        /\ UNCHANGED <<qvars, group, running, isr, deferred>>

\* xEventGroupSetBits wakes every task whose bits are there, and then takes off
\* the bits that they clear.
event_flag_send(t, flag_bits) ==
    LET set == bits \union (flag_bits \intersect Bits)
        woken == {u \in Waiting("bits") : Met(call[u], set)}
        after == [u \in Tasks |-> IF u \in woken
                                  THEN [call[u] EXCEPT !.blocked = FALSE, !.got = set]
                                  ELSE call[u]]
    IN  /\ MayCall(t) /\ group
        /\ bits' = set \ UNION {call[u].required : u \in {v \in woken : call[v].clear}}
        /\ call' = after /\ Schedule(after)
        /\ UNCHANGED <<qvars, group, waited, isr, deferred>>

event_flag_clear(t, flag_bits) ==
    /\ MayCall(t) /\ group
    /\ bits' = bits \ (flag_bits \intersect Bits)
    /\ UNCHANGED <<qvars, group, waited, call, running, isr, deferred>>

-----------------------------------------------------------------------------
\* An interrupt: its handler passes a flag to its calls, or NULL.
IsrBegin(flag) ==
    /\ ~isr.on
    /\ isr' = [NoIsr EXCEPT !.on = TRUE, !.flag = flag]
    /\ UNCHANGED <<qvars, evars, call, running, deferred>>

\* Mutation: the flag is stored whether it says so or not.
FlagStored(wakes) == isr.flag /\ wakes

\* *higher_priority_task_woken after a call that woke a higher task, or not.
FlagAfter(wakes) == IF isr.flag /\ wakes THEN TRUE ELSE isr.woken

\* xQueueSendFromISR, xQueueReceiveFromISR
FromIsr(possible, change, other) ==
    LET after == IF possible THEN WakeOne(call, other) ELSE call
        wakes == after # call /\ HighestOf(Waiting(other)) > running
    IN  /\ isr.on /\ isr.calls < MaxIsrCalls /\ size # 0
        /\ isr' = [isr EXCEPT !.calls = @ + 1, !.woken = FlagAfter(wakes)]
        /\ count' = IF possible THEN count + change ELSE count
        /\ call' = after
        /\ UNCHANGED <<size, evars, running, deferred>>

ts_queue_enqueue_from_isr == FromIsr(count < size, 1, "receive")
ts_queue_dequeue_from_isr == FromIsr(count > 0, -1, "send")

\* The handler ends with task_yield_from_isr, or returns without a flag.
task_yield_from_isr ==
    /\ isr.on
    /\ isr' = NoIsr
    /\ deferred' = (deferred \/ ~isr.flag)
    /\ IF isr.woken THEN Schedule(call) ELSE UNCHANGED running
    /\ UNCHANGED <<qvars, evars, call>>

\* The tick: some tasks have waited long enough.
Tick ==
    /\ ~isr.on
    /\ \E S \in SUBSET {t \in Tasks : Blocked(call, t) /\ call[t].left = "some"} :
        LET after == [t \in Tasks |-> IF t \in S
                            THEN [call[t] EXCEPT !.left = "none", !.blocked = FALSE]
                            ELSE call[t]]
        IN  call' = after /\ Schedule(after)
    /\ deferred' = FALSE
    /\ UNCHANGED <<qvars, evars, isr>>

RtosNext ==
    \/ \E t \in Tasks :
        \/ \E n \in Sizes : ts_queue_init(t, n)
        \/ ts_queue_destroy(t)
        \/ \E w \in Timeouts : ts_queue_enqueue(t, w) \/ ts_queue_dequeue(t, w)
        \/ Resume(t)
        \/ event_flag_new(t) \/ event_flag_free(t)
        \/ \E r \in Asked, a, c \in BOOLEAN, w \in Timeouts :
                event_flag_wait(t, r, a, c, w)
        \/ WaitResume(t)
        \/ \E b \in Asked :
                event_flag_send(t, b) \/ event_flag_clear(t, b)
    \/ \E flag \in BOOLEAN : IsrBegin(flag)
    \/ ts_queue_enqueue_from_isr
    \/ ts_queue_dequeue_from_isr
    \/ task_yield_from_isr
    \/ Tick

RtosSpec == RtosInit /\ [][RtosNext]_rtosvars

-----------------------------------------------------------------------------
\* Outside of an interrupt the task that runs is the one of the highest priority
\* that is ready, however many calls of one handler share the flag and whichever
\* of them woke it; only a handler without a flag puts it off to the next tick.
WokenRuns ==
    ~isr.on /\ ~deferred =>
        running = HighestOf({t \in Tasks : ~Blocked(call, t)})

\* event_flag_wait is true exactly when the bits it waited for were there, which
\* is when the kernel has taken them off: otherwise they are lost. It is false
\* all the same when all of some bits were asked for, a reserved one among them.
FlagsReported ==
    IF waited.beyond THEN ~waited.ret ELSE waited.ret = waited.met
=============================================================================
