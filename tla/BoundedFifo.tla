----------------------------- MODULE BoundedFifo -----------------------------
(***************************************************************************)
(* What ts_queue promises its callers: a first-in first-out queue of at    *)
(* most Size items, each of whose calls takes effect in one step between   *)
(* its invocation and its return (inc/cutils/ts_queue.h.in, lines 31-64).  *)
(* A call that says true took effect exactly once; a call that says false  *)
(* took none, and only a call with a finite timeout may say false.         *)
(***************************************************************************)
EXTENDS Naturals, Sequences

CONSTANTS
    Threads,    \* the calling threads
    Items,      \* the non-NULL pointers that are queued
    NoItem,     \* the NULL pointer
    Size        \* the capacity

VARIABLES
    q,          \* the queued items, oldest first
    status,     \* status[t]: where thread t is in its call
    call,       \* call[t]: the call thread t made last
    ret         \* ret[t]: the item thread t's last dequeue delivered

vars == <<q, status, call, ret>>

WaitKinds == {"forever", "timed"}

\* The calls: ts_queue_enqueue of an item, ts_queue_dequeue.
Calls ==
    [kind : {"enqueue"}, item : Items, wait : WaitKinds]
        \cup [kind : {"dequeue"}, item : {NoItem}, wait : WaitKinds]

Init ==
    /\ q = <<>>
    /\ status = [t \in Threads |-> "idle"]
    /\ call \in [Threads -> Calls]
    /\ ret = [t \in Threads |-> NoItem]

Invoke(t) ==
    /\ status[t] = "idle"
    /\ \E c \in Calls : call' = [call EXCEPT ![t] = c]
    /\ status' = [status EXCEPT ![t] = "pending"]
    /\ ret' = [ret EXCEPT ![t] = NoItem]
    /\ UNCHANGED q

Enqueue(t) ==
    /\ status[t] = "pending"
    /\ call[t].kind = "enqueue"
    /\ Len(q) < Size
    /\ q' = Append(q, call[t].item)
    /\ status' = [status EXCEPT ![t] = "done"]
    /\ UNCHANGED <<call, ret>>

Dequeue(t) ==
    /\ status[t] = "pending"
    /\ call[t].kind = "dequeue"
    /\ q # <<>>
    /\ q' = Tail(q)
    /\ ret' = [ret EXCEPT ![t] = Head(q)]
    /\ status' = [status EXCEPT ![t] = "done"]
    /\ UNCHANGED call

Fail(t) ==
    /\ status[t] = "pending"
    /\ call[t].wait = "timed"
    /\ status' = [status EXCEPT ![t] = "failed"]
    /\ UNCHANGED <<q, call, ret>>

Return(t) ==
    /\ status[t] \in {"done", "failed"}
    /\ status' = [status EXCEPT ![t] = "idle"]
    /\ UNCHANGED <<q, call, ret>>

Next ==
    \E t \in Threads :
        Invoke(t) \/ Enqueue(t) \/ Dequeue(t) \/ Fail(t) \/ Return(t)

Spec == Init /\ [][Next]_vars
=============================================================================
