---------------------------- MODULE SlidingWindow ----------------------------
(***************************************************************************)
(* What the two overwriting byte rings of the library promise, the         *)
(* accumulator (inc/cutils/accumulator.h) and the log buffer               *)
(* (src/log_buffer.c): the newest bytes are kept, in order, as many as the *)
(* ring can hold, and a reader takes them from the oldest on.              *)
(***************************************************************************)
EXTENDS Integers, Sequences

CONSTANT Capacity     \* how many bytes are kept

VARIABLES
    window,     \* the bytes that are kept, the oldest first
    put,        \* the bytes of the last call, if it was a push
    took,       \* the bytes that call took, if it was a read
    broken      \* the client has dropped more than there was

\* The last n elements of s.
Newest(s, n) == IF Len(s) <= n THEN s ELSE SubSeq(s, Len(s) - n + 1, Len(s))

Init == window = <<>> /\ put = <<>> /\ took = <<>> /\ broken = FALSE

\* New bytes, whichever the client likes, push the oldest ones out.
Push ==
    /\ window' = Newest(window \o put', Capacity)
    /\ took' = <<>> /\ UNCHANGED broken

\* The oldest n bytes go, and the client may get them.
Take(n) ==
    /\ n <= Len(window)
    /\ took' \in {SubSeq(window, 1, n), <<>>}
    /\ window' = SubSeq(window, n + 1, Len(window))
    /\ put' = <<>> /\ UNCHANGED broken

Clear == window' = <<>> /\ broken' = FALSE /\ put' = <<>> /\ took' = <<>>

\* Dropping more than there is leaves bytes without a meaning, until the ring
\* is cleared.
Break == broken' = TRUE

Next ==
    \/ ~broken /\ Push
    \/ ~broken /\ \E n \in 0..Capacity : Take(n)
    \/ Clear
    \/ Break

Spec == Init /\ [][Next]_<<window, put, took, broken>>
=============================================================================
