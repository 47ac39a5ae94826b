----------------------------- MODULE MCUnlocked ------------------------------
(***************************************************************************)
(* The parts of the library that share state outside a mutex, for TLC: the *)
(* offsets of the ring buffer, the control block of a task that is being   *)
(* created, the objects of the FreeRTOS port, used by tasks and by         *)
(* interrupt handlers, and the notifier, which clears a block after it has *)
(* unlocked and goes on when it has not locked. They are independent, so a *)
(* behaviour is one of any of them, chosen at the start. The ring buffer's *)
(* stream crosses the end of the word its ranges are held in.              *)
(***************************************************************************)
EXTENDS RingBuffer, FreeRtos, Task, Notifier, TLC

VARIABLE subject    \* which of them

MCInit ==
    /\ RingInit /\ RtosInit /\ TaskInit /\ Init
    /\ subject \in {"ring", "freertos", "task", "notifier"}
    /\ subject # "task" => port = "freertos"

MCNext ==
    /\ \/ subject = "ring" /\ RingNext /\ UNCHANGED <<rtosvars, taskvars, vars>>
       \/ subject = "freertos" /\ RtosNext /\ UNCHANGED <<rbvars, taskvars, vars>>
       \/ subject = "task" /\ TaskNext /\ UNCHANGED <<rbvars, rtosvars, vars>>
       \/ subject = "notifier" /\ Next /\ UNCHANGED <<rbvars, rtosvars, taskvars>>
    /\ UNCHANGED subject

MCSpec == MCInit /\ [][MCNext]_<<subject, rbvars, rtosvars, taskvars, vars>>

\* The blocks of the notifier are interchangeable.
Interchangeable == Permutations(Blocks)
=============================================================================
