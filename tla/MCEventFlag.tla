----------------------------- MODULE MCEventFlag -----------------------------
(* Instances of EventFlag for TLC.                                         *)
EXTENDS EventFlag, TLC

CONSTANTS b1, b2

Request(mask, type, wait) == [mask |-> mask, type |-> type, wait |-> wait]

\* Every wait type and every timeout, on masks that overlap.
MixedRequests ==
    {Request({b1}, "OR_CLEAR", "forever"), Request({b1, b2}, "OR_CLEAR", "timed"),
     Request({b1, b2}, "AND_CLEAR", "forever"), Request({b1, b2}, "AND", "timed"),
     Request({b2}, "OR", "nosleep")}
=============================================================================
