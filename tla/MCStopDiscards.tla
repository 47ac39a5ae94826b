--------------------------- MODULE MCStopDiscards ----------------------------
(***************************************************************************)
(* StateEventLoop with a history of the events posted since the last stop, *)
(* for what the header of state_machine_stop says of them.                 *)
(***************************************************************************)
EXTENDS StateEventLoop

VARIABLE fresh  \* the events allocated since a machine was last stopped

StopsAMachine == \E i \in Machines : sm[i].current # NoState /\ sm'[i].current = NoState

WatchedInit == Init /\ fresh = {}

WatchedNext ==
    /\ Next
    /\ fresh' = (IF StopsAMachine THEN {} ELSE fresh \ free') \cup (free \ free')

WatchedSpec == WatchedInit /\ [][WatchedNext]_<<vars, fresh>>

\* What state_machine.h, lines 134-135, says of state_machine_stop: "All
\* subsequent events posted will be discarded". An event that was posted after
\* the last stop does not reach the missing state of a stopped machine, if the
\* client keeps its starts and stops apart from the worker, as the same comment
\* asks.
StopDiscards == ended = "null" /\ ~overlap => wev \notin fresh
=============================================================================
