------------------------------ MODULE MCTsQueue ------------------------------
(* Instances of TsQueue for TLC: two producers and two consumers on a ring *)
(* of one or two slots.                                                    *)
EXTENDS TsQueue, TLC

\* Threads of the same role, and items, are interchangeable.
Interchangeable ==
    Permutations(Producers) \cup Permutations(Consumers) \cup Permutations(Items)
=============================================================================
