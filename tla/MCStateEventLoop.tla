-------------------------- MODULE MCStateEventLoop ---------------------------
(* Instances of StateEventLoop for TLC.                                    *)
EXTENDS StateEventLoop, TLC

\* Event blocks are interchangeable.
Interchangeable == Permutations(Events)
=============================================================================
