--------------------------- MODULE MCDispatchQueue ---------------------------
(* Instances of DispatchQueue for TLC.                                     *)
EXTENDS DispatchQueue, TLC

\* Blocks, and threads of the same role, are interchangeable.
Interchangeable ==
    Permutations(Blocks) \cup Permutations(Posters) \cup Permutations(Destroyers)
=============================================================================
