----------------------------- MODULE MCAsyncio -------------------------------
(* Instances of Asyncio for TLC.                                           *)
EXTENDS Asyncio, TLC

Interchangeable == Permutations(Tokens)
=============================================================================
