--------------------------- MODULE MCThreadClient ---------------------------
(* ThreadClient for TLC: the threads are interchangeable. *)
EXTENDS ThreadClient, TLC

Symmetric == Permutations(Thread)
=============================================================================
