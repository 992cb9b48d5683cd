----------------------------- MODULE MCTsClient -----------------------------
(* TsClient for TLC: the tasks are interchangeable. *)
EXTENDS TsClient, TLC

Symmetric == Permutations(Task)
=============================================================================
