---------------------------- MODULE MCPyAnswers ----------------------------
(* PyAnswers for TLC: the items are interchangeable. *)
EXTENDS PyAnswers, TLC

Symmetric == Permutations(Item)
=============================================================================
