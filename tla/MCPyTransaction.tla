--------------------------- MODULE MCPyTransaction ---------------------------
(****************************************************************************)
(* Instances of PyTransaction for TLC: the symmetry of the tasks.           *)
(****************************************************************************)
EXTENDS PyTransaction, TLC

Tasks == Permutations(Task)
=============================================================================
