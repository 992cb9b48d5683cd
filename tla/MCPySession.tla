----------------------------- MODULE MCPySession -----------------------------
(****************************************************************************)
(* Instances of PySession for TLC: the operations a run uses.               *)
(****************************************************************************)
EXTENDS PySession, TLC

RequestsOnly == {"request"}
AllCalls == {"request", "connect", "disconnect"}

ConnectFirst == {"connect"}
Unstructured == {}

Tasks == Permutations(Task)
=============================================================================
