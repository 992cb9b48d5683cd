------------------------------ MODULE MCPyWire ------------------------------
(* PyWire for TLC: the values are interchangeable. *)
EXTENDS PyWire, TLC

Symmetric == Permutations(Value)
=============================================================================
