---------------------------- MODULE MCPyResources ----------------------------
(****************************************************************************)
(* Instances of PyResources for TLC: the symmetry of actors and names.      *)
(****************************************************************************)
EXTENDS PyResources, TLC

Symmetric == Permutations(Actor) \cup Permutations(Name)
=============================================================================
