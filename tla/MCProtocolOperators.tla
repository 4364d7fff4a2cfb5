------------------------- MODULE MCProtocolOperators -------------------------
(***************************************************************************)
(* ProtocolOperators with interchangeable users and calls.                 *)
(***************************************************************************)
EXTENDS ProtocolOperators, TLC

Symmetry == Permutations(Users) \cup Permutations(Instances) \cup Permutations(Stops)
==============================================================================
