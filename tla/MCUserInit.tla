------------------------------ MODULE MCUserInit ------------------------------
(***************************************************************************)
(* UserInit with a protocol that builds on the one before it.              *)
(***************************************************************************)
EXTENDS UserInit

MCAfter == [p \in Protocols |-> 1 .. p - 1]
===============================================================================
