---------------------------- MODULE MCMqAccounts ----------------------------
(***************************************************************************)
(* MqAccounts with three requests of one user and one of another.          *)
(***************************************************************************)
EXTENDS MqAccounts

MCUserOf == [r \in Requests |-> IF r = 4 THEN "bob" ELSE "alice"]
===============================================================================
