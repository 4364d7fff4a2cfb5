---------------------------- MODULE MCTaskStorage ----------------------------
(***************************************************************************)
(* TaskStorage with interchangeable tasks; its properties are invariants.  *)
(***************************************************************************)
EXTENDS TaskStorage, TLC

MCSymmetry == Permutations(Tasks)
===============================================================================
