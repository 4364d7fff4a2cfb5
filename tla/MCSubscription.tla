---------------------------- MODULE MCSubscription ----------------------------
(***************************************************************************)
(* Subscription with interchangeable writers and subscribers: no property  *)
(* of the run tells one from another, and none is a liveness property.     *)
(***************************************************************************)
EXTENDS Subscription, TLC

MCSymmetry == Permutations(Writers) \cup Permutations(Subscribers)
===============================================================================
