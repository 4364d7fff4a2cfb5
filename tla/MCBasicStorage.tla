---------------------------- MODULE MCBasicStorage ----------------------------
(***************************************************************************)
(* BasicStorage with a key that is also a directory, one below it and one  *)
(* two levels down.                                                        *)
(***************************************************************************)
EXTENDS BasicStorage

MCSegments == {"u", "x", "y", "z"}
MCKeys == {<<"u", "x">>, <<"u", "x", "y">>, <<"u", "x", "y", "z">>}

\* Nanoseconds from 30 on, in seconds of ten nanoseconds each.
MCTimes == 30 .. 34
===============================================================================
