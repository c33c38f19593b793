-------------------------- MODULE MCYtsConnection --------------------------
(***************************************************************************)
(* YtsConnection with a few ids for timers, which are interchangeable.     *)
(***************************************************************************)
EXTENDS YtsConnection, TLC

Symmetry == Permutations(Timers)
=============================================================================
