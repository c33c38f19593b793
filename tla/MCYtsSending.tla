----------------------------- MODULE MCYtsSending -----------------------------
(***************************************************************************)
(* YtsSending with one message more than there are atoms, so that the      *)
(* counter starts again; the messages are alike.                           *)
(***************************************************************************)
EXTENDS YtsSending, TLC

Symmetry == Permutations(Messages)
=============================================================================
