-------------------------- MODULE MCYtsInvocations --------------------------
(***************************************************************************)
(* YtsInvocations with two peers: each runs a service of its own, or both  *)
(* run the same one, as two remote controls do, and one of them may run    *)
(* another service beside it.                                              *)
(***************************************************************************)
EXTENDS YtsInvocations, TLC

CONSTANTS p1, p2, u1, u2

OwnUids == p1 :> {u1} @@ p2 :> {u2}
SharedUids == p1 :> {u1} @@ p2 :> {u1}
MixedUids == p1 :> {u1, u2} @@ p2 :> {u1}

Symmetry == Permutations(Objects) \cup Permutations(InvocationIds)
=============================================================================
