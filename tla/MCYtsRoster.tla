----------------------------- MODULE MCYtsRoster -----------------------------
(***************************************************************************)
(* YtsRoster on small meshes.  Contacts, services and statuses are only    *)
(* compared, so any permutation of them that respects Caps and Reports is  *)
(* a symmetry.                                                             *)
(***************************************************************************)
EXTENDS YtsRoster, TLC

CONSTANTS c1, c2, s1, s2, x, y

\* Two requests in flight for the first contact, one for the second.
Pendings == c1 :> 2 @@ c2 :> 1
Singles == [c \in Contacts |-> 1]

\* One service of each contact has a status, which changes for the contact that
\* is asked for once at a time.
FewReports == c1 :> (s1 :> {x} @@ s2 :> {}) @@ c2 :> (s1 :> {x, y} @@ s2 :> {})
AllReports == [c \in Contacts |-> [s \in Services |-> Statuses]]

\* Every service announces every capability.
AllCaps == [s \in Services |-> Capabilities]

Symmetry == Permutations(Services) \cup Permutations(Statuses)
=============================================================================
