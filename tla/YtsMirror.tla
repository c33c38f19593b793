------------------------------ MODULE YtsMirror ------------------------------
(***************************************************************************)
(* What a proxy promises about a property of a remote service: it shows a  *)
(* value the property has had, never one that was not there yet, and never *)
(* goes back to an earlier one.  Nothing is said about how far behind it   *)
(* is.                                                                     *)
(***************************************************************************)
EXTENDS Naturals, Sequences

CONSTANTS
  Values,    \* values of the property
  Mirrors    \* proxies

VARIABLES
  history,   \* the values the property has had, the present one last
  seen       \* seen[m]: the value m shows, as an index into history, or 0

Init ==
  /\ \E v \in Values : history = <<v>>
  /\ seen = [m \in Mirrors |-> 0]

\* The property is set.
Set(v) ==
  /\ history' = Append(history, v)
  /\ UNCHANGED seen

\* A proxy, new or not, learns of a value later than the one it shows.
Learn(m) ==
  /\ \E n \in (seen[m] + 1)..Len(history) : seen' = [seen EXCEPT ![m] = n]
  /\ UNCHANGED history

\* A proxy is destroyed.
Forget(m) ==
  /\ seen' = [seen EXCEPT ![m] = 0]
  /\ UNCHANGED history

Next ==
  \/ \E v \in Values : Set(v)
  \/ \E m \in Mirrors : Learn(m) \/ Forget(m)

Spec == Init /\ [][Next]_<<history, seen>>
=============================================================================
