---------------------------- MODULE MCYtsMessages ----------------------------
(***************************************************************************)
(* YtsMessages with a remote control c and two applications on one other   *)
(* device, both for capability cap.                                        *)
(***************************************************************************)
EXTENDS YtsMessages, TLC

CONSTANTS m1, m2, m3, c, s1, s2, cap

Servers == {s1, s2}
Everyone == {c} \cup Servers
Devices == [p \in Everyone |-> IF p = c THEN "remote" ELSE "host"]
SeesTheOther == [p \in Everyone |-> IF p = c THEN Servers ELSE {c}]
Published == [p \in Everyone |-> IF p = c THEN {} ELSE {cap}]

\* One direction of either side's roster changes, the other two stay.
ComeAndGo == {<<s1, c>>, <<c, s2>>}

SomeTexts == {"t"}
SomeLists == {<<"t", "t">>}
SomeDictionaries == {<<"t", "u", "v", "t">>}

Symmetry == Permutations({m2, m3})
=============================================================================
