-------------------------- MODULE MCYtsVideoProfile --------------------------
(***************************************************************************)
(* YtsVideoProfile with a remote control that plays, pauses and skips, and *)
(* one that skips back, sets the volume or the URI, and has the locale     *)
(* changed.  A volume goes from 0 to 0.03 and to 0.01, within 0.01 of what *)
(* a new proxy shows.                                                      *)
(***************************************************************************)
EXTENDS YtsVideoProfile

CONSTANTS r1, r2

Set(a, v) == [name |-> a, value |-> v]
Call(a) == [name |-> a, value |-> 0]

TwoCommands ==
  [r \in {r1, r2} |->
     IF r = r1 THEN {Set("playing", TRUE), Call("pause"), Call("next")}
     ELSE {NoCommand, Call("play"), Call("prev"), Set("playable-uri", "u")} \cup
          {Set("volume", v) : v \in Volumes}]

TwoLocales == <<"en_GB", "de_AT">>
SecondAsks == [r \in {r1, r2} |-> IF r = r1 THEN {} ELSE {"de_AT", "fr_FR"}]
=============================================================================
