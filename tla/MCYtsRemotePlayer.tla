-------------------------- MODULE MCYtsRemotePlayer --------------------------
(***************************************************************************)
(* YtsRemotePlayer with a switch for a property, two invocation ids and    *)
(* two proxies.                                                            *)
(***************************************************************************)
EXTENDS YtsRemotePlayer, TLC
=============================================================================
