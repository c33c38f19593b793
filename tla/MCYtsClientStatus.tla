------------------------- MODULE MCYtsClientStatus -------------------------
(***************************************************************************)
(* YtsClientStatus, and with it YtsConnection, on a small instance.        *)
(***************************************************************************)
EXTENDS YtsClientStatus
=============================================================================
