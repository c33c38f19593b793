------------------------ MODULE YtsConnectionProofs ------------------------
(***************************************************************************)
(* What holds of the connection's life for any supply of timer ids and any *)
(* number of Connect calls in flight.                                      *)
(*                                                                         *)
(* The invariants to prove are inductive once Unprepared joins them: a     *)
(* client whose account is not prepared has neither a connection nor a     *)
(* handler, which is why setup_tp_client may dial without looking.         *)
(* ListensOffline and NoDeadConnection hold each other up, and             *)
(* RetryPending leans on both: it is ListensOffline that turns a lost      *)
(* handler into a connection.                                              *)
(***************************************************************************)
EXTENDS YtsConnection, TLAPS

Unprepared == ~prepared => tp_conn = "none" /\ ~listening

Inv ==
  /\ TypeOK
  /\ TimerKnown
  /\ NoDeadConnection
  /\ ListensOffline
  /\ RetryPending
  /\ Unprepared

-----------------------------------------------------------------------------
(* What the shared parts of the actions leave behind. *)

\* yts_client_setup_account_connection, when the account has a connection,
\* leaves a client that has it and does not listen.
LEMMA SetupInv ==
  ASSUME Inv, account # "none", Setup
  PROVE  /\ tp_conn' = Borrowed /\ tp_conn' \in {"live", "dead"}
         /\ tp_conn' = "live" => account \in {"connecting", "connected"}
         /\ listening' = FALSE /\ authenticated' = FALSE /\ requested' = requested
<1>1. Borrowed \in {"live", "dead"}
      /\ (Borrowed = "live" => account \in {"connecting", "connected"})
  BY DEF Inv, TypeOK, Borrowed
<1>2. QED  BY <1>1 DEF Inv, TypeOK, ListensOffline, Setup

\* Dialling, on top of a timer's removal, leaves the client listening, with a
\* connection, or waiting for the account.
LEMMA DialInv ==
  ASSUME Inv, Dial, UNCHANGED <<account, prepared>>
  PROVE  /\ connect' = TRUE
         /\ calls' \in 0..MaxCalls
         /\ tp_conn' \in {"none", "live", "dead"}
         /\ listening' \in BOOLEAN /\ authenticated' \in BOOLEAN
         /\ requested' \in BOOLEAN
         /\ NoDeadConnection' /\ ListensOffline' /\ Unprepared'
         /\ tp_conn' = "none" => listening' \/ ~prepared
<1> USE ConnectionAssumption DEF ConnectionAssumption, Inv, TypeOK, NoDeadConnection, ListensOffline, Unprepared
<1>1. connect' = TRUE
  BY DEF Dial
<1>2. CASE tp_conn # "none"
  BY <1>1, <1>2 DEF Dial, conn_vars
<1>3. CASE tp_conn = "none"
  <2>1. UNCHANGED calls /\ MakeConnection
    BY <1>3 DEF Dial
  <2>2. CASE ~prepared
    BY <1>1, <1>3, <2>1, <2>2 DEF MakeConnection, conn_vars
  <2>3. CASE prepared /\ account = "none"
    BY <1>1, <1>3, <2>1, <2>3 DEF MakeConnection
  <2>4. CASE prepared /\ account # "none"
    <3>1. Setup
      BY <2>1, <2>4 DEF MakeConnection
    <3>2. QED  BY <1>1, <2>1, <2>4, <3>1, SetupInv
  <2>5. QED  BY <2>2, <2>3, <2>4
<1>4. QED  BY <1>2, <1>3

\* yts_client_reconnect_after leaves a timer, whose id the client knows.
LEMMA ReconnectAfterInv ==
  ASSUME NEW pending \in SUBSET Timers, ReconnectAfter(pending)
  PROVE  /\ reconnect' = TRUE
         /\ timers' \in SUBSET Timers /\ timers' # {}
         /\ reconnect_id' \in timers'
  BY DEF ReconnectAfter

-----------------------------------------------------------------------------
LEMMA InitInv == Init => Inv
<1> SUFFICES ASSUME Init PROVE Inv
  OBVIOUS
<1>1. TypeOK
  <2>1. /\ 0 \in 0..MaxCalls /\ ready \in BOOLEAN
        /\ account \in {"none", "connecting", "connected", "dead"}
    BY ConnectionAssumption DEF ConnectionAssumption, Init
  <2>2. QED  BY <2>1 DEF Init, TypeOK
<1>2. QED
  BY <1>1 DEF Init, Inv, TimerKnown, NoDeadConnection, ListensOffline, RetryPending, Unprepared

LEMMA StepInv == Inv /\ [Next]_vars => Inv'
<1> SUFFICES ASSUME Inv, [Next]_vars PROVE Inv'
  OBVIOUS
<1> USE ConnectionAssumption DEF ConnectionAssumption
<1>1. ASSUME Connect PROVE Inv'
  <2>1. Dial /\ UNCHANGED <<account, prepared>>
    BY <1>1 DEF Connect
  <2>2. timers' \in SUBSET Timers /\ reconnect_id' = NoTimer
    BY <1>1 DEF Connect, CancelReconnect, Inv, TypeOK
  <2>3. TypeOK'
    BY <1>1, <2>1, <2>2, DialInv DEF Connect, Inv, TypeOK
  <2>4. TimerKnown' /\ RetryPending'
    BY <2>1, <2>2, DialInv DEF TimerKnown, RetryPending
  <2>5. QED  BY <2>1, <2>3, <2>4, DialInv DEF Inv
<1>2. ASSUME Disconnect PROVE Inv'
  BY <1>2 DEF Disconnect, CancelReconnect, conn_vars, Inv, TypeOK, TimerKnown,
              NoDeadConnection, ListensOffline, RetryPending, Unprepared
<1>3. ASSUME NEW t \in Timers, TimerFires(t) PROVE Inv'
  <2>1. Dial /\ UNCHANGED <<account, prepared>>
    BY <1>3 DEF TimerFires
  <2>2. timers' \in SUBSET Timers /\ reconnect_id' = NoTimer
    BY <1>3 DEF TimerFires, Inv, TypeOK
  <2>3. TypeOK'
    BY <1>3, <2>1, <2>2, DialInv DEF TimerFires, Inv, TypeOK
  <2>4. TimerKnown' /\ RetryPending'
    BY <2>1, <2>2, DialInv DEF TimerKnown, RetryPending
  <2>5. QED  BY <2>1, <2>3, <2>4, DialInv DEF Inv
<1>4. ASSUME AccountPrepared PROVE Inv'
  <2>1. CASE connect /\ account # "none"
    <3>1. Setup
      BY <1>4, <2>1 DEF AccountPrepared
    <3>2. QED
      BY <1>4, <2>1, <3>1, SetupInv
         DEF AccountPrepared, flag_vars, call_vars, Inv, TypeOK, TimerKnown,
             NoDeadConnection, ListensOffline, RetryPending, Unprepared
  <2>2. CASE ~(connect /\ account # "none")
    BY <1>4, <2>2
       DEF AccountPrepared, flag_vars, conn_vars, call_vars, Inv, TypeOK, TimerKnown,
           NoDeadConnection, ListensOffline, RetryPending, Unprepared
  <2>3. QED  BY <2>1, <2>2
<1>5. ASSUME NEW ok \in BOOLEAN, PresenceAnswered(ok) PROVE Inv'
  BY <1>5 DEF PresenceAnswered, flag_vars, call_vars, Inv, TypeOK, TimerKnown,
              NoDeadConnection, ListensOffline, RetryPending, Unprepared
<1>6. ASSUME NEW ok \in BOOLEAN, StatusEnsured(ok) PROVE Inv'
  BY <1>6 DEF StatusEnsured, flag_vars, conn_vars, Inv, TypeOK, TimerKnown,
              NoDeadConnection, ListensOffline, RetryPending, Unprepared
<1>7. ASSUME AccountOnline PROVE Inv'
  BY <1>7 DEF AccountOnline, flag_vars, call_vars, Inv, TypeOK, TimerKnown,
              NoDeadConnection, ListensOffline, RetryPending, Unprepared
<1>8. ASSUME Connected PROVE Inv'
  BY <1>8 DEF Connected, flag_vars, call_vars, Inv, TypeOK, TimerKnown,
              NoDeadConnection, ListensOffline, RetryPending, Unprepared
<1>9. ASSUME ConnectionReady PROVE Inv'
  BY <1>9 DEF ConnectionReady, flag_vars, conn_vars, Inv, TypeOK, TimerKnown,
              NoDeadConnection, ListensOffline, RetryPending, Unprepared
<1>10. ASSUME Dropped PROVE Inv'
  <2>1. account' \in {"none", "dead"} /\ ~listening /\ ready' = FALSE
        /\ UNCHANGED <<wanted, connect, listening, requested, prepared, calls, ensuring, aborted>>
    BY <1>10 DEF Dropped, call_vars, Inv, TypeOK, ListensOffline
  <2>2. tp_conn' \in {"none", "dead"} /\ authenticated' \in BOOLEAN
        /\ (tp_conn = "none" => tp_conn' = "none")
        /\ (~prepared => tp_conn = "none")
    BY <1>10 DEF Dropped, WentDown, Inv, TypeOK, Unprepared
  <2>3. \/ /\ UNCHANGED <<reconnect, timers, reconnect_id>>
           /\ reconnect => tp_conn' = tp_conn
        \/ ReconnectAfter(timers)
    BY <1>10 DEF Dropped, WentDown
  <2>4. /\ reconnect' \in BOOLEAN /\ timers' \in SUBSET Timers
        /\ reconnect_id' \in Timers \cup {NoTimer}
        /\ TimerKnown'
        /\ reconnect' /\ tp_conn' = "none" =>
             timers' # {} \/ (tp_conn = "none" /\ UNCHANGED <<reconnect, timers>>)
    <3>1. CASE ReconnectAfter(timers)
      BY <3>1, ReconnectAfterInv DEF Inv, TypeOK, TimerKnown
    <3>2. CASE /\ UNCHANGED <<reconnect, timers, reconnect_id>>
               /\ reconnect => tp_conn' = tp_conn
      BY <3>2 DEF Inv, TypeOK, TimerKnown
    <3>3. QED  BY <2>3, <3>1, <3>2
  <2>5. TypeOK'
    BY <2>1, <2>2, <2>4 DEF Inv, TypeOK
  <2>6. NoDeadConnection' /\ ListensOffline' /\ Unprepared'
    BY <2>1, <2>2 DEF NoDeadConnection, ListensOffline, Unprepared
  <2>7. RetryPending'
    BY <2>1, <2>4 DEF Inv, RetryPending
  <2>8. QED  BY <2>4, <2>5, <2>6, <2>7 DEF Inv
<1>11. ASSUME AccountOffline PROVE Inv'
  BY <1>11 DEF AccountOffline, flag_vars, conn_vars, call_vars, Inv, TypeOK, TimerKnown,
               NoDeadConnection, ListensOffline, RetryPending, Unprepared
<1>12. ASSUME ConnectSucceeds PROVE Inv'
  BY <1>12 DEF ConnectSucceeds, flag_vars, conn_vars, Inv, TypeOK, TimerKnown,
               NoDeadConnection, ListensOffline, RetryPending, Unprepared
<1>13. ASSUME ConnectFailed PROVE Inv'
  <2>1. ReconnectAfter(timers \ {reconnect_id}) /\ timers \ {reconnect_id} \in SUBSET Timers
    BY <1>13 DEF ConnectFailed, Inv, TypeOK
  <2>2. /\ reconnect' = TRUE /\ connect' = FALSE
        /\ timers' \in SUBSET Timers /\ timers' # {}
        /\ reconnect_id' \in timers'
        /\ UNCHANGED <<wanted, conn_vars, prepared, account, ready, ensuring, aborted>>
    BY <1>13, <2>1, ReconnectAfterInv DEF ConnectFailed
  <2>3. calls' \in 0..MaxCalls
    BY <1>13 DEF ConnectFailed, Inv, TypeOK
  <2>4. TypeOK'
    BY <2>2, <2>3 DEF conn_vars, Inv, TypeOK
  <2>5. TimerKnown' /\ RetryPending'
    BY <2>2 DEF TimerKnown, RetryPending
  <2>6. NoDeadConnection' /\ ListensOffline' /\ Unprepared'
    BY <2>2 DEF conn_vars, Inv, NoDeadConnection, ListensOffline, Unprepared
  <2>7. QED  BY <2>4, <2>5, <2>6 DEF Inv
<1>14. CASE UNCHANGED vars
  BY <1>14 DEF vars, flag_vars, conn_vars, call_vars, Inv, TypeOK, TimerKnown,
               NoDeadConnection, ListensOffline, RetryPending, Unprepared
<1>15. QED
  BY <1>1, <1>2, <1>3, <1>4, <1>5, <1>6, <1>7, <1>8, <1>9, <1>10, <1>11, <1>12,
     <1>13, <1>14 DEF Next

\* The connection's invariant, for any timers and any number of calls.
THEOREM InvHolds == Spec => []Inv
  BY InitInv, StepInv, PTL DEF Spec

-----------------------------------------------------------------------------
(* The invariants the runs check. *)

\* Every reachable state is well typed.
THEOREM ConnectionTypes == Spec => []TypeOK
<1>1. Inv => TypeOK
  BY DEF Inv
<1>2. QED  BY <1>1, InvHolds, PTL

\* g_source_remove only ever gets the id of a timer that is pending.
THEOREM TimersKnown == Spec => []TimerKnown
<1>1. Inv => TimerKnown
  BY DEF Inv
<1>2. QED  BY <1>1, InvHolds, PTL

\* A connection that went down is given up in the step that reports it.
THEOREM ConnectionsLive == Spec => []NoDeadConnection
<1>1. Inv => NoDeadConnection
  BY DEF Inv
<1>2. QED  BY <1>1, InvHolds, PTL

\* A listening client is off line, and so is its account.
THEOREM ListenersOffline == Spec => []ListensOffline
<1>1. Inv => ListensOffline
  BY DEF Inv
<1>2. QED  BY <1>1, InvHolds, PTL

\* A client that is to reconnect has something left that will make it dial.
THEOREM RetriesPending == Spec => []RetryPending
<1>1. Inv => RetryPending
  BY DEF Inv
<1>2. QED  BY <1>1, InvHolds, PTL

\* A handler is never there when TpAccount lets go of a connection: the
\* assertion in yts_client_setup_account_connection cannot fail.
THEOREM NoConnectionLost ==
  Spec => [][AccountOffline => ~aborted']_vars
<1>1. Inv /\ [Next]_vars => [AccountOffline => ~aborted']_vars
  BY DEF Inv, ListensOffline, AccountOffline
<1>2. QED  BY <1>1, InvHolds, PTL DEF Spec
=============================================================================
