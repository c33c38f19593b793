--------------------------- MODULE YtsConnection ---------------------------
(***************************************************************************)
(* The life of a YtsClient's connection: yts_client_connect and            *)
(* yts_client_disconnect, the callbacks of the account and the connection, *)
(* and the timer that is meant to reconnect (yts-client.c).                *)
(*                                                                         *)
(* The account and the connection are telepathy-glib's view of processes   *)
(* that live elsewhere; that view changes in the main loop, one callback   *)
(* at a time, so a change and the client's callback for it are one step.   *)
(* What is in flight across steps are calls: Connect, the request for      *)
(* presence and the one for a TpYtsStatus.  A Disconnect call has no       *)
(* callback, and the connection may go down with it or without.            *)
(***************************************************************************)
EXTENDS Integers, FiniteSets

CONSTANTS
  Timers,        \* ids of timeout sources
  NoTimer,       \* 0, which is not the id of a source
  MaxCalls,      \* bound: Connect calls in flight
  AccountLags    \* whether the client may still see a connection that is down
                 \* in its TpAccount, as in a handler of DISCONNECTED

ASSUME ConnectionAssumption ==
  /\ NoTimer \notin Timers
  /\ MaxCalls \in Nat
  /\ AccountLags \in BOOLEAN

VARIABLES
  wanted,        \* what the application asked for last: TRUE to be connected
  connect,       \* priv->connect
  reconnect,     \* priv->reconnect
  reconnect_id,  \* priv->reconnect_id
  tp_conn,       \* priv->tp_conn: "none", "live", or "dead"
  prepared,      \* priv->tp_account # NULL
  listening,     \* a handler for the account's notify::connection
  authenticated, \* AUTHENTICATED was emitted for tp_conn
  account,       \* the account's connection: "none", "connecting", "connected", "dead"
  timers,        \* reconnect timers the main loop will fire
  calls,         \* Connect calls in flight
  ready,         \* connection-ready of the account's connection
  requested,     \* a request for presence is in flight
  ensuring,      \* a request for the TpYtsStatus is in flight
  aborted        \* g_error or g_assert ended the process

flag_vars == <<connect, reconnect, reconnect_id, timers>>
conn_vars == <<tp_conn, listening, authenticated, requested>>
call_vars == <<calls, ensuring>>
vars == <<wanted, flag_vars, conn_vars, prepared, account, ready, call_vars, aborted>>

-----------------------------------------------------------------------------
TypeOK ==
  /\ wanted \in BOOLEAN /\ connect \in BOOLEAN /\ reconnect \in BOOLEAN
  /\ reconnect_id \in Timers \cup {NoTimer}
  /\ tp_conn \in {"none", "live", "dead"}
  /\ prepared \in BOOLEAN /\ listening \in BOOLEAN /\ authenticated \in BOOLEAN
  /\ account \in {"none", "connecting", "connected", "dead"}
  /\ timers \in SUBSET Timers
  /\ calls \in 0..MaxCalls
  /\ ready \in BOOLEAN /\ requested \in BOOLEAN /\ ensuring \in BOOLEAN
  /\ aborted \in BOOLEAN

Init ==
  /\ wanted = FALSE /\ connect = FALSE /\ reconnect = FALSE
  /\ reconnect_id = NoTimer
  /\ tp_conn = "none"
  /\ prepared = FALSE /\ listening = FALSE /\ authenticated = FALSE
  /\ account \in {"none", "connecting", "connected"}
  /\ timers = {} /\ calls = 0
  /\ ready \in BOOLEAN /\ (ready => account = "connected") /\ requested = FALSE /\ ensuring = FALSE
  /\ aborted = FALSE

-----------------------------------------------------------------------------
(* Helpers *)

\* What tp_account_get_connection gives the client.
Borrowed == CASE account = "none" -> "none"
              [] account = "dead" -> "dead"
              [] OTHER -> "live"

\* yts_client_setup_account_connection; the assertion is that there is one.
Setup ==
  /\ tp_conn' = Borrowed
  /\ authenticated' = FALSE
  /\ UNCHANGED <<listening, requested>>

\* Mutant: presence is requested, and nobody listens for the connection.
MakeConnection_Deaf ==
  \/ /\ ~prepared
     /\ UNCHANGED conn_vars
  \/ /\ prepared /\ account = "none"
     /\ requested' = TRUE
     /\ UNCHANGED <<tp_conn, listening, authenticated>>
  \/ /\ prepared /\ account # "none"
     /\ Setup

\* yts_client_make_connection
MakeConnection ==
  \/ /\ ~prepared
     /\ UNCHANGED conn_vars
  \/ /\ prepared /\ account = "none"
     /\ listening' = TRUE /\ requested' = TRUE
     /\ UNCHANGED <<tp_conn, authenticated>>
  \/ /\ prepared /\ account # "none"
     /\ Setup

\* yts_client_connect once the timer is cancelled.  dialing is never set, so
\* a second call dials again.
Dial ==
  /\ connect' = TRUE
  /\ \/ /\ tp_conn # "none"
        /\ calls < MaxCalls /\ calls' = calls + 1
        /\ UNCHANGED conn_vars
     \/ /\ tp_conn = "none"
        /\ MakeConnection
        /\ UNCHANGED calls

\* The timer that is known is removed; the ids of others were overwritten.
CancelReconnect ==
  /\ reconnect_id' = NoTimer
  /\ timers' = timers \ {reconnect_id}

\* yts_client_reconnect_after, on top of the timers that are pending.
ReconnectAfter(pending) ==
  \E t \in Timers \ pending :
    /\ reconnect' = TRUE
    /\ timers' = pending \cup {t}
    /\ reconnect_id' = t

\* Mutant: no timer; the application is to connect again.
WentDown_Quiet ==
  /\ tp_conn' = "none"
  /\ authenticated' = FALSE
  /\ UNCHANGED <<reconnect, timers, reconnect_id>>

\* Mutant: the client keeps the connection.
WentDown_Keeps ==
  /\ authenticated' = FALSE
  /\ UNCHANGED tp_conn
  /\ IF reconnect THEN ReconnectAfter(timers)
     ELSE UNCHANGED <<reconnect, timers, reconnect_id>>

\* yts_client_status_cb for a connection of this client that went down.
WentDown ==
  /\ tp_conn' = "none"
  /\ authenticated' = FALSE
  /\ IF reconnect THEN ReconnectAfter(timers)
     ELSE UNCHANGED <<reconnect, timers, reconnect_id>>

-----------------------------------------------------------------------------
(* The application *)

\* yts_client_connect
Connect ==
  /\ ~aborted
  /\ wanted' = TRUE
  /\ CancelReconnect
  /\ Dial
  /\ UNCHANGED <<reconnect, prepared, account, ready, ensuring, aborted>>

\* yts_client_disconnect
Disconnect ==
  /\ ~aborted
  /\ wanted' = FALSE
  /\ CancelReconnect
  /\ connect' = FALSE /\ reconnect' = FALSE
  /\ UNCHANGED <<conn_vars, prepared, account, ready, calls, ensuring, aborted>>

-----------------------------------------------------------------------------
(* The main loop *)

\* Mutant: the id of the timer that fires stays.
TimerFires_KeepsId(t) ==
  /\ ~aborted
  /\ t \in timers
  /\ timers' = timers \ {t}
  /\ Dial
  /\ UNCHANGED <<wanted, reconnect, reconnect_id, prepared, account, ready, ensuring, aborted>>

\* yts_client_reconnect_cb
TimerFires(t) ==
  /\ ~aborted
  /\ t \in timers
  /\ timers' = timers \ {t}
  /\ reconnect_id' = NoTimer
  /\ Dial
  /\ UNCHANGED <<wanted, reconnect, prepared, account, ready, ensuring, aborted>>

\* yts_client_account_prepared_cb, setup_tp_client
AccountPrepared ==
  /\ ~aborted /\ ~prepared
  /\ prepared' = TRUE
  /\ IF connect
     THEN IF account = "none"
          THEN /\ listening' = TRUE /\ requested' = TRUE
               /\ UNCHANGED <<tp_conn, authenticated>>
          ELSE Setup
     ELSE UNCHANGED conn_vars
  /\ UNCHANGED <<wanted, flag_vars, account, ready, call_vars, aborted>>

\* yts_client_account_online_cb; g_error when the request failed.
PresenceAnswered(ok) ==
  /\ ~aborted /\ requested
  /\ requested' = FALSE
  /\ aborted' = ~ok
  /\ UNCHANGED <<wanted, flag_vars, tp_conn, listening, authenticated, prepared,
                 account, ready, call_vars>>

\* The account gets a connection, on our request or another program's, and
\* yts_client_account_connection_notify_cb runs if it is connected.
AccountOnline ==
  /\ ~aborted
  /\ account \in {"none", "dead"}
  /\ account' = "connecting" /\ ready' = FALSE
  /\ listening' = FALSE
  /\ IF listening
     THEN tp_conn' = "live" /\ authenticated' = FALSE
     ELSE UNCHANGED <<tp_conn, authenticated>>
  /\ UNCHANGED <<wanted, flag_vars, requested, prepared, call_vars, aborted>>

\* The connection comes up: yts_client_status_cb.
Connected ==
  /\ ~aborted
  /\ account = "connecting"
  /\ account' = "connected"
  /\ authenticated' = (authenticated \/ tp_conn = "live")
  /\ UNCHANGED <<wanted, flag_vars, tp_conn, listening, requested, prepared,
                 ready, call_vars, aborted>>

\* This process has learnt all about the connection that is up:
\* yts_client_connection_ready_cb asks for the TpYtsStatus.
ConnectionReady ==
  /\ ~aborted
  /\ account = "connected" /\ ~ready
  /\ ready' = TRUE
  /\ ensuring' = (ensuring \/ tp_conn = "live")
  /\ UNCHANGED <<wanted, flag_vars, conn_vars, prepared, account, calls, aborted>>

\* yts_client_yts_status_cb; g_error when there is no TpYtsStatus.
StatusEnsured(ok) ==
  /\ ~aborted /\ ensuring
  /\ ensuring' = FALSE
  /\ aborted' = ~ok
  /\ UNCHANGED <<wanted, flag_vars, conn_vars, prepared, account, ready, calls>>

\* The connection goes down, by our Disconnect or by itself.
Dropped ==
  /\ ~aborted
  /\ account \in {"connecting", "connected"}
  /\ account' \in {"none"} \cup (IF AccountLags THEN {"dead"} ELSE {})
  /\ ready' = FALSE
  /\ IF tp_conn = "live" THEN WentDown
     ELSE UNCHANGED <<tp_conn, authenticated, reconnect, timers, reconnect_id>>
  /\ UNCHANGED <<wanted, connect, listening, requested, prepared, call_vars, aborted>>

\* TpAccount lets go of the connection that is down.  A handler that is
\* connected would run into the assertion that there is one.
AccountOffline ==
  /\ ~aborted
  /\ account = "dead"
  /\ account' = "none"
  /\ aborted' = listening
  /\ UNCHANGED <<wanted, flag_vars, conn_vars, prepared, ready, call_vars>>

\* yts_client_connected_cb without an error
ConnectSucceeds ==
  /\ ~aborted
  /\ calls > 0 /\ tp_conn = "live"
  /\ calls' = calls - 1
  /\ UNCHANGED <<wanted, flag_vars, conn_vars, prepared, account, ready,
                 ensuring, aborted>>

\* yts_client_connected_cb with one: yts_client_disconnect, and then a timer.
ConnectFailed ==
  /\ ~aborted
  /\ calls > 0
  /\ calls' = calls - 1
  /\ connect' = FALSE
  /\ ReconnectAfter(timers \ {reconnect_id})
  /\ UNCHANGED <<wanted, conn_vars, prepared, account, ready, ensuring, aborted>>

-----------------------------------------------------------------------------
Next ==
  \/ Connect
  \/ Disconnect
  \/ \E t \in Timers : TimerFires(t)
  \/ AccountPrepared
  \/ \E ok \in BOOLEAN : PresenceAnswered(ok) \/ StatusEnsured(ok)
  \/ AccountOnline
  \/ Connected
  \/ ConnectionReady
  \/ Dropped
  \/ AccountOffline
  \/ ConnectSucceeds
  \/ ConnectFailed

Spec == Init /\ [][Next]_vars

\* The main loop fires timers, the account is prepared, and an account that was
\* asked to be present gets a connection.
FairSpec ==
  /\ Spec
  /\ \A t \in Timers : WF_vars(TimerFires(t))
  /\ WF_vars(AccountPrepared)
  /\ WF_vars(listening /\ AccountOnline)

-----------------------------------------------------------------------------
(* Safety *)

\* The id the client keeps is that of a timer that has still to fire:
\* g_source_remove is never given the id of a source that is gone.
TimerKnown == reconnect_id # NoTimer => reconnect_id \in timers

\* The client holds no connection that is down, save one it was given down.
NoDeadConnection == tp_conn = "live" => account \in {"connecting", "connected"}

\* While the client listens for a connection neither it nor the account has
\* one: no connection is overwritten, and the assertion in
\* yts_client_setup_account_connection cannot fail.
ListensOffline == listening => tp_conn = "none" /\ account = "none"

\* A client that is to reconnect is always about to: a timer will fire, a
\* handler listens, or the account is being prepared.
RetryPending ==
  reconnect /\ tp_conn = "none" =>
    timers # {} \/ listening \/ (connect /\ ~prepared)

\* yts_client_disconnect is to "cancel any pending reconnect timeout"
\* (yts-client.c, 1980): no timer is left to bring the client back.
DisconnectFinal == ~wanted => timers = {}

(* Liveness *)

\* A client that is to reconnect gets the connection its account shows (a live
\* one, unless AccountLags), or the application disconnects it, or the process
\* ends: no failed call and no lost timer leaves it waiting for ever.
Reconnects ==
  (reconnect /\ tp_conn = "none") ~> (tp_conn # "none" \/ ~reconnect \/ aborted)
=============================================================================
