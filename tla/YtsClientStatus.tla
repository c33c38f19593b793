-------------------------- MODULE YtsClientStatus --------------------------
(***************************************************************************)
(* What a client says about itself over the life of its connection: the    *)
(* YtsClientStatus table with its capabilities, interests and statuses     *)
(* (yts-client-status.c), the TpYtsClient that registers the capabilities, *)
(* and the TpYtsStatus that shows the statuses to other clients, one for   *)
(* each connection.  A composition with YtsConnection, whose steps prepare *)
(* the account, ensure the TpYtsStatus and take the connection down.       *)
(*                                                                         *)
(* Calls to AdvertiseStatus are asynchronous and kept in order on one      *)
(* connection; a call to a TpYtsStatus that is not there, or whose         *)
(* connection is down, fails with a message.  Capabilities are told apart, *)
(* so the order the table is walked in does not matter.                    *)
(***************************************************************************)
EXTENDS YtsConnection, Sequences

CONSTANTS
  Capabilities,  \* what the application may provide or consume
  Statuses,      \* the statuses it may set, as documents
  NoStatus,      \* NULL: a capability without a status
  Absent,        \* no entry
  MaxQueued      \* bound: AdvertiseStatus calls in flight for a capability

ASSUME StatusAssumption ==
  /\ NoStatus # Absent
  /\ {NoStatus, Absent} \cap Statuses = {}
  /\ MaxQueued \in Nat \ {0}

VARIABLES
  table,         \* client_status->status
  interests,     \* client_status->interests
  published,     \* the capabilities and the interests priv->tp_client has
  tp_status,     \* priv->tp_status: "none", "old" or of the connection, "current"
  asked,         \* the TpYtsStatus of the connection that is up is asked for
  queued,        \* AdvertiseStatus calls in flight, per capability
  shown          \* what the TpYtsStatus of the connection shows to others

status_vars == <<table, interests, published, tp_status, asked, queued, shown>>
client_vars == <<vars, status_vars>>

-----------------------------------------------------------------------------
Shown == Statuses \cup {NoStatus}
Entries == Shown \cup {Absent}

StatusTypeOK ==
  /\ table \in [Capabilities -> Entries]
  /\ interests \in SUBSET Capabilities
  /\ published \in [capabilities : SUBSET Capabilities, interests : SUBSET Capabilities]
  /\ tp_status \in {"none", "old", "current"}
  /\ asked \in BOOLEAN
  /\ queued \in [Capabilities -> Seq(Shown)]
  /\ shown \in [Capabilities -> Entries]

\* Every variable of the client and of its connection is well typed.
ClientTypeOK == TypeOK /\ StatusTypeOK

ClientInit ==
  /\ Init
  /\ table = [c \in Capabilities |-> Absent]
  /\ interests = {}
  /\ published = [capabilities |-> {}, interests |-> {}]
  /\ tp_status = "none" /\ asked = FALSE
  /\ queued = [c \in Capabilities |-> <<>>]
  /\ shown = [c \in Capabilities |-> Absent]

-----------------------------------------------------------------------------
(* Helpers *)

\* What yts_client_status_foreach_capability walks.
Provided == {c \in Capabilities : table[c] # Absent}

\* Mutant: the status of a capability the table had is not advertised.
Advertised_WhenNew(c, s) ==
  IF tp_status = "current" /\ table[c] = Absent
  THEN [queued EXCEPT ![c] = Append(@, s)]
  ELSE queued

\* The calls in flight once tp_yts_status_advertise_status_async was called.
Advertised(c, s) ==
  IF tp_status = "current" THEN [queued EXCEPT ![c] = Append(@, s)] ELSE queued

\* yts_client_status_add_capability, and tp_client if it is there.
Capable(c) ==
  published' = IF prepared /\ table[c] = Absent
               THEN [published EXCEPT !.capabilities = @ \cup {c}]
               ELSE published

-----------------------------------------------------------------------------
(* The application *)

\* yts_client_add_capability, PROVIDED.  YtsRoster has the refresh.
AddCapability(c) ==
  /\ ~aborted
  /\ table[c] = Absent
  /\ Capable(c)
  /\ table' = [table EXCEPT ![c] = NoStatus]
  /\ UNCHANGED <<vars, interests, tp_status, asked, queued, shown>>

\* yts_client_add_capability, CONSUMED
AddInterest(c) ==
  /\ ~aborted
  /\ c \notin interests
  /\ interests' = interests \cup {c}
  /\ published' = IF prepared THEN [published EXCEPT !.interests = @ \cup {c}]
                  ELSE published
  /\ UNCHANGED <<vars, table, tp_status, asked, queued, shown>>

\* yts_client_set_status_by_capability
SetStatus(c, s) ==
  /\ ~aborted
  /\ Len(queued[c]) < MaxQueued
  /\ Capable(c)
  /\ table' = [table EXCEPT ![c] = s]
  /\ queued' = Advertised(c, s)
  /\ UNCHANGED <<vars, interests, tp_status, asked, shown>>

-----------------------------------------------------------------------------
(* The account and the connection *)

\* setup_tp_client publishes what the application added so far.
ClientPrepared ==
  /\ AccountPrepared
  /\ published' = [capabilities |-> Provided, interests |-> interests]
  /\ UNCHANGED <<table, interests, tp_status, asked, queued, shown>>

\* yts_client_connection_ready_cb
StatusAsked ==
  /\ ConnectionReady
  /\ asked' = (asked \/ tp_conn = "live")
  /\ UNCHANGED <<table, interests, published, tp_status, queued, shown>>

\* Mutant: what was set before is not advertised.
StatusReady_NoBacklog ==
  /\ StatusEnsured(TRUE)
  /\ asked' = FALSE
  /\ tp_status' = IF asked THEN "current" ELSE "old"
  /\ UNCHANGED <<table, interests, published, queued, shown>>

\* yts_client_yts_status_cb.  A request made on a connection that went down
\* is answered with an error, or with a TpYtsStatus that went down with it.
StatusReady ==
  /\ StatusEnsured(TRUE)
  /\ asked' = FALSE
  /\ tp_status' = IF asked THEN "current" ELSE "old"
  /\ queued' = [c \in Capabilities |->
                  IF asked /\ c \in Provided THEN Append(queued[c], table[c])
                  ELSE queued[c]]
  /\ UNCHANGED <<table, interests, published, shown>>

\* The connection went down with its TpYtsStatus.  The client keeps the
\* proxy; calls in flight fail, and nobody repeats them.
StatusDropped ==
  /\ Dropped
  /\ asked' = FALSE
  /\ tp_status' = IF tp_status = "none" THEN "none" ELSE "old"
  /\ queued' = [c \in Capabilities |-> <<>>]
  /\ shown' = [c \in Capabilities |-> Absent]
  /\ UNCHANGED <<table, interests, published>>

\* An AdvertiseStatus call arrives: _tp_yts_status_advertise_status_cb.
Deliver(c) ==
  /\ ~aborted
  /\ queued[c] # <<>>
  /\ shown' = [shown EXCEPT ![c] = Head(queued[c])]
  /\ queued' = [queued EXCEPT ![c] = Tail(@)]
  /\ UNCHANGED <<vars, table, interests, published, tp_status, asked>>

\* The steps of the connection that say nothing about the client's status.
ConnectionStep ==
  /\ \/ Connect \/ Disconnect
     \/ \E t \in Timers : TimerFires(t)
     \/ \E ok \in BOOLEAN : PresenceAnswered(ok)
     \/ StatusEnsured(FALSE)
     \/ AccountOnline \/ Connected \/ AccountOffline
     \/ ConnectSucceeds \/ ConnectFailed
  /\ UNCHANGED status_vars

-----------------------------------------------------------------------------
ClientNext ==
  \/ \E c \in Capabilities :
       \/ AddCapability(c) \/ AddInterest(c)
       \/ \E s \in Statuses : SetStatus(c, s)
       \/ Deliver(c)
  \/ ClientPrepared
  \/ StatusAsked
  \/ StatusReady
  \/ StatusDropped
  \/ ConnectionStep

ClientSpec == ClientInit /\ [][ClientNext]_client_vars

\* What YtsConnection assumes, and that calls of a live connection arrive.
FairClientSpec ==
  /\ ClientSpec
  /\ \A t \in Timers : WF_client_vars(TimerFires(t) /\ UNCHANGED status_vars)
  /\ WF_client_vars(ClientPrepared)
  /\ WF_client_vars(listening /\ AccountOnline /\ UNCHANGED status_vars)
  /\ \A c \in Capabilities : WF_client_vars(Deliver(c))

-----------------------------------------------------------------------------
(* Safety *)

\* The last word on a capability: the call sent last, or what is shown.
Latest(c) == IF queued[c] = <<>> THEN shown[c] ELSE queued[c][Len(queued[c])]

\* A client whose TpYtsStatus is of the connection that is up has told it the
\* status of each capability last set, be it before the account was prepared,
\* while the connection was down, or between it and its TpYtsStatus.
LatestAdvertised ==
  tp_status = "current" =>
    \A c \in Capabilities : table[c] \in Statuses => Latest(c) = table[c]

\* The TpYtsClient that is registered has every capability and interest of the
\* client, in whatever order they were added and the account was prepared.
CapabilitiesPublished ==
  prepared => published = [capabilities |-> Provided, interests |-> interests]

(* Liveness *)

\* A status that is set is shown, unless another is set, the connection goes
\* down, or the process ends.
StatusShown ==
  \A c \in Capabilities, s \in Statuses :
    (tp_status = "current" /\ table[c] = s)
      ~> (shown[c] = s \/ table[c] # s \/ tp_status # "current" \/ aborted)
=============================================================================
