------------------------------ MODULE YtsSending ------------------------------
(***************************************************************************)
(* Messages on their way out of a YtsClient, and what the application is   *)
(* told of them: yts_client_send_message and its callbacks (yts-client.c), *)
(* and the atoms that tell operations apart (yts-error.c).                 *)
(*                                                                         *)
(* Each message gets a channel of its own; three signals of it carry the   *)
(* message's data, which counts its references by hand.  The Telepathy     *)
(* side is external: a channel that took a request replies or fails, at    *)
(* most one of them and once, and closes when it goes; after that there    *)
(* are no signals.  The request itself may be refused, and the channel     *)
(* stays then, for nobody closes it.                                       *)
(*                                                                         *)
(* A contact has its TpContact from its construction on, so that no        *)
(* message has to wait for it.                                             *)
(***************************************************************************)
EXTENDS Naturals, Sequences, FiniteSets

CONSTANTS
  Messages,   \* messages the application sends, each once
  LastAtom    \* _YTS_ERROR_CODE_MASK: the last atom before the first again

ASSUME SendingAssumption == LastAtom \in Nat \ {0}

Signals == {"replied", "failed", "closed"}
Codes == {"success", "no_msg_channel"}

VARIABLES
  atom,          \* the static counter of yts_error_new_atom
  log,           \* messages in the order they were sent
  error,         \* error[m]: the atom of m's YTS_ERROR_PENDING
  channel,       \* channel[m]: where m's channel is
  ref_count,     \* ref_count[m]: references to m's YtsCLChannelData, 0 if freed
  armed,         \* armed[m]: signals that have yet to fire with m's data
  status_done,   \* status_done[m]
  reports        \* reports[m]: codes of the error signals emitted for m

counters == <<atom, log, error>>
vars == <<counters, channel, ref_count, armed, status_done, reports>>

Stages == {"unsent", "invalid", "requesting", "unopened", "opened", "asked",
           "refused", "answered", "closed"}

TypeOK ==
  /\ atom \in 0..LastAtom
  /\ log \in Seq(Messages)
  /\ error \in [Messages -> 0..LastAtom]
  /\ channel \in [Messages -> Stages]
  /\ ref_count \in [Messages -> 0..4]
  /\ armed \in [Messages -> SUBSET Signals]
  /\ status_done \in [Messages -> BOOLEAN]
  /\ reports \in [Messages -> Seq(Codes)]

Init ==
  /\ atom = 0 /\ log = <<>>
  /\ error = [m \in Messages |-> 0]
  /\ channel = [m \in Messages |-> "unsent"]
  /\ ref_count = [m \in Messages |-> 0]
  /\ armed = [m \in Messages |-> {}]
  /\ status_done = [m \in Messages |-> FALSE]
  /\ reports = [m \in Messages |-> <<>>]

-----------------------------------------------------------------------------
(* Helpers *)

\* Mutant: the last atom is never handed out.
NewAtom_Short == IF atom + 1 >= LastAtom THEN 1 ELSE atom + 1

\* yts_error_new_atom
NewAtom == IF atom + 1 > LastAtom THEN 1 ELSE atom + 1

\* yts_client_emit_error: an error without an atom is not reported.
Emit(m, code) ==
  reports' = IF error[m] = 0 THEN reports ELSE [reports EXCEPT ![m] = Append(@, code)]

\* yts_cl_channel_data_unref
Unref(m) == ref_count' = [ref_count EXCEPT ![m] = @ - 1]

\* Signal s of m's channel arrives.
Fires(m, s) ==
  /\ s \in armed[m]
  /\ armed' = [armed EXCEPT ![m] = @ \ {s}]

-----------------------------------------------------------------------------
(* yts_client_send_message *)

\* A message without content is refused, with an atom of its own.
SendInvalid(m) ==
  /\ channel[m] = "unsent"
  /\ channel' = [channel EXCEPT ![m] = "invalid"]
  /\ atom' = NewAtom
  /\ UNCHANGED <<log, error, ref_count, armed, status_done, reports>>

\* yts_client_send_message, yts_client_dispatch_message: the caller has
\* YTS_ERROR_PENDING with a new atom, a channel is requested.
SendMessage(m) ==
  /\ channel[m] = "unsent"
  /\ atom' = NewAtom
  /\ error' = [error EXCEPT ![m] = NewAtom]
  /\ log' = Append(log, m)
  /\ channel' = [channel EXCEPT ![m] = "requesting"]
  /\ ref_count' = [ref_count EXCEPT ![m] = 1]
  /\ UNCHANGED <<armed, status_done, reports>>

\* yts_client_outgoing_channel_cb without a channel.
ChannelFailed(m) ==
  /\ channel[m] = "requesting"
  /\ channel' = [channel EXCEPT ![m] = "unopened"]
  /\ Emit(m, "no_msg_channel")
  /\ Unref(m)
  /\ UNCHANGED <<counters, armed, status_done>>

\* Mutant: the handlers share the reference of the call.
ChannelOpened_Shared(m) ==
  /\ channel[m] = "requesting"
  /\ channel' = [channel EXCEPT ![m] = "opened"]
  /\ armed' = [armed EXCEPT ![m] = Signals]
  /\ ref_count' = [ref_count EXCEPT ![m] = @ + 1]
  /\ UNCHANGED <<counters, status_done, reports>>

\* yts_client_outgoing_channel_cb with a channel: three handlers with a
\* reference each, the Request, and the reference of the call is dropped.
ChannelOpened(m) ==
  /\ channel[m] = "requesting"
  /\ channel' = [channel EXCEPT ![m] = "opened"]
  /\ armed' = [armed EXCEPT ![m] = Signals]
  /\ ref_count' = [ref_count EXCEPT ![m] = @ + 3 - 1]
  /\ UNCHANGED <<counters, status_done, reports>>

\* yts_client_msg_request_cb: either way there is a line in the log.
RequestAnswered(m) ==
  /\ channel[m] = "opened"
  /\ \E answer \in {"asked", "refused"} : channel' = [channel EXCEPT ![m] = answer]
  /\ UNCHANGED <<counters, ref_count, armed, status_done, reports>>

-----------------------------------------------------------------------------
(* The channel's signals *)

\* yts_client_msg_replied_cb
Replied(m) ==
  /\ channel[m] = "asked" /\ Fires(m, "replied")
  /\ channel' = [channel EXCEPT ![m] = "answered"]
  /\ IF status_done[m] THEN UNCHANGED reports ELSE Emit(m, "success")
  /\ status_done' = [status_done EXCEPT ![m] = TRUE]
  /\ Unref(m)
  /\ UNCHANGED counters

\* Mutant: what was reported is not noted.
Failed_Unnoted(m) ==
  /\ channel[m] = "asked" /\ Fires(m, "failed")
  /\ channel' = [channel EXCEPT ![m] = "answered"]
  /\ Emit(m, "no_msg_channel")
  /\ Unref(m)
  /\ UNCHANGED <<counters, status_done>>

\* yts_client_msg_failed_cb
Failed(m) ==
  /\ channel[m] = "asked" /\ Fires(m, "failed")
  /\ channel' = [channel EXCEPT ![m] = "answered"]
  /\ Emit(m, "no_msg_channel")
  /\ status_done' = [status_done EXCEPT ![m] = TRUE]
  /\ Unref(m)
  /\ UNCHANGED counters

\* yts_client_msg_closed_cb: a message that was neither answered nor refused
\* by its receiver counts as delivered.
Closed(m) ==
  /\ channel[m] \in {"opened", "asked", "refused", "answered"} /\ Fires(m, "closed")
  /\ channel' = [channel EXCEPT ![m] = "closed"]
  /\ IF status_done[m] THEN UNCHANGED reports ELSE Emit(m, "success")
  /\ status_done' = [status_done EXCEPT ![m] = TRUE]
  /\ Unref(m)
  /\ UNCHANGED counters

-----------------------------------------------------------------------------
Answer(m) == Replied(m) \/ Failed(m)

Step(m) ==
  \/ SendInvalid(m) \/ SendMessage(m)
  \/ ChannelFailed(m) \/ ChannelOpened(m) \/ RequestAnswered(m)
  \/ Answer(m) \/ Closed(m)

Next == \E m \in Messages : Step(m)

Spec == Init /\ [][Next]_vars

\* Calls to the connection manager return, and every peer answers what
\* reaches it.
FairSpec ==
  /\ Spec
  /\ \A m \in Messages :
       /\ WF_vars(ChannelFailed(m) \/ ChannelOpened(m))
       /\ WF_vars(RequestAnswered(m))
       /\ WF_vars(Answer(m))

-----------------------------------------------------------------------------
(* Safety *)

\* An application hears of a message once, and does so by the time its channel
\* is gone: a reply, a failure and the close of the channel make one report.
Over == {"unopened", "answered", "closed"}
ReportedOnce ==
  \A m \in Messages : Len(reports[m]) = IF channel[m] \in Over THEN 1 ELSE 0

\* The data is there for every handler that has still to use it, for the calls
\* that hold it too: ref_count is decremented by hand in five callbacks.
Users(m) == Cardinality(armed[m] \ (IF channel[m] = "closed" THEN Signals ELSE {}))
DataLive ==
  \A m \in Messages :
    /\ Users(m) <= ref_count[m]
    /\ channel[m] = "requesting" => ref_count[m] = 1

\* Two messages that are both to be reported have different atoms, unless the
\* counter went round between them.
Pending(m) == channel[m] \notin Over \cup {"unsent", "invalid"}
AtomsApart ==
  \A j, k \in DOMAIN log :
    j < k /\ Pending(log[j]) /\ Pending(log[k]) /\ error[log[j]] = error[log[k]] =>
    Cardinality({m \in Messages : channel[m] # "unsent"}) > LastAtom

(* Liveness *)

\* "Operations that return this error code must emit YtsClient::error signal at
\* a later stage to indicate either subsequent errors or eventual success"
\* (yts-error.h, 35).
PendingReported == \A m \in Messages : Pending(m) ~> reports[m] # <<>>
=============================================================================
