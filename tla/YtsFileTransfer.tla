--------------------------- MODULE YtsFileTransfer ---------------------------
(***************************************************************************)
(* Files on their way between two services, as the objects at the two ends *)
(* see them: YtsOutgoingFile (yts-outgoing-file.c) at the sender and       *)
(* YtsIncomingFile (yts-incoming-file.c) at the receiver, both a           *)
(* YtsFileTransfer with a progress and the signals error and cancelled;    *)
(* and the applications that hold them, of which examples/file-transfer.c  *)
(* is one.                                                                 *)
(*                                                                         *)
(* The Telepathy channel under each is external.  It is pending until the  *)
(* receiver accepts, accepted until data flows, open then, and ends        *)
(* completed or cancelled, with a reason; it can be cancelled at any time. *)
(* It opens once it was provided or accepted, before that call returns or  *)
(* after it.  Two things are assumed of it: no bytes come after its call   *)
(* failed, and it completes only after its call succeeded.                 *)
(*                                                                         *)
(* The handlers and calls hold a pointer to the object and no reference:   *)
(* one that runs after the object was freed may end the process (fault     *)
(* says why) or go on.                                                     *)
(***************************************************************************)
EXTENDS Naturals, Sequences, FiniteSets

CONSTANTS
  Outgoing,   \* YtsOutgoingFile objects
  Incoming    \* YtsIncomingFile objects

ASSUME FileTransferAssumption == Outgoing \cap Incoming = {}

Files == Outgoing \cup Incoming

VARIABLES
  example,      \* the files whose application is examples/file-transfer.c
  channel,      \* channel[f]: the state of f's Telepathy channel
  tp_channel,   \* tp_channel[f]: f has its channel
  file,         \* file[f]: an incoming file has a place to go to
  handlers,     \* handlers[f]: how often f's handlers are connected
  call,         \* call[f]: f's ProvideFile or AcceptFile
  progress,     \* progress[f]
  outcomes,     \* outcomes[f]: what the application was told, and the progress
                \* that it read while it was told
  held,         \* held[f]: whether the application holds f
  closing,      \* files whose channel was told to close, the call in flight
  careless,     \* files dropped while a handler or call could still come
  fault         \* what ended the process, or "none"

told_vars == <<tp_channel, progress, outcomes, held, closing, careless>>
vars == <<example, channel, file, handlers, call, told_vars, fault>>

\* Values of progress: 0.0, up to 1.0, 1.1 and -0.1.
Progress == {"start", "under_way", "over", "negative"}
Outcomes == [what : {"completed", "cancelled", "error"}, seen : Progress]
Reasons == {"remote_stopped", "local_error", "remote_error", "other"}
Ended == {"completed", "cancelled"}

TypeOK ==
  /\ example \in SUBSET Files
  /\ channel \in [Files -> {"none", "requested", "pending", "accepted", "open"} \cup Ended]
  /\ tp_channel \in [Files -> BOOLEAN]
  /\ file \in [Files -> BOOLEAN]
  /\ handlers \in [Files -> 0..1]
  /\ call \in [Files -> {"none", "in_flight", "done", "failed"}]
  /\ progress \in [Files -> Progress]
  /\ outcomes \in [Files -> Seq(Outcomes)]
  /\ held \in [Files -> {"not_yet", "ignored", "held", "dropped"}]
  /\ closing \in SUBSET Files
  /\ careless \in SUBSET Files
  /\ fault \in {"none", "freed error", "freed file"}

Init ==
  /\ example \in SUBSET Files
  /\ channel = [f \in Files |-> IF f \in Incoming THEN "pending" ELSE "none"]
  /\ tp_channel = [f \in Files |-> FALSE]
  /\ file = [f \in Files |-> f \in Outgoing]
  /\ handlers = [f \in Files |-> 0]
  /\ call = [f \in Files |-> "none"]
  /\ progress = [f \in Files |-> "start"]
  /\ outcomes = [f \in Files |-> <<>>]
  /\ held = [f \in Files |-> "not_yet"]
  /\ closing = {} /\ careless = {}
  /\ fault = "none"

-----------------------------------------------------------------------------
(* Helpers *)

Running == fault = "none"

\* Undefined behaviour: the process may end here, or go on.
MayFault(f) == fault' \in {f, "none"}

\* Nothing is left that could call f: no call, and no channel it listens to.
Quiet(f) ==
  /\ channel[f] # "requested" /\ call[f] # "in_flight"
  /\ handlers[f] = 0 \/ channel[f] \in Ended

\* What the application may do in a handler: hold f, or drop it.  The example
\* drops it in _transfer_error and when progress says that it is done, and
\* has no handler for cancelled.
Drops(f, outcome) == IF f \in example THEN {outcome # "cancelled"} ELSE BOOLEAN

\* tp_channel_close_async where there is a channel, and the pointer is cleared.
CloseIf(f, cond) ==
  /\ tp_channel' = [tp_channel EXCEPT ![f] = @ /\ ~cond]
  /\ closing' = IF cond /\ tp_channel[f] THEN closing \cup {f} ELSE closing

\* The application is told of outcome, reads the progress seen in its handlers,
\* and p when they are done.  The function goes on with f after them, though
\* they may have dropped it.
Tell(f, outcome, seen, p, closes) ==
  \E drops \in Drops(f, outcome) :
    /\ outcomes' = [outcomes EXCEPT ![f] = Append(@, [what |-> outcome, seen |-> seen])]
    /\ progress' = [progress EXCEPT ![f] = p]
    /\ CloseIf(f, closes \/ drops)
    /\ held' = [held EXCEPT ![f] = IF drops THEN "dropped" ELSE @]
    /\ careless' = IF drops THEN careless \cup {f} ELSE careless
    /\ IF drops THEN MayFault("freed file") ELSE UNCHANGED fault

\* Mutant: the progress stays where it was.
SetAndEmitError_Quiet(f, closes) == Tell(f, "error", progress[f], progress[f], closes)

\* set_and_emit_error: the signal first, then the progress.
SetAndEmitError(f, closes) == Tell(f, "error", progress[f], "negative", closes)

\* _channel_notify_state for a channel that is cancelled: three reasons are
\* known, any other is passed over.
ToldOfCancellation(f, reason) ==
  CASE reason = "remote_stopped" -> Tell(f, "cancelled", progress[f], "negative", TRUE)
    [] reason \in {"local_error", "remote_error"} -> SetAndEmitError(f, TRUE)
    [] OTHER -> UNCHANGED <<told_vars, fault>>

\* A handler or call has come back to f.
Called(f, Body) ==
  \/ held[f] = "held" /\ Body
  \/ held[f] = "dropped" /\ MayFault("freed file") /\ UNCHANGED told_vars

\* The last reference goes: _dispose closes the channel and clears no handler.
Dispose(f, quiet) ==
  /\ held' = [held EXCEPT ![f] = "dropped"]
  /\ CloseIf(f, TRUE)
  /\ careless' = IF quiet THEN careless ELSE careless \cup {f}

-----------------------------------------------------------------------------
(* YtsOutgoingFile *)

\* validate: the first thing that is missing.  _roster_send_file takes the
\* ids of the two services and of the contact from objects that have them.
Validate(account, given) ==
  CASE account = "none" -> "NO_ACCOUNT"
    [] account = "offline" -> "NO_CONNECTION"
    [] account = "connected" /\ given = "none" -> "NO_FILE"
    [] OTHER -> "valid"

\* _initable_init: a file that passes and can be read has a channel requested.
Initable(f, account, given) ==
  IF Validate(account, given) = "valid" /\ given = "readable"
  THEN channel' = [channel EXCEPT ![f] = "requested"]
  ELSE UNCHANGED channel

\* What an application gives to send: a file that can be read or not, or none.
\* The example sends one file in all, the one of its path, when the roster
\* finds the service; it tries again where it was refused.
Sends(f) ==
  IF f \notin example THEN {"none", "missing", "readable"}
  ELSE IF \E sent \in (Outgoing \cap example) : held[sent] # "not_yet" THEN {}
  ELSE {"missing", "readable"}

\* yts_service_send_file of a service in the roster, by way of its contact and
\* the roster to _roster_send_file of the client.  (One of a service that left
\* gets there no more: the result is NULL, without an error.)  A file that is
\* refused is freed, and so is the error before the application sees it.
SendFile(f, account, given) ==
  /\ Running
  /\ f \in Outgoing /\ held[f] = "not_yet" /\ given \in Sends(f)
  /\ Initable(f, account, given)
  /\ IF channel'[f] = "requested"
     THEN held' = [held EXCEPT ![f] = "held"] /\ UNCHANGED fault
     ELSE UNCHANGED held /\ MayFault("freed error")
  /\ UNCHANGED <<tp_channel, file, handlers, call, progress, outcomes, closing, careless>>

\* _account_channel_request_create
ChannelCreated(f) ==
  /\ Running
  /\ channel[f] = "requested"
  /\ channel' = [channel EXCEPT ![f] = "pending"]
  /\ handlers' = [handlers EXCEPT ![f] = @ + 1]
  /\ tp_channel' = [tp_channel EXCEPT ![f] = held[f] = "held"]
  /\ IF held[f] = "dropped" THEN MayFault("freed file") ELSE UNCHANGED fault
  /\ UNCHANGED <<file, call, progress, outcomes, held, closing, careless>>

ChannelRefused(f) ==
  /\ Running
  /\ channel[f] = "requested"
  /\ channel' = [channel EXCEPT ![f] = "cancelled"]
  /\ Called(f, SetAndEmitError(f, FALSE))
  /\ UNCHANGED <<file, handlers, call>>

\* _channel_notify_state, when the receiver accepts: the file is provided.
RemoteAccepts(f) ==
  /\ Running
  /\ f \in Outgoing /\ channel[f] = "pending"
  /\ channel' = [channel EXCEPT ![f] = "accepted"]
  /\ call' = [call EXCEPT ![f] = "in_flight"]
  /\ Called(f, UNCHANGED <<told_vars, fault>>)
  /\ UNCHANGED <<file, handlers>>

-----------------------------------------------------------------------------
(* YtsIncomingFile *)

\* yts_incoming_file_accept on a file with a channel or without: without one
\* the calls on it do nothing, though accept returns true.
AcceptOn(f, has_channel) ==
  /\ file' = [file EXCEPT ![f] = TRUE]
  /\ handlers' = [handlers EXCEPT ![f] = IF has_channel THEN @ + 1 ELSE @]
  /\ call' = [call EXCEPT ![f] = IF has_channel THEN "in_flight" ELSE @]

\* What the application does with a file it is handed: accept it, keep it.
\* _server_incoming_file of the example does both.
Answers(f) ==
  IF f \in example THEN {[accepts |-> TRUE, keeps |-> TRUE]}
  ELSE [accepts : BOOLEAN, keeps : BOOLEAN]

\* _file_handler_handle_channels for a service of the roster: incoming-file is
\* emitted, and the client lets go of the file.
IncomingFile(f) ==
  /\ Running
  /\ f \in Incoming /\ held[f] = "not_yet"
  /\ \E answer \in Answers(f) :
       /\ IF answer.accepts THEN AcceptOn(f, TRUE) ELSE UNCHANGED <<file, handlers, call>>
       /\ IF answer.keeps
          THEN /\ held' = [held EXCEPT ![f] = "held"]
               /\ tp_channel' = [tp_channel EXCEPT ![f] = TRUE]
               /\ UNCHANGED <<closing, careless>>
          ELSE /\ held' = [held EXCEPT ![f] = "dropped"]
               /\ closing' = closing \cup {f}
               /\ careless' = IF answer.accepts THEN careless \cup {f} ELSE careless
               /\ UNCHANGED tp_channel
  /\ UNCHANGED <<channel, progress, outcomes, fault>>

\* The same for a service that is not in the roster: nobody hears of the file,
\* and its channel is kept.
UnknownSender(f) ==
  /\ Running
  /\ f \in Incoming /\ held[f] = "not_yet"
  /\ held' = [held EXCEPT ![f] = "ignored"]
  /\ UNCHANGED <<channel, tp_channel, file, handlers, call, progress, outcomes,
                 closing, careless, fault>>

\* yts_incoming_file_accept, at any time later.
Accept(f) ==
  /\ Running
  /\ f \in Incoming \ example /\ held[f] = "held" /\ ~file[f]
  /\ AcceptOn(f, tp_channel[f])
  /\ UNCHANGED <<channel, told_vars, fault>>

\* yts_incoming_file_reject, before the file is accepted or after.  The channel
\* ends when it is told to.
Reject(f) ==
  /\ Running
  /\ f \in Incoming \ example /\ held[f] = "held" /\ tp_channel[f]
  /\ CloseIf(f, TRUE)
  /\ UNCHANGED <<channel, file, handlers, call, progress, outcomes, held, careless, fault>>

\* An application drops a file when it likes.
Drop(f) ==
  /\ Running
  /\ f \notin example /\ held[f] = "held"
  /\ Dispose(f, Quiet(f))
  /\ UNCHANGED <<channel, file, handlers, call, progress, outcomes, fault>>

-----------------------------------------------------------------------------
(* The channel *)

\* Mutant: the transfer starts when the call returns, whatever came before.
CallSucceeds_Starts(f) ==
  /\ Running
  /\ call[f] = "in_flight"
  /\ call' = [call EXCEPT ![f] = "done"]
  /\ channel' = [channel EXCEPT ![f] = IF @ = "pending" THEN "accepted" ELSE @]
  /\ progress' = [progress EXCEPT ![f] = "start"]
  /\ UNCHANGED <<tp_channel, file, handlers, outcomes, held, closing, careless, fault>>

\* _channel_provide_file, _channel_accept_file, without an error.
CallSucceeds(f) ==
  /\ Running
  /\ call[f] = "in_flight"
  /\ call' = [call EXCEPT ![f] = "done"]
  /\ channel' = [channel EXCEPT ![f] = IF @ = "pending" THEN "accepted" ELSE @]
  /\ Called(f, UNCHANGED <<told_vars, fault>>)
  /\ UNCHANGED <<file, handlers>>

\* _channel_provide_file, _channel_accept_file, with an error: it is reported,
\* even where the channel was released meanwhile and finish is called on NULL,
\* and a channel that is there is kept.
CallFails(f) ==
  /\ Running
  /\ call[f] = "in_flight"
  /\ call' = [call EXCEPT ![f] = "failed"]
  /\ Called(f, SetAndEmitError(f, FALSE))
  /\ UNCHANGED <<channel, file, handlers>>

\* The state changes to OPEN: no handler has a branch for it.
Opens(f) ==
  /\ Running
  /\ channel[f] = "accepted" \/ (f \in Incoming /\ channel[f] = "pending")
  /\ call[f] # "none"
  /\ channel' = [channel EXCEPT ![f] = "open"]
  /\ Called(f, UNCHANGED <<told_vars, fault>>)
  /\ UNCHANGED <<file, handlers, call>>

\* Mutant: the last of the bytes is taken for the end, which comes as well.
TransferredBytes_Over(f) ==
  /\ Running
  /\ channel[f] = "open" /\ call[f] \in {"in_flight", "done"}
  /\ Called(f, Tell(f, "completed", "over", "over", FALSE))
  /\ UNCHANGED <<channel, file, handlers, call>>

\* _channel_notify_transferred_bytes
TransferredBytes(f) ==
  /\ Running
  /\ channel[f] = "open" /\ call[f] \in {"in_flight", "done"}
  /\ Called(f, /\ progress' = [progress EXCEPT ![f] = "under_way"]
               /\ UNCHANGED <<tp_channel, outcomes, held, closing, careless, fault>>)
  /\ UNCHANGED <<channel, file, handlers, call>>

\* _channel_notify_state: COMPLETED.  The progress is set before it is notified.
Completes(f) ==
  /\ Running
  /\ channel[f] = "open" /\ call[f] = "done"
  /\ channel' = [channel EXCEPT ![f] = "completed"]
  /\ Called(f, Tell(f, "completed", "over", "over", TRUE))
  /\ UNCHANGED <<file, handlers, call>>

\* The channel is cancelled, at the other end or because it was closed at this
\* one; if the handlers are connected, _channel_notify_state has the reason.
Cancelled(f, reason) ==
  /\ Running
  /\ channel[f] \in {"pending", "accepted", "open"}
  /\ channel' = [channel EXCEPT ![f] = "cancelled"]
  /\ IF handlers[f] > 0 THEN Called(f, ToldOfCancellation(f, reason))
     ELSE UNCHANGED <<told_vars, fault>>
  /\ UNCHANGED <<file, handlers, call>>

\* Mutant: the object is told that its channel is closed.
ChannelClosed_Touches(f) ==
  /\ Running
  /\ f \in closing
  /\ closing' = closing \ {f}
  /\ IF held[f] = "dropped" THEN MayFault("freed file") ELSE UNCHANGED fault
  /\ UNCHANGED <<channel, tp_channel, file, handlers, call, progress, outcomes, held, careless>>

\* _channel_close: the object may be gone, and is left alone.
ChannelClosed(f) ==
  /\ Running
  /\ f \in closing
  /\ closing' = closing \ {f}
  /\ UNCHANGED <<channel, tp_channel, file, handlers, call, progress, outcomes, held,
                 careless, fault>>

-----------------------------------------------------------------------------
Next ==
  /\ UNCHANGED example
  /\ \E f \in Files :
       \/ \E account \in {"none", "offline", "connected"}, given \in {"none", "missing", "readable"} :
            SendFile(f, account, given)
       \/ ChannelCreated(f) \/ ChannelRefused(f) \/ RemoteAccepts(f)
       \/ IncomingFile(f) \/ UnknownSender(f) \/ Accept(f) \/ Reject(f)
       \/ Drop(f)
       \/ CallSucceeds(f) \/ CallFails(f)
       \/ Opens(f) \/ TransferredBytes(f) \/ Completes(f)
       \/ \E reason \in Reasons : Cancelled(f, reason)
       \/ ChannelClosed(f)

Spec == Init /\ [][Next]_vars

-----------------------------------------------------------------------------
\* Signals and progress do not contradict each other.  A handler that is told
\* of an error or a cancellation may still read the progress of before (it is
\* emitted before the progress is set, yts-outgoing-file.c, 195-196 and
\* 267-268), but never that of a transfer that is complete; and when the
\* handlers are done, the progress agrees with the last that they were told.
ProgressTells ==
  \A f \in Files :
    /\ \A i \in DOMAIN outcomes[f] :
         outcomes[f][i].what = "completed" <=> outcomes[f][i].seen = "over"
    /\ progress[f] = "over"
         <=> outcomes[f] # <<>> /\ outcomes[f][Len(outcomes[f])].what = "completed"
    /\ progress[f] = "negative"
         <=> outcomes[f] # <<>> /\ outcomes[f][Len(outcomes[f])].what # "completed"

\* An application hears at most once of the end of the channel and once of a
\* call that failed, in either order (a late result is reported even after the
\* channel was released, yts-incoming-file.c, 382-391); and a transfer that
\* completed is never reported to have failed as well.
OutcomeOnce ==
  \A f \in Files :
    /\ Len(outcomes[f]) <= (IF channel[f] \in Ended THEN 1 ELSE 0)
                            + (IF call[f] = "failed" THEN 1 ELSE 0)
    /\ (\E i \in DOMAIN outcomes[f] : outcomes[f][i].what = "completed") => Len(outcomes[f]) = 1

\* An application can be rid of a file safely: one that drops it outside its
\* handlers, with no call in flight and the channel at an end or never listened
\* to, leaves nothing behind that touches the freed object, not even the call
\* that closes the channel ("Object might be in dispose() already, do not touch
\* self/priv any more", yts-outgoing-file.c, 205).
SafeToDrop == fault = "freed file" => careless # {}

\* A transfer that is over, one way or the other, does not come back: no late
\* result of a call and no late change of the channel moves its progress.
OverIsOver ==
  [][\A f \in Files :
       progress[f] \in {"over", "negative"} => progress'[f] = progress[f]]_vars
=============================================================================
