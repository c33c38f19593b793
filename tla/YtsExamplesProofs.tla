------------------------- MODULE YtsExamplesProofs -------------------------
(***************************************************************************)
(* The applications: files between them, for any number of files, the      *)
(* programs of examples/ and tests/, for any bounds, and the messages that *)
(* one makes, reads, extracts and compares, for any elements and           *)
(* attributes.                                                             *)
(*                                                                         *)
(* Of files, the invariant says where the handlers and the call of a file  *)
(* are for each state of its channel (Lifecycle), and what can have been   *)
(* told by then (Account): one thing for the end of the channel, one for a *)
(* call that failed, and completion only where both went well.  That a file*)
(* which was dropped with care stays quiet (Quiescent) needs all of        *)
(* Lifecycle: no channel that could still call has its handlers            *)
(* unconnected.                                                            *)
(***************************************************************************)
EXTENDS YtsFileTransfer, YtsPrograms, YtsMetadataUse, SequenceTheorems,
        FiniteSetTheorems, WellFoundedInduction, TLAPS

Lifecycle(f) ==
  /\ f \in Outgoing /\ channel[f] \in {"none", "requested"} => handlers[f] = 0 /\ call[f] = "none"
  /\ f \in Outgoing /\ channel[f] = "pending" => handlers[f] = 1 /\ call[f] = "none"
  /\ f \in Outgoing /\ held[f] = "not_yet" => channel[f] = "none"
  /\ f \in Incoming => channel[f] \notin {"none", "requested"}
  /\ f \in Incoming /\ held[f] = "not_yet" => ~file[f]
  /\ ~file[f] => f \in Incoming /\ handlers[f] = 0 /\ call[f] = "none" /\ outcomes[f] = <<>>
  /\ channel[f] = "accepted" => call[f] # "none"
  /\ channel[f] = "open" => call[f] # "none"
  /\ call[f] # "none" => handlers[f] = 1

Last(s) == s[Len(s)]

Ends(f) == IF channel[f] \in Ended THEN 1 ELSE 0
Failures(f) == IF call[f] = "failed" THEN 1 ELSE 0

\* Whether o may be told now, and whether nothing was said to be complete.
Tellable(f, o) ==
  /\ o.what = "completed" <=> o.seen = "over"
  /\ o.what = "completed" => channel[f] = "completed" /\ call[f] = "done"

NoneCompleted(s) == \A i \in DOMAIN s : s[i].what # "completed" /\ s[i].seen # "over"

Account(f) ==
  /\ Len(outcomes[f]) <= Ends(f) + Failures(f)
  /\ \A i \in DOMAIN outcomes[f] : Tellable(f, outcomes[f][i])
  /\ progress[f] = "over" <=> (outcomes[f] # <<>> /\ Last(outcomes[f]).what = "completed")
  /\ progress[f] = "negative" <=> (outcomes[f] # <<>> /\ Last(outcomes[f]).what # "completed")

Quiescent(f) == held[f] = "dropped" /\ f \notin careless => Quiet(f)

FileInv(f) == Lifecycle(f) /\ Account(f) /\ Quiescent(f)

FilesInv ==
  /\ TypeOK
  /\ \A f \in Files : FileInv(f)
  /\ SafeToDrop

-----------------------------------------------------------------------------
(* What is told *)

\* One outcome more.
LEMMA OneMore ==
  ASSUME NEW s \in Seq(Outcomes), NEW o \in Outcomes
  PROVE  /\ Append(s, o) \in Seq(Outcomes) /\ Append(s, o) # <<>>
         /\ Len(Append(s, o)) = Len(s) + 1
         /\ Last(Append(s, o)) = o
         /\ \A i \in DOMAIN Append(s, o) :
              Append(s, o)[i] = o \/ (i \in DOMAIN s /\ Append(s, o)[i] = s[i])
<1>1. /\ Append(s, o) \in Seq(Outcomes) /\ Append(s, o) # <<>>
      /\ Len(Append(s, o)) = Len(s) + 1
      /\ \A i \in 1 .. Len(s) : Append(s, o)[i] = s[i]
      /\ Append(s, o)[Len(s) + 1] = o
  BY AppendProperties
<1>2. Last(Append(s, o)) = o
  BY <1>1 DEF Last
<1>3. /\ DOMAIN s = 1 .. Len(s) /\ DOMAIN Append(s, o) = 1 .. (Len(s) + 1)
      /\ Len(s) \in Nat
  BY <1>1, LenProperties
<1>4. \A i \in 1 .. (Len(s) + 1) : i = Len(s) + 1 \/ i \in 1 .. Len(s)
  BY <1>3
<1>5. QED  BY <1>1, <1>2, <1>3, <1>4

\* Before its channel has ended and its call has failed, nothing is told of f.
LEMMA Untold ==
  ASSUME TypeOK, NEW f \in Files, Account(f), channel[f] \notin Ended, call[f] # "failed"
  PROVE  outcomes[f] = <<>> /\ progress[f] \notin {"over", "negative"}
<1>1. Len(outcomes[f]) <= 0
  BY DEF Account, Ends, Failures
<1>2. outcomes[f] \in Seq(Outcomes)
  BY DEF TypeOK
<1>3. outcomes[f] = <<>>
  BY <1>1, <1>2, EmptySeq
<1>4. QED  BY <1>3 DEF Account

\* What has not completed was not said to have.
LEMMA Uncompleted ==
  ASSUME TypeOK, NEW f \in Files, Account(f), channel[f] \notin Ended \/ call[f] # "done"
  PROVE  NoneCompleted(outcomes[f]) /\ progress[f] # "over"
<1>1. NoneCompleted(outcomes[f])
  BY DEF Account, Tellable, NoneCompleted, Ended
<1>2. outcomes[f] # <<>> => Len(outcomes[f]) \in DOMAIN outcomes[f]
  <2>1. outcomes[f] \in Seq(Outcomes)
    BY DEF TypeOK
  <2>2. QED  BY <2>1, LenProperties, EmptySeq
<1>3. QED  BY <1>1, <1>2 DEF Account, NoneCompleted, Last

\* An account does not change with a step that tells nothing and ends nothing.
LEMMA KeptAccount ==
  ASSUME TypeOK, NEW f \in Files, Account(f),
         outcomes'[f] = outcomes[f], progress'[f] = progress[f],
         channel'[f] = channel[f] \/ channel[f] \notin Ended,
         call'[f] = call[f] \/ call[f] \in {"none", "in_flight"}
  PROVE  Account(f)'
<1>1. Ends(f) <= Ends(f)' /\ Ends(f) \in {0, 1} /\ Ends(f)' \in {0, 1}
  BY DEF Ends
<1>2. Failures(f) <= Failures(f)' /\ Failures(f) \in {0, 1} /\ Failures(f)' \in {0, 1}
  BY DEF Failures
<1>3. Len(outcomes[f]) \in Nat /\ Len(outcomes[f]) <= Ends(f) + Failures(f)
  BY LenProperties DEF TypeOK, Account
<1>4. Len(outcomes'[f]) <= Ends(f)' + Failures(f)'
  BY <1>1, <1>2, <1>3
<1>5. (\A i \in DOMAIN outcomes[f] : Tellable(f, outcomes[f][i]))'
  BY DEF Account, Tellable, Ended
<1>6. QED  BY <1>4, <1>5 DEF Account, Last

\* The parts of the state that telling an application changes.
ToldTypeOK ==
  /\ tp_channel \in [Files -> BOOLEAN]
  /\ progress \in [Files -> Progress]
  /\ outcomes \in [Files -> Seq(Outcomes)]
  /\ held \in [Files -> {"not_yet", "ignored", "held", "dropped"}]
  /\ closing \in SUBSET Files
  /\ careless \in SUBSET Files
  /\ fault \in {"none", "freed error", "freed file"}

\* What a step leaves of a file: all there is, but for being careless.
ToldKept(g) ==
  /\ tp_channel'[g] = tp_channel[g]
  /\ progress'[g] = progress[g]
  /\ outcomes'[g] = outcomes[g]
  /\ held'[g] = held[g]
  /\ g \in careless => g \in careless'

Kept(g) ==
  /\ channel'[g] = channel[g]
  /\ file'[g] = file[g]
  /\ handlers'[g] = handlers[g]
  /\ call'[g] = call[g]
  /\ ToldKept(g)

\* Telling f: one outcome and the progress for it; the channel may be given up
\* and the file be dropped, but then from a handler.
LEMMA TellParts ==
  ASSUME TypeOK, Running, NEW f \in Files, NEW what, NEW seen, [what |-> what, seen |-> seen] \in Outcomes,
         NEW p \in Progress, NEW closes \in BOOLEAN, Tell(f, what, seen, p, closes)
  PROVE  /\ ToldTypeOK'
         /\ outcomes'[f] = Append(outcomes[f], [what |-> what, seen |-> seen])
         /\ progress'[f] = p
         /\ tp_channel'[f] => tp_channel[f] /\ ~closes
         /\ held'[f] = held[f] \/ (held'[f] = "dropped" /\ f \in careless')
         /\ SafeToDrop'
         /\ \A g \in Files \ {f} : ToldKept(g)
<1>0. PICK o \in Outcomes : o = [what |-> what, seen |-> seen]
  OBVIOUS
<1>1. PICK drops \in BOOLEAN :
        /\ outcomes' = [outcomes EXCEPT ![f] = Append(@, o)]
        /\ progress' = [progress EXCEPT ![f] = p]
        /\ CloseIf(f, closes \/ drops)
        /\ held' = [held EXCEPT ![f] = IF drops THEN "dropped" ELSE @]
        /\ careless' = IF drops THEN careless \cup {f} ELSE careless
        /\ IF drops THEN MayFault("freed file") ELSE UNCHANGED fault
  BY <1>0 DEF Tell, Drops
<1>2. outcomes' \in [Files -> Seq(Outcomes)] /\ outcomes'[f] = Append(outcomes[f], o)
  BY <1>1, OneMore DEF TypeOK
<1>3. /\ tp_channel' \in [Files -> BOOLEAN] /\ closing' \in SUBSET Files
      /\ tp_channel'[f] => tp_channel[f] /\ ~closes
      /\ \A g \in Files \ {f} : tp_channel'[g] = tp_channel[g]
  BY <1>1 DEF TypeOK, CloseIf
<1>4. /\ fault' \in {"none", "freed error", "freed file"}
      /\ fault' = "freed file" => f \in careless'
  BY <1>1 DEF TypeOK, MayFault, Running
<1>5. /\ progress' \in [Files -> Progress] /\ progress'[f] = p
      /\ held' \in [Files -> {"not_yet", "ignored", "held", "dropped"}]
      /\ held'[f] = held[f] \/ (held'[f] = "dropped" /\ f \in careless')
      /\ careless' \in SUBSET Files
  BY <1>1 DEF TypeOK
<1>6. \A g \in Files \ {f} : ToldKept(g)
  BY <1>1, <1>3 DEF TypeOK, ToldKept
<1>7. QED  BY <1>0, <1>2, <1>3, <1>4, <1>5, <1>6 DEF ToldTypeOK, SafeToDrop

\* What has been told agrees with the progress after it, if nothing completed
\* before and the step is the end of the channel or the failure of the call.
LEMMA ToldOnce ==
  ASSUME TypeOK, NEW f \in Files, Account(f), NEW o \in Outcomes,
         outcomes'[f] = Append(outcomes[f], o),
         progress'[f] = (IF o.what = "completed" THEN "over" ELSE "negative"),
         NoneCompleted(outcomes[f]), Tellable(f, o)',
         Ends(f)' + Failures(f)' = Ends(f) + Failures(f) + 1
  PROVE  Account(f)'
<1> DEFINE s == outcomes[f]
<1>1. /\ Append(s, o) # <<>> /\ Len(Append(s, o)) = Len(s) + 1
      /\ Last(Append(s, o)) = o
      /\ \A i \in DOMAIN Append(s, o) :
           Append(s, o)[i] = o \/ (i \in DOMAIN s /\ Append(s, o)[i] = s[i])
  BY OneMore DEF TypeOK
<1>2. Last(outcomes[f])' = o /\ outcomes'[f] # <<>>
  BY <1>1 DEF Last
<1>3. Len(outcomes'[f]) <= Ends(f)' + Failures(f)'
  <2>1. Len(s) \in Nat /\ Len(s) <= Ends(f) + Failures(f)
    BY LenProperties DEF TypeOK, Account
  <2>2. Ends(f) + Failures(f) \in Nat
    BY DEF Ends, Failures
  <2>3. QED  BY <1>1, <2>1, <2>2
<1>4. (\A i \in DOMAIN outcomes[f] : Tellable(f, outcomes[f][i]))'
  BY <1>1 DEF NoneCompleted, Tellable
<1>5. QED  BY <1>2, <1>3, <1>4 DEF Account

\* A file that keeps its parts keeps its invariant.
LEMMA KeptInv ==
  ASSUME NEW g \in Files, FileInv(g), Kept(g)
  PROVE  FileInv(g)'
<1>1. Account(g)'
  BY DEF FileInv, Account, Tellable, Ends, Failures, Kept, ToldKept, Last
<1>2. QED  BY <1>1 DEF FileInv, Lifecycle, Quiescent, Quiet, Kept, ToldKept

\* A step of f is to be looked at for f alone.
LEMMA StepOfOne ==
  ASSUME FilesInv, NEW f \in Files, TypeOK', FileInv(f)', SafeToDrop',
         \A g \in Files \ {f} : Kept(g)
  PROVE  FilesInv'
<1>1. ASSUME NEW g \in Files, g # f PROVE FileInv(g)'
  BY <1>1, KeptInv DEF FilesInv
<1>2. QED  BY <1>1 DEF FilesInv

-----------------------------------------------------------------------------
(* The steps of a file *)

\* A handler or call that finds nothing to tell.
LEMMA CalledQuietly ==
  ASSUME TypeOK, Running, SafeToDrop, NEW f \in Files, FileInv(f), ~Quiet(f),
         Called(f, UNCHANGED <<told_vars, fault>>)
  PROVE  /\ ToldTypeOK' /\ SafeToDrop'
         /\ \A g \in Files : ToldKept(g)
         /\ UNCHANGED told_vars
  BY DEF TypeOK, ToldTypeOK, SafeToDrop, FileInv, Quiescent, Called, MayFault, Running,
         ToldKept, told_vars

\* One that tells, or finds the file dropped.
LEMMA CalledTelling ==
  ASSUME TypeOK, Running, SafeToDrop, NEW f \in Files, FileInv(f), ~Quiet(f),
         NEW what, NEW seen, [what |-> what, seen |-> seen] \in Outcomes,
         NEW p \in Progress, NEW closes \in BOOLEAN, Called(f, Tell(f, what, seen, p, closes))
  PROVE  /\ ToldTypeOK' /\ SafeToDrop'
         /\ \A g \in Files \ {f} : ToldKept(g)
         /\ held'[f] = held[f] \/ (held'[f] = "dropped" /\ f \in careless')
         /\ held[f] \in {"held", "dropped"}
         /\ held[f] = "dropped" => f \in careless'
         /\ \/ UNCHANGED told_vars
            \/ /\ outcomes'[f] = Append(outcomes[f], [what |-> what, seen |-> seen])
               /\ progress'[f] = p
<1>1. CASE held[f] = "held" /\ Tell(f, what, seen, p, closes)
  BY <1>1, TellParts
<1>2. CASE held[f] = "dropped" /\ MayFault("freed file") /\ UNCHANGED told_vars
  BY <1>2 DEF TypeOK, ToldTypeOK, SafeToDrop, FileInv, Quiescent, MayFault, Running,
              ToldKept, told_vars
<1>3. QED  BY <1>1, <1>2 DEF Called

\* A call or a channel that fails where nothing has completed: an error or a
\* cancellation, the progress read in the handlers being the one of before.
LEMMA CalledFailing ==
  ASSUME TypeOK, Running, SafeToDrop, NEW f \in Files, FileInv(f), ~Quiet(f),
         progress[f] # "over", NEW what \in {"cancelled", "error"}, NEW closes \in BOOLEAN,
         Called(f, Tell(f, what, progress[f], "negative", closes))
  PROVE  /\ ToldTypeOK' /\ SafeToDrop'
         /\ \A g \in Files \ {f} : ToldKept(g)
         /\ held'[f] = held[f] \/ (held'[f] = "dropped" /\ f \in careless')
         /\ held[f] \in {"held", "dropped"}
         /\ held[f] = "dropped" => f \in careless'
         /\ \/ UNCHANGED told_vars
            \/ \E o \in Outcomes :
                 /\ outcomes'[f] = Append(outcomes[f], o) /\ progress'[f] = "negative"
                 /\ o.what # "completed" /\ o.seen # "over"
<1>1. PICK o \in Outcomes : o = [what |-> what, seen |-> progress[f]]
  BY DEF TypeOK, Outcomes
<1>2. o.what # "completed" /\ o.seen # "over"
  BY <1>1
<1>3. "negative" \in Progress
  BY DEF Progress
<1>4. QED  BY <1>1, <1>2, <1>3, CalledTelling

LEMMA SendFileInv ==
  ASSUME FilesInv, NEW f \in Files, UNCHANGED example,
         NEW account \in {"none", "offline", "connected"},
         NEW given \in {"none", "missing", "readable"}, SendFile(f, account, given)
  PROVE  FilesInv'
<1>1. TypeOK' /\ SafeToDrop' /\ \A g \in Files \ {f} : Kept(g)
  BY DEF FilesInv, TypeOK, SafeToDrop, SendFile, Initable, MayFault, Running, Kept, ToldKept
<1>2. /\ f \in Outgoing /\ f \notin Incoming /\ channel[f] = "none"
      /\ channel'[f] \in {"none", "requested"}
      /\ held'[f] = IF channel'[f] = "requested" THEN "held" ELSE "not_yet"
      /\ UNCHANGED <<tp_channel, file, handlers, call, progress, outcomes, careless>>
  BY FileTransferAssumption
     DEF FilesInv, TypeOK, FileInv, Lifecycle, SendFile, Initable, FileTransferAssumption
<1>3. Lifecycle(f)' /\ Quiescent(f)'
  BY <1>2 DEF FilesInv, FileInv, Lifecycle, Quiescent
<1>4. Account(f)'
  BY <1>2, KeptAccount DEF FilesInv, FileInv, Ended
<1>5. QED  BY <1>1, <1>3, <1>4, StepOfOne DEF FileInv

LEMMA ChannelCreatedInv ==
  ASSUME FilesInv, NEW f \in Files, UNCHANGED example, ChannelCreated(f)
  PROVE  FilesInv'
<1>1. f \in Outgoing /\ f \notin Incoming /\ handlers[f] = 0 /\ call[f] = "none"
  BY DEF FilesInv, FileInv, Lifecycle, ChannelCreated, Files
<1>2. /\ channel[f] = "requested" /\ channel' = [channel EXCEPT ![f] = "pending"]
      /\ handlers' = [handlers EXCEPT ![f] = handlers[f] + 1]
      /\ IF held[f] = "dropped" THEN MayFault("freed file") ELSE UNCHANGED fault
      /\ UNCHANGED <<file, call, progress, outcomes, held, closing, careless>>
  BY Zenon DEF ChannelCreated
<1>3. handlers' \in [Files -> 0..1] /\ handlers'[f] = 1
  <2>1. handlers \in [Files -> 0..1]
    BY DEF FilesInv, TypeOK
  <2>2. handlers[f] + 1 = 1
    BY <1>1
  <2>3. handlers' = [handlers EXCEPT ![f] = 1]
    BY <1>2, <2>2, Zenon
  <2>4. QED  BY <2>1, <2>3
<1>4. tp_channel' \in [Files -> BOOLEAN]
  <2>1. PICK b \in BOOLEAN : tp_channel' = [tp_channel EXCEPT ![f] = b]
    BY Zenon DEF ChannelCreated
  <2>2. QED  BY <2>1 DEF FilesInv, TypeOK
<1>5. TypeOK'
  BY <1>2, <1>3, <1>4 DEF FilesInv, TypeOK, MayFault
<1>6. SafeToDrop' /\ \A g \in Files \ {f} : Kept(g)
  BY DEF FilesInv, TypeOK, FileInv, Quiescent, Quiet, SafeToDrop, ChannelCreated, MayFault, Running,
         Kept, ToldKept
<1>7. channel'[f] = "pending"
  BY <1>2 DEF FilesInv, TypeOK
<1>8. Lifecycle(f)'
  BY <1>1, <1>2, <1>3, <1>7 DEF FilesInv, FileInv, Lifecycle
<1>9. Account(f)'
  BY <1>1, <1>2, <1>7, KeptAccount DEF FilesInv, FileInv, Ended
<1>10. Quiescent(f)'
  BY <1>2 DEF FilesInv, FileInv, Quiescent, Quiet
<1>11. QED  BY <1>5, <1>6, <1>8, <1>9, <1>10, StepOfOne DEF FileInv

LEMMA ChannelRefusedInv ==
  ASSUME FilesInv, NEW f \in Files, UNCHANGED example, ChannelRefused(f)
  PROVE  FilesInv'
<1>1. /\ f \in Outgoing /\ handlers[f] = 0 /\ call[f] = "none" /\ channel[f] \notin Ended
      /\ ~Quiet(f)
  BY DEF FilesInv, FileInv, Lifecycle, Quiet, ChannelRefused, Files, Ended
<1>2. /\ ToldTypeOK' /\ SafeToDrop'
      /\ \A g \in Files \ {f} : ToldKept(g)
      /\ held'[f] = held[f] \/ (held'[f] = "dropped" /\ f \in careless')
      /\ held[f] \in {"held", "dropped"}
      /\ held[f] = "dropped" => f \in careless'
      /\ \/ UNCHANGED told_vars
         \/ \E o \in Outcomes :
              /\ outcomes'[f] = Append(outcomes[f], o) /\ progress'[f] = "negative"
              /\ o.what # "completed" /\ o.seen # "over"
  <2>1. progress[f] # "over"
    BY <1>1, Uncompleted DEF FilesInv, FileInv
  <2>2. QED
    BY <1>1, <2>1, CalledFailing DEF FilesInv, ChannelRefused, SetAndEmitError
<1>3. TypeOK' /\ \A g \in Files \ {f} : Kept(g)
  BY <1>2 DEF FilesInv, TypeOK, ToldTypeOK, ChannelRefused, Kept, Ended
<1>4. Account(f)'
  <2>1. channel'[f] \in Ended /\ call'[f] = "none"
    BY <1>1 DEF FilesInv, TypeOK, ChannelRefused, Ended
  <2>2. CASE UNCHANGED told_vars
    BY <1>1, <2>1, <2>2, KeptAccount DEF FilesInv, FileInv, told_vars
  <2>3. CASE \E o \in Outcomes :
               /\ outcomes'[f] = Append(outcomes[f], o) /\ progress'[f] = "negative"
               /\ o.what # "completed" /\ o.seen # "over"
    <3>1. PICK o \in Outcomes :
            /\ outcomes'[f] = Append(outcomes[f], o) /\ progress'[f] = "negative"
            /\ o.what # "completed" /\ o.seen # "over"
      BY <2>3
    <3>2. Ends(f)' + Failures(f)' = Ends(f) + Failures(f) + 1
      BY <1>1, <2>1 DEF Ends, Failures
    <3>3. NoneCompleted(outcomes[f])
      BY <1>1, Uncompleted DEF FilesInv, FileInv
    <3>4. Tellable(f, o)'
      BY <3>1 DEF Tellable
    <3>5. QED  BY <3>1, <3>2, <3>3, <3>4, ToldOnce DEF FilesInv, FileInv
  <2>4. QED  BY <1>2, <2>2, <2>3
<1>5. Lifecycle(f)'
  BY <1>1, <1>2, FileTransferAssumption
     DEF FilesInv, TypeOK, FileInv, Lifecycle, ChannelRefused, FileTransferAssumption
<1>6. Quiescent(f)'
  BY <1>2 DEF Quiescent
<1>7. QED  BY <1>2, <1>3, <1>4, <1>5, <1>6, StepOfOne DEF FileInv

LEMMA RemoteAcceptsInv ==
  ASSUME FilesInv, NEW f \in Files, UNCHANGED example, RemoteAccepts(f)
  PROVE  FilesInv'
<1>1. /\ f \in Outgoing /\ f \notin Incoming /\ channel[f] = "pending"
      /\ handlers[f] = 1 /\ call[f] = "none" /\ ~Quiet(f) /\ file[f]
  BY FileTransferAssumption
     DEF FilesInv, FileInv, Lifecycle, Quiet, Ended, RemoteAccepts, FileTransferAssumption
<1>2. /\ ToldTypeOK' /\ SafeToDrop' /\ UNCHANGED told_vars
      /\ \A g \in Files : ToldKept(g)
  BY <1>1, CalledQuietly DEF FilesInv, RemoteAccepts
<1>3. TypeOK' /\ \A g \in Files \ {f} : Kept(g)
  BY <1>2 DEF FilesInv, TypeOK, ToldTypeOK, RemoteAccepts, Kept
<1>4. /\ channel'[f] = "accepted" /\ call'[f] = "in_flight"
      /\ UNCHANGED <<file, handlers, progress, outcomes, held, careless>>
  BY <1>2 DEF FilesInv, TypeOK, RemoteAccepts, told_vars
<1>5. Lifecycle(f)'
  BY <1>1, <1>4 DEF FilesInv, FileInv, Lifecycle
<1>6. Account(f)'
  BY <1>1, <1>4, KeptAccount DEF FilesInv, FileInv, Ended
<1>7. Quiescent(f)'
  BY <1>1, <1>4 DEF FilesInv, FileInv, Quiescent
<1>8. QED  BY <1>2, <1>3, <1>5, <1>6, <1>7, StepOfOne DEF FileInv

\* An accepted file has the handlers and the call, if it has the channel.
LEMMA AcceptOnParts ==
  ASSUME FilesInv, NEW f \in Files, ~file[f], NEW has_channel \in BOOLEAN, AcceptOn(f, has_channel)
  PROVE  /\ file' \in [Files -> BOOLEAN] /\ file'[f]
         /\ handlers' \in [Files -> 0..1]
         /\ call' \in [Files -> {"none", "in_flight", "done", "failed"}]
         /\ f \in Incoming
         /\ handlers'[f] = (IF has_channel THEN 1 ELSE 0)
         /\ call'[f] = (IF has_channel THEN "in_flight" ELSE "none")
         /\ \A g \in Files \ {f} :
              file'[g] = file[g] /\ handlers'[g] = handlers[g] /\ call'[g] = call[g]
<1>1. f \in Incoming /\ handlers[f] = 0 /\ call[f] = "none"
  BY DEF FilesInv, FileInv, Lifecycle
<1>2. /\ file \in [Files -> BOOLEAN] /\ handlers \in [Files -> 0..1]
      /\ call \in [Files -> {"none", "in_flight", "done", "failed"}]
  BY DEF FilesInv, TypeOK
<1>3. handlers[f] + 1 = 1
  BY <1>1
<1>4. /\ file' = [file EXCEPT ![f] = TRUE]
      /\ handlers' = [handlers EXCEPT ![f] = IF has_channel THEN handlers[f] + 1 ELSE handlers[f]]
      /\ call' = [call EXCEPT ![f] = IF has_channel THEN "in_flight" ELSE call[f]]
  BY DEF AcceptOn
<1>5. handlers' = [handlers EXCEPT ![f] = IF has_channel THEN 1 ELSE 0]
  BY <1>1, <1>3, <1>4, Zenon
<1>6. QED  BY <1>1, <1>2, <1>4, <1>5

LEMMA IncomingFileInv ==
  ASSUME FilesInv, NEW f \in Files, UNCHANGED example, IncomingFile(f)
  PROVE  FilesInv'
<1>1. /\ f \in Incoming /\ f \notin Outgoing /\ held[f] = "not_yet" /\ ~file[f]
      /\ handlers[f] = 0 /\ call[f] = "none" /\ outcomes[f] = <<>>
  BY FileTransferAssumption
     DEF FilesInv, FileInv, Lifecycle, IncomingFile, FileTransferAssumption
<1>2. PICK accepts \in BOOLEAN, keeps \in BOOLEAN :
        /\ IF accepts THEN AcceptOn(f, TRUE) ELSE UNCHANGED <<file, handlers, call>>
        /\ IF keeps
           THEN /\ held' = [held EXCEPT ![f] = "held"]
                /\ tp_channel' = [tp_channel EXCEPT ![f] = TRUE]
                /\ UNCHANGED <<closing, careless>>
           ELSE /\ held' = [held EXCEPT ![f] = "dropped"]
                /\ closing' = closing \cup {f}
                /\ careless' = IF accepts THEN careless \cup {f} ELSE careless
                /\ UNCHANGED tp_channel
  BY DEF IncomingFile, Answers
<1>3. UNCHANGED <<channel, progress, outcomes, fault>>
  BY DEF IncomingFile
<1>4. /\ file' \in [Files -> BOOLEAN] /\ handlers' \in [Files -> 0..1]
      /\ call' \in [Files -> {"none", "in_flight", "done", "failed"}]
      /\ handlers'[f] = (IF accepts THEN 1 ELSE 0)
      /\ call'[f] = (IF accepts THEN "in_flight" ELSE "none")
      /\ \A g \in Files \ {f} :
           file'[g] = file[g] /\ handlers'[g] = handlers[g] /\ call'[g] = call[g]
  BY <1>1, <1>2, AcceptOnParts DEF FilesInv, TypeOK
<1>5. /\ held' \in [Files -> {"not_yet", "ignored", "held", "dropped"}]
      /\ tp_channel' \in [Files -> BOOLEAN]
      /\ closing' \in SUBSET Files /\ careless' \in SUBSET Files
      /\ held'[f] = (IF keeps THEN "held" ELSE "dropped")
      /\ ~keeps /\ accepts => f \in careless'
      /\ \A g \in Files \ {f} : held'[g] = held[g] /\ tp_channel'[g] = tp_channel[g]
      /\ careless \subseteq careless'
  BY <1>2 DEF FilesInv, TypeOK
<1>6. TypeOK'
  BY <1>3, <1>4, <1>5 DEF FilesInv, TypeOK
<1>7. SafeToDrop' /\ \A g \in Files \ {f} : Kept(g)
  BY <1>3, <1>4, <1>5 DEF FilesInv, SafeToDrop, Kept, ToldKept
<1>8. Lifecycle(f)'
  <2>1. ~accepts => file'[f] = file[f]
    BY <1>2
  <2>2. accepts => file'[f]
    BY <1>1, <1>2, AcceptOnParts
  <2>3. channel[f] \notin {"none", "requested", "accepted", "open"}
    BY <1>1 DEF FilesInv, FileInv, Lifecycle
  <2>4. QED  BY <1>1, <1>3, <1>4, <1>5, <2>1, <2>2, <2>3 DEF Lifecycle
<1>9. Account(f)'
  <2>1. call[f] = "none" /\ call'[f] \in {"none", "in_flight"}
    BY <1>1, <1>4
  <2>2. QED  BY <1>1, <1>3, <1>4, <2>1, KeptAccount DEF FilesInv, FileInv
<1>10. Quiescent(f)'
  <2>1. channel[f] # "requested"
    BY <1>1 DEF FilesInv, FileInv, Lifecycle
  <2>2. QED  BY <1>3, <1>4, <1>5, <2>1 DEF Quiescent, Quiet
<1>11. QED  BY <1>6, <1>7, <1>8, <1>9, <1>10, StepOfOne DEF FileInv

LEMMA UnknownSenderInv ==
  ASSUME FilesInv, NEW f \in Files, UNCHANGED example, UnknownSender(f)
  PROVE  FilesInv'
<1>1. f \notin Outgoing
  BY FileTransferAssumption DEF UnknownSender, FileTransferAssumption
<1>2. /\ UNCHANGED <<channel, tp_channel, file, handlers, call, progress, outcomes,
                     closing, careless, fault>>
      /\ held'[f] = "ignored" /\ held' \in [Files -> {"not_yet", "ignored", "held", "dropped"}]
      /\ \A g \in Files \ {f} : held'[g] = held[g]
  BY DEF FilesInv, TypeOK, UnknownSender
<1>3. TypeOK' /\ SafeToDrop' /\ \A g \in Files \ {f} : Kept(g)
  BY <1>2 DEF FilesInv, TypeOK, SafeToDrop, Kept, ToldKept
<1>4. FileInv(f)'
  <2>1. Account(f)'
    BY <1>2, KeptAccount DEF FilesInv, FileInv
  <2>2. QED  BY <1>1, <1>2, <2>1 DEF FilesInv, FileInv, Lifecycle, Quiescent
<1>5. QED  BY <1>3, <1>4, StepOfOne

LEMMA AcceptInv ==
  ASSUME FilesInv, NEW f \in Files, UNCHANGED example, Accept(f)
  PROVE  FilesInv'
<1>1. /\ f \in Incoming /\ f \notin Outgoing /\ held[f] = "held" /\ ~file[f]
      /\ outcomes[f] = <<>> /\ UNCHANGED <<channel, told_vars, fault>>
      /\ AcceptOn(f, tp_channel[f]) /\ tp_channel[f] \in BOOLEAN
  BY FileTransferAssumption
     DEF FilesInv, TypeOK, FileInv, Lifecycle, Accept, FileTransferAssumption
<1>2. /\ file' \in [Files -> BOOLEAN] /\ file'[f]
      /\ handlers' \in [Files -> 0..1]
      /\ call' \in [Files -> {"none", "in_flight", "done", "failed"}]
      /\ handlers'[f] = (IF tp_channel[f] THEN 1 ELSE 0)
      /\ call'[f] = (IF tp_channel[f] THEN "in_flight" ELSE "none")
      /\ \A g \in Files \ {f} :
           file'[g] = file[g] /\ handlers'[g] = handlers[g] /\ call'[g] = call[g]
  BY <1>1, AcceptOnParts
<1>3. TypeOK'
  BY <1>1, <1>2 DEF FilesInv, TypeOK, told_vars
<1>4. SafeToDrop' /\ \A g \in Files \ {f} : Kept(g)
  BY <1>1, <1>2 DEF FilesInv, SafeToDrop, Kept, ToldKept, told_vars
<1>5. channel[f] \notin {"none", "requested", "accepted", "open"}
  BY <1>1 DEF FilesInv, FileInv, Lifecycle
<1>6. Lifecycle(f)'
  BY <1>1, <1>2, <1>5 DEF FilesInv, FileInv, Lifecycle, told_vars
<1>7. Account(f)' /\ Quiescent(f)'
  <2>1. call[f] = "none"
    BY <1>1 DEF FilesInv, FileInv, Lifecycle
  <2>2. QED  BY <1>1, <1>2, <2>1, KeptAccount DEF FilesInv, FileInv, Quiescent, told_vars
<1>8. QED  BY <1>3, <1>4, <1>6, <1>7, StepOfOne DEF FileInv

LEMMA RejectInv ==
  ASSUME FilesInv, NEW f \in Files, UNCHANGED example, Reject(f)
  PROVE  FilesInv'
<1>1. /\ UNCHANGED <<channel, file, handlers, call, progress, outcomes, held, careless, fault>>
      /\ CloseIf(f, TRUE)
  BY DEF Reject
<1>2. /\ tp_channel' \in [Files -> BOOLEAN] /\ closing' \in SUBSET Files
      /\ ~tp_channel'[f] /\ \A g \in Files \ {f} : tp_channel'[g] = tp_channel[g]
  BY <1>1 DEF FilesInv, TypeOK, CloseIf
<1>3. TypeOK' /\ SafeToDrop' /\ \A g \in Files \ {f} : Kept(g)
  BY <1>1, <1>2 DEF FilesInv, TypeOK, SafeToDrop, Kept, ToldKept
<1>4. FileInv(f)'
  <2>1. Account(f)'
    BY <1>1, KeptAccount DEF FilesInv, FileInv
  <2>2. QED  BY <1>1, <1>2, <2>1 DEF FilesInv, FileInv, Lifecycle, Quiescent, Quiet
<1>5. QED  BY <1>3, <1>4, StepOfOne

LEMMA DropInv ==
  ASSUME FilesInv, NEW f \in Files, UNCHANGED example, Drop(f)
  PROVE  FilesInv'
<1>1. /\ UNCHANGED <<channel, file, handlers, call, progress, outcomes, fault>>
      /\ CloseIf(f, TRUE) /\ held[f] = "held"
      /\ held' = [held EXCEPT ![f] = "dropped"]
      /\ careless' = IF Quiet(f) THEN careless ELSE careless \cup {f}
  BY DEF Drop, Dispose
<1>2. /\ tp_channel' \in [Files -> BOOLEAN] /\ closing' \in SUBSET Files
      /\ ~tp_channel'[f] /\ \A g \in Files \ {f} : tp_channel'[g] = tp_channel[g]
  BY <1>1 DEF FilesInv, TypeOK, CloseIf
<1>3. /\ held' \in [Files -> {"not_yet", "ignored", "held", "dropped"}]
      /\ held'[f] = "dropped" /\ \A g \in Files \ {f} : held'[g] = held[g]
      /\ careless' \in SUBSET Files /\ careless \subseteq careless'
      /\ Quiet(f) \/ f \in careless'
  BY <1>1 DEF FilesInv, TypeOK
<1>4. TypeOK' /\ SafeToDrop' /\ \A g \in Files \ {f} : Kept(g)
  BY <1>1, <1>2, <1>3 DEF FilesInv, TypeOK, SafeToDrop, Kept, ToldKept
<1>5. Lifecycle(f)' /\ Account(f)'
  <2>1. Account(f)'
    BY <1>1, KeptAccount DEF FilesInv, FileInv
  <2>2. QED  BY <1>1, <1>2, <1>3, <2>1 DEF FilesInv, FileInv, Lifecycle
<1>6. Quiescent(f)'
  BY <1>1, <1>3 DEF Quiescent, Quiet
<1>7. QED  BY <1>4, <1>5, <1>6, StepOfOne DEF FileInv

-----------------------------------------------------------------------------
(* The steps of its channel *)

LEMMA CallSucceedsInv ==
  ASSUME FilesInv, NEW f \in Files, UNCHANGED example, CallSucceeds(f)
  PROVE  FilesInv'
<1>1. /\ call[f] = "in_flight" /\ handlers[f] = 1 /\ ~Quiet(f) /\ file[f]
      /\ f \in Outgoing => channel[f] \notin {"none", "requested", "pending"}
      /\ f \in Incoming /\ held[f] = "not_yet" => FALSE
  BY DEF FilesInv, FileInv, Lifecycle, Quiet, CallSucceeds
<1>2. /\ ToldTypeOK' /\ SafeToDrop' /\ UNCHANGED told_vars
      /\ \A g \in Files : ToldKept(g)
  BY <1>1, CalledQuietly DEF FilesInv, CallSucceeds
<1>3. TypeOK' /\ \A g \in Files \ {f} : Kept(g)
  BY <1>2 DEF FilesInv, TypeOK, ToldTypeOK, CallSucceeds, Kept
<1>4. /\ channel'[f] = (IF channel[f] = "pending" THEN "accepted" ELSE channel[f])
      /\ call'[f] = "done"
      /\ UNCHANGED <<file, handlers, progress, outcomes, held, careless>>
  BY <1>2 DEF FilesInv, TypeOK, CallSucceeds, told_vars
<1>5. Lifecycle(f)'
  BY <1>1, <1>4 DEF FilesInv, FileInv, Lifecycle
<1>6. Account(f)'
  BY <1>1, <1>4, KeptAccount DEF FilesInv, FileInv, Ended
<1>7. Quiescent(f)'
  BY <1>1, <1>4 DEF FilesInv, FileInv, Quiescent
<1>8. QED  BY <1>2, <1>3, <1>5, <1>6, <1>7, StepOfOne DEF FileInv

LEMMA CallFailsInv ==
  ASSUME FilesInv, NEW f \in Files, UNCHANGED example, CallFails(f)
  PROVE  FilesInv'
<1>1. call[f] = "in_flight" /\ handlers[f] = 1 /\ ~Quiet(f) /\ file[f]
  BY DEF FilesInv, FileInv, Lifecycle, Quiet, CallFails
<1>2. /\ ToldTypeOK' /\ SafeToDrop'
      /\ \A g \in Files \ {f} : ToldKept(g)
      /\ held'[f] = held[f] \/ (held'[f] = "dropped" /\ f \in careless')
      /\ held[f] = "dropped" => f \in careless'
      /\ held[f] \in {"held", "dropped"}
      /\ \/ UNCHANGED told_vars
         \/ \E o \in Outcomes :
              /\ outcomes'[f] = Append(outcomes[f], o) /\ progress'[f] = "negative"
              /\ o.what # "completed" /\ o.seen # "over"
  <2>1. progress[f] # "over"
    BY <1>1, Uncompleted DEF FilesInv, FileInv
  <2>2. QED
    BY <1>1, <2>1, CalledFailing DEF FilesInv, CallFails, SetAndEmitError
<1>3. TypeOK' /\ \A g \in Files \ {f} : Kept(g)
  BY <1>2 DEF FilesInv, TypeOK, ToldTypeOK, CallFails, Kept
<1>4. UNCHANGED <<channel, file, handlers>> /\ call'[f] = "failed"
  BY DEF FilesInv, TypeOK, CallFails
<1>5. Account(f)'
  <2>1. CASE UNCHANGED told_vars
    BY <1>1, <1>4, <2>1, KeptAccount DEF FilesInv, FileInv, told_vars
  <2>2. CASE \E o \in Outcomes :
               /\ outcomes'[f] = Append(outcomes[f], o) /\ progress'[f] = "negative"
               /\ o.what # "completed" /\ o.seen # "over"
    <3>1. PICK o \in Outcomes :
            /\ outcomes'[f] = Append(outcomes[f], o) /\ progress'[f] = "negative"
            /\ o.what # "completed" /\ o.seen # "over"
      BY <2>2
    <3>2. Ends(f)' + Failures(f)' = Ends(f) + Failures(f) + 1
      BY <1>1, <1>4 DEF Ends, Failures
    <3>3. NoneCompleted(outcomes[f])
      BY <1>1, Uncompleted DEF FilesInv, FileInv
    <3>4. Tellable(f, o)'
      BY <3>1 DEF Tellable
    <3>5. QED  BY <3>1, <3>2, <3>3, <3>4, ToldOnce DEF FilesInv, FileInv
  <2>3. QED  BY <1>2, <2>1, <2>2
<1>6. Lifecycle(f)'
  BY <1>1, <1>2, <1>4 DEF FilesInv, FileInv, Lifecycle
<1>7. Quiescent(f)'
  BY <1>2 DEF Quiescent
<1>8. QED  BY <1>2, <1>3, <1>5, <1>6, <1>7, StepOfOne DEF FileInv

LEMMA OpensInv ==
  ASSUME FilesInv, NEW f \in Files, UNCHANGED example, Opens(f)
  PROVE  FilesInv'
<1>1. /\ channel[f] \in {"pending", "accepted"} /\ channel[f] \notin Ended
      /\ call[f] # "none" /\ handlers[f] = 1 /\ ~Quiet(f) /\ file[f]
  BY DEF FilesInv, FileInv, Lifecycle, Quiet, Ended, Opens
<1>2. /\ ToldTypeOK' /\ SafeToDrop' /\ UNCHANGED told_vars
      /\ \A g \in Files : ToldKept(g)
  BY <1>1, CalledQuietly DEF FilesInv, Opens
<1>3. TypeOK' /\ \A g \in Files \ {f} : Kept(g)
  BY <1>2 DEF FilesInv, TypeOK, ToldTypeOK, Opens, Kept
<1>4. /\ channel'[f] = "open"
      /\ UNCHANGED <<file, handlers, call, progress, outcomes, held, careless>>
  BY <1>2 DEF FilesInv, TypeOK, Opens, told_vars
<1>5. Lifecycle(f)'
  BY <1>1, <1>4 DEF FilesInv, FileInv, Lifecycle
<1>6. Account(f)'
  BY <1>1, <1>4, KeptAccount DEF FilesInv, FileInv, Ended
<1>7. Quiescent(f)'
  BY <1>1, <1>4 DEF FilesInv, FileInv, Quiescent
<1>8. QED  BY <1>2, <1>3, <1>5, <1>6, <1>7, StepOfOne DEF FileInv

LEMMA TransferredBytesInv ==
  ASSUME FilesInv, NEW f \in Files, UNCHANGED example, TransferredBytes(f)
  PROVE  FilesInv'
<1>1. /\ channel[f] \notin Ended /\ handlers[f] = 1 /\ ~Quiet(f)
      /\ call[f] \in {"in_flight", "done"}
      /\ held[f] = "dropped" => f \in careless
  BY DEF FilesInv, FileInv, Lifecycle, Quiescent, Quiet, Ended, TransferredBytes
<1>2. UNCHANGED <<channel, file, handlers, call, tp_channel, outcomes, held, closing, careless>>
  BY DEF TransferredBytes, Called, told_vars
<1>3. /\ progress' \in [Files -> Progress] /\ progress'[f] \in {progress[f], "under_way"}
      /\ \A g \in Files \ {f} : progress'[g] = progress[g]
  BY DEF FilesInv, TypeOK, Progress, TransferredBytes, Called, told_vars
<1>4. fault' \in {"none", "freed error", "freed file"} /\ SafeToDrop'
  BY <1>1, <1>2 DEF FilesInv, TypeOK, SafeToDrop, TransferredBytes, Called, MayFault, Running
<1>5. TypeOK' /\ \A g \in Files \ {f} : Kept(g)
  BY <1>2, <1>3, <1>4 DEF FilesInv, TypeOK, Kept, ToldKept
<1>6. Lifecycle(f)' /\ Quiescent(f)'
  BY <1>2 DEF FilesInv, FileInv, Lifecycle, Quiescent, Quiet
<1>7. Account(f)'
  <2>1. outcomes[f] = <<>> /\ progress[f] \notin {"over", "negative"}
    BY <1>1, Untold DEF FilesInv, FileInv
  <2>2. QED
    BY <1>2, <1>3, <2>1 DEF FilesInv, FileInv, Account, Tellable, Ends, Failures
<1>8. QED  BY <1>4, <1>5, <1>6, <1>7, StepOfOne DEF FileInv

LEMMA CompletesInv ==
  ASSUME FilesInv, NEW f \in Files, UNCHANGED example, Completes(f)
  PROVE  FilesInv'
<1>1. /\ channel[f] = "open" /\ call[f] = "done" /\ handlers[f] = 1 /\ ~Quiet(f)
      /\ file[f] /\ channel[f] \notin Ended
  BY DEF FilesInv, FileInv, Lifecycle, Quiet, Ended, Completes
<1> DEFINE o == [what |-> "completed", seen |-> "over"]
<1>2. /\ ToldTypeOK' /\ SafeToDrop'
      /\ \A g \in Files \ {f} : ToldKept(g)
      /\ held'[f] = held[f] \/ (held'[f] = "dropped" /\ f \in careless')
      /\ held[f] = "dropped" => f \in careless'
      /\ held[f] \in {"held", "dropped"}
      /\ \/ UNCHANGED told_vars
         \/ outcomes'[f] = Append(outcomes[f], o) /\ progress'[f] = "over"
  <2>1. o \in Outcomes /\ "over" \in Progress
    BY DEF Outcomes, Progress
  <2>2. QED  BY <1>1, <2>1, CalledTelling DEF FilesInv, Completes
<1>3. TypeOK' /\ \A g \in Files \ {f} : Kept(g)
  BY <1>2 DEF FilesInv, TypeOK, ToldTypeOK, Completes, Kept, Ended
<1>4. UNCHANGED <<file, handlers, call>> /\ channel'[f] = "completed"
  BY DEF FilesInv, TypeOK, Completes
<1>5. Account(f)'
  <2>1. CASE UNCHANGED told_vars
    BY <1>1, <1>4, <2>1, KeptAccount DEF FilesInv, FileInv, told_vars
  <2>2. CASE outcomes'[f] = Append(outcomes[f], o) /\ progress'[f] = "over"
    <3>1. PICK oo \in Outcomes : oo = o
      BY DEF Outcomes, Progress
    <3>2. Ends(f)' + Failures(f)' = Ends(f) + Failures(f) + 1
      BY <1>1, <1>4 DEF Ends, Failures, Ended
    <3>3. NoneCompleted(outcomes[f])
      BY <1>1, Uncompleted DEF FilesInv, FileInv
    <3>4. Tellable(f, oo)' /\ oo.what = "completed"
      BY <1>1, <1>4, <3>1 DEF Tellable
    <3>5. QED  BY <2>2, <3>1, <3>2, <3>3, <3>4, ToldOnce DEF FilesInv, FileInv
  <2>3. QED  BY <1>2, <2>1, <2>2
<1>6. Lifecycle(f)'
  BY <1>1, <1>2, <1>4 DEF FilesInv, FileInv, Lifecycle
<1>7. Quiescent(f)'
  BY <1>2 DEF Quiescent
<1>8. QED  BY <1>2, <1>3, <1>5, <1>6, <1>7, StepOfOne DEF FileInv

LEMMA CancelledInv ==
  ASSUME FilesInv, NEW f \in Files, UNCHANGED example, NEW reason \in Reasons, Cancelled(f, reason)
  PROVE  FilesInv'
<1>1. /\ channel[f] \in {"pending", "accepted", "open"}
      /\ channel[f] \notin Ended
      /\ handlers[f] > 0 => handlers[f] = 1 /\ ~Quiet(f)
  <2>1. channel[f] \in {"pending", "accepted", "open"} /\ channel[f] \notin Ended
    BY DEF Cancelled, Ended
  <2>2. handlers \in [Files -> 0..1]
    BY DEF FilesInv, TypeOK
  <2>3. handlers[f] > 0 => handlers[f] = 1
    BY <2>2
  <2>4. QED  BY <2>1, <2>3 DEF Quiet
<1>2. UNCHANGED <<file, handlers, call>> /\ channel'[f] = "cancelled" /\ channel'[f] \in Ended
  BY DEF FilesInv, TypeOK, Cancelled, Ended
<1>3. /\ ToldTypeOK' /\ SafeToDrop'
      /\ \A g \in Files \ {f} : ToldKept(g)
      /\ held'[f] = held[f] \/ (held'[f] = "dropped" /\ f \in careless')
      /\ \/ UNCHANGED told_vars
         \/ /\ held[f] \in {"held", "dropped"} /\ (held[f] = "dropped" => f \in careless')
            /\ \E o \in Outcomes :
                 /\ outcomes'[f] = Append(outcomes[f], o) /\ progress'[f] = "negative"
                 /\ o.what # "completed" /\ o.seen # "over"
  <2>1. CASE ~(handlers[f] > 0)
    BY <2>1 DEF FilesInv, TypeOK, SafeToDrop, ToldTypeOK, ToldKept, Cancelled, told_vars
  <2>2. CASE handlers[f] > 0 /\ reason = "other"
    <3>1. Called(f, UNCHANGED <<told_vars, fault>>)
      BY <2>2 DEF Cancelled, Called, ToldOfCancellation
    <3>2. QED  BY <1>1, <2>2, <3>1, CalledQuietly DEF FilesInv, Cancelled, told_vars
  <2>3. CASE handlers[f] > 0 /\ reason # "other"
    <3>1. PICK what \in {"cancelled", "error"} :
            Called(f, Tell(f, what, progress[f], "negative", TRUE))
      BY <2>3 DEF Cancelled, Called, ToldOfCancellation, SetAndEmitError, Reasons
    <3>2. progress[f] # "over"
      BY <1>1, Uncompleted DEF FilesInv, FileInv
    <3>3. QED  BY <1>1, <2>3, <3>1, <3>2, CalledFailing DEF FilesInv, Cancelled
  <2>4. QED  BY <2>1, <2>2, <2>3
<1>4. TypeOK' /\ \A g \in Files \ {f} : Kept(g)
  BY <1>3 DEF FilesInv, TypeOK, ToldTypeOK, Cancelled, Kept, Ended
<1>5. Account(f)'
  <2>1. CASE UNCHANGED told_vars
    BY <1>1, <1>2, <2>1, KeptAccount DEF FilesInv, FileInv, told_vars
  <2>2. CASE \E o \in Outcomes :
               /\ outcomes'[f] = Append(outcomes[f], o) /\ progress'[f] = "negative"
               /\ o.what # "completed" /\ o.seen # "over"
    <3>1. PICK o \in Outcomes :
            /\ outcomes'[f] = Append(outcomes[f], o) /\ progress'[f] = "negative"
            /\ o.what # "completed" /\ o.seen # "over"
      BY <2>2
    <3>2. Ends(f)' + Failures(f)' = Ends(f) + Failures(f) + 1
      BY <1>1, <1>2 DEF Ends, Failures
    <3>3. NoneCompleted(outcomes[f])
      BY <1>1, Uncompleted DEF FilesInv, FileInv
    <3>4. Tellable(f, o)'
      BY <3>1 DEF Tellable
    <3>5. QED  BY <3>1, <3>2, <3>3, <3>4, ToldOnce DEF FilesInv, FileInv
  <2>3. QED  BY <1>3, <2>1, <2>2
<1>6. Lifecycle(f)'
  <2>1. ~file[f] => UNCHANGED outcomes
    <3>1. ~file[f] => ~(handlers[f] > 0)
      BY DEF FilesInv, FileInv, Lifecycle
    <3>2. QED  BY <3>1 DEF Cancelled, told_vars
  <2>2. held'[f] = "not_yet" => held[f] = "not_yet"
    BY <1>3
  <2>3. f \in Outgoing => held[f] # "not_yet"
    BY <1>1 DEF FilesInv, FileInv, Lifecycle
  <2>4. QED  BY <1>2, <2>1, <2>2, <2>3 DEF FilesInv, FileInv, Lifecycle
<1>7. Quiescent(f)'
  <2>1. CASE UNCHANGED told_vars
    <3>1. UNCHANGED <<held, careless>>
      BY <2>1 DEF told_vars
    <3>2. channel[f] # "requested" /\ channel'[f] # "requested"
      BY <1>1, <1>2
    <3>3. QED  BY <1>2, <3>1, <3>2 DEF FilesInv, FileInv, Quiescent, Quiet
  <2>2. CASE held[f] = "dropped" => f \in careless'
    BY <1>3, <2>2 DEF Quiescent
  <2>3. QED  BY <1>3, <2>1, <2>2
<1>8. QED  BY <1>3, <1>4, <1>5, <1>6, <1>7, StepOfOne DEF FileInv

LEMMA ChannelClosedInv ==
  ASSUME FilesInv, NEW f \in Files, UNCHANGED example, ChannelClosed(f)
  PROVE  FilesInv'
<1>1. /\ UNCHANGED <<channel, tp_channel, file, handlers, call, progress, outcomes, held,
                     careless, fault>>
      /\ closing' = closing \ {f}
  BY DEF ChannelClosed
<1>2. TypeOK' /\ SafeToDrop' /\ \A g \in Files : Kept(g)
  BY <1>1 DEF FilesInv, TypeOK, SafeToDrop, Kept, ToldKept
<1>3. QED  BY <1>2, KeptInv DEF FilesInv

-----------------------------------------------------------------------------
(* Files, all together *)

LEMMA FilesInitInv == Init => FilesInv
<1> SUFFICES ASSUME Init PROVE FilesInv
  OBVIOUS
<1>1. <<>> \in Seq(Outcomes) /\ Len(<<>>) = 0
  BY EmptySeq
<1>2. TypeOK
  <2>1. file \in [Files -> BOOLEAN]
    <3>1. \A f \in Files : (f \in Outgoing) \in BOOLEAN
      OBVIOUS
    <3>2. QED  BY <3>1, Zenon DEF Init
  <2>2. handlers \in [Files -> 0..1]
    <3>1. 0 \in 0..1
      OBVIOUS
    <3>2. QED  BY <3>1 DEF Init
  <2>3. QED  BY <1>1, <2>1, <2>2 DEF Init, TypeOK, Progress
<1>3. ASSUME NEW f \in Files PROVE FileInv(f)
  <2>1. /\ channel[f] = (IF f \in Incoming THEN "pending" ELSE "none")
        /\ file[f] <=> f \in Outgoing
        /\ handlers[f] = 0 /\ call[f] = "none" /\ progress[f] = "start"
        /\ outcomes[f] = <<>> /\ held[f] = "not_yet"
    BY <1>3 DEF Init
  <2>2. Lifecycle(f)
    BY <1>3, <2>1, FileTransferAssumption DEF Lifecycle, Files, FileTransferAssumption
  <2>3. Len(outcomes[f]) <= Ends(f) + Failures(f) /\ DOMAIN outcomes[f] = {}
    BY <1>1, <2>1 DEF Ends, Failures, Ended
  <2>4. Account(f)
    BY <2>1, <2>3 DEF Account
  <2>5. QED  BY <2>1, <2>2, <2>4 DEF FileInv, Quiescent
<1>4. SafeToDrop
  BY DEF Init, SafeToDrop
<1>5. QED  BY <1>2, <1>3, <1>4 DEF FilesInv

LEMMA FilesStepInv == FilesInv /\ [Next]_vars => FilesInv'
<1> SUFFICES ASSUME FilesInv, [Next]_vars PROVE FilesInv'
  OBVIOUS
<1>1. ASSUME Next PROVE FilesInv'
  <2>1. PICK f \in Files :
          \/ \E account \in {"none", "offline", "connected"}, given \in {"none", "missing", "readable"} :
               SendFile(f, account, given)
          \/ ChannelCreated(f) \/ ChannelRefused(f) \/ RemoteAccepts(f)
          \/ IncomingFile(f) \/ UnknownSender(f) \/ Accept(f) \/ Reject(f)
          \/ Drop(f)
          \/ CallSucceeds(f) \/ CallFails(f)
          \/ Opens(f) \/ TransferredBytes(f) \/ Completes(f)
          \/ \E reason \in Reasons : Cancelled(f, reason)
          \/ ChannelClosed(f)
    BY <1>1 DEF Next
  <2>2. UNCHANGED example
    BY <1>1 DEF Next
  <2>3. QED
    BY <2>1, <2>2, SendFileInv, ChannelCreatedInv, ChannelRefusedInv, RemoteAcceptsInv,
       IncomingFileInv, UnknownSenderInv, AcceptInv, RejectInv, DropInv, CallSucceedsInv,
       CallFailsInv, OpensInv, TransferredBytesInv, CompletesInv, CancelledInv, ChannelClosedInv
<1>2. ASSUME UNCHANGED vars PROVE FilesInv'
  <2>1. \A f \in Files : Kept(f)
    BY <1>2 DEF vars, told_vars, Kept, ToldKept
  <2>2. TypeOK' /\ SafeToDrop'
    BY <1>2 DEF FilesInv, TypeOK, SafeToDrop, vars, told_vars
  <2>3. QED  BY <2>1, <2>2, KeptInv DEF FilesInv
<1>3. QED  BY <1>1, <1>2

\* The invariant of the files, for any number of them.
THEOREM FilesInvariant == Spec => []FilesInv
<1>1. QED  BY FilesInitInv, FilesStepInv, PTL DEF Spec

\* The state of every file has its types.
THEOREM FilesTypeCorrect == Spec => []TypeOK
<1>1. FilesInv => TypeOK
  BY DEF FilesInv
<1>2. QED  BY <1>1, FilesInvariant, PTL

\* A handler that is told of a failure never reads the progress of a transfer
\* that is complete, and after the handlers the progress agrees with the last
\* that they were told (_channel_notify_state and set_and_emit_error of both
\* kinds of file), for any number of files in any state of their channels.
THEOREM ProgressTellsTruth == Spec => []ProgressTells
<1>1. FilesInv => ProgressTells
  BY DEF FilesInv, FileInv, Account, Tellable, ProgressTells, Last
<1>2. QED  BY <1>1, FilesInvariant, PTL

\* An application hears at most once of the end of the channel and once of a
\* call that failed, in either order, and of nothing else once a transfer is
\* complete (_channel_provide_file, _channel_accept_file, _channel_notify_state).
THEOREM OneOutcome == Spec => []OutcomeOnce
<1>1. ASSUME FilesInv, NEW f \in Files
      PROVE  /\ Len(outcomes[f]) <= Ends(f) + Failures(f)
             /\ (\E i \in DOMAIN outcomes[f] : outcomes[f][i].what = "completed")
                  => Len(outcomes[f]) = 1
  <2>1. outcomes[f] \in Seq(Outcomes) /\ Len(outcomes[f]) <= Ends(f) + Failures(f)
    BY <1>1 DEF FilesInv, FileInv, Account, TypeOK
  <2>2. ASSUME NEW i \in DOMAIN outcomes[f], outcomes[f][i].what = "completed"
        PROVE  Len(outcomes[f]) = 1
    <3>1. Ends(f) + Failures(f) <= 1
      BY <1>1, <2>2 DEF FilesInv, FileInv, Account, Tellable, Ends, Failures
    <3>2. Len(outcomes[f]) \in Nat /\ DOMAIN outcomes[f] = 1 .. Len(outcomes[f])
      BY <2>1, LenProperties
    <3>3. Ends(f) + Failures(f) \in Nat
      BY DEF Ends, Failures
    <3>4. i \in 1 .. Len(outcomes[f])
      BY <2>2, <3>2
    <3>5. \A n, e \in Nat : n <= e /\ e <= 1 /\ i \in 1 .. n => n = 1
      OBVIOUS
    <3>6. QED  BY <2>1, <3>1, <3>2, <3>3, <3>4, <3>5, Zenon
  <2>3. QED  BY <2>1, <2>2
<1>2. FilesInv => OutcomeOnce
  BY <1>1 DEF OutcomeOnce, Ends, Failures
<1>3. QED  BY <1>2, FilesInvariant, PTL

\* No handler and no call touches a file that was dropped outside of them with
\* nothing under way (_dispose of both kinds of file, _channel_close).
THEOREM CarefulDrop == Spec => []SafeToDrop
<1>1. FilesInv => SafeToDrop
  BY DEF FilesInv
<1>2. QED  BY <1>1, FilesInvariant, PTL

\* The only steps that move the progress, and what was told before them.
LEMMA ProgressMoves ==
  ASSUME FilesInv, Next, NEW f \in Files, progress'[f] # progress[f]
  PROVE  progress[f] \notin {"over", "negative"} \/ (progress[f] # "over" /\ progress'[f] = "negative")
<1>1. ASSUME NEW g \in Files,
             \/ \E account \in {"none", "offline", "connected"}, given \in {"none", "missing", "readable"} :
                  SendFile(g, account, given)
             \/ ChannelCreated(g) \/ IncomingFile(g) \/ UnknownSender(g) \/ Reject(g)
             \/ Drop(g) \/ ChannelClosed(g)
      PROVE  UNCHANGED progress
  BY <1>1 DEF SendFile, ChannelCreated, IncomingFile, UnknownSender, Reject, Drop, ChannelClosed
<1>2. ASSUME NEW g \in Files, RemoteAccepts(g) \/ Accept(g) \/ CallSucceeds(g) \/ Opens(g)
      PROVE  UNCHANGED progress
  BY <1>2 DEF RemoteAccepts, Accept, CallSucceeds, Opens, Called, told_vars
<1>3. ASSUME NEW g \in Files, ChannelRefused(g) \/ CallFails(g)
      PROVE  progress[f] # "over" /\ progress'[f] = "negative"
  <2>1. \/ UNCHANGED progress
        \/ progress' = [progress EXCEPT ![g] = "negative"]
    BY <1>3 DEF ChannelRefused, CallFails, Called, SetAndEmitError, Tell, told_vars
  <2>2. g = f /\ progress'[f] = "negative"
    BY <2>1 DEF FilesInv, TypeOK
  <2>3. channel[f] \notin Ended \/ call[f] # "done"
    BY <1>3, <2>2 DEF ChannelRefused, CallFails, Ended
  <2>4. QED  BY <2>2, <2>3, Uncompleted DEF FilesInv, FileInv
<1>4. ASSUME NEW g \in Files, TransferredBytes(g) \/ Completes(g)
      PROVE  progress[f] \notin {"over", "negative"}
  <2>1. \/ UNCHANGED progress
        \/ \E p \in Progress : progress' = [progress EXCEPT ![g] = p]
    BY <1>4 DEF TransferredBytes, Completes, Called, Tell, told_vars, Progress
  <2>2. g = f
    BY <2>1 DEF FilesInv, TypeOK
  <2>3. channel[f] \notin Ended /\ call[f] # "failed"
    BY <1>4, <2>2 DEF TransferredBytes, Completes, Ended
  <2>4. QED  BY <2>3, Untold DEF FilesInv, FileInv
<1>5. ASSUME NEW g \in Files, NEW reason \in Reasons, Cancelled(g, reason)
      PROVE  progress[f] # "over" /\ progress'[f] = "negative"
  <2>1. \/ UNCHANGED progress
        \/ progress' = [progress EXCEPT ![g] = "negative"]
    <3>1. \/ UNCHANGED told_vars
          \/ ToldOfCancellation(g, reason)
      BY <1>5 DEF Cancelled, Called
    <3>2. ToldOfCancellation(g, reason) =>
            UNCHANGED told_vars \/ \E what : Tell(g, what, progress[g], "negative", TRUE)
      BY <1>5 DEF ToldOfCancellation, SetAndEmitError, Reasons
    <3>3. QED  BY <3>1, <3>2 DEF Tell, told_vars
  <2>2. g = f /\ progress'[f] = "negative"
    BY <2>1 DEF FilesInv, TypeOK
  <2>3. channel[f] \notin Ended
    BY <1>5, <2>2 DEF Cancelled, Ended
  <2>4. QED  BY <2>2, <2>3, Uncompleted DEF FilesInv, FileInv
<1>6. QED  BY <1>1, <1>2, <1>3, <1>4, <1>5 DEF Next

\* A transfer that is over does not come back: no late result of a call and no
\* late change of the channel moves its progress (_channel_provide_file,
\* _channel_notify_state, _channel_notify_transferred_bytes and their kin).
THEOREM NoReturn == Spec => OverIsOver
<1>1. FilesInv /\ [Next]_vars =>
        [\A f \in Files : progress[f] \in {"over", "negative"} => progress'[f] = progress[f]]_vars
  <2> SUFFICES ASSUME FilesInv, Next, NEW f \in Files, progress[f] \in {"over", "negative"},
                      progress'[f] # progress[f]
               PROVE  FALSE
    OBVIOUS
  <2>1. QED  BY ProgressMoves
<1>2. QED  BY <1>1, FilesInvariant, PTL DEF Spec, OverIsOver

-----------------------------------------------------------------------------
(* The programs *)

\* The sides that keep a pointer to their peer's service: they are told of each
\* new one.
Keepers == {<<"echo", Server>>, <<"message_send", Client>>, <<"status_set", Client>>}

\* Only the second client of a test listens, and by the time the main loop is
\* told to quit it was told what it waited for or the time was up.
Verdict == loop # "running" => retval >= 1 \/ heard[Server] > 0

ProgramsInv ==
  /\ ProgramsTypeOK
  /\ \A s \in Sides : hooks[s] <= objects[s]
  /\ \A s \in Sides : pointer[s] # 0 => <<program, s>> \in Keepers
  /\ PointerIsLatest
  /\ program \in Tests => hooks[Client] = 0
  /\ Verdict

\* The handler counts, and no count goes back.
LEMMA HeardMore ==
  ASSUME heard \in [Sides -> 0..2], NEW s \in Sides, Heard(s)
  PROVE  /\ heard' \in [Sides -> 0..2] /\ heard'[s] > 0
         /\ \A t \in Sides : heard[t] > 0 => heard'[t] > 0
<1>1. (IF heard[s] < 2 THEN heard[s] + 1 ELSE heard[s]) \in 1..2
  <2>1. heard[s] \in 0..2
    OBVIOUS
  <2>2. QED  BY <2>1
<1>2. PICK n \in 1..2 : heard' = [heard EXCEPT ![s] = n]
  BY <1>1 DEF Heard
<1>3. QED  BY <1>2

\* What telling a side leaves of the verdict.
LEMMA TellSideInv ==
  ASSUME ProgramsTypeOK, Verdict, NEW s \in Sides, program \in Tests => s = Server, TellSide(s)
  PROVE  /\ heard' \in [Sides -> 0..2]
         /\ retval' \in -2..MaxRetval
         /\ loop' \in {"running", "quitting", "ended"}
         /\ Verdict'
<1>1. /\ heard \in [Sides -> 0..2] /\ retval \in -2..MaxRetval
      /\ loop \in {"running", "quitting", "ended"}
  BY DEF ProgramsTypeOK
<1>2. Heard(s)
  BY DEF TellSide, Passed
<1>3. /\ heard' \in [Sides -> 0..2] /\ heard'[s] > 0
      /\ \A t \in Sides : heard[t] > 0 => heard'[t] > 0
  BY <1>1, <1>2, HeardMore
<1>4. CASE program \in Tests
  <2>1. retval' = 0 /\ loop' = "quitting"
    BY <1>4 DEF TellSide, Passed
  <2>2. QED  BY <1>3, <1>4, <2>1, ProgramsAssumption DEF ProgramsAssumption, Verdict
<1>5. CASE program \notin Tests
  <2>1. UNCHANGED <<retval, loop>>
    BY <1>5 DEF TellSide
  <2>2. QED  BY <1>1, <1>3, <2>1 DEF Verdict, Sides
<1>6. QED  BY <1>4, <1>5

Nets == [Sides -> [Kinds -> 0..MaxMessages]]

LEMMA PostTyped ==
  ASSUME NEW s \in Sides, NEW k \in Kinds, NEW on_way \in Nets, Post(s, k, on_way)
  PROVE  net' \in Nets
<1>1. Peer(s) \in Sides
  BY DEF Peer, Sides
<1>2. on_way[Peer(s)] \in [Kinds -> 0..MaxMessages]
  BY <1>1 DEF Nets
<1>3. on_way[Peer(s)][k] \in 0..MaxMessages /\ on_way[Peer(s)][k] < MaxMessages
  BY <1>2 DEF Post
<1>4. on_way[Peer(s)][k] + 1 \in 0..MaxMessages
  BY <1>3, ProgramsAssumption DEF ProgramsAssumption
<1>5. net' = [on_way EXCEPT ![Peer(s)][k] = on_way[Peer(s)][k] + 1]
  BY DEF Post
<1>6. QED  BY <1>1, <1>2, <1>4, <1>5 DEF Nets

LEMMA PostViaTyped ==
  ASSUME NEW s \in Sides, NEW n, NEW current, NEW k \in Kinds, NEW on_way \in Nets,
         crashed \in BOOLEAN, PostVia(s, n, current, k, on_way)
  PROVE  net' \in Nets /\ crashed' \in BOOLEAN
  BY PostTyped DEF PostVia

\* A message that is taken off the way.
LEMMA TakenTyped ==
  ASSUME net \in Nets, NEW s \in Sides, NEW k \in Kinds, net[s][k] > 0
  PROVE  [net EXCEPT ![s][k] = @ - 1] \in Nets
<1>1. net[s] \in [Kinds -> 0..MaxMessages]
  BY DEF Nets
<1>2. net[s][k] \in 0..MaxMessages
  BY <1>1
<1>3. net[s][k] - 1 \in 0..MaxMessages
  BY <1>2, ProgramsAssumption DEF ProgramsAssumption
<1>4. QED  BY <1>1, <1>3 DEF Nets

\* Parts of the state that the handlers of service-added change.
FoundTyped ==
  /\ pointer \in [Sides -> 0..MaxObjects]
  /\ is_sent \in BOOLEAN /\ ready \in SUBSET Sides
  /\ hooks \in [Sides -> 0..MaxObjects]
  /\ net \in Nets
  /\ news \in BOOLEAN /\ crashed \in BOOLEAN

\* A handler of service-added for the new object n of s: a pointer that is kept
\* is one to n now, and one handler more at most is connected.
LEMMA FindsInv ==
  ASSUME ProgramsInv, program \in Examples \cup Tests, NEW s \in Sides, NEW n \in 1..MaxObjects,
         hooks[s] + 1 <= n, Finds(s, n), UNCHANGED program
  PROVE  /\ FoundTyped'
         /\ pointer'[s] \in {0, n}
         /\ \A t \in Sides : pointer'[t] # 0 => <<program, t>> \in Keepers
         /\ hooks'[s] <= n
         /\ program \in Tests => hooks'[Client] = 0
         /\ \A t \in Sides \ {s} : pointer'[t] = pointer[t] /\ hooks'[t] = hooks[t]
<1>1. FoundTyped
  BY DEF ProgramsInv, ProgramsTypeOK, FoundTyped, Nets
<1>2. /\ 1 \in 0..MaxObjects /\ n \in 0..MaxObjects /\ hooks[s] <= n /\ 1 <= n
      /\ hooks[s] + 1 \in 0..MaxObjects
  BY <1>1, ProgramsAssumption DEF ProgramsAssumption, FoundTyped
<1>3. /\ \A t \in Sides : pointer[t] # 0 => <<program, t>> \in Keepers
      /\ program \in Tests => hooks[Client] = 0
      /\ Sides = {Client, Server} /\ Client # Server
  BY DEF ProgramsInv, Sides, Client, Server
<1>4. "text" \in Kinds /\ "dictionary" \in Kinds /\ Client \in Sides
  BY DEF Kinds, Sides
<1>5. CASE EchoFinds(s, n) \/ DictionaryFinds(s, n)
  <2>1. net' \in Nets /\ is_sent' \in BOOLEAN /\ UNCHANGED <<pointer, ready, hooks, news, crashed>>
    BY <1>1, <1>4, <1>5, PostTyped DEF EchoFinds, DictionaryFinds, FoundTyped
  <2>2. <<program, s>> \notin Keepers
    BY <1>5 DEF EchoFinds, DictionaryFinds, Keepers, Client, Server
  <2>3. QED  BY <1>1, <1>2, <1>3, <2>1, <2>2 DEF FoundTyped
<1>6. CASE EchoKnows(s, n)
  <2>1. /\ pointer' = [pointer EXCEPT ![s] = n] /\ <<program, s>> \in Keepers
        /\ UNCHANGED <<is_sent, ready, hooks, net, news, crashed>>
    BY <1>6 DEF EchoKnows, Keepers
  <2>2. QED  BY <1>1, <1>2, <1>3, <2>1 DEF FoundTyped
<1>7. CASE StatusFinds(s, n)
  <2>1. /\ net' \in Nets /\ hooks' = [hooks EXCEPT ![s] = 1]
        /\ UNCHANGED <<pointer, is_sent, ready, news, crashed>>
    BY <1>1, <1>4, <1>7, PostTyped DEF StatusFinds, FoundTyped
  <2>2. <<program, s>> \notin Keepers /\ program \notin Tests
    BY <1>7 DEF StatusFinds, Keepers, Tests
  <2>3. QED  BY <1>1, <1>2, <1>3, <2>1, <2>2 DEF FoundTyped
<1>8. CASE MessageSendFinds(s, n)
  <2>1. /\ net' \in Nets /\ crashed' \in BOOLEAN
        /\ ready' \in SUBSET Sides /\ UNCHANGED <<is_sent, news>>
    BY <1>1, <1>4, <1>8, PostViaTyped DEF MessageSendFinds, FoundTyped
  <2>2. CASE s = Client
    <3>1. pointer' = [pointer EXCEPT ![s] = n] /\ hooks' = hooks /\ <<program, s>> \in Keepers
      BY <1>3, <1>8, <2>2 DEF MessageSendFinds, Keepers
    <3>2. QED  BY <1>1, <1>2, <1>3, <2>1, <3>1 DEF FoundTyped
  <2>3. CASE s = Server
    <3>1. /\ pointer' = pointer /\ hooks' = [hooks EXCEPT ![s] = hooks[s] + 1]
          /\ <<program, s>> \notin Keepers
      BY <1>3, <1>8, <2>3 DEF MessageSendFinds, Keepers
    <3>2. /\ hooks' \in [Sides -> 0..MaxObjects] /\ hooks'[s] <= n
          /\ \A t \in Sides \ {s} : hooks'[t] = hooks[t]
      BY <1>1, <1>2, <3>1 DEF FoundTyped
    <3>3. program \in Tests => hooks'[Client] = 0
      BY <1>3, <2>3, <3>2
    <3>4. QED  BY <1>1, <1>3, <2>1, <3>1, <3>2, <3>3 DEF FoundTyped
  <2>4. QED  BY <1>3, <2>2, <2>3
<1>9. CASE StatusSetFinds(s, n)
  <2>1. /\ news' \in BOOLEAN /\ ready' \in SUBSET Sides
        /\ UNCHANGED <<is_sent, net, crashed>>
    <3>1. Setup(program, Client).provides \in BOOLEAN
      BY <1>9 DEF StatusSetFinds, Setup, StatusSet, Sides, Client, Server
    <3>2. QED  BY <1>1, <1>9, <3>1 DEF StatusSetFinds, FoundTyped, SetStatus
  <2>2. CASE s = Client
    <3>1. pointer' = [pointer EXCEPT ![s] = n] /\ hooks' = hooks /\ <<program, s>> \in Keepers
      BY <1>3, <1>9, <2>2 DEF StatusSetFinds, Keepers
    <3>2. QED  BY <1>1, <1>2, <1>3, <2>1, <3>1 DEF FoundTyped
  <2>3. CASE s = Server
    <3>1. /\ pointer' = pointer /\ hooks' = [hooks EXCEPT ![s] = 1]
          /\ <<program, s>> \notin Keepers
      BY <1>3, <1>9, <2>3 DEF StatusSetFinds, Keepers
    <3>2. QED  BY <1>1, <1>2, <1>3, <2>1, <2>3, <3>1 DEF FoundTyped
  <2>4. QED  BY <1>3, <2>2, <2>3
<1>10. CASE UNCHANGED peer_vars /\ ~Setup(program, s).finds
  <2>1. UNCHANGED <<pointer, is_sent, ready, hooks, net, news, crashed>>
    BY <1>10 DEF peer_vars
  <2>2. <<program, s>> \notin Keepers
    BY <1>10 DEF Keepers, Setup, EchoServer, MessageSend, StatusSet, Sides, Client, Server
  <2>3. QED  BY <1>1, <1>2, <1>3, <2>1, <2>2 DEF FoundTyped
<1>11. QED
  BY <1>5, <1>6, <1>7, <1>8, <1>9, <1>10 DEF Finds

LEMMA AppearsInv ==
  ASSUME ProgramsInv, NEW s \in Sides, Appears(s)
  PROVE  ProgramsInv'
<1> DEFINE n == objects[s] + 1
<1>1. /\ objects \in [Sides -> 0..MaxObjects] /\ service \in [Sides -> 0..MaxObjects]
      /\ hooks \in [Sides -> 0..MaxObjects] /\ hooks[s] <= objects[s]
      /\ objects[s] < MaxObjects
  BY DEF ProgramsInv, ProgramsTypeOK, Appears
<1>2. n \in 1..MaxObjects /\ n \in 0..MaxObjects /\ hooks[s] + 1 <= n
  BY <1>1, ProgramsAssumption DEF ProgramsAssumption
<1>3. /\ objects' = [objects EXCEPT ![s] = n] /\ objects'[s] = n
      /\ service' = [service EXCEPT ![s] = n]
      /\ Finds(s, n) /\ UNCHANGED <<program, timer>> /\ program \in Examples \cup Tests
  BY <1>1 DEF Appears, Alive
<1>4. /\ FoundTyped'
      /\ pointer'[s] \in {0, n}
      /\ \A t \in Sides : pointer'[t] # 0 => <<program, t>> \in Keepers
      /\ hooks'[s] <= n
      /\ program \in Tests => hooks'[Client] = 0
      /\ \A t \in Sides \ {s} : pointer'[t] = pointer[t] /\ hooks'[t] = hooks[t]
  BY <1>2, <1>3, FindsInv
<1>5. /\ deferred' \in BOOLEAN
      /\ heard' \in [Sides -> 0..2]
      /\ retval' \in -2..MaxRetval
      /\ loop' \in {"running", "quitting", "ended"}
      /\ Verdict'
  <2>1. CASE UNCHANGED told_by_peer
    BY <2>1 DEF ProgramsInv, ProgramsTypeOK, Verdict, told_by_peer, Appears
  <2>2. CASE s = Watcher /\ TellSide(s)
    <3>1. program \in Tests => s = Server
      BY <2>2 DEF Watcher, Tests
    <3>2. QED  BY <2>2, <3>1, TellSideInv DEF ProgramsInv, ProgramsTypeOK, Appears
  <2>3. QED  BY <2>1, <2>2 DEF Appears
<1>6. ProgramsTypeOK'
  BY <1>1, <1>2, <1>3, <1>4, <1>5 DEF ProgramsInv, ProgramsTypeOK, FoundTyped, Nets
<1>7. PointerIsLatest' /\ \A t \in Sides : hooks'[t] <= objects'[t]
  BY <1>1, <1>3, <1>4 DEF ProgramsInv, PointerIsLatest
<1>8. QED  BY <1>3, <1>4, <1>5, <1>6, <1>7 DEF ProgramsInv

LEMMA DisappearsInv ==
  ASSUME ProgramsInv, NEW s \in Sides, Disappears(s)
  PROVE  ProgramsInv'
<1>1. /\ service \in [Sides -> 0..MaxObjects] /\ objects \in [Sides -> 0..MaxObjects]
      /\ hooks \in [Sides -> 0..MaxObjects]
  BY DEF ProgramsInv, ProgramsTypeOK
<1>2. 0 \in 0..MaxObjects
  BY ProgramsAssumption DEF ProgramsAssumption
<1>3. /\ service' = [service EXCEPT ![s] = 0]
      /\ hooks' = hooks \/ hooks' = [hooks EXCEPT ![s] = 0]
      /\ UNCHANGED <<program, objects, deferred, timer, pointer, is_sent, ready, net, news,
                     crashed, heard, retval, loop>>
  BY DEF Disappears, told_by_peer
<1>4. /\ service' \in [Sides -> 0..MaxObjects] /\ hooks' \in [Sides -> 0..MaxObjects]
      /\ \A t \in Sides : service'[t] \in {0, service[t]} /\ hooks'[t] \in {0, hooks[t]}
  BY <1>1, <1>2, <1>3
<1>5. ProgramsTypeOK'
  BY <1>3, <1>4 DEF ProgramsInv, ProgramsTypeOK
<1>6. PointerIsLatest' /\ Verdict'
  BY <1>3, <1>4 DEF ProgramsInv, PointerIsLatest, Verdict
<1>7. \A t \in Sides : hooks'[t] <= objects'[t]
  BY <1>1, <1>3, <1>4 DEF ProgramsInv
<1>8. program' \in Tests => hooks'[Client] = 0
  BY <1>3, <1>4 DEF ProgramsInv, Sides
<1>9. QED  BY <1>3, <1>5, <1>6, <1>7, <1>8 DEF ProgramsInv

\* A step that leaves the services and what is kept of them.
LEMMA PeersKept ==
  ASSUME ProgramsInv, ProgramsTypeOK', Verdict',
         UNCHANGED <<program, service, objects, pointer, hooks>>
  PROVE  ProgramsInv'
  BY DEF ProgramsInv, PointerIsLatest

LEMMA ArrivesInv ==
  ASSUME ProgramsInv, NEW s \in Sides, NEW k \in Kinds, Arrives(s, k)
  PROVE  ProgramsInv'
<1> DEFINE on_way == [net EXCEPT ![s][k] = @ - 1]
<1>1. net \in Nets /\ ProgramsTypeOK /\ Verdict /\ crashed \in BOOLEAN /\ news \in BOOLEAN
  BY DEF ProgramsInv, ProgramsTypeOK, Nets
<1>2. on_way \in Nets
  BY <1>1, TakenTyped DEF Arrives
<1>3. /\ UNCHANGED <<program, service, objects, deferred, timer, pointer, is_sent, ready, hooks>>
      /\ program \in Examples \cup Tests
  BY DEF Arrives, Alive
<1> HIDE DEF on_way
<1>4. /\ net' \in Nets /\ crashed' \in BOOLEAN /\ news' \in BOOLEAN
      /\ \/ UNCHANGED told_by_peer
         \/ Heard(s) /\ UNCHANGED <<retval, loop>>
         \/ Passed(s) /\ s = Server
  <2>1. CASE net' = on_way /\ UNCHANGED <<told_by_peer, news, crashed>>
    BY <1>1, <1>2, <2>1
  <2>2. CASE EchoAnswers(s, on_way)
    BY <1>1, <1>2, <2>2, PostViaTyped DEF EchoAnswers, Kinds
  <2>3. CASE EchoPrints(s, on_way) \/ DictionaryPrints(s, on_way)
    BY <1>1, <1>2, <2>3 DEF EchoPrints, DictionaryPrints
  <2>4. CASE StatusAnswers(s, on_way)
    <3>1. Setup(program, s).provides \in BOOLEAN
      BY <2>4 DEF StatusAnswers, Setup, StatusClient, StatusServer
    <3>2. QED  BY <1>1, <1>2, <2>4, <3>1 DEF StatusAnswers, SetStatus
  <2>5. CASE MessageSendHears(s, on_way)
    <3>1. hooks[s] > 0 => s = Server
      <4>1. program \in Tests
        BY <2>5 DEF MessageSendHears, Tests
      <4>2. QED  BY <4>1 DEF ProgramsInv, Sides
    <3>2. QED  BY <1>1, <1>2, <2>5, <3>1 DEF MessageSendHears
  <2>6. QED  BY <2>1, <2>2, <2>3, <2>4, <2>5 DEF Arrives, on_way
<1>5. /\ heard' \in [Sides -> 0..2] /\ retval' \in -2..MaxRetval
      /\ loop' \in {"running", "quitting", "ended"} /\ Verdict'
  <2>1. CASE UNCHANGED told_by_peer
    BY <1>1, <2>1 DEF ProgramsTypeOK, Verdict, told_by_peer
  <2>2. CASE Heard(s) /\ UNCHANGED <<retval, loop>>
    BY <1>1, <2>2, HeardMore DEF ProgramsTypeOK, Verdict, Sides
  <2>3. CASE Passed(s) /\ s = Server
    <3>1. 0 \in -2..MaxRetval
      BY ProgramsAssumption DEF ProgramsAssumption
    <3>2. QED  BY <1>1, <2>3, <3>1, HeardMore DEF Passed, ProgramsTypeOK, Verdict
  <2>4. QED  BY <1>4, <2>1, <2>2, <2>3
<1>6. ProgramsTypeOK'
  BY <1>1, <1>3, <1>4, <1>5 DEF ProgramsTypeOK, Nets
<1>7. QED  BY <1>3, <1>5, <1>6, PeersKept

LEMMA LostInv ==
  ASSUME ProgramsInv, NEW s \in Sides, NEW k \in Kinds, Lost(s, k)
  PROVE  ProgramsInv'
<1>1. net' \in Nets
  BY TakenTyped DEF ProgramsInv, ProgramsTypeOK, Nets, Lost
<1>2. ProgramsTypeOK' /\ Verdict'
  BY <1>1 DEF ProgramsInv, ProgramsTypeOK, Verdict, Nets, Lost, told_by_peer
<1>3. QED  BY <1>2, PeersKept DEF Lost

LEMMA StatusArrivesInv ==
  ASSUME ProgramsInv, StatusArrives
  PROVE  ProgramsInv'
<1>1. /\ UNCHANGED <<program, service, objects, timer, pointer, is_sent, ready, hooks, net, crashed>>
      /\ news' \in BOOLEAN /\ deferred' \in BOOLEAN
  BY DEF ProgramsInv, ProgramsTypeOK, StatusArrives
<1>2. /\ heard' \in [Sides -> 0..2] /\ retval' \in -2..MaxRetval
      /\ loop' \in {"running", "quitting", "ended"} /\ Verdict'
  <2>1. CASE UNCHANGED told_by_peer
    BY <2>1 DEF ProgramsInv, ProgramsTypeOK, Verdict, told_by_peer
  <2>2. CASE TellSide(Watcher)
    <3>1. Watcher \in Sides /\ (program \in Tests => Watcher = Server)
      BY DEF Watcher, Sides, Tests
    <3>2. QED  BY <2>2, <3>1, TellSideInv DEF ProgramsInv
  <2>3. QED  BY <2>1, <2>2 DEF StatusArrives
<1>3. ProgramsTypeOK'
  BY <1>1, <1>2 DEF ProgramsInv, ProgramsTypeOK
<1>4. QED  BY <1>1, <1>2, <1>3, PeersKept

LEMMA LoopInv ==
  ASSUME ProgramsInv, Authenticated \/ Timeout \/ Returns
  PROVE  ProgramsInv'
<1>1. /\ UNCHANGED <<program, service, objects, deferred, pointer, is_sent, ready, hooks, net, news,
                     crashed, heard>>
      /\ timer' \in BOOLEAN /\ loop' \in {"running", "quitting", "ended"}
  BY DEF ProgramsInv, ProgramsTypeOK, Authenticated, Timeout, Returns, peer_vars
<1>2. retval' \in -2..MaxRetval /\ Verdict'
  <2>1. retval \in -2..MaxRetval /\ Verdict
    BY DEF ProgramsInv, ProgramsTypeOK
  <2>2. CASE Authenticated
    <3>1. retval' = retval + 1 /\ retval < MaxRetval /\ UNCHANGED <<loop, heard>>
      BY <2>2 DEF Authenticated
    <3>2. QED  BY <2>1, <3>1, ProgramsAssumption DEF ProgramsAssumption, Verdict
  <2>3. CASE Timeout
    <3>1. retval' = 1
      BY <2>3 DEF Timeout
    <3>2. QED  BY <3>1, ProgramsAssumption DEF ProgramsAssumption, Verdict
  <2>4. CASE Returns
    BY <2>1, <2>4 DEF Returns, Verdict
  <2>5. QED  BY <2>2, <2>3, <2>4
<1>3. ProgramsTypeOK'
  BY <1>1, <1>2 DEF ProgramsInv, ProgramsTypeOK
<1>4. QED  BY <1>1, <1>2, <1>3, PeersKept

ProgramsSpec == ProgramsInit /\ [][ProgramsNext]_program_vars

LEMMA ProgramsInitInv == ProgramsInit => ProgramsInv
<1> SUFFICES ASSUME ProgramsInit PROVE ProgramsInv
  OBVIOUS
<1>1. /\ 0 \in 0..MaxObjects /\ 0 \in 0..MaxMessages /\ 0 \in 0..2 /\ -2 \in -2..MaxRetval
  BY ProgramsAssumption DEF ProgramsAssumption
<1>2. timer \in BOOLEAN
  <2>1. (program \in Tests) \in BOOLEAN
    OBVIOUS
  <2>2. QED  BY <2>1, Zenon DEF ProgramsInit
<1>3. ProgramsTypeOK
  <2>1. /\ service = [s \in Sides |-> 0] /\ objects = [s \in Sides |-> 0]
        /\ pointer = [s \in Sides |-> 0] /\ hooks = [s \in Sides |-> 0]
        /\ heard = [s \in Sides |-> 0] /\ retval = -2
        /\ net = [s \in Sides |-> [k \in Kinds |-> 0]]
    BY DEF ProgramsInit
  <2>2. /\ service \in [Sides -> 0..MaxObjects] /\ objects \in [Sides -> 0..MaxObjects]
        /\ pointer \in [Sides -> 0..MaxObjects] /\ hooks \in [Sides -> 0..MaxObjects]
        /\ heard \in [Sides -> 0..2] /\ retval \in -2..MaxRetval
        /\ net \in [Sides -> [Kinds -> 0..MaxMessages]]
    BY <1>1, <2>1
  <2>3. QED  BY <1>2, <2>2 DEF ProgramsInit, ProgramsTypeOK
<1>4. /\ \A s \in Sides : hooks[s] = 0 /\ objects[s] = 0 /\ pointer[s] = 0
      /\ Client \in Sides /\ loop = "running"
  BY DEF ProgramsInit, Sides
<1>5. \A s \in Sides : hooks[s] <= objects[s]
  BY <1>4
<1>6. QED  BY <1>3, <1>4, <1>5 DEF ProgramsInv, PointerIsLatest, Verdict

LEMMA ProgramsStepInv == ProgramsInv /\ [ProgramsNext]_program_vars => ProgramsInv'
<1> SUFFICES ASSUME ProgramsInv, [ProgramsNext]_program_vars PROVE ProgramsInv'
  OBVIOUS
<1>1. CASE UNCHANGED program_vars
  <2>1. ProgramsTypeOK' /\ Verdict'
    BY <1>1 DEF ProgramsInv, ProgramsTypeOK, Verdict, program_vars, peer_vars, told_by_peer
  <2>2. QED  BY <1>1, <2>1, PeersKept DEF program_vars, peer_vars
<1>2. CASE ProgramsNext
  BY <1>2, AppearsInv, DisappearsInv, ArrivesInv, LostInv, StatusArrivesInv, LoopInv DEF ProgramsNext
<1>3. QED  BY <1>1, <1>2

\* The invariant of the programs, for any bounds.
THEOREM ProgramsInvariant == ProgramsSpec => []ProgramsInv
<1>1. QED  BY ProgramsInitInv, ProgramsStepInv, PTL DEF ProgramsSpec

\* A test that returns 0 has seen what it waited for, however the messages, the
\* timeout and the authentications fall (message-send.c, status-set.c).
THEOREM PassedMeansHeard == ProgramsSpec => []PassedIsHeard
<1>1. ProgramsInv => PassedIsHeard
  BY DEF ProgramsInv, Verdict, PassedIsHeard
<1>2. QED  BY <1>1, ProgramsInvariant, PTL

\* A kept pointer is to the service that is in the roster, if there is one, for
\* any number of departures and returns (_server_roster_service_added of
\* echo.c, service_added_cb of the tests).
THEOREM PointerStaysLatest == ProgramsSpec => []PointerIsLatest
<1>1. ProgramsInv => PointerIsLatest
  BY DEF ProgramsInv
<1>2. QED  BY <1>1, ProgramsInvariant, PTL

-----------------------------------------------------------------------------
(* A message in the hands of an application, for any elements, names, values  *)
(* and lists.  The attributes are folded one by one; the fold is one of the   *)
(* sets of places in the list, and what it gives for the first k places is    *)
(* shown to be the last value for each name there, by the least k where it is *)
(* not.                                                                       *)

\* A set of natural numbers has a least one, and one with a bound a greatest.
LEMMA LeastNat == ASSUME NEW T, T \subseteq Nat, T # {} PROVE \E n \in T : \A m \in T : n <= m
<1>1. PICK R : R = OpToRel(<,Nat) /\ IsWellFoundedOn(R, Nat)
  BY NatLessThanWellFounded
<1>2. PICK n \in T : \A m \in T : <<m, n>> \notin R
  BY <1>1, WFMin
<1>3. R = {p \in Nat \X Nat : p[1] < p[2]}
  BY <1>1 DEF OpToRel
<1>4. \A m, k \in Nat : m < k => <<m, k>> \in R
  BY <1>3
<1>5. n \in Nat
  OBVIOUS
<1>6. ASSUME NEW m \in T PROVE n <= m
  <2>1. m \in Nat /\ ~(m < n)
    BY <1>2, <1>4, <1>5
  <2>2. QED BY <1>5, <2>1
<1>7. QED BY <1>6

LEMMA Greatest ==
  ASSUME NEW n \in Nat, NEW s, s \subseteq 1..n, s # {}
  PROVE  \E m \in s : \A k \in s : k <= m
<1> DEFINE T == {n - i : i \in s}
<1>1. T \subseteq Nat /\ T # {}
  <2>1. ASSUME NEW i \in s PROVE n - i \in Nat
    <3>1. i \in Int /\ i <= n
      OBVIOUS
    <3> QED BY <3>1
  <2> QED BY <2>1
<1>2. PICK d \in T : \A m \in T : d <= m
  <2> HIDE DEF T
  <2> QED BY <1>1, LeastNat
<1>3. PICK m \in s : d = n - m
  OBVIOUS
<1>4. ASSUME NEW k \in s PROVE k <= m
  <2>1. n - k \in T
    OBVIOUS
  <2>2. n - m <= n - k
    BY <1>2, <1>3, <2>1
  <2> QED BY <2>2
<1> QED BY <1>4

\* What the fold of Construct is: a function of sets of places in the list, each
\* one pair more than without its greatest place.
Given(t, p) == Put(t, p[1], p[2])
Iter(base, q, iter) ==
  iter = [s \in SUBSET DOMAIN q |->
            IF s = {} THEN base ELSE Given(iter[s \ {Seqs!Max(s)}], q[Seqs!Max(s)])]

\* The place of the last value for a among those in s, and the table of the last
\* values for each name.
LastOf(q, a, s) == CHOOSE i \in {j \in s : q[j][1] = a} : \A k \in {j \in s : q[j][1] = a} : k <= i
After(base, q, s) ==
  [a \in DOMAIN base \cup {q[i][1] : i \in s} |->
     IF {i \in s : q[i][1] = a} = {} THEN base[a] ELSE q[LastOf(q, a, s)][2]]

\* yts_metadata_constructed gives a node the attributes of that function.
LEMMA Folded ==
  ASSUME NEW node, NEW list
  PROVE  Construct(node, list) = [node EXCEPT !.attrs = (CHOOSE iter : Iter(node.attrs, Pairs(list), iter))[DOMAIN Pairs(list)]]
BY DEF Construct, Seqs!FoldLeft, Seqs!MapThenFoldSet, Iter, Given

\* The greatest place is one, and so is that of the last value for a name.
LEMMA MaxIs ==
  ASSUME NEW n \in Nat, NEW s, s \subseteq 1..n, s # {}
  PROVE  Seqs!Max(s) \in s /\ \A k \in s : k <= Seqs!Max(s)
<1>1. PICK m \in s : \A k \in s : k <= m
  BY Greatest
<1>2. \A k \in s : m >= k
  BY <1>1
<1>3. Seqs!Max(s) \in s /\ \A k \in s : Seqs!Max(s) >= k
  BY <1>2, Zenon DEF Seqs!Max
<1> QED BY <1>3

LEMMA LastIs ==
  ASSUME NEW n \in Nat, NEW s, s \subseteq 1..n, NEW q, NEW a, {i \in s : q[i][1] = a} # {}
  PROVE  LastOf(q, a, s) \in s /\ q[LastOf(q, a, s)][1] = a /\ \A k \in s : q[k][1] = a => k <= LastOf(q, a, s)
<1> DEFINE T == {i \in s : q[i][1] = a}
<1>1. T \subseteq 1..n /\ T # {}
  OBVIOUS
<1>2. PICK m \in T : \A k \in T : k <= m
  <2> HIDE DEF T
  <2> QED BY <1>1, Greatest
<1>3. LastOf(q, a, s) \in T /\ \A k \in T : k <= LastOf(q, a, s)
  <2>1. LastOf(q, a, s) = CHOOSE i \in T : \A k \in T : k <= i
    BY Zenon DEF LastOf
  <2> HIDE DEF T
  <2> QED BY <1>2, <2>1, Zenon
<1> QED BY <1>3

\* A pair at a later place is put on top of what was there before it, and no
\* pairs leave the table as it was.
LEMMA OneLater ==
  ASSUME NEW n \in Nat, NEW s, s \subseteq 1..n, NEW m \in s, \A k \in s : k <= m, NEW q, NEW base
  PROVE  After(base, q, s) = Given(After(base, q, s \ {m}), q[m])
<1> DEFINE r == s \ {m}
<1> DEFINE N(t) == DOMAIN base \cup {q[i][1] : i \in t}
<1>1. N(s) = N(r) \cup {q[m][1]}
  OBVIOUS
<1>2. After(base, q, s) = [a \in N(s) |-> IF {i \in s : q[i][1] = a} = {} THEN base[a] ELSE q[LastOf(q, a, s)][2]]
  BY DEF After
<1>3. After(base, q, r) = [a \in N(r) |-> IF {i \in r : q[i][1] = a} = {} THEN base[a] ELSE q[LastOf(q, a, r)][2]]
  BY DEF After
<1>4. Given(After(base, q, r), q[m]) =
        [a \in N(r) \cup {q[m][1]} |-> IF a = q[m][1] THEN q[m][2] ELSE After(base, q, r)[a]]
  <2>1. DOMAIN After(base, q, r) = N(r)
    BY <1>3
  <2> HIDE DEF N, r
  <2> QED BY <2>1 DEF Given, Put
<1>5. ASSUME NEW a \in N(s)
      PROVE  (IF {i \in s : q[i][1] = a} = {} THEN base[a] ELSE q[LastOf(q, a, s)][2])
               = (IF a = q[m][1] THEN q[m][2] ELSE After(base, q, r)[a])
  <2>1. CASE a = q[m][1]
    <3>1. {i \in s : q[i][1] = a} # {}
      BY <2>1
    <3>2. LastOf(q, a, s) \in s /\ \A k \in s : q[k][1] = a => k <= LastOf(q, a, s)
      BY <3>1, LastIs
    <3>3. LastOf(q, a, s) = m
      <4> DEFINE l == LastOf(q, a, s)
      <4>1. l \in s /\ m <= l /\ l <= m
        BY <2>1, <3>2
      <4>2. l \in Nat /\ m \in Nat
        <5>1. \A k \in 1..n : k \in Nat
          OBVIOUS
        <5> HIDE DEF l
        <5> QED BY <4>1, <5>1
      <4> HIDE DEF l
      <4>3. l = m
        BY <4>1, <4>2
      <4> QED BY <4>3 DEF l
    <3> QED BY <2>1, <3>1, <3>3
  <2>2. CASE a # q[m][1]
    <3>1. {i \in s : q[i][1] = a} = {i \in r : q[i][1] = a}
      BY <2>2
    <3>2. LastOf(q, a, s) = LastOf(q, a, r)
      BY <3>1, Zenon DEF LastOf
    <3>3. a \in N(r)
      BY <1>1, <2>2
    <3>4. After(base, q, r)[a] = IF {i \in r : q[i][1] = a} = {} THEN base[a] ELSE q[LastOf(q, a, r)][2]
      BY <1>3, <3>3
    <3> QED BY <2>2, <3>1, <3>2, <3>4
  <2> QED BY <2>1, <2>2
<1>6. After(base, q, s) = Given(After(base, q, r), q[m])
  <2>1. After(base, q, s) = [a \in N(s) |-> IF a = q[m][1] THEN q[m][2] ELSE After(base, q, r)[a]]
    <3> HIDE DEF N, r
    <3> QED BY <1>2, <1>5, Zenon
  <2> HIDE DEF N, r
  <2> QED BY <1>1, <1>4, <2>1
<1> QED BY <1>6

LEMMA NoneLater ==
  ASSUME NEW base, base = [a \in DOMAIN base |-> base[a]], NEW q
  PROVE  After(base, q, {}) = base
<1>1. {q[i][1] : i \in {}} = {} /\ \A a : {i \in {} : q[i][1] = a} = {}
  OBVIOUS
<1>2. After(base, q, {}) = [a \in DOMAIN base |-> base[a]]
  BY <1>1 DEF After
<1> QED BY <1>2

\* Hence there is such a function, and whichever is chosen gives the last values.
LEMMA IterExists ==
  ASSUME NEW base, base = [a \in DOMAIN base |-> base[a]],
         NEW q, NEW n \in Nat, DOMAIN q = 1..n
  PROVE  \E iter : Iter(base, q, iter)
<1> DEFINE iter == [s \in SUBSET (1..n) |-> After(base, q, s)]
<1>1. ASSUME NEW s \in SUBSET (1..n)
      PROVE  After(base, q, s) = IF s = {} THEN base
                                 ELSE Given(iter[s \ {Seqs!Max(s)}], q[Seqs!Max(s)])
  <2>1. CASE s = {}
    BY <2>1, NoneLater
  <2>2. CASE s # {}
    <3> DEFINE m == Seqs!Max(s)
    <3>1. m \in s /\ \A k \in s : k <= m
      BY <2>2, MaxIs
    <3>2. After(base, q, s) = Given(After(base, q, s \ {m}), q[m])
      <4> HIDE DEF m
      <4> QED BY <3>1, OneLater
    <3>3. iter[s \ {m}] = After(base, q, s \ {m})
      <4>1. s \ {m} \in SUBSET (1..n)
        OBVIOUS
      <4> HIDE DEF m
      <4> QED BY <4>1
    <3> HIDE DEF iter
    <3> QED BY <2>2, <3>2, <3>3
  <2> QED BY <2>1, <2>2
<1>2. iter = [s \in SUBSET DOMAIN q |->
                IF s = {} THEN base ELSE Given(iter[s \ {Seqs!Max(s)}], q[Seqs!Max(s)])]
  BY <1>1, Zenon
<1>3. Iter(base, q, iter)
  <2> HIDE DEF iter
  <2> QED BY <1>2 DEF Iter
<1> QED BY <1>3

LEMMA IterUnique ==
  ASSUME NEW base, base = [a \in DOMAIN base |-> base[a]],
         NEW q, NEW n \in Nat, DOMAIN q = 1..n,
         NEW iter, Iter(base, q, iter)
  PROVE  iter[1..n] = After(base, q, 1..n)
<1> DEFINE Bad == {k \in 0..n : iter[1..k] # After(base, q, 1..k)}
<1>1. ASSUME NEW k \in 0..n, \A m \in Bad : k <= m
      PROVE  k \notin Bad
  <2>1. CASE k = 0
    <3>1. 1..k = {}
      BY <2>1
    <3>2. iter[{}] = base
      BY DEF Iter
    <3> QED BY <3>1, <3>2, NoneLater
  <2>2. CASE k # 0
    <3>1. 1..k # {} /\ 1..k \subseteq 1..n /\ k \in 1..k /\ k - 1 \in 0..n
          /\ (1..k) \ {k} = 1..(k - 1) /\ \A j \in 1..k : j <= k
      BY <2>2
    <3>2. Seqs!Max(1..k) = k
      <4> DEFINE m == Seqs!Max(1..k)
      <4>1. m \in 1..k /\ \A j \in 1..k : j <= m
        BY <3>1, MaxIs
      <4>2. m \in 1..k /\ k <= m
        BY <3>1, <4>1
      <4> HIDE DEF m
      <4>3. m = k
        BY <4>2
      <4> QED BY <4>3 DEF m
    <3>3. iter[1..k] = Given(iter[1..(k - 1)], q[k])
      <4>1. iter[1..k] = Given(iter[(1..k) \ {Seqs!Max(1..k)}], q[Seqs!Max(1..k)])
        BY <3>1 DEF Iter
      <4> QED BY <3>1, <3>2, <4>1
    <3>4. k - 1 \notin Bad
      <4>1. ~(k <= k - 1)
        OBVIOUS
      <4> QED BY <1>1, <4>1
    <3>5. iter[1..(k - 1)] = After(base, q, 1..(k - 1))
      BY <3>1, <3>4
    <3>6. After(base, q, 1..k) = Given(After(base, q, 1..(k - 1)), q[k])
      <4>1. After(base, q, 1..k) = Given(After(base, q, (1..k) \ {k}), q[k])
        <5> HIDE DEF Bad
        <5> QED BY <3>1, OneLater
      <4> QED BY <3>1, <4>1
    <3>7. iter[1..k] = After(base, q, 1..k)
      BY <3>3, <3>5, <3>6
    <3> QED BY <3>7
  <2> QED BY <2>1, <2>2
<1>2. Bad = {}
  <2>1. ASSUME Bad # {} PROVE FALSE
    <3>1. Bad \subseteq Nat /\ Bad \subseteq 0..n
      OBVIOUS
    <3>2. PICK k \in Bad : \A m \in Bad : k <= m
      <4> HIDE DEF Bad
      <4> QED BY <2>1, <3>1, LeastNat
    <3> HIDE DEF Bad
    <3> QED BY <1>1, <3>1, <3>2
  <2> QED BY <2>1
<1>3. n \in 0..n /\ n \notin Bad
  <2>1. n \in 0..n
    OBVIOUS
  <2> QED BY <1>2, <2>1
<1> QED BY <1>3

\* yts_metadata_constructed: the last value for each name is what remains.
LEMMA ConstructGives ==
  ASSUME NEW node, NEW list, NEW n \in Nat, DOMAIN Pairs(list) = 1..n,
         node.attrs = [a \in DOMAIN node.attrs |-> node.attrs[a]]
  PROVE  Construct(node, list) = [node EXCEPT !.attrs = After(node.attrs, Pairs(list), 1..n)]
<1> DEFINE base == node.attrs
           q == Pairs(list)
           iter == CHOOSE i : Iter(base, q, i)
<1>1. base = [a \in DOMAIN base |-> base[a]] /\ DOMAIN q = 1..n
  OBVIOUS
<1>2. iter[1..n] = After(base, q, 1..n)
  <2> HIDE DEF base, q
  <2>1. \E i : Iter(base, q, i)
    BY <1>1, IterExists
  <2>2. Iter(base, q, iter)
    BY <2>1, Zenon
  <2> HIDE DEF iter
  <2> QED BY <1>1, <2>2, IterUnique
<1>3. Construct(node, list) = [node EXCEPT !.attrs = iter[DOMAIN q]]
  BY Folded
<1> QED BY <1>2, <1>3

\* An application and its message, on their own.
UseSpec == UseInit /\ [][UseNext]_use_vars

\* ExtractedAsBuilt, of the message itself.
Says ==
  /\ mdata.node.attrs = IF mdata.readonly THEN source.attrs
                        ELSE After(source.attrs, asked, DOMAIN asked)
  /\ mdata.node.content = source.content
  /\ DOMAIN mdata.node.children = DOMAIN source.children \cup DOMAIN added

\* NULL is no message, and there is nothing given before there is one; a message
\* was made from nothing, or is read-only and says what an element says.
UseInv ==
  /\ mdata \in MadeMessages \cup ReadMessages \cup {NoText}
  /\ asked \in Seq(Keys \X Texts)
  /\ mdata = NoText => asked = <<>> /\ added = Empty
  /\ mdata \in MadeMessages => source = Node("message", Empty)
  /\ mdata \in ReadMessages => source \in Elements /\ mdata.node \in Elements
  /\ mdata # NoText => Says

\* What is extracted is what the message says.
LEMMA SaysIs == mdata # NoText => (ExtractedAsBuilt <=> Says)
<1> DEFINE names == DOMAIN source.attrs \cup {asked[i][1] : i \in DOMAIN asked}
<1>1. After(source.attrs, asked, DOMAIN asked) = [a \in names |-> Latest(a)]
  BY Zenon DEF After, LastOf, Latest
<1>2. ASSUME mdata # NoText
      PROVE  ExtractedAsBuilt <=>
               /\ Extract(mdata).attrs = IF mdata.readonly THEN source.attrs ELSE [a \in names |-> Latest(a)]
               /\ Extract(mdata).body.text = source.content
               /\ DOMAIN Extract(mdata).body.children = DOMAIN source.children \cup DOMAIN added
  BY <1>2, Zenon DEF ExtractedAsBuilt
<1>3. /\ Extract(mdata).attrs = mdata.node.attrs
      /\ Extract(mdata).body.text = mdata.node.content
      /\ Extract(mdata).body.children = mdata.node.children
  BY DEF Extract
<1> HIDE DEF names
<1> QED BY <1>1, <1>2, <1>3 DEF Says

\* The pairs of a list are pairs of what it lists.
LEMMA PairsTyped ==
  ASSUME NEW list \in AttributeLists
  PROVE  /\ Pairs(list) \in Seq(Keys \X Texts)
         /\ \E n \in Nat : DOMAIN Pairs(list) = 1..n
<1>1. Len(list) \in Nat
  BY MetadataAssumption
<1>2. PICK h \in Nat : h = Len(list) \div 2
  BY <1>1
<1>3. Pairs(list) = [i \in 1..h |-> <<list[2 * i - 1], list[2 * i]>>]
  BY <1>2 DEF Pairs
<1>4. ASSUME NEW i \in 1..h
      PROVE  <<list[2 * i - 1], list[2 * i]>> \in Keys \X Texts
  <2> DEFINE p == <<list[2 * i - 1], list[2 * i]>>
  <2>1. p = Pairs(list)[i] /\ i \in DOMAIN Pairs(list)
    BY <1>3
  <2> HIDE DEF p
  <2>2. p \in ListPairs
    BY <2>1 DEF ListPairs
  <2>3. p[1] \in Keys /\ p[2] \in Texts
    BY <2>2 DEF Keys, Texts
  <2> QED BY <2>3 DEF p
<1>5. Pairs(list) \in [1..h -> Keys \X Texts]
  BY <1>3, <1>4
<1> QED BY <1>5

\* The last values of such pairs are a table of attributes.
LEMMA TableOf ==
  ASSUME NEW q \in Seq(Keys \X Texts)
  PROVE  /\ After(Empty, q, DOMAIN q) \in UNION {[K -> Texts] : K \in SUBSET Keys}
         /\ After(Empty, q, DOMAIN q) = [a \in DOMAIN After(Empty, q, DOMAIN q) |-> After(Empty, q, DOMAIN q)[a]]
<1> DEFINE t == After(Empty, q, DOMAIN q)
           K == {q[i][1] : i \in DOMAIN q}
<1>1. DOMAIN Empty = {}
  BY DEF Empty
<1>2. t = [a \in K |-> IF {i \in DOMAIN q : q[i][1] = a} = {} THEN Empty[a] ELSE q[LastOf(q, a, DOMAIN q)][2]]
  BY <1>1 DEF After
<1>3. \A i \in DOMAIN q : q[i][1] \in Keys /\ q[i][2] \in Texts
  OBVIOUS
<1>4. ASSUME NEW a \in K PROVE t[a] \in Texts
  <2>1. {i \in DOMAIN q : q[i][1] = a} # {}
    OBVIOUS
  <2>2. PICK n \in Nat : DOMAIN q = 1..n
    OBVIOUS
  <2>3. LastOf(q, a, DOMAIN q) \in DOMAIN q
    BY <2>1, <2>2, LastIs
  <2>4. t[a] = q[LastOf(q, a, DOMAIN q)][2]
    BY <1>2, <2>1
  <2> QED BY <1>3, <2>3, <2>4
<1>5. K \in SUBSET Keys
  BY <1>3
<1>6. t = [a \in K |-> t[a]]
  <2> HIDE DEF K
  <2> QED BY <1>2
<1>7. t \in [K -> Texts]
  <2> HIDE DEF K, t
  <2> QED BY <1>4, <1>6
<1>8. t \in UNION {[L -> Texts] : L \in SUBSET Keys}
  <2> HIDE DEF K, t
  <2> QED BY <1>5, <1>7
<1>9. DOMAIN t = K
  <2> HIDE DEF K, t
  <2> QED BY <1>7
<1> QED BY <1>6, <1>8, <1>9

\* A message that is made has the last values of the list.
LEMMA MakeKeeps ==
  ASSUME UseInv, NEW list \in AttributeLists, Make(list)
  PROVE  UseInv'
<1> DEFINE base == Node("message", Empty)
           q == Pairs(list)
           t == After(Empty, q, DOMAIN q)
<1>1. /\ base.name = "message" /\ base.attrs = Empty /\ base.content = NoText
      /\ base.children = Empty /\ DOMAIN base = {"name", "attrs", "content", "children"}
      /\ base = [name |-> "message", attrs |-> Empty, content |-> NoText, children |-> Empty]
  BY DEF Node
<1>2. q \in Seq(Keys \X Texts) /\ \E n \in Nat : DOMAIN q = 1..n
  BY PairsTyped
<1>3. Empty = [a \in DOMAIN Empty |-> Empty[a]]
  BY DEF Empty
<1>4. Construct(base, list) = [base EXCEPT !.attrs = t]
  <2>1. PICK n \in Nat : DOMAIN q = 1..n
    BY <1>2
  <2>2. Construct(base, list) = [base EXCEPT !.attrs = After(base.attrs, Pairs(list), 1..n)]
    <3> HIDE DEF base
    <3> QED BY <1>1, <1>3, <2>1, ConstructGives
  <2> HIDE DEF base
  <2> QED BY <1>1, <2>1, <2>2
<1>5. t \in UNION {[K -> Texts] : K \in SUBSET Keys}
  BY <1>2, TableOf
<1>6. mdata' = [node |-> [name |-> "message", attrs |-> t, content |-> NoText, children |-> Empty],
                readonly |-> FALSE]
  <2>1. mdata' = [node |-> Construct(base, list), readonly |-> FALSE]
    BY <1>1 DEF Make, NewMessage, NewFromNode
  <2> HIDE DEF t
  <2>2. [base EXCEPT !.attrs = t] = [name |-> "message", attrs |-> t, content |-> NoText, children |-> Empty]
    BY <1>1
  <2> HIDE DEF base
  <2> QED BY <1>4, <2>1, <2>2
<1>7. mdata' \in MadeMessages /\ mdata' # NoText
  <2>1. Empty \in OwnChildren
    BY DEF OwnChildren
  <2> HIDE DEF t
  <2>2. mdata' \in MadeMessages
    BY <1>5, <1>6, <2>1 DEF MadeMessages
  <2> QED BY <2>2, MetadataAssumption
<1>8. mdata' \notin ReadMessages
  <2> HIDE DEF t
  <2> QED BY <1>6 DEF ReadMessages
<1>9. source' = base /\ asked' = q /\ added' = Empty
  BY DEF Make, UseInv
<1>10. Says'
  <2>1. DOMAIN Empty = {}
    BY DEF Empty
  <2>2. After(source'.attrs, asked', DOMAIN asked') = t
    <3> HIDE DEF base
    <3> QED BY <1>1, <1>9
  <2> HIDE DEF t, base
  <2> QED BY <1>1, <1>6, <1>9, <2>1, <2>2 DEF Says
<1> HIDE DEF t, q
<1> QED BY <1>2, <1>7, <1>8, <1>9, <1>10 DEF UseInv

\* One that is read has what the element has: no pairs change nothing.
LEMMA ReadKeeps ==
  ASSUME UseInv, NEW n \in Elements, ReadXml(n)
  PROVE  UseInv'
<1>1. /\ n = [name |-> n.name, attrs |-> n.attrs, content |-> n.content, children |-> n.children]
      /\ n.attrs = [a \in DOMAIN n.attrs |-> n.attrs[a]]
  BY MetadataAssumption DEF IsElement
<1>2. Construct(n, <<>>) = n
  <2>1. DOMAIN Pairs(<<>>) = 1..0
    BY DEF Pairs
  <2>2. Construct(n, <<>>) = [n EXCEPT !.attrs = After(n.attrs, Pairs(<<>>), 1..0)]
    BY <1>1, <2>1, ConstructGives
  <2>3. After(n.attrs, Pairs(<<>>), 1..0) = n.attrs
    <3>1. 1..0 = {}
      OBVIOUS
    <3> QED BY <1>1, <3>1, NoneLater
  <2>4. [n EXCEPT !.attrs = n.attrs] = n
    BY <1>1
  <2> QED BY <2>2, <2>3, <2>4
<1>3. mdata' \in [node : {n}, readonly : {TRUE}] /\ mdata'.node = n /\ mdata'.readonly = TRUE
  <2>1. n.name = "message"
    BY DEF ReadXml
  <2>2. NewFromNode(n, <<>>) = [node |-> n, readonly |-> FALSE]
    BY <1>2, <2>1 DEF NewFromNode
  <2>3. ASSUME NEW m \in [node : {n}, readonly : BOOLEAN]
        PROVE  [m EXCEPT !.readonly = TRUE] \in [node : {n}, readonly : {TRUE}]
    OBVIOUS
  <2>4. [node |-> n, readonly |-> FALSE] \in [node : {n}, readonly : BOOLEAN]
    OBVIOUS
  <2>5. NewFromXml(n) \in [node : {n}, readonly : {TRUE}]
    BY <2>2, <2>3, <2>4, Zenon DEF NewFromXml
  <2>6. mdata' \in [node : {n}, readonly : {TRUE}]
    BY <2>5 DEF ReadXml
  <2>7. mdata'.node = n /\ mdata'.readonly = TRUE
    BY <2>6
  <2> QED BY <2>6, <2>7
<1>4. mdata' \in ReadMessages /\ mdata' # NoText
  <2>1. n \in [name : {"message"}, attrs : {e.attrs : e \in Elements},
               content : {e.content : e \in Elements}, children : {e.children : e \in Elements} \cup OwnChildren]
    <3>1. n.name = "message" /\ n.children \in {e.children : e \in Elements}
      BY DEF ReadXml
    <3>2. n.attrs \in {e.attrs : e \in Elements} /\ n.content \in {e.content : e \in Elements}
      OBVIOUS
    <3> QED BY <1>1, <3>1, <3>2
  <2>2. mdata' \in ReadMessages
    BY <1>3, <2>1 DEF ReadMessages
  <2> QED BY <2>2, MetadataAssumption
<1>5. mdata' \notin MadeMessages
  BY <1>3 DEF MadeMessages
<1>6. source' = n /\ asked' = <<>> /\ added' = Empty
  BY DEF ReadXml, UseInv
<1>7. Says'
  <2>1. DOMAIN Empty = {}
    BY DEF Empty
  <2> QED BY <1>3, <1>6, <2>1 DEF Says
<1>8. asked' \in Seq(Keys \X Texts)
  BY <1>6
<1>9. mdata'.node \in Elements
  BY <1>3
<1> QED BY <1>4, <1>5, <1>6, <1>7, <1>8, <1>9 DEF UseInv

\* An attribute that is added is the last of its name, unless it has no name, or
\* the message is read-only, which keeps what it has.
LEMMA AddKeeps ==
  ASSUME UseInv, NEW a \in Names, NEW v \in Values, Add(a, v)
  PROVE  UseInv'
<1>a. CASE a = NoName
  <2>1. UNCHANGED use_vars
    BY <1>a DEF Add, AddAttribute, use_vars
  <2> QED BY <2>1 DEF use_vars, UseInv, Says
<1> SUFFICES ASSUME a # NoName PROVE UseInv'
  BY <1>a
<1> DEFINE q == asked
           r == Append(asked, <<a, v>>)
           n == Len(asked)
<1>b. asked' = Append(asked, <<a, v>>)
  BY DEF Add
<1>1. a \in Keys /\ v \in Texts /\ v # NoText
  BY MetadataAssumption DEF Keys, Texts
<1>2. /\ mdata # NoText /\ mdata' = AddAttribute(mdata, a, v) /\ asked' = r
      /\ source' = source /\ added' = added
  BY <1>b DEF Add
<1>3. /\ q \in Seq(Keys \X Texts) /\ r \in Seq(Keys \X Texts)
      /\ n \in Nat /\ DOMAIN q = 1..n /\ DOMAIN r = 1..(n + 1)
      /\ \A i \in 1..n : r[i] = q[i]
      /\ r[n + 1] = <<a, v>>
  BY <1>1, AppendProperties DEF UseInv
<1>4. CASE mdata \in ReadMessages
  <2>1. mdata.readonly
    BY <1>4 DEF ReadMessages
  <2>2. mdata' = mdata
    BY <1>2, <2>1 DEF AddAttribute
  <2>3. Says'
    BY <1>2, <2>1, <2>2 DEF Says, UseInv
  <2> HIDE DEF r
  <2> QED BY <1>2, <1>3, <2>2, <2>3 DEF UseInv
<1>5. CASE mdata \in MadeMessages
  <2> DEFINE t == After(Empty, q, DOMAIN q)
             u == After(Empty, r, DOMAIN r)
  <2>1. source = Node("message", Empty) /\ source.attrs = Empty /\ ~mdata.readonly
    <3>1. source = Node("message", Empty)
      BY <1>5, Zenon DEF UseInv
    <3>2. source.attrs = Empty
      BY <3>1 DEF Node
    <3>3. mdata.readonly = FALSE
      BY <1>5 DEF MadeMessages
    <3> QED BY <3>1, <3>2, <3>3
  <2>2. mdata.node.attrs = t
    BY <1>2, <2>1 DEF UseInv, Says
  <2>3. u = Given(t, <<a, v>>)
    <3>1. n + 1 \in Nat /\ n + 1 \in 1..(n + 1) /\ \A k \in 1..(n + 1) : k <= n + 1
      BY <1>3
    <3>2. (1..(n + 1)) \ {n + 1} = 1..n
      BY <1>3
    <3>3. After(Empty, r, 1..(n + 1)) = Given(After(Empty, r, 1..n), r[n + 1])
      <4> HIDE DEF r, n
      <4>1. After(Empty, r, 1..(n + 1)) = Given(After(Empty, r, (1..(n + 1)) \ {n + 1}), r[n + 1])
        BY <3>1, OneLater
      <4> QED BY <3>2, <4>1
    <3>4. After(Empty, r, 1..n) = After(Empty, q, 1..n)
      <4> DEFINE s == 1..n
      <4>1. \A i \in s : r[i] = q[i]
        BY <1>3
      <4> HIDE DEF s, r, q
      <4>2. \A i \in s : r[i][1] = q[i][1]
        BY <4>1
      <4>3. \A x : {i \in s : r[i][1] = x} = {i \in s : q[i][1] = x}
        BY <4>2
      <4>4. {r[i][1] : i \in s} = {q[i][1] : i \in s}
        BY <4>2
      <4>5. \A x : LastOf(r, x, s) = LastOf(q, x, s)
        BY <4>3, Zenon DEF LastOf
      <4>6. ASSUME NEW x
            PROVE  (IF {i \in s : r[i][1] = x} = {} THEN Empty[x] ELSE r[LastOf(r, x, s)][2])
                   = (IF {i \in s : q[i][1] = x} = {} THEN Empty[x] ELSE q[LastOf(q, x, s)][2])
        <5>1. CASE {i \in s : q[i][1] = x} = {}
          BY <4>3, <5>1
        <5>2. CASE {i \in s : q[i][1] = x} # {}
          <6>1. LastOf(q, x, s) \in s
            BY <1>3, <5>2, LastIs DEF s
          <6> QED BY <4>1, <4>3, <4>5, <5>2, <6>1
        <5> QED BY <5>1, <5>2
      <4>7. After(Empty, r, s) = After(Empty, q, s)
        BY <4>4, <4>6, Zenon DEF After
      <4> QED BY <4>7 DEF s
    <3> HIDE DEF r, q, n
    <3> QED BY <1>3, <3>3, <3>4
  <2>4. Given(t, <<a, v>>) = Put(t, a, v)
    BY DEF Given
  <2>5. mdata' = [mdata EXCEPT !.node.attrs = u]
    <3> HIDE DEF t, u, r, q
    <3> QED BY <1>1, <1>2, <2>1, <2>2, <2>3, <2>4 DEF AddAttribute
  <2>6. u \in UNION {[K -> Texts] : K \in SUBSET Keys}
    <3> HIDE DEF r
    <3> QED BY <1>3, TableOf
  <2>7. /\ mdata' \in MadeMessages /\ mdata'.node.attrs = u
        /\ mdata'.node.content = mdata.node.content
        /\ mdata'.node.children = mdata.node.children
        /\ mdata'.readonly = FALSE
    <3> HIDE DEF u
    <3> QED BY <1>5, <2>5, <2>6 DEF MadeMessages
  <2>8. mdata' # NoText /\ mdata' \notin ReadMessages
    <3>1. mdata' # NoText
      BY <2>7, MetadataAssumption
    <3>2. mdata' \notin ReadMessages
      BY <2>7 DEF ReadMessages
    <3> QED BY <3>1, <3>2
  <2>9. Says'
    <3> HIDE DEF r
    <3> QED BY <1>2, <2>1, <2>7 DEF Says, UseInv
  <2> HIDE DEF r, u
  <2> QED BY <1>2, <1>3, <2>1, <2>7, <2>8, <2>9 DEF UseInv
<1> QED BY <1>2, <1>4, <1>5 DEF UseInv

\* A child that is added is among those added, and changes nothing else.
LEMMA AddChildKeeps ==
  ASSUME UseInv, NEW child \in Children, AddChild(child)
  PROVE  UseInv'
<1> DEFINE one == OneChild(child)
<1>1. /\ mdata # NoText /\ mdata.node.children = Empty
      /\ mdata' = [mdata EXCEPT !.node.children = one]
      /\ added' = Put(added, child.name, <<child>>)
      /\ source' = source /\ asked' = asked
  BY DEF AddChild
<1>2. one \in OwnChildren
  BY DEF OwnChildren
<1>3. DOMAIN one = {child.name} /\ DOMAIN added' = DOMAIN added \cup {child.name} /\ DOMAIN Empty = {}
  BY <1>1 DEF OneChild, Put, Empty
<1> HIDE DEF one
<1>4. CASE mdata \in MadeMessages
  <2>1. mdata' \in MadeMessages /\ mdata' \notin ReadMessages
    BY <1>1, <1>2, <1>4 DEF MadeMessages, ReadMessages
  <2>2. /\ mdata'.node.attrs = mdata.node.attrs /\ mdata'.node.content = mdata.node.content
        /\ mdata'.node.children = one /\ mdata'.readonly = mdata.readonly
    BY <1>1, <1>4 DEF MadeMessages
  <2>3. Says'
    BY <1>1, <1>3, <2>2 DEF Says, UseInv
  <2>4. mdata' # NoText
    BY <2>1, MetadataAssumption
  <2> QED BY <1>1, <1>4, <2>1, <2>3, <2>4 DEF UseInv
<1>5. CASE mdata \in ReadMessages
  <2>1. mdata' \in ReadMessages /\ mdata' \notin MadeMessages
    BY <1>1, <1>2, <1>5 DEF MadeMessages, ReadMessages
  <2>2. /\ mdata'.node.attrs = mdata.node.attrs /\ mdata'.node.content = mdata.node.content
        /\ mdata'.node.children = one /\ mdata'.readonly = mdata.readonly
    BY <1>1, <1>5 DEF ReadMessages
  <2>3. Says'
    BY <1>1, <1>3, <2>2 DEF Says, UseInv
  <2>4. mdata' # NoText
    BY <2>1, MetadataAssumption
  <2>5. mdata'.node \in Elements
    <3>1. mdata.node \in Elements /\ mdata.node.name = "message"
      BY <1>5 DEF UseInv, ReadMessages
    <3>2. [mdata.node EXCEPT !.children = one] \in Elements
      BY <1>1, <3>1, MetadataAssumption DEF one
    <3>3. mdata'.node = [mdata.node EXCEPT !.children = one]
      BY <1>1, <1>5 DEF ReadMessages
    <3> QED BY <3>2, <3>3
  <2> QED BY <1>1, <1>5, <2>1, <2>3, <2>4, <2>5 DEF UseInv
<1> QED BY <1>1, <1>4, <1>5 DEF UseInv

\* There is no message at first.
LEMMA UseInitInv == UseInit => UseInv
<1> SUFFICES ASSUME UseInit PROVE UseInv
  OBVIOUS
<1>1. mdata = NoText /\ asked = <<>> /\ added = Empty
  BY DEF UseInit
<1>2. mdata \notin MadeMessages \cup ReadMessages
  BY <1>1, MetadataAssumption
<1> QED BY <1>1, <1>2 DEF UseInv

\* Each call of the application keeps it.
LEMMA UseStepInv == UseInv /\ [UseNext]_use_vars => UseInv'
<1> SUFFICES ASSUME UseInv, [UseNext]_use_vars PROVE UseInv'
  OBVIOUS
<1>1. CASE \E list \in AttributeLists : Make(list)
  BY <1>1, MakeKeeps
<1>2. CASE \E n \in Elements : ReadXml(n)
  BY <1>2, ReadKeeps
<1>3. CASE \E a \in Names, v \in Values : Add(a, v)
  BY <1>3, AddKeeps
<1>4. CASE \E child \in Children : AddChild(child)
  BY <1>4, AddChildKeeps
<1>5. CASE UNCHANGED use_vars
  BY <1>5 DEF use_vars, UseInv, Says
<1> QED BY <1>1, <1>2, <1>3, <1>4, <1>5 DEF UseNext

\* The invariant, for any application.
THEOREM UseInvariant == UseSpec => []UseInv
<1>1. QED BY UseInitInv, UseStepInv, PTL DEF UseSpec

\* yts_metadata_extract gives back the last value for each of the attributes a
\* message was made with and those added since, and what was read of one that was
\* read, whatever the names, the values and the order of the calls.
THEOREM ExtractedStaysAsBuilt == UseSpec => []ExtractedAsBuilt
<1>1. UseInv => ExtractedAsBuilt
  BY SaysIs DEF UseInv, ExtractedAsBuilt
<1> QED BY <1>1, UseInvariant, PTL

-----------------------------------------------------------------------------
(* Comparison, for any elements whose names nest: every name has a rank, and  *)
(* what is in an element has a lower one than it.  The functions that recur   *)
(* over children are then functions: for every rank there is one up to it.    *)

Nested(Rank) ==
  \A n \in Elements : \A c \in DOMAIN n.children : Rank[c] < Rank[n.name]

\* No element has a name among its children that is also found below them.
OneLevel ==
  \A n \in Elements : \A c, d \in DOMAIN n.children : Find[<<n.children[d][1], c>>] = NoText

\* The elements below a rank.
Upto(Rank, k) == {n \in Elements : Rank[n.name] < k}

\* What is so of 0, and of k + 1 when it is so of k, is so of all.
LEMMA AllNat ==
  ASSUME NEW T, 0 \in T, \A k \in Nat : k \in T => k + 1 \in T
  PROVE  Nat \subseteq T
<1> DEFINE Bad == {k \in Nat : k \notin T}
<1>1. ASSUME Bad # {} PROVE FALSE
  <2>1. PICK k \in Bad : \A m \in Bad : k <= m
    <3>1. Bad \subseteq Nat
      OBVIOUS
    <3> HIDE DEF Bad
    <3> QED BY <1>1, <3>1, LeastNat
  <2>2. k \in Nat /\ k # 0 /\ k \notin T
    OBVIOUS
  <2>3. k - 1 \in Nat /\ ~(k <= k - 1) /\ (k - 1) + 1 = k
    BY <2>2
  <2>4. k - 1 \in T
    BY <2>1, <2>3
  <2> QED BY <2>2, <2>3, <2>4
<1> QED BY <1>1

\* The children of an element are elements of their name and of lower rank.
LEMMA Kids ==
  ASSUME NEW Depth \in Nat, NEW Rank \in [STRING -> 0..Depth], Nested(Rank),
         NEW n \in Elements, NEW c \in DOMAIN n.children
  PROVE  /\ c \in STRING /\ n.children[c] # NoText
         /\ n.children[c] \in Seq(Elements) /\ Len(n.children[c]) \in Nat
         /\ DOMAIN n.children[c] = 1..Len(n.children[c])
         /\ 1 \in DOMAIN n.children[c]
         /\ \A i \in DOMAIN n.children[c] :
              /\ n.children[c][i] \in Elements /\ n.children[c][i].name = c
              /\ \A k \in Nat : n \in Upto(Rank, k + 1) => n.children[c][i] \in Upto(Rank, k)
<1>1. /\ n.name \in STRING /\ c \in STRING /\ n.children[c] # NoText
      /\ n.children[c] \in Seq(Elements) \ {<<>>}
      /\ \A i \in DOMAIN n.children[c] : n.children[c][i].name = c
  BY MetadataAssumption DEF IsElement
<1>2. /\ n.children[c] \in Seq(Elements) /\ Len(n.children[c]) \in Nat
      /\ DOMAIN n.children[c] = 1..Len(n.children[c])
      /\ 1 \in DOMAIN n.children[c]
      /\ \A i \in DOMAIN n.children[c] : n.children[c][i] \in Elements
  <2> DEFINE s == n.children[c]
  <2>1. s \in Seq(Elements) /\ s # <<>>
    BY <1>1
  <2> HIDE DEF s
  <2>2. Len(s) \in Nat /\ Len(s) # 0 /\ DOMAIN s = 1..Len(s) /\ \A i \in DOMAIN s : s[i] \in Elements
    BY <2>1
  <2> QED BY <2>1, <2>2 DEF s
<1>3. Rank[c] \in Int /\ Rank[n.name] \in Int /\ Rank[c] < Rank[n.name]
  <2>1. Rank[c] \in 0..Depth /\ Rank[n.name] \in 0..Depth
    BY <1>1
  <2> QED BY <2>1 DEF Nested
<1>4. ASSUME NEW i \in DOMAIN n.children[c], NEW k \in Nat, n \in Upto(Rank, k + 1)
      PROVE  n.children[c][i] \in Upto(Rank, k)
  <2>1. Rank[n.name] < k + 1
    BY <1>4 DEF Upto
  <2>2. Rank[c] < k
    BY <1>3, <2>1
  <2> QED BY <1>1, <1>2, <2>2 DEF Upto
<1> QED BY <1>1, <1>2, <1>4

\* There is no rank below 0, and none above the depth.
LEMMA AllUpto ==
  ASSUME NEW Depth \in Nat, NEW Rank \in [STRING -> 0..Depth]
  PROVE  Upto(Rank, 0) = {} /\ Upto(Rank, Depth + 1) = Elements
<1>1. ASSUME NEW n \in Elements PROVE Rank[n.name] \in 0..Depth
  BY MetadataAssumption DEF IsElement
<1>2. \A n \in Elements : ~(Rank[n.name] < 0) /\ Rank[n.name] < Depth + 1
  BY <1>1
<1> QED BY <1>2 DEF Upto

\* The equation of rest_xml_node_find.
Below(f, n, c) == {f[<<n.children[k][1], c>>] : k \in DOMAIN n.children} \ {NoText}
FindOf(f, n, c) ==
  IF c \in DOMAIN n.children THEN n.children[c]
  ELSE IF Below(f, n, c) = {} THEN NoText ELSE CHOOSE x \in Below(f, n, c) : TRUE

\* A function that satisfies it, and Find does.
LEMMA FindExists ==
  ASSUME NEW Depth \in Nat, NEW Rank \in [STRING -> 0..Depth], Nested(Rank)
  PROVE  \E f : f = [p \in Elements \X STRING |-> FindOf(f, p[1], p[2])]
<1> DEFINE T == {k \in Nat : \E f : f = [p \in Upto(Rank, k) \X STRING |-> FindOf(f, p[1], p[2])]}
<1>1. 0 \in T
  <2>1. Upto(Rank, 0) \X STRING = {}
    BY AllUpto
  <2>2. ASSUME NEW f, f = [p \in {} |-> NoText]
        PROVE  f = [p \in Upto(Rank, 0) \X STRING |-> FindOf(f, p[1], p[2])]
    BY <2>1, <2>2
  <2> QED BY <2>2
<1>2. ASSUME NEW k \in Nat, k \in T PROVE k + 1 \in T
  <2>1. PICK f : f = [p \in Upto(Rank, k) \X STRING |-> FindOf(f, p[1], p[2])]
    BY <1>2
  <2> DEFINE g == [p \in Upto(Rank, k + 1) \X STRING |-> FindOf(f, p[1], p[2])]
  <2>2. \A n \in Upto(Rank, k) : n \in Upto(Rank, k + 1)
    <3>1. \A n \in Elements : Rank[n.name] \in 0..Depth
      BY MetadataAssumption DEF IsElement
    <3> QED BY <3>1 DEF Upto
  <2>3. ASSUME NEW n \in Upto(Rank, k), NEW c \in STRING PROVE g[<<n, c>>] = f[<<n, c>>]
    <3>1. <<n, c>> \in Upto(Rank, k) \X STRING /\ <<n, c>> \in Upto(Rank, k + 1) \X STRING
      BY <2>2
    <3>2. f[<<n, c>>] = FindOf(f, n, c)
      BY <2>1, <3>1
    <3>3. g[<<n, c>>] = FindOf(f, n, c)
      BY <3>1
    <3> QED BY <3>2, <3>3
  <2>4. ASSUME NEW n \in Upto(Rank, k + 1), NEW c \in STRING
        PROVE  FindOf(f, n, c) = FindOf(g, n, c)
    <3>1. \A d \in DOMAIN n.children : n.children[d][1] \in Upto(Rank, k)
      BY Kids DEF Upto
    <3>2. \A d \in DOMAIN n.children : g[<<n.children[d][1], c>>] = f[<<n.children[d][1], c>>]
      <4> HIDE DEF g
      <4> QED BY <2>3, <3>1
    <3> HIDE DEF g
    <3>3. Below(f, n, c) = Below(g, n, c)
      BY <3>2 DEF Below
    <3> QED BY <3>3 DEF FindOf
  <2>5. g = [p \in Upto(Rank, k + 1) \X STRING |-> FindOf(g, p[1], p[2])]
    <3>1. \A p \in Upto(Rank, k + 1) \X STRING : FindOf(f, p[1], p[2]) = FindOf(g, p[1], p[2])
      <4> HIDE DEF g
      <4> QED BY <2>4
    <3>2. g = [p \in Upto(Rank, k + 1) \X STRING |-> FindOf(f, p[1], p[2])]
      OBVIOUS
    <3> HIDE DEF g
    <3> QED BY <3>1, <3>2
  <2> HIDE DEF g
  <2> QED BY <2>5
<1>3. Depth + 1 \in T
  <2> HIDE DEF T
  <2> QED BY <1>1, <1>2, AllNat
<1> QED BY <1>3, AllUpto

LEMMA FindIs ==
  ASSUME NEW Depth \in Nat, NEW Rank \in [STRING -> 0..Depth], Nested(Rank),
         NEW n \in Elements, NEW c \in STRING
  PROVE  Find[<<n, c>>] = FindOf(Find, n, c)
<1>1. Find = CHOOSE f : f = [p \in Elements \X STRING |-> FindOf(f, p[1], p[2])]
  BY DEF Find, FindOf, Below
<1>2. Find = [p \in Elements \X STRING |-> FindOf(Find, p[1], p[2])]
  <2>1. \E f : f = [p \in Elements \X STRING |-> FindOf(f, p[1], p[2])]
    BY FindExists
  <2> QED BY <1>1, <2>1, Zenon
<1> QED BY <1>2

\* A child is found before what is below, and what is found is found below some
\* child.
LEMMA FindChild ==
  ASSUME NEW Depth \in Nat, NEW Rank \in [STRING -> 0..Depth], Nested(Rank),
         NEW n \in Elements, NEW c \in DOMAIN n.children
  PROVE  Find[<<n, c>>] = n.children[c] /\ Find[<<n, c>>] # NoText
<1>1. c \in STRING /\ n.children[c] # NoText
  BY Kids
<1> QED BY <1>1, FindIs DEF FindOf

LEMMA FindBelow ==
  ASSUME NEW Depth \in Nat, NEW Rank \in [STRING -> 0..Depth], Nested(Rank),
         NEW n \in Elements, NEW c \in STRING, c \notin DOMAIN n.children
  PROVE  /\ \A d \in DOMAIN n.children :
              Find[<<n.children[d][1], c>>] # NoText => Find[<<n, c>>] # NoText
         /\ Find[<<n, c>>] # NoText =>
              \E d \in DOMAIN n.children : Find[<<n, c>>] = Find[<<n.children[d][1], c>>]
<1>1. Find[<<n, c>>] = IF Below(Find, n, c) = {} THEN NoText ELSE CHOOSE x \in Below(Find, n, c) : TRUE
  BY FindIs DEF FindOf
<1>2. Below(Find, n, c) # {} => Find[<<n, c>>] \in Below(Find, n, c)
  BY <1>1
<1>3. Below(Find, n, c) = {} => Find[<<n, c>>] = NoText
  BY <1>1
<1>4. \A d \in DOMAIN n.children :
        Find[<<n.children[d][1], c>>] # NoText => Find[<<n.children[d][1], c>>] \in Below(Find, n, c)
  BY DEF Below
<1>5. \A x \in Below(Find, n, c) : x # NoText /\ \E d \in DOMAIN n.children : x = Find[<<n.children[d][1], c>>]
  BY DEF Below
<1> QED BY <1>2, <1>3, <1>4, <1>5

\* What is found are elements of that name, and of lower rank than where it was
\* looked for.
LEMMA FindTyped ==
  ASSUME NEW Depth \in Nat, NEW Rank \in [STRING -> 0..Depth], Nested(Rank),
         NEW n \in Elements, NEW c \in STRING, Find[<<n, c>>] # NoText
  PROVE  /\ Rank[c] < Rank[n.name]
         /\ Find[<<n, c>>] \in Seq(Elements)
         /\ \A i \in DOMAIN Find[<<n, c>>] : Find[<<n, c>>][i].name = c
<1> DEFINE Good(x) ==
      Find[<<x, c>>] # NoText =>
         /\ Rank[c] < Rank[x.name]
         /\ Find[<<x, c>>] \in Seq(Elements)
         /\ \A i \in DOMAIN Find[<<x, c>>] : Find[<<x, c>>][i].name = c
    T == {k \in Nat : \A x \in Upto(Rank, k) : Good(x)}
<1>1. 0 \in T
  <2> HIDE DEF Good
  <2> QED BY AllUpto
<1>2. ASSUME NEW k \in Nat, k \in T PROVE k + 1 \in T
  <2>1. ASSUME NEW x \in Upto(Rank, k + 1), Find[<<x, c>>] # NoText
        PROVE  /\ Rank[c] < Rank[x.name]
               /\ Find[<<x, c>>] \in Seq(Elements)
               /\ \A i \in DOMAIN Find[<<x, c>>] : Find[<<x, c>>][i].name = c
    <3>0. x \in Elements
      BY DEF Upto
    <3>1. CASE c \in DOMAIN x.children
      <4>1. Find[<<x, c>>] = x.children[c]
        BY <3>0, <3>1, FindChild
      <4>2. x.children[c] \in Seq(Elements) /\ \A i \in DOMAIN x.children[c] : x.children[c][i].name = c
        BY <3>0, <3>1, Kids
      <4>3. Rank[c] < Rank[x.name]
        BY <3>0, <3>1 DEF Nested
      <4> QED BY <4>1, <4>2, <4>3
    <3>2. CASE c \notin DOMAIN x.children
      <4>1. PICK d \in DOMAIN x.children : Find[<<x, c>>] = Find[<<x.children[d][1], c>>]
        BY <2>1, <3>0, <3>2, FindBelow
      <4> DEFINE y == x.children[d][1]
      <4>2. y \in Upto(Rank, k) /\ y.name = d /\ y \in Elements
        BY <3>0, Kids
      <4>3. Rank[d] < Rank[x.name]
        BY <3>0 DEF Nested
      <4>4. Good(y)
        <5> HIDE DEF Good, y
        <5> QED BY <1>2, <4>2
      <4> HIDE DEF y
      <4>5. /\ Rank[c] < Rank[d] /\ Find[<<y, c>>] \in Seq(Elements)
            /\ \A i \in DOMAIN Find[<<y, c>>] : Find[<<y, c>>][i].name = c
        BY <2>1, <4>1, <4>2, <4>4 DEF y
      <4>6. Rank[c] \in 0..Depth /\ Rank[d] \in 0..Depth /\ Rank[x.name] \in 0..Depth
        <5>1. d \in STRING /\ x.name \in STRING
          BY <3>0, MetadataAssumption DEF IsElement
        <5> QED BY <5>1
      <4>7. Rank[c] < Rank[x.name]
        BY <4>3, <4>5, <4>6
      <4> QED BY <4>1, <4>5, <4>7 DEF y
    <3> QED BY <3>1, <3>2
  <2>2. \A x \in Upto(Rank, k + 1) : Good(x)
    BY <2>1
  <2> HIDE DEF Good
  <2> QED BY <2>2
<1>3. Depth + 1 \in T
  <2> HIDE DEF T
  <2> QED BY <1>1, <1>2, AllNat
<1>4. Good(n)
  <2> HIDE DEF Good
  <2> QED BY <1>3, AllUpto
<1> QED BY <1>4

\* The equation of yts_rest_xml_node_check_children, and a function that
\* satisfies it; CheckChildren does.
Alike(f, a, b) ==
  /\ Cardinality(DOMAIN a.attrs) = Cardinality(DOMAIN b.attrs)
  /\ \A c \in DOMAIN a.children :
       /\ Find[<<b, c>>] # NoText
       /\ Len(a.children[c]) = Len(Find[<<b, c>>])
       /\ \A i \in DOMAIN a.children[c] :
            /\ CheckAttrs(a.children[c][i], Find[<<b, c>>][i])
            /\ f[<<a.children[c][i], Find[<<b, c>>][i]>>]

LEMMA CheckExists ==
  ASSUME NEW Depth \in Nat, NEW Rank \in [STRING -> 0..Depth], Nested(Rank)
  PROVE  \E f : f = [p \in Elements \X Elements |-> Alike(f, p[1], p[2])]
<1> DEFINE T == {k \in Nat : \E f : f = [p \in Upto(Rank, k) \X Elements |-> Alike(f, p[1], p[2])]}
<1>1. 0 \in T
  <2>1. Upto(Rank, 0) \X Elements = {}
    BY AllUpto
  <2>2. ASSUME NEW f, f = [p \in {} |-> NoText]
        PROVE  f = [p \in Upto(Rank, 0) \X Elements |-> Alike(f, p[1], p[2])]
    BY <2>1, <2>2
  <2> QED BY <2>2
<1>2. ASSUME NEW k \in Nat, k \in T PROVE k + 1 \in T
  <2>1. PICK f : f = [p \in Upto(Rank, k) \X Elements |-> Alike(f, p[1], p[2])]
    BY <1>2
  <2> DEFINE g == [p \in Upto(Rank, k + 1) \X Elements |-> Alike(f, p[1], p[2])]
  <2>2. \A n \in Upto(Rank, k) : n \in Upto(Rank, k + 1)
    <3>1. \A n \in Elements : Rank[n.name] \in 0..Depth
      BY MetadataAssumption DEF IsElement
    <3> QED BY <3>1 DEF Upto
  <2>3. ASSUME NEW x \in Upto(Rank, k), NEW y \in Elements PROVE g[<<x, y>>] = f[<<x, y>>]
    <3>1. <<x, y>> \in Upto(Rank, k) \X Elements /\ <<x, y>> \in Upto(Rank, k + 1) \X Elements
      BY <2>2
    <3>2. f[<<x, y>>] = Alike(f, x, y)
      BY <2>1, <3>1
    <3>3. g[<<x, y>>] = Alike(f, x, y)
      BY <3>1
    <3> QED BY <3>2, <3>3
  <2>4. ASSUME NEW x \in Upto(Rank, k + 1), NEW y \in Elements
        PROVE  Alike(f, x, y) <=> Alike(g, x, y)
    <3>0. x \in Elements
      BY DEF Upto
    <3>1. ASSUME NEW c \in DOMAIN x.children, Find[<<y, c>>] # NoText,
                 Len(x.children[c]) = Len(Find[<<y, c>>]), NEW i \in DOMAIN x.children[c]
          PROVE  g[<<x.children[c][i], Find[<<y, c>>][i]>>] = f[<<x.children[c][i], Find[<<y, c>>][i]>>]
      <4>1. x.children[c][i] \in Upto(Rank, k) /\ c \in STRING /\ i \in 1..Len(x.children[c])
        BY <3>0, Kids
      <4>2. Find[<<y, c>>] \in Seq(Elements)
        BY <3>1, <4>1, FindTyped
      <4>3. Find[<<y, c>>][i] \in Elements
        BY <3>1, <4>1, <4>2
      <4> HIDE DEF g
      <4> QED BY <2>3, <4>1, <4>3
    <3> DEFINE P(h, c) ==
          /\ Find[<<y, c>>] # NoText
          /\ Len(x.children[c]) = Len(Find[<<y, c>>])
          /\ \A i \in DOMAIN x.children[c] :
               /\ CheckAttrs(x.children[c][i], Find[<<y, c>>][i])
               /\ h[<<x.children[c][i], Find[<<y, c>>][i]>>]
    <3> HIDE DEF g
    <3>2. ASSUME NEW c \in DOMAIN x.children PROVE P(f, c) <=> P(g, c)
      <4>1. CASE Find[<<y, c>>] # NoText /\ Len(x.children[c]) = Len(Find[<<y, c>>])
        <5>1. \A i \in DOMAIN x.children[c] :
                g[<<x.children[c][i], Find[<<y, c>>][i]>>] = f[<<x.children[c][i], Find[<<y, c>>][i]>>]
          BY <3>1, <4>1
        <5> QED BY <5>1, Zenon
      <4>2. CASE ~(Find[<<y, c>>] # NoText /\ Len(x.children[c]) = Len(Find[<<y, c>>]))
        BY <4>2, Zenon
      <4> QED BY <4>1, <4>2
    <3>3. \A h : Alike(h, x, y) <=>
            /\ Cardinality(DOMAIN x.attrs) = Cardinality(DOMAIN y.attrs)
            /\ \A c \in DOMAIN x.children : P(h, c)
      BY Zenon DEF Alike
    <3> HIDE DEF P
    <3> QED BY <3>2, <3>3, Zenon
  <2>5. g = [p \in Upto(Rank, k + 1) \X Elements |-> Alike(g, p[1], p[2])]
    <3>1. \A p \in Upto(Rank, k + 1) \X Elements : Alike(f, p[1], p[2]) <=> Alike(g, p[1], p[2])
      <4> HIDE DEF g
      <4> QED BY <2>4
    <3>2. \A p \in Upto(Rank, k + 1) \X Elements : Alike(f, p[1], p[2]) = Alike(g, p[1], p[2])
      <4> HIDE DEF g
      <4> QED BY <3>1 DEF Alike
    <3>3. g = [p \in Upto(Rank, k + 1) \X Elements |-> Alike(f, p[1], p[2])]
      OBVIOUS
    <3> HIDE DEF g
    <3> QED BY <3>2, <3>3
  <2> HIDE DEF g
  <2> QED BY <2>5
<1>3. Depth + 1 \in T
  <2> HIDE DEF T
  <2> QED BY <1>1, <1>2, AllNat
<1> QED BY <1>3, AllUpto

LEMMA CheckIs ==
  ASSUME NEW Depth \in Nat, NEW Rank \in [STRING -> 0..Depth], Nested(Rank),
         NEW a \in Elements, NEW b \in Elements
  PROVE  CheckChildren[<<a, b>>] <=> Alike(CheckChildren, a, b)
<1>1. CheckChildren = CHOOSE f : f = [p \in Elements \X Elements |-> Alike(f, p[1], p[2])]
  BY DEF CheckChildren, Alike
<1>2. CheckChildren = [p \in Elements \X Elements |-> Alike(CheckChildren, p[1], p[2])]
  <2>1. \E f : f = [p \in Elements \X Elements |-> Alike(f, p[1], p[2])]
    BY CheckExists
  <2> QED BY <1>1, <2>1, Zenon
<1> QED BY <1>2

\* The same of what a node says.
SaysOf(f, n) ==
  [attrs |-> n.attrs,
   children |-> [c \in DOMAIN n.children |-> [i \in DOMAIN n.children[c] |-> f[n.children[c][i]]]]]

LEMMA SkeletonExists ==
  ASSUME NEW Depth \in Nat, NEW Rank \in [STRING -> 0..Depth], Nested(Rank)
  PROVE  \E f : f = [n \in Elements |-> SaysOf(f, n)]
<1> DEFINE T == {k \in Nat : \E f : f = [n \in Upto(Rank, k) |-> SaysOf(f, n)]}
<1>1. 0 \in T
  <2>1. ASSUME NEW f, f = [p \in {} |-> NoText]
        PROVE  f = [n \in Upto(Rank, 0) |-> SaysOf(f, n)]
    BY <2>1, AllUpto
  <2> QED BY <2>1
<1>2. ASSUME NEW k \in Nat, k \in T PROVE k + 1 \in T
  <2>1. PICK f : f = [n \in Upto(Rank, k) |-> SaysOf(f, n)]
    BY <1>2
  <2> DEFINE g == [n \in Upto(Rank, k + 1) |-> SaysOf(f, n)]
  <2>2. \A n \in Upto(Rank, k) : n \in Upto(Rank, k + 1)
    <3>1. \A n \in Elements : Rank[n.name] \in 0..Depth
      BY MetadataAssumption DEF IsElement
    <3> QED BY <3>1 DEF Upto
  <2>3. ASSUME NEW x \in Upto(Rank, k) PROVE g[x] = f[x]
    <3>1. f[x] = SaysOf(f, x)
      BY <2>1
    <3>2. g[x] = SaysOf(f, x)
      BY <2>2
    <3> QED BY <3>1, <3>2
  <2>4. ASSUME NEW x \in Upto(Rank, k + 1) PROVE SaysOf(f, x) = SaysOf(g, x)
    <3>1. \A c \in DOMAIN x.children : \A i \in DOMAIN x.children[c] : x.children[c][i] \in Upto(Rank, k)
      BY Kids DEF Upto
    <3>2. \A c \in DOMAIN x.children : \A i \in DOMAIN x.children[c] :
            g[x.children[c][i]] = f[x.children[c][i]]
      <4> HIDE DEF g
      <4> QED BY <2>3, <3>1
    <3> HIDE DEF g
    <3>3. \A c \in DOMAIN x.children :
            [i \in DOMAIN x.children[c] |-> f[x.children[c][i]]]
              = [i \in DOMAIN x.children[c] |-> g[x.children[c][i]]]
      BY <3>2
    <3> QED BY <3>3, Zenon DEF SaysOf
  <2>5. g = [n \in Upto(Rank, k + 1) |-> SaysOf(g, n)]
    <3>1. g = [n \in Upto(Rank, k + 1) |-> SaysOf(f, n)]
      OBVIOUS
    <3> HIDE DEF g
    <3> QED BY <2>4, <3>1
  <2> HIDE DEF g
  <2> QED BY <2>5
<1>3. Depth + 1 \in T
  <2> HIDE DEF T
  <2> QED BY <1>1, <1>2, AllNat
<1> QED BY <1>3, AllUpto

LEMMA SkeletonIs ==
  ASSUME NEW Depth \in Nat, NEW Rank \in [STRING -> 0..Depth], Nested(Rank),
         NEW n \in Elements
  PROVE  Skeleton[n] = SaysOf(Skeleton, n)
<1>1. Skeleton = CHOOSE f : f = [x \in Elements |-> SaysOf(f, x)]
  BY DEF Skeleton, SaysOf
<1>2. Skeleton = [x \in Elements |-> SaysOf(Skeleton, x)]
  <2>1. \E f : f = [x \in Elements |-> SaysOf(f, x)]
    BY SkeletonExists
  <2> QED BY <1>1, <2>1, Zenon
<1> QED BY <1>2

\* Two nodes say the same when their attributes, their names of children and the
\* children, one by one, do.
LEMMA SkeletonsEqual ==
  ASSUME NEW Depth \in Nat, NEW Rank \in [STRING -> 0..Depth], Nested(Rank),
         NEW a \in Elements, NEW b \in Elements
  PROVE  Skeleton[a] = Skeleton[b] <=>
           /\ a.attrs = b.attrs
           /\ DOMAIN a.children = DOMAIN b.children
           /\ \A c \in DOMAIN a.children :
                /\ Len(a.children[c]) = Len(b.children[c])
                /\ \A i \in DOMAIN a.children[c] :
                     Skeleton[a.children[c][i]] = Skeleton[b.children[c][i]]
<1> DEFINE C(n) == [c \in DOMAIN n.children |-> [i \in DOMAIN n.children[c] |-> Skeleton[n.children[c][i]]]]
           L(n, c) == [i \in DOMAIN n.children[c] |-> Skeleton[n.children[c][i]]]
<1>1. Skeleton[a] = [attrs |-> a.attrs, children |-> C(a)] /\ Skeleton[b] = [attrs |-> b.attrs, children |-> C(b)]
  BY SkeletonIs DEF SaysOf
<1>2. Skeleton[a] = Skeleton[b] <=> a.attrs = b.attrs /\ C(a) = C(b)
  <2> HIDE DEF C
  <2> QED BY <1>1
<1>3. C(a) = [c \in DOMAIN a.children |-> L(a, c)] /\ C(b) = [c \in DOMAIN b.children |-> L(b, c)]
  OBVIOUS
<1>4. C(a) = C(b) <=> DOMAIN a.children = DOMAIN b.children /\ \A c \in DOMAIN a.children : L(a, c) = L(b, c)
  <2> HIDE DEF C, L
  <2> QED BY <1>3
<1>5. ASSUME NEW c \in DOMAIN a.children, c \in DOMAIN b.children
      PROVE  L(a, c) = L(b, c) <=>
                /\ Len(a.children[c]) = Len(b.children[c])
                /\ \A i \in DOMAIN a.children[c] : Skeleton[a.children[c][i]] = Skeleton[b.children[c][i]]
  <2>1. /\ Len(a.children[c]) \in Nat /\ DOMAIN a.children[c] = 1..Len(a.children[c])
        /\ Len(b.children[c]) \in Nat /\ DOMAIN b.children[c] = 1..Len(b.children[c])
    BY <1>5, Kids
  <2>2. L(a, c) = L(b, c) <=>
          /\ DOMAIN a.children[c] = DOMAIN b.children[c]
          /\ \A i \in DOMAIN a.children[c] : Skeleton[a.children[c][i]] = Skeleton[b.children[c][i]]
    <3> DEFINE x == a.children[c]
               y == b.children[c]
    <3>1. L(a, c) = [i \in DOMAIN x |-> Skeleton[x[i]]] /\ L(b, c) = [i \in DOMAIN y |-> Skeleton[y[i]]]
      OBVIOUS
    <3> HIDE DEF x, y, L
    <3> QED BY <3>1 DEF x, y
  <2>3. DOMAIN a.children[c] = DOMAIN b.children[c] <=> Len(a.children[c]) = Len(b.children[c])
    <3> DEFINE m == Len(a.children[c])
               n == Len(b.children[c])
    <3>1. m \in Nat /\ n \in Nat
      BY <2>1
    <3> HIDE DEF m, n
    <3>2. 1..m = 1..n => m = n
      <4>1. ASSUME 1..m = 1..n, m < n PROVE FALSE
        <5>1. n \in 1..n /\ n \notin 1..m
          BY <3>1, <4>1
        <5> QED BY <4>1, <5>1
      <4>2. ASSUME 1..m = 1..n, n < m PROVE FALSE
        <5>1. m \in 1..m /\ m \notin 1..n
          BY <3>1, <4>2
        <5> QED BY <4>2, <5>1
      <4> QED BY <3>1, <4>1, <4>2
    <3> QED BY <2>1, <3>2 DEF m, n
  <2> QED BY <2>2, <2>3
<1> HIDE DEF C, L
<1> QED BY <1>2, <1>4, <1>5

\* As many attributes, and those of the one in the other, are the same attributes.
LEMMA AttrsAlike ==
  ASSUME NEW a \in Elements, NEW b \in Elements
  PROVE  CheckAttrs(a, b) <=> a.attrs = b.attrs
<1> DEFINE s == a.attrs
           t == b.attrs
<1>1. /\ s = [k \in DOMAIN s |-> s[k]] /\ IsFiniteSet(DOMAIN s) /\ \A k \in DOMAIN s : s[k] # NoText
      /\ t = [k \in DOMAIN t |-> t[k]] /\ IsFiniteSet(DOMAIN t) /\ \A k \in DOMAIN t : t[k] # NoText
  BY MetadataAssumption DEF IsElement
<1>2. CheckAttrs(a, b) <=>
        /\ Cardinality(DOMAIN s) = Cardinality(DOMAIN t)
        /\ \A k \in DOMAIN s : (IF k \in DOMAIN t THEN t[k] ELSE NoText) = s[k]
  BY DEF CheckAttrs, GetAttribute
<1> HIDE DEF s, t
<1>3. ASSUME CheckAttrs(a, b) PROVE s = t
  <2>1. DOMAIN s \subseteq DOMAIN t /\ \A k \in DOMAIN s : t[k] = s[k]
    BY <1>1, <1>2, <1>3
  <2>2. DOMAIN s = DOMAIN t
    BY <1>1, <1>2, <1>3, <2>1, FS_Subset
  <2> QED BY <1>1, <2>1, <2>2
<1>4. ASSUME s = t PROVE CheckAttrs(a, b)
  BY <1>2, <1>4
<1> QED BY <1>3, <1>4 DEF s, t

\* In what says the same the same names are found.
LEMMA SameFind ==
  ASSUME NEW Depth \in Nat, NEW Rank \in [STRING -> 0..Depth], Nested(Rank),
         NEW a \in Elements, NEW b \in Elements, Skeleton[a] = Skeleton[b],
         NEW c \in STRING, Find[<<a, c>>] # NoText
  PROVE  Find[<<b, c>>] # NoText
<1> DEFINE T == {k \in Nat : \A x \in Upto(Rank, k), y \in Elements :
                   Skeleton[x] = Skeleton[y] /\ Find[<<x, c>>] # NoText => Find[<<y, c>>] # NoText}
<1>1. 0 \in T
  BY AllUpto
<1>2. ASSUME NEW k \in Nat, k \in T PROVE k + 1 \in T
  <2>1. ASSUME NEW x \in Upto(Rank, k + 1), NEW y \in Elements,
               Skeleton[x] = Skeleton[y], Find[<<x, c>>] # NoText
        PROVE  Find[<<y, c>>] # NoText
    <3>1. x \in Elements
      BY DEF Upto
    <3>2. /\ DOMAIN x.children = DOMAIN y.children
          /\ \A d \in DOMAIN x.children : \A i \in DOMAIN x.children[d] :
               Skeleton[x.children[d][i]] = Skeleton[y.children[d][i]]
      BY <2>1, <3>1, SkeletonsEqual
    <3>3. CASE c \in DOMAIN x.children
      BY <3>2, <3>3, FindChild
    <3>4. CASE c \notin DOMAIN x.children
      <4>1. PICK d \in DOMAIN x.children : Find[<<x, c>>] = Find[<<x.children[d][1], c>>]
        BY <2>1, <3>1, <3>4, FindBelow
      <4> DEFINE u == x.children[d][1]
                 v == y.children[d][1]
      <4>2. u \in Upto(Rank, k) /\ v \in Elements /\ Skeleton[u] = Skeleton[v]
        BY <3>1, <3>2, Kids
      <4>3. Find[<<v, c>>] # NoText
        <5>1. Find[<<u, c>>] # NoText
          BY <2>1, <4>1
        <5> HIDE DEF u, v
        <5> QED BY <1>2, <4>2, <5>1
      <4> QED BY <3>2, <3>4, <4>3, FindBelow
    <3> QED BY <3>3, <3>4
  <2>2. \A x \in Upto(Rank, k + 1), y \in Elements :
          Skeleton[x] = Skeleton[y] /\ Find[<<x, c>>] # NoText => Find[<<y, c>>] # NoText
    BY <2>1, Zenon
  <2>3. k + 1 \in Nat
    OBVIOUS
  <2> QED BY <2>2, <2>3, Zenon
<1>3. Depth + 1 \in T
  <2> HIDE DEF T
  <2> QED BY <1>1, <1>2, AllNat
<1> QED BY <1>3, AllUpto

\* yts_metadata_is_equal of what says the same.
LEMMA SameEqual ==
  ASSUME NEW Depth \in Nat, NEW Rank \in [STRING -> 0..Depth], Nested(Rank),
         NEW a \in Elements, NEW b \in Elements, Skeleton[a] = Skeleton[b]
  PROVE  IsEqual(a, b)
<1> DEFINE T == {k \in Nat : \A x \in Upto(Rank, k), y \in Elements :
                   Skeleton[x] = Skeleton[y] => CheckChildren[<<x, y>>]}
<1>1. 0 \in T
  BY AllUpto
<1>2. ASSUME NEW k \in Nat, k \in T PROVE k + 1 \in T
  <2>1. ASSUME NEW x \in Upto(Rank, k + 1), NEW y \in Elements, Skeleton[x] = Skeleton[y]
        PROVE  CheckChildren[<<x, y>>]
    <3>1. x \in Elements
      BY DEF Upto
    <3>2. /\ x.attrs = y.attrs /\ DOMAIN x.children = DOMAIN y.children
          /\ \A c \in DOMAIN x.children :
               /\ Len(x.children[c]) = Len(y.children[c])
               /\ \A i \in DOMAIN x.children[c] :
                    Skeleton[x.children[c][i]] = Skeleton[y.children[c][i]]
      BY <2>1, <3>1, SkeletonsEqual
    <3>3. ASSUME NEW c \in DOMAIN x.children
          PROVE  /\ Find[<<y, c>>] # NoText
                 /\ Len(x.children[c]) = Len(Find[<<y, c>>])
                 /\ \A i \in DOMAIN x.children[c] :
                      /\ CheckAttrs(x.children[c][i], Find[<<y, c>>][i])
                      /\ CheckChildren[<<x.children[c][i], Find[<<y, c>>][i]>>]
      <4>1. c \in DOMAIN y.children /\ Find[<<y, c>>] = y.children[c] /\ Find[<<y, c>>] # NoText
        BY <3>2, FindChild
      <4>2. ASSUME NEW i \in DOMAIN x.children[c]
            PROVE  /\ CheckAttrs(x.children[c][i], y.children[c][i])
                   /\ CheckChildren[<<x.children[c][i], y.children[c][i]>>]
        <5> DEFINE u == x.children[c][i]
                   v == y.children[c][i]
        <5>1. u \in Upto(Rank, k) /\ u \in Elements
          BY <3>1, Kids
        <5>2. v \in Elements
          <6>1. DOMAIN x.children[c] = 1..Len(x.children[c]) /\ DOMAIN y.children[c] = 1..Len(y.children[c])
            BY <3>1, <4>1, Kids
          <6>2. i \in DOMAIN y.children[c]
            BY <3>2, <6>1
          <6> QED BY <4>1, <6>2, Kids
        <5>3. Skeleton[u] = Skeleton[v]
          BY <3>2
        <5> HIDE DEF u, v
        <5>4. u.attrs = v.attrs
          BY <5>1, <5>2, <5>3, SkeletonsEqual
        <5>5. CheckAttrs(u, v)
          BY <5>1, <5>2, <5>4, AttrsAlike
        <5>6. CheckChildren[<<u, v>>]
          BY <1>2, <5>1, <5>2, <5>3
        <5> QED BY <5>5, <5>6 DEF u, v
      <4> QED BY <3>2, <4>1, <4>2
    <3>4. Alike(CheckChildren, x, y)
      BY <3>2, <3>3 DEF Alike
    <3> QED BY <3>1, <3>4, CheckIs
  <2> QED BY <2>1
<1>3. Depth + 1 \in T
  <2> HIDE DEF T
  <2> QED BY <1>1, <1>2, AllNat
<1>4. CheckChildren[<<a, b>>]
  BY <1>3, AllUpto
<1>5. CheckAttrs(a, b)
  <2>1. a.attrs = b.attrs
    BY SkeletonsEqual
  <2> QED BY <2>1, AttrsAlike
<1> QED BY <1>4, <1>5 DEF IsEqual

\* Among names there is one of highest rank.
LEMMA Topmost ==
  ASSUME NEW Depth \in Nat, NEW Rank \in [STRING -> 0..Depth], NEW D, D \subseteq STRING, D # {}
  PROVE  \E c \in D : \A d \in D : Rank[d] <= Rank[c]
<1> DEFINE s == {Rank[c] + 1 : c \in D}
<1>1. \A c \in D : Rank[c] \in 0..Depth
  OBVIOUS
<1>2. s \subseteq 1..(Depth + 1) /\ s # {}
  <2>1. ASSUME NEW c \in D PROVE Rank[c] + 1 \in 1..(Depth + 1)
    <3>1. \A r \in 0..Depth : r + 1 \in 1..(Depth + 1)
      OBVIOUS
    <3> QED BY <1>1, <3>1, Zenon
  <2> QED BY <2>1
<1>3. PICK m \in s : \A k \in s : k <= m
  <2>1. Depth + 1 \in Nat
    OBVIOUS
  <2> HIDE DEF s
  <2> QED BY <1>2, <2>1, Greatest
<1>4. PICK c \in D : m = Rank[c] + 1
  OBVIOUS
<1>5. ASSUME NEW d \in D PROVE Rank[d] <= Rank[c]
  <2>1. Rank[d] + 1 <= Rank[c] + 1
    <3>1. Rank[d] + 1 \in s
      OBVIOUS
    <3> QED BY <1>3, <1>4, <3>1
  <2>2. \A q, r \in 0..Depth : q + 1 <= r + 1 => q <= r
    OBVIOUS
  <2> HIDE DEF s
  <2> QED BY <1>1, <2>1, <2>2, Zenon
<1> QED BY <1>5

\* The name of highest rank that one of two has and the other has not is found in
\* the other below a name both have, where both say the same: so it is below that
\* name in the first as well, which has it at two levels.
LEMMA NoneApart ==
  ASSUME NEW Depth \in Nat, NEW Rank \in [STRING -> 0..Depth], Nested(Rank), OneLevel,
         NEW p \in Elements, NEW q \in Elements, CheckChildren[<<p, q>>],
         NEW c \in DOMAIN p.children, c \notin DOMAIN q.children,
         \A d \in DOMAIN q.children : d \notin DOMAIN p.children => Rank[d] <= Rank[c],
         \A d \in DOMAIN p.children : d \in DOMAIN q.children =>
           Skeleton[p.children[d][1]] = Skeleton[q.children[d][1]]
  PROVE  FALSE
<1>1. c \in STRING /\ Find[<<q, c>>] # NoText
  <2>1. Alike(CheckChildren, p, q)
    BY CheckIs
  <2> QED BY <2>1, Kids DEF Alike
<1>2. PICK d \in DOMAIN q.children : Find[<<q, c>>] = Find[<<q.children[d][1], c>>]
  BY <1>1, FindBelow
<1> DEFINE u == p.children[d][1]
           v == q.children[d][1]
<1>3. v \in Elements /\ v.name = d /\ Find[<<v, c>>] # NoText /\ d \in STRING
  BY <1>1, <1>2, Kids
<1>4. Rank[c] < Rank[d]
  <2> HIDE DEF v
  <2> QED BY <1>1, <1>3, FindTyped
<1>5. d \in DOMAIN p.children
  <2>1. Rank[c] \in 0..Depth /\ Rank[d] \in 0..Depth
    BY <1>1, <1>3
  <2> QED BY <1>4, <2>1
<1>6. u \in Elements /\ Skeleton[v] = Skeleton[u]
  BY <1>5, Kids
<1>7. Find[<<u, c>>] # NoText
  <2> HIDE DEF u, v
  <2> QED BY <1>1, <1>3, <1>6, SameFind
<1> QED BY <1>5, <1>7 DEF OneLevel

\* What is equal both ways says the same.
LEMMA EqualSame ==
  ASSUME NEW Depth \in Nat, NEW Rank \in [STRING -> 0..Depth], Nested(Rank), OneLevel,
         NEW a \in Elements, NEW b \in Elements, a.name = b.name,
         IsEqual(a, b), IsEqual(b, a)
  PROVE  Skeleton[a] = Skeleton[b]
<1> DEFINE Eq(x, y) == /\ x.name = y.name /\ x.attrs = y.attrs
                       /\ CheckChildren[<<x, y>>] /\ CheckChildren[<<y, x>>]
           T == {k \in Nat : \A x \in Upto(Rank, k), y \in Elements :
                   Eq(x, y) => Skeleton[x] = Skeleton[y]}
<1>1. 0 \in T
  BY AllUpto
<1>2. ASSUME NEW k \in Nat, k \in T PROVE k + 1 \in T
  <2>1. ASSUME NEW x \in Upto(Rank, k + 1), NEW y \in Elements, Eq(x, y)
        PROVE  Skeleton[x] = Skeleton[y]
    <3>1. x \in Elements
      BY DEF Upto
    <3>2. Alike(CheckChildren, x, y) /\ Alike(CheckChildren, y, x)
      BY <2>1, <3>1, CheckIs
    <3>3. ASSUME NEW c \in DOMAIN x.children, c \in DOMAIN y.children
          PROVE  /\ Len(x.children[c]) = Len(y.children[c])
                 /\ \A i \in DOMAIN x.children[c] :
                      Skeleton[x.children[c][i]] = Skeleton[y.children[c][i]]
      <4>1. Find[<<y, c>>] = y.children[c] /\ Find[<<x, c>>] = x.children[c]
        BY <3>1, <3>3, FindChild
      <4>2. /\ Len(x.children[c]) = Len(y.children[c])
            /\ \A i \in DOMAIN x.children[c] :
                 /\ CheckAttrs(x.children[c][i], y.children[c][i])
                 /\ CheckChildren[<<x.children[c][i], y.children[c][i]>>]
            /\ \A i \in DOMAIN y.children[c] : CheckChildren[<<y.children[c][i], x.children[c][i]>>]
        BY <3>2, <3>3, <4>1 DEF Alike
      <4>3. DOMAIN x.children[c] = DOMAIN y.children[c]
        <5>1. /\ DOMAIN x.children[c] = 1..Len(x.children[c])
              /\ DOMAIN y.children[c] = 1..Len(y.children[c])
          BY <3>1, <3>3, Kids
        <5> QED BY <4>2, <5>1
      <4>4. ASSUME NEW i \in DOMAIN x.children[c]
            PROVE  Skeleton[x.children[c][i]] = Skeleton[y.children[c][i]]
        <5> DEFINE u == x.children[c][i]
                   v == y.children[c][i]
        <5>1. u \in Upto(Rank, k) /\ u \in Elements /\ u.name = c
          BY <3>1, Kids
        <5>2. v \in Elements /\ v.name = c
          BY <3>3, <4>3, Kids
        <5>3. CheckAttrs(u, v) /\ CheckChildren[<<u, v>>] /\ CheckChildren[<<v, u>>]
          BY <4>2, <4>3
        <5> HIDE DEF u, v
        <5>4. u.attrs = v.attrs
          BY <5>1, <5>2, <5>3, AttrsAlike
        <5>5. Skeleton[u] = Skeleton[v]
          BY <1>2, <5>1, <5>2, <5>3, <5>4
        <5> QED BY <5>5 DEF u, v
      <4> QED BY <4>2, <4>4
    <3>4. DOMAIN x.children = DOMAIN y.children
      <4> DEFINE D == {c \in DOMAIN x.children \cup DOMAIN y.children :
                         ~(c \in DOMAIN x.children /\ c \in DOMAIN y.children)}
      <4>1. \A n \in Elements : \A d \in DOMAIN n.children :
              d \in STRING /\ 1 \in DOMAIN n.children[d]
        BY Kids
      <4>2. ASSUME D # {} PROVE FALSE
        <5>1. PICK c \in D : \A d \in D : Rank[d] <= Rank[c]
          <6>1. D \subseteq STRING
            BY <3>1, <4>1
          <6> HIDE DEF D
          <6> QED BY <4>2, <6>1, Topmost
        <5>2. \A d \in DOMAIN x.children : d \in DOMAIN y.children =>
                Skeleton[x.children[d][1]] = Skeleton[y.children[d][1]]
          BY <3>1, <3>3, <4>1
        <5>3. CASE c \in DOMAIN x.children
          <6>1. c \notin DOMAIN y.children /\ \A d \in DOMAIN y.children : d \notin DOMAIN x.children => Rank[d] <= Rank[c]
            BY <5>1, <5>3
          <6> QED BY <2>1, <3>1, <5>2, <5>3, <6>1, NoneApart
        <5>4. CASE c \notin DOMAIN x.children
          <6>1. c \in DOMAIN y.children /\ \A d \in DOMAIN x.children : d \notin DOMAIN y.children => Rank[d] <= Rank[c]
            BY <5>1, <5>4
          <6>2. \A d \in DOMAIN y.children : d \in DOMAIN x.children =>
                  Skeleton[y.children[d][1]] = Skeleton[x.children[d][1]]
            BY <5>2
          <6> QED BY <2>1, <3>1, <5>4, <6>1, <6>2, NoneApart
        <5> QED BY <5>3, <5>4
      <4> QED BY <4>2
    <3>5. x.attrs = y.attrs
      BY <2>1
    <3> QED BY <3>1, <3>3, <3>4, <3>5, SkeletonsEqual
  <2> HIDE DEF Eq
  <2> QED BY <2>1
<1>3. Depth + 1 \in T
  <2> HIDE DEF T
  <2> QED BY <1>1, <1>2, AllNat
<1>4. Eq(a, b)
  <2>1. a.attrs = b.attrs
    BY AttrsAlike DEF IsEqual
  <2> QED BY <2>1 DEF IsEqual
<1> HIDE DEF Eq
<1> QED BY <1>3, <1>4, AllUpto

\* However a message came about, yts_metadata_is_equal finds it equal both ways
\* to just those that say the same, whatever the elements, as long as their names
\* nest and none has a name at two levels.  Without the latter it is wrong: to
\* have c and d with c in it is to be equal to d with c in it.
THEOREM EqualStaysBothWays ==
  ASSUME NEW CONSTANT Depth \in Nat, NEW CONSTANT Rank \in [STRING -> 0..Depth], Nested(Rank), OneLevel
  PROVE  UseSpec => []EqualBothWays
<1>1. UseInv => EqualBothWays
  <2> SUFFICES ASSUME UseInv, mdata # NoText, NEW b \in Elements, b.name = "message"
               PROVE  (IsEqual(mdata.node, b) /\ IsEqual(b, mdata.node)) <=> Skeleton[mdata.node] = Skeleton[b]
    BY DEF EqualBothWays
  <2> DEFINE a == mdata.node
  <2>1. a \in Elements /\ a.name = "message"
    <3>1. CASE mdata \in MadeMessages
      <4>1. a \in {m.node : m \in MadeMessages} /\ a.name = "message"
        BY <3>1 DEF MadeMessages
      <4> QED BY <4>1, MetadataAssumption
    <3>2. CASE mdata \in ReadMessages
      BY <3>2 DEF ReadMessages, UseInv
    <3> QED BY <3>1, <3>2 DEF UseInv
  <2> HIDE DEF a
  <2>2. IsEqual(a, b) /\ IsEqual(b, a) => Skeleton[a] = Skeleton[b]
    BY <2>1, EqualSame
  <2>3. Skeleton[a] = Skeleton[b] => IsEqual(a, b) /\ IsEqual(b, a)
    BY <2>1, SameEqual
  <2> QED BY <2>2, <2>3 DEF a
<1> QED BY <1>1, UseInvariant, PTL
=============================================================================
