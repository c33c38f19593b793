------------------------- MODULE YtsMessagesProofs -------------------------
(***************************************************************************)
(* Messages for any number of them, of clients, devices and capabilities.  *)
(*                                                                         *)
(* Of sending, the invariant says for each state of a message's channel    *)
(* what is armed, how many references there are and what was reported      *)
(* (Bookkeeping), and of the atoms that as long as no more messages were   *)
(* sent than there are atoms they were handed out in order (InOrder).      *)
(***************************************************************************)
EXTENDS YtsMessages, FiniteSetTheorems, SequenceTheorems, TLAPS

\* Messages that took an atom.
Sent == {m \in Messages : channel[m] # "unsent"}

Books(m, count, signals, done, told) ==
  /\ ref_count[m] = count /\ armed[m] = signals
  /\ status_done[m] = done /\ Len(reports[m]) = told

Bookkeeping(m) ==
  /\ channel[m] \in {"unsent", "invalid"} => Books(m, 0, {}, FALSE, 0)
  /\ channel[m] = "requesting" => Books(m, 1, {}, FALSE, 0)
  /\ channel[m] = "unopened" => Books(m, 0, {}, FALSE, 1)
  /\ channel[m] \in {"opened", "asked", "refused"} => Books(m, 3, Signals, FALSE, 0)
  /\ channel[m] = "answered" =>
       \E s \in {"failed", "replied"} : Books(m, 2, {s, "closed"}, TRUE, 1)
  /\ channel[m] = "closed" =>
       /\ "closed" \notin armed[m] /\ status_done[m] /\ Len(reports[m]) = 1
       /\ ref_count[m] \in 1..2
  /\ channel[m] \notin {"unsent", "invalid"} => error[m] # 0

InOrder ==
  /\ IsFiniteSet(Sent)
  /\ \A i \in DOMAIN log : log[i] \in Sent
  /\ Cardinality(Sent) <= LastAtom =>
       /\ atom = Cardinality(Sent)
       /\ \A i \in DOMAIN log : error[log[i]] <= atom
       /\ \A j, k \in DOMAIN log : j < k => error[log[j]] < error[log[k]]

SendingInv ==
  /\ TypeOK
  /\ \A m \in Messages : Bookkeeping(m)
  /\ InOrder

-----------------------------------------------------------------------------
(* What the steps share *)

\* A message whose parts are left alone keeps its books.
LEMMA BooksKept ==
  ASSUME NEW n \in Messages, Bookkeeping(n),
         /\ channel'[n] = channel[n] /\ ref_count'[n] = ref_count[n] /\ armed'[n] = armed[n]
         /\ status_done'[n] = status_done[n] /\ reports'[n] = reports[n] /\ error'[n] = error[n]
  PROVE  Bookkeeping(n)'
  BY DEF Bookkeeping, Books

\* yts_client_emit_error, for a message with an atom.
LEMMA EmitParts ==
  ASSUME TypeOK, NEW m \in Messages, error[m] # 0, NEW code \in Codes, Emit(m, code)
  PROVE  /\ reports' \in [Messages -> Seq(Codes)]
         /\ Len(reports'[m]) = Len(reports[m]) + 1
         /\ \A n \in Messages \ {m} : reports'[n] = reports[n]
<1>1. reports \in [Messages -> Seq(Codes)]
  BY DEF TypeOK
<1>2. reports[m] \in Seq(Codes)
  BY <1>1
<1>3. /\ Append(reports[m], code) \in Seq(Codes)
      /\ Len(Append(reports[m], code)) = Len(reports[m]) + 1
  BY <1>2, AppendProperties
<1>4. reports' = [reports EXCEPT ![m] = Append(reports[m], code)]
  BY DEF Emit
<1>5. QED  BY <1>1, <1>3, <1>4

\* An atom is never 0, and is the next one until they run out.
LEMMA AtomParts ==
  ASSUME TypeOK
  PROVE  /\ NewAtom \in 1..LastAtom /\ NewAtom \in 0..LastAtom /\ NewAtom # 0
         /\ atom + 1 <= LastAtom => NewAtom = atom + 1
<1>1. atom \in 0..LastAtom /\ LastAtom \in Nat \ {0}
  BY SendingAssumption DEF SendingAssumption, TypeOK
<1>2. QED  BY <1>1 DEF NewAtom

\* A step of a message that was sent leaves the atoms alone.
LEMMA OrderKept ==
  ASSUME SendingInv, NEW m \in Messages, channel[m] # "unsent", channel'[m] # "unsent",
         \A n \in Messages \ {m} : channel'[n] = channel[n], UNCHANGED counters
  PROVE  InOrder'
<1>1. Sent' = Sent /\ UNCHANGED <<atom, log, error>>
  BY DEF Sent, counters
<1>2. QED  BY <1>1 DEF SendingInv, InOrder

\* One message more has taken an atom.
LEMMA OneMoreSent ==
  ASSUME SendingInv, NEW m \in Messages, channel[m] = "unsent", channel'[m] # "unsent",
         \A n \in Messages \ {m} : channel'[n] = channel[n]
  PROVE  /\ Sent' = Sent \cup {m} /\ m \notin Sent
         /\ IsFiniteSet(Sent') /\ Cardinality(Sent) \in Nat
         /\ Cardinality(Sent') = Cardinality(Sent) + 1
<1>1. Sent' = Sent \cup {m} /\ m \notin Sent /\ IsFiniteSet(Sent)
  BY DEF Sent, SendingInv, InOrder
<1>2. QED  BY <1>1, FS_AddElement, FS_CardinalityType

-----------------------------------------------------------------------------
(* The steps of a message *)

LEMMA SendInvalidInv ==
  ASSUME SendingInv, NEW m \in Messages, SendInvalid(m)
  PROVE  SendingInv'
<1>1. /\ channel[m] = "unsent" /\ channel' = [channel EXCEPT ![m] = "invalid"]
      /\ atom' = NewAtom
      /\ UNCHANGED <<log, error, ref_count, armed, status_done, reports>>
  BY DEF SendInvalid
<1>2. channel \in [Messages -> Stages]
  BY DEF SendingInv, TypeOK
<1>3. /\ channel' \in [Messages -> Stages] /\ channel'[m] = "invalid"
      /\ \A n \in Messages \ {m} : channel'[n] = channel[n]
  BY <1>1, <1>2 DEF Stages
<1>4. TypeOK'
  BY <1>1, <1>3, AtomParts DEF SendingInv, TypeOK
<1>5. Bookkeeping(m)'
  BY <1>1, <1>3 DEF SendingInv, Bookkeeping, Books
<1>6. \A n \in Messages : Bookkeeping(n)'
  BY <1>1, <1>3, <1>5, BooksKept DEF SendingInv
<1>7. InOrder'
  <2>1. /\ Sent' = Sent \cup {m} /\ IsFiniteSet(Sent') /\ Cardinality(Sent) \in Nat
        /\ Cardinality(Sent') = Cardinality(Sent) + 1
    BY <1>1, <1>3, OneMoreSent
  <2>2. \A i \in DOMAIN log : log[i] \in Sent
    BY DEF SendingInv, InOrder
  <2>3. ASSUME Cardinality(Sent') <= LastAtom
        PROVE  /\ atom' = Cardinality(Sent')
               /\ \A i \in DOMAIN log : error[log[i]] <= atom'
               /\ \A j, k \in DOMAIN log : j < k => error[log[j]] < error[log[k]]
    <3>1. LastAtom \in Nat
      BY SendingAssumption DEF SendingAssumption
    <3>2. Cardinality(Sent) <= LastAtom /\ Cardinality(Sent) + 1 <= LastAtom
      BY <2>1, <2>3, <3>1
    <3>3. /\ atom = Cardinality(Sent)
          /\ \A i \in DOMAIN log : error[log[i]] <= atom
          /\ \A j, k \in DOMAIN log : j < k => error[log[j]] < error[log[k]]
      BY <3>2 DEF SendingInv, InOrder
    <3>4. atom' = Cardinality(Sent) + 1
      BY <1>1, <3>2, <3>3, AtomParts DEF SendingInv
    <3>5. \A i \in DOMAIN log : error[log[i]] \in 0..LastAtom
      BY <2>2 DEF SendingInv, TypeOK, Sent
    <3>6. \A i \in DOMAIN log : error[log[i]] <= atom'
      BY <2>1, <3>3, <3>4, <3>5
    <3>7. QED  BY <2>1, <3>3, <3>4, <3>6
  <2>4. QED  BY <1>1, <2>1, <2>2, <2>3 DEF InOrder
<1>8. QED  BY <1>4, <1>6, <1>7 DEF SendingInv

LEMMA SendMessageInv ==
  ASSUME SendingInv, NEW m \in Messages, SendMessage(m)
  PROVE  SendingInv'
<1>1. /\ channel[m] = "unsent" /\ channel' = [channel EXCEPT ![m] = "requesting"]
      /\ atom' = NewAtom /\ error' = [error EXCEPT ![m] = NewAtom]
      /\ log' = Append(log, m) /\ ref_count' = [ref_count EXCEPT ![m] = 1]
      /\ UNCHANGED <<armed, status_done, reports>>
  BY DEF SendMessage
<1>2. /\ channel \in [Messages -> Stages] /\ ref_count \in [Messages -> 0..4]
      /\ error \in [Messages -> 0..LastAtom] /\ log \in Seq(Messages)
  BY DEF SendingInv, TypeOK
<1>3. NewAtom \in 0..LastAtom /\ NewAtom # 0
  BY AtomParts DEF SendingInv
<1>4. /\ channel' \in [Messages -> Stages] /\ channel'[m] = "requesting"
      /\ \A n \in Messages \ {m} : channel'[n] = channel[n]
  BY <1>1, <1>2 DEF Stages
<1>5. /\ ref_count' \in [Messages -> 0..4] /\ ref_count'[m] = 1
      /\ \A n \in Messages \ {m} : ref_count'[n] = ref_count[n]
  BY <1>1, <1>2
<1>6. /\ error' \in [Messages -> 0..LastAtom] /\ error'[m] = NewAtom
      /\ \A n \in Messages \ {m} : error'[n] = error[n]
  BY <1>1, <1>2, <1>3
<1>7. /\ log' \in Seq(Messages) /\ Len(log) \in Nat /\ Len(log') = Len(log) + 1
      /\ DOMAIN log = 1 .. Len(log) /\ DOMAIN log' = 1 .. Len(log')
      /\ \A i \in 1 .. Len(log) : log'[i] = log[i]
      /\ log'[Len(log) + 1] = m
  BY <1>1, <1>2, AppendProperties, LenProperties
<1>8. TypeOK'
  BY <1>1, <1>3, <1>4, <1>5, <1>6, <1>7 DEF SendingInv, TypeOK
<1>9. Bookkeeping(m)'
  BY <1>1, <1>3, <1>4, <1>5, <1>6 DEF SendingInv, Bookkeeping, Books
<1>10. \A n \in Messages : Bookkeeping(n)'
  BY <1>1, <1>4, <1>5, <1>6, <1>9, BooksKept DEF SendingInv
<1>11. InOrder'
  <2>1. /\ Sent' = Sent \cup {m} /\ m \notin Sent /\ IsFiniteSet(Sent')
        /\ Cardinality(Sent) \in Nat /\ Cardinality(Sent') = Cardinality(Sent) + 1
    BY <1>1, <1>4, OneMoreSent
  <2>2. /\ \A i \in DOMAIN log : log[i] \in Sent /\ log[i] # m
        /\ \A i \in DOMAIN log' : log'[i] \in Sent'
    <3>1. \A i \in DOMAIN log : log[i] \in Sent /\ log[i] # m
      BY <2>1 DEF SendingInv, InOrder
    <3>2. \A i \in DOMAIN log' : i \in DOMAIN log \/ i = Len(log) + 1
      BY <1>7
    <3>3. QED  BY <1>7, <2>1, <3>1, <3>2
  <2>3. ASSUME Cardinality(Sent') <= LastAtom
        PROVE  /\ atom' = Cardinality(Sent')
               /\ \A i \in DOMAIN log' : error'[log'[i]] <= atom'
               /\ \A j, k \in DOMAIN log' : j < k => error'[log'[j]] < error'[log'[k]]
    <3>1. LastAtom \in Nat
      BY SendingAssumption DEF SendingAssumption
    <3>2. Cardinality(Sent) <= LastAtom /\ Cardinality(Sent) + 1 <= LastAtom
      BY <2>1, <2>3, <3>1
    <3>3. /\ atom = Cardinality(Sent)
          /\ \A i \in DOMAIN log : error[log[i]] <= atom
          /\ \A j, k \in DOMAIN log : j < k => error[log[j]] < error[log[k]]
      BY <3>2 DEF SendingInv, InOrder
    <3>4. atom' = atom + 1 /\ NewAtom = atom + 1 /\ atom \in Nat
      BY <1>1, <2>1, <3>2, <3>3, AtomParts DEF SendingInv
    <3>5. \A i \in DOMAIN log :
            /\ log'[i] = log[i] /\ error'[log[i]] = error[log[i]]
            /\ error[log[i]] \in 0..LastAtom
      BY <1>2, <1>6, <1>7, <2>2 DEF Sent
    <3>6. \A i \in DOMAIN log : error'[log'[i]] <= atom /\ error'[log'[i]] \in Nat
      BY <3>1, <3>3, <3>5
    <3>7. error'[log'[Len(log) + 1]] = atom + 1
      BY <1>6, <1>7, <3>4
    <3>8. \A i \in DOMAIN log' : i \in DOMAIN log \/ i = Len(log) + 1
      BY <1>7
    <3>9. \A i \in DOMAIN log' : error'[log'[i]] <= atom'
      BY <3>4, <3>6, <3>7, <3>8
    <3>10. ASSUME NEW j \in DOMAIN log', NEW k \in DOMAIN log', j < k
           PROVE  error'[log'[j]] < error'[log'[k]]
      <4>1. j \in DOMAIN log
        BY <1>7, <3>10
      <4>2. CASE k \in DOMAIN log
        BY <3>3, <3>5, <3>10, <4>1, <4>2
      <4>3. CASE k = Len(log) + 1
        BY <3>4, <3>6, <3>7, <4>1, <4>3
      <4>4. QED  BY <3>8, <4>2, <4>3
    <3>11. QED  BY <2>1, <3>3, <3>4, <3>9, <3>10
  <2>4. QED  BY <2>1, <2>2, <2>3 DEF InOrder
<1>12. QED  BY <1>8, <1>10, <1>11 DEF SendingInv

\* A step of a message that was sent keeps the invariant when it keeps the
\* types and that message's books, and touches no other's.
LEMMA StepOfOne ==
  ASSUME SendingInv, NEW m \in Messages, channel[m] # "unsent", channel'[m] # "unsent",
         TypeOK', Bookkeeping(m)', UNCHANGED counters,
         \A n \in Messages \ {m} :
           /\ channel'[n] = channel[n] /\ ref_count'[n] = ref_count[n] /\ armed'[n] = armed[n]
           /\ status_done'[n] = status_done[n] /\ reports'[n] = reports[n]
  PROVE  SendingInv'
<1>1. error' = error
  BY DEF counters
<1>2. \A n \in Messages : Bookkeeping(n)'
  BY <1>1, BooksKept DEF SendingInv
<1>3. InOrder'
  BY OrderKept
<1>4. QED  BY <1>2, <1>3 DEF SendingInv

LEMMA ChannelFailedInv ==
  ASSUME SendingInv, NEW m \in Messages, ChannelFailed(m)
  PROVE  SendingInv'
<1>1. /\ channel[m] = "requesting" /\ channel' = [channel EXCEPT ![m] = "unopened"]
      /\ ref_count' = [ref_count EXCEPT ![m] = ref_count[m] - 1]
      /\ Emit(m, "no_msg_channel") /\ UNCHANGED <<counters, armed, status_done>>
  BY DEF ChannelFailed, Unref
<1>2. channel \in [Messages -> Stages] /\ ref_count \in [Messages -> 0..4]
  BY DEF SendingInv, TypeOK
<1>3. /\ ref_count[m] = 1 /\ armed[m] = {} /\ ~status_done[m]
      /\ Len(reports[m]) = 0 /\ error[m] # 0
  BY <1>1 DEF SendingInv, Bookkeeping, Books
<1>4. /\ channel' \in [Messages -> Stages] /\ channel'[m] = "unopened"
      /\ \A n \in Messages \ {m} : channel'[n] = channel[n]
  BY <1>1, <1>2 DEF Stages
<1>5. /\ ref_count' \in [Messages -> 0..4] /\ ref_count'[m] = 0
      /\ \A n \in Messages \ {m} : ref_count'[n] = ref_count[n]
  BY <1>1, <1>2, <1>3
<1>6. /\ reports' \in [Messages -> Seq(Codes)] /\ Len(reports'[m]) = 1
      /\ \A n \in Messages \ {m} : reports'[n] = reports[n]
  <2>1. /\ reports' \in [Messages -> Seq(Codes)] /\ Len(reports'[m]) = Len(reports[m]) + 1
        /\ \A n \in Messages \ {m} : reports'[n] = reports[n]
    <3>1. "no_msg_channel" \in Codes
      BY DEF Codes
    <3>2. QED  BY <1>1, <1>3, <3>1, EmitParts DEF SendingInv
  <2>2. QED  BY <1>3, <2>1
<1>7. TypeOK'
  BY <1>1, <1>4, <1>5, <1>6 DEF SendingInv, TypeOK, counters
<1>8. Bookkeeping(m)'
  BY <1>1, <1>3, <1>4, <1>5, <1>6 DEF SendingInv, Bookkeeping, Books, counters
<1>9. QED  BY <1>1, <1>4, <1>5, <1>6, <1>7, <1>8, StepOfOne

LEMMA ChannelOpenedInv ==
  ASSUME SendingInv, NEW m \in Messages, ChannelOpened(m)
  PROVE  SendingInv'
<1>1. /\ channel[m] = "requesting" /\ channel' = [channel EXCEPT ![m] = "opened"]
      /\ armed' = [armed EXCEPT ![m] = Signals]
      /\ ref_count' = [ref_count EXCEPT ![m] = ref_count[m] + 3 - 1]
      /\ UNCHANGED <<counters, status_done, reports>>
  BY DEF ChannelOpened
<1>2. /\ channel \in [Messages -> Stages] /\ ref_count \in [Messages -> 0..4]
      /\ armed \in [Messages -> SUBSET Signals]
  BY DEF SendingInv, TypeOK
<1>3. ref_count[m] = 1 /\ ~status_done[m] /\ Len(reports[m]) = 0 /\ error[m] # 0
  BY <1>1 DEF SendingInv, Bookkeeping, Books
<1>4. /\ channel' \in [Messages -> Stages] /\ channel'[m] = "opened"
      /\ \A n \in Messages \ {m} : channel'[n] = channel[n]
  BY <1>1, <1>2 DEF Stages
<1>5. /\ ref_count' \in [Messages -> 0..4] /\ ref_count'[m] = 3
      /\ \A n \in Messages \ {m} : ref_count'[n] = ref_count[n]
  BY <1>1, <1>2, <1>3
<1>6. /\ armed' \in [Messages -> SUBSET Signals] /\ armed'[m] = Signals
      /\ \A n \in Messages \ {m} : armed'[n] = armed[n]
  BY <1>1, <1>2
<1>7. TypeOK'
  BY <1>1, <1>4, <1>5, <1>6 DEF SendingInv, TypeOK, counters
<1>8. Bookkeeping(m)'
  BY <1>1, <1>3, <1>4, <1>5, <1>6 DEF SendingInv, Bookkeeping, Books, counters
<1>9. QED  BY <1>1, <1>4, <1>5, <1>6, <1>7, <1>8, StepOfOne

LEMMA RequestAnsweredInv ==
  ASSUME SendingInv, NEW m \in Messages, RequestAnswered(m)
  PROVE  SendingInv'
<1>1. PICK answer \in {"asked", "refused"} :
        /\ channel[m] = "opened" /\ channel' = [channel EXCEPT ![m] = answer]
        /\ UNCHANGED <<counters, ref_count, armed, status_done, reports>>
  BY DEF RequestAnswered
<1>2. channel \in [Messages -> Stages]
  BY DEF SendingInv, TypeOK
<1>3. /\ channel' \in [Messages -> Stages] /\ channel'[m] \in {"asked", "refused"}
      /\ \A n \in Messages \ {m} : channel'[n] = channel[n]
  BY <1>1, <1>2 DEF Stages
<1>4. TypeOK'
  BY <1>1, <1>3 DEF SendingInv, TypeOK, counters
<1>5. Bookkeeping(m)'
  BY <1>1, <1>3 DEF SendingInv, Bookkeeping, Books, counters
<1>6. QED  BY <1>1, <1>3, <1>4, <1>5, StepOfOne

\* What the three handlers of a channel's signals have in common: an open channel
\* goes on to stage, signal s has fired, and a message that was not reported is.
LEMMA SignalParts ==
  ASSUME SendingInv, NEW m \in Messages, NEW s \in Signals, NEW stage \in Stages,
         channel[m] \in {"opened", "asked", "refused", "answered"},
         Fires(m, s), Unref(m),
         channel' = [channel EXCEPT ![m] = stage],
         status_done' = [status_done EXCEPT ![m] = TRUE],
         NEW code \in Codes,
         IF status_done[m] THEN UNCHANGED reports ELSE Emit(m, code),
         UNCHANGED counters
  PROVE  /\ TypeOK'
         /\ channel'[m] = stage /\ armed'[m] = armed[m] \ {s}
         /\ ref_count'[m] = ref_count[m] - 1 /\ ref_count'[m] \in 0..4
         /\ status_done'[m] /\ Len(reports'[m]) = 1 /\ error'[m] # 0
         /\ \A n \in Messages \ {m} :
              /\ channel'[n] = channel[n] /\ ref_count'[n] = ref_count[n]
              /\ armed'[n] = armed[n] /\ status_done'[n] = status_done[n]
              /\ reports'[n] = reports[n]
<1>1. /\ channel \in [Messages -> Stages] /\ ref_count \in [Messages -> 0..4]
      /\ armed \in [Messages -> SUBSET Signals] /\ status_done \in [Messages -> BOOLEAN]
      /\ reports \in [Messages -> Seq(Codes)]
  BY DEF SendingInv, TypeOK
<1>2. /\ error[m] # 0 /\ ref_count[m] \in {2, 3}
      /\ Len(reports[m]) = IF status_done[m] THEN 1 ELSE 0
  BY DEF SendingInv, Bookkeeping, Books
<1>3. /\ channel' \in [Messages -> Stages] /\ channel'[m] = stage
      /\ \A n \in Messages \ {m} : channel'[n] = channel[n]
  BY <1>1
<1>4. /\ ref_count' \in [Messages -> 0..4] /\ ref_count'[m] = ref_count[m] - 1
      /\ ref_count'[m] \in 0..4
      /\ \A n \in Messages \ {m} : ref_count'[n] = ref_count[n]
  BY <1>1, <1>2 DEF Unref
<1>5. /\ armed' \in [Messages -> SUBSET Signals] /\ armed'[m] = armed[m] \ {s}
      /\ \A n \in Messages \ {m} : armed'[n] = armed[n]
  BY <1>1 DEF Fires
<1>6. /\ status_done' \in [Messages -> BOOLEAN] /\ status_done'[m]
      /\ \A n \in Messages \ {m} : status_done'[n] = status_done[n]
  BY <1>1
<1>7. /\ reports' \in [Messages -> Seq(Codes)] /\ Len(reports'[m]) = 1
      /\ \A n \in Messages \ {m} : reports'[n] = reports[n]
  <2>1. CASE status_done[m]
    BY <1>1, <1>2, <2>1
  <2>2. CASE ~status_done[m]
    <3>1. /\ reports' \in [Messages -> Seq(Codes)] /\ Len(reports'[m]) = Len(reports[m]) + 1
          /\ \A n \in Messages \ {m} : reports'[n] = reports[n]
      BY <1>2, <2>2, EmitParts DEF SendingInv
    <3>2. Len(reports[m]) = 0
      BY <1>2, <2>2
    <3>3. QED  BY <3>1, <3>2
  <2>3. QED  BY <2>1, <2>2
<1>8. TypeOK'
  BY <1>3, <1>4, <1>5, <1>6, <1>7 DEF SendingInv, TypeOK, counters
<1>9. error'[m] # 0
  BY <1>2 DEF counters
<1>10. QED  BY <1>3, <1>4, <1>5, <1>6, <1>7, <1>8, <1>9

\* A reply or a failure: two references are left, for the other and the close.
LEMMA AnswerInv ==
  ASSUME SendingInv, NEW m \in Messages, Answer(m)
  PROVE  SendingInv'
<1>1. PICK s \in {"replied", "failed"}, code \in Codes :
        /\ channel[m] = "asked" /\ Fires(m, s) /\ Unref(m)
        /\ channel' = [channel EXCEPT ![m] = "answered"]
        /\ status_done' = [status_done EXCEPT ![m] = TRUE]
        /\ IF status_done[m] THEN UNCHANGED reports ELSE Emit(m, code)
        /\ UNCHANGED counters
  <2>1. ~status_done[m] \/ channel[m] # "asked"
    BY DEF SendingInv, Bookkeeping, Books
  <2>2. QED  BY <2>1 DEF Answer, Replied, Failed, Codes
<1>2. armed[m] = Signals /\ ref_count[m] = 3
  BY <1>1 DEF SendingInv, Bookkeeping, Books
<1>3. /\ TypeOK'
      /\ channel'[m] = "answered" /\ armed'[m] = armed[m] \ {s}
      /\ ref_count'[m] = ref_count[m] - 1
      /\ status_done'[m] /\ Len(reports'[m]) = 1 /\ error'[m] # 0
      /\ \A n \in Messages \ {m} :
           /\ channel'[n] = channel[n] /\ ref_count'[n] = ref_count[n]
           /\ armed'[n] = armed[n] /\ status_done'[n] = status_done[n]
           /\ reports'[n] = reports[n]
  <2>1. s \in Signals /\ "answered" \in Stages
    BY DEF Signals, Stages
  <2>2. QED  BY <1>1, <2>1, SignalParts
<1>4. status_done' \in [Messages -> BOOLEAN]
  BY <1>3 DEF TypeOK
<1>5. Bookkeeping(m)'
  <2>1. PICK other \in {"failed", "replied"} : armed'[m] = {other, "closed"}
    BY <1>1, <1>2, <1>3 DEF Signals
  <2>2. ref_count'[m] = 2
    BY <1>2, <1>3
  <2>3. status_done'[m] = TRUE
    BY <1>3, <1>4
  <2>4. QED  BY <1>3, <2>1, <2>2, <2>3 DEF Bookkeeping, Books
<1>6. QED  BY <1>1, <1>3, <1>5, StepOfOne

\* The close: what was not reported is, and nobody uses the references left.
LEMMA ClosedInv ==
  ASSUME SendingInv, NEW m \in Messages, Closed(m)
  PROVE  SendingInv'
<1>1. /\ channel[m] \in {"opened", "asked", "refused", "answered"}
      /\ Fires(m, "closed") /\ Unref(m)
      /\ channel' = [channel EXCEPT ![m] = "closed"]
      /\ status_done' = [status_done EXCEPT ![m] = TRUE]
      /\ IF status_done[m] THEN UNCHANGED reports ELSE Emit(m, "success")
      /\ UNCHANGED counters
  BY DEF Closed
<1>2. ref_count[m] \in {2, 3}
  BY <1>1 DEF SendingInv, Bookkeeping, Books
<1>3. /\ TypeOK'
      /\ channel'[m] = "closed" /\ armed'[m] = armed[m] \ {"closed"}
      /\ ref_count'[m] = ref_count[m] - 1
      /\ status_done'[m] /\ Len(reports'[m]) = 1 /\ error'[m] # 0
      /\ \A n \in Messages \ {m} :
           /\ channel'[n] = channel[n] /\ ref_count'[n] = ref_count[n]
           /\ armed'[n] = armed[n] /\ status_done'[n] = status_done[n]
           /\ reports'[n] = reports[n]
  <2>1. "closed" \in Signals /\ "closed" \in Stages /\ "success" \in Codes
    BY DEF Signals, Stages, Codes
  <2>2. QED  BY <1>1, <2>1, SignalParts
<1>4. ref_count'[m] \in 1..2
  BY <1>2, <1>3
<1>5. Bookkeeping(m)'
  BY <1>3, <1>4 DEF Bookkeeping
<1>6. QED  BY <1>1, <1>3, <1>5, StepOfOne

LEMMA SendingInitInv == Init => SendingInv
<1>1. SUFFICES ASSUME Init PROVE SendingInv
  OBVIOUS
<1>2. LastAtom \in Nat
  BY SendingAssumption DEF SendingAssumption
<1>3. log = <<>> /\ log \in Seq(Messages) /\ DOMAIN log = {}
  <2>1. log = <<>> /\ log \in Seq(Messages) /\ Len(log) = 0
    BY <1>1, EmptySeq DEF Init
  <2>2. QED  BY <2>1, LenProperties
<1>4. \A m \in Messages : reports[m] = <<>> /\ Len(reports[m]) = 0
  BY <1>1, EmptySeq DEF Init
<1>5. TypeOK
  <2>1. reports \in [Messages -> Seq(Codes)]
    <3>1. <<>> \in Seq(Codes)
      BY EmptySeq
    <3>2. QED  BY <1>1, <3>1 DEF Init
  <2>2. atom \in 0..LastAtom /\ error \in [Messages -> 0..LastAtom]
    BY <1>1, <1>2 DEF Init
  <2>3. ref_count \in [Messages -> 0..4]
    BY <1>1 DEF Init
  <2>4. QED  BY <1>1, <1>3, <2>1, <2>2, <2>3 DEF Init, TypeOK, Stages
<1>6. \A m \in Messages : Bookkeeping(m)
  BY <1>1, <1>4 DEF Init, Bookkeeping, Books
<1>7. InOrder
  <2>1. Sent = {} /\ IsFiniteSet(Sent) /\ Cardinality(Sent) = 0
    BY <1>1, FS_EmptySet DEF Init, Sent
  <2>2. QED  BY <1>1, <1>3, <2>1 DEF Init, InOrder
<1>8. QED  BY <1>5, <1>6, <1>7 DEF SendingInv

LEMMA SendingStepInv == SendingInv /\ [Next]_vars => SendingInv'
<1>1. SUFFICES ASSUME SendingInv, [Next]_vars PROVE SendingInv'
  OBVIOUS
<1>2. CASE UNCHANGED vars
  BY <1>1, <1>2 DEF vars, counters, SendingInv, TypeOK, Bookkeeping, Books, InOrder, Sent
<1>3. CASE Next
  <2>1. PICK m \in Messages : Step(m)
    BY <1>3 DEF Next
  <2>2. CASE SendInvalid(m)
    BY <1>1, <2>2, SendInvalidInv
  <2>3. CASE SendMessage(m)
    BY <1>1, <2>3, SendMessageInv
  <2>4. CASE ChannelFailed(m)
    BY <1>1, <2>4, ChannelFailedInv
  <2>5. CASE ChannelOpened(m)
    BY <1>1, <2>5, ChannelOpenedInv
  <2>6. CASE RequestAnswered(m)
    BY <1>1, <2>6, RequestAnsweredInv
  <2>7. CASE Answer(m)
    BY <1>1, <2>7, AnswerInv
  <2>8. CASE Closed(m)
    BY <1>1, <2>8, ClosedInv
  <2>9. QED  BY <2>1, <2>2, <2>3, <2>4, <2>5, <2>6, <2>7, <2>8 DEF Step
<1>4. QED  BY <1>1, <1>2, <1>3

-----------------------------------------------------------------------------
(* What holds of sending *)

\* The types and the books of every message, in every behaviour of the client.
THEOREM SendingInvariant == Spec => []SendingInv
<1>1. QED  BY SendingInitInv, SendingStepInv, PTL DEF Spec

\* The states of the channels, counters and logs have their types; in particular
\* no reference count goes below zero.
THEOREM SendingTypeCorrect == Spec => []TypeOK
<1>1. SendingInv => TypeOK
  BY DEF SendingInv
<1>2. QED  BY <1>1, SendingInvariant, PTL

LEMMA ReportedByBooks == SendingInv => ReportedOnce
<1>1. SUFFICES ASSUME SendingInv, NEW m \in Messages
               PROVE  Len(reports[m]) = IF channel[m] \in Over THEN 1 ELSE 0
  BY DEF ReportedOnce
<1>2. channel[m] \in Stages
  BY <1>1 DEF SendingInv, TypeOK
<1>3. QED  BY <1>1, <1>2 DEF SendingInv, Bookkeeping, Books, Stages, Over

\* yts-client.c tells the application of a message exactly once, however the
\* reply, the failure and the close of its channel follow one another.
THEOREM OneReport == Spec => []ReportedOnce
<1>1. QED  BY ReportedByBooks, SendingInvariant, PTL

\* How many handlers are left.
LEMMA SignalCounts ==
  /\ Cardinality(Signals) = 3
  /\ \A s \in {"failed", "replied"} : Cardinality({s, "closed"}) = 2
  /\ Cardinality({}) = 0
<1>1. /\ IsFiniteSet({"closed"}) /\ Cardinality({"closed"}) = 1
      /\ Cardinality({}) = 0
  BY FS_Singleton, FS_EmptySet
<1>2. ASSUME NEW s \in {"failed", "replied"}
      PROVE  /\ IsFiniteSet({s, "closed"}) /\ Cardinality({s, "closed"}) = 2
  <2>1. s \notin {"closed"} /\ {s, "closed"} = {"closed"} \cup {s}
    OBVIOUS
  <2>2. /\ IsFiniteSet({"closed"} \cup {s})
        /\ Cardinality({"closed"} \cup {s}) = Cardinality({"closed"}) + 1
    BY <1>1, <2>1, FS_AddElement
  <2>3. QED  BY <1>1, <2>1, <2>2
<1>3. Cardinality(Signals) = 3
  <2>1. /\ "replied" \notin {"failed", "closed"}
        /\ Signals = {"failed", "closed"} \cup {"replied"}
    BY DEF Signals
  <2>2. IsFiniteSet({"failed", "closed"}) /\ Cardinality({"failed", "closed"}) = 2
    BY <1>2
  <2>3. Cardinality(Signals) = Cardinality({"failed", "closed"}) + 1
    BY <2>1, <2>2, FS_AddElement
  <2>4. QED  BY <2>2, <2>3
<1>4. QED  BY <1>1, <1>2, <1>3

LEMMA LiveByBooks == SendingInv => DataLive
<1>1. SUFFICES ASSUME SendingInv, NEW m \in Messages
               PROVE  /\ Users(m) <= ref_count[m]
                      /\ channel[m] = "requesting" => ref_count[m] = 1
  BY DEF DataLive
<1>2. channel[m] \in Stages /\ armed[m] \subseteq Signals
  BY <1>1 DEF SendingInv, TypeOK
<1>3. CASE channel[m] = "closed"
  <2>1. armed[m] \ Signals = {} /\ ref_count[m] \in 1..2
    BY <1>1, <1>2, <1>3 DEF SendingInv, Bookkeeping
  <2>2. armed[m] \ (IF channel[m] = "closed" THEN Signals ELSE {}) = {}
    BY <1>3, <2>1
  <2>3. Users(m) = 0
    BY <2>2, SignalCounts, Zenon DEF Users
  <2>4. QED  BY <1>3, <2>1, <2>3
<1>4. CASE channel[m] # "closed"
  <2>1. Users(m) = Cardinality(armed[m])
    <3>1. armed[m] \ (IF channel[m] = "closed" THEN Signals ELSE {}) = armed[m]
      BY <1>4
    <3>2. QED  BY <3>1, Zenon DEF Users
  <2>2. \/ armed[m] = {} /\ ref_count[m] \in {0, 1}
        \/ armed[m] = Signals /\ ref_count[m] = 3
        \/ \E s \in {"failed", "replied"} : armed[m] = {s, "closed"} /\ ref_count[m] = 2
    BY <1>1, <1>2, <1>4 DEF SendingInv, Bookkeeping, Books, Stages
  <2>3. channel[m] = "requesting" => ref_count[m] = 1
    BY <1>1 DEF SendingInv, Bookkeeping, Books
  <2>4. Users(m) <= ref_count[m]
    BY <2>1, <2>2, SignalCounts
  <2>5. QED  BY <2>3, <2>4
<1>5. QED  BY <1>3, <1>4

\* YtsCLChannelData is there for every handler that has yet to run: no order of
\* the signals makes the references of yts-client.c run out before them.
THEOREM DataStays == Spec => []DataLive
<1>1. QED  BY LiveByBooks, SendingInvariant, PTL

LEMMA ApartByOrder == SendingInv => AtomsApart
<1>1. SUFFICES ASSUME SendingInv, NEW j \in DOMAIN log, NEW k \in DOMAIN log,
                      j < k, error[log[j]] = error[log[k]]
               PROVE  Cardinality(Sent) > LastAtom
  BY Zenon DEF AtomsApart, Sent
<1>2. LastAtom \in Nat /\ Cardinality(Sent) \in Nat
  BY <1>1, FS_CardinalityType, SendingAssumption DEF SendingAssumption, SendingInv, InOrder
<1>3. error[log[j]] \in Nat
  <2>1. log[j] \in Messages /\ error \in [Messages -> 0..LastAtom]
    BY <1>1 DEF SendingInv, TypeOK, InOrder, Sent
  <2>2. QED  BY <1>2, <2>1
<1>4. Cardinality(Sent) <= LastAtom => error[log[j]] < error[log[k]]
  BY <1>1 DEF SendingInv, InOrder
<1>5. QED  BY <1>1, <1>2, <1>3, <1>4

\* Two messages of the log have the same atom only when the counter of
\* yts-error.c has gone round: the application can tell reports apart until then.
THEOREM AtomsTellApart == Spec => []AtomsApart
<1>1. QED  BY ApartByOrder, SendingInvariant, PTL

-----------------------------------------------------------------------------
(* Messages between clients *)

\* A message between clients goes through the channel of YtsSending: every step
\* of the clients is one of its channel, or leaves sending alone.
LEMMA MessagesAreSent == MessagesInit => Init
  BY DEF MessagesInit

LEMMA StepsAreSending == [MessagesNext]_allVars => [Next]_vars
<1>1. SUFFICES ASSUME [MessagesNext]_allVars PROVE [Next]_vars
  OBVIOUS
<1>2. CASE UNCHANGED allVars
  BY <1>2 DEF allVars
<1>3. CASE \E p, q \in Clients : Discovered(p, q) \/ Withdrawn(p, q)
  BY <1>3 DEF Discovered, Withdrawn
<1>4. CASE \E p \in Clients, f \in Capabilities : ServiceDestroyed(p, f)
  BY <1>4 DEF ServiceDestroyed
<1>5. ASSUME NEW m \in Messages,
             Sends(m) \/ Requested(m) \/ Bounced(m) \/ Channel(m) \/ Receives(m)
      PROVE  [Next]_vars
  <2>1. CASE Sends(m)
    <3>1. SendMessage(m)
      BY <2>1 DEF Sends, Say, CreateProxy, Invoke, AdapterEvent, Post
    <3>2. QED  BY <3>1 DEF Next, Step
  <2>2. CASE Requested(m) \/ Bounced(m) \/ Channel(m)
    BY <2>2 DEF Requested, Bounced, Channel, Next, Step, Answer
  <2>3. CASE Receives(m)
    <3>1. CASE \E n \in Messages : ReceivedRegistration(m, n)
      BY <3>1 DEF ReceivedRegistration, Post, Next, Step
    <3>2. CASE ~\E n \in Messages : ReceivedRegistration(m, n)
      BY <2>3, <3>2 DEF Receives, ReceivedUnknown, ReceivedMessage, ReceivedInvocation,
                        ReceivedEvent, ReceivedResponse
    <3>3. QED  BY <3>1, <3>2
  <2>4. QED  BY <1>5, <2>1, <2>2, <2>3
<1>6. QED  BY <1>1, <1>2, <1>3, <1>4, <1>5 DEF MessagesNext

\* The clients' messages are messages of YtsSending, so that what holds of every
\* one that is sent holds of the answers the clients send by themselves.
THEOREM MessagesImplementSending == MessagesSpec => Spec
<1>1. QED  BY MessagesAreSent, StepsAreSending, PTL DEF MessagesSpec, Spec

\* ... in particular its three safety properties.
THEOREM MessagesReported == MessagesSpec => [](ReportedOnce /\ DataLive /\ AtomsApart)
<1>1. QED  BY MessagesImplementSending, OneReport, DataStays, AtomsTellApart, PTL

-----------------------------------------------------------------------------
(* Letters: what is written in a message stays, and its receiver reads it *)

MailTypes ==
  /\ known \in [Clients -> SUBSET Clients]
  /\ adapters \in [Clients -> SUBSET Capabilities]
  /\ registered \in [Clients -> SUBSET (Clients \X Capabilities)]
  /\ pending \in [Clients -> [Clients -> SUBSET (Messages \X Capabilities)]]
  /\ proxies \in [Clients -> [Clients -> SUBSET Capabilities]]
  /\ DOMAIN letter = Messages /\ DOMAIN heard = Messages
  /\ way \in [Messages -> {"none", "under way", "bounced", "arrived"}]

\* A response answers an invocation of its addressee that its sender got.
Answers(m, r) ==
  /\ r \in Messages /\ channel[r] # "unsent"
  /\ letter[r].from = letter[m].to /\ letter[r].to = letter[m].from

Posted(m) ==
  /\ letter[m].from \in Clients /\ letter[m].to \in Clients
  /\ Attr(m, "from-service") = letter[m].from
  /\ Attr(m, "type") \in LowLevel => Said(m) = letter[m].said
  /\ Attr(m, "type") = "invocation" =>
       /\ Attr(m, "invocation") = m
       /\ Attr(m, "capability") = Profile => Value(m, "arguments").of \in Capabilities
  /\ Attr(m, "type") = "response" =>
       /\ Attr(m, "capability") \in Capabilities
       /\ Answers(m, Attr(m, "invocation"))

\* A registration that is pending is an invocation of the service it is kept at.
Asked(p, q, r) ==
  channel[r[1]] # "unsent" /\ letter[r[1]].from = p /\ letter[r[1]].to = q

Raw(m) == [by |-> "raw-message", client |-> To(m)]

\* The request of a message that is under way was accepted.
Carried == {"asked", "answered", "closed"}

Told(m) ==
  /\ way[m] # "none" => channel[m] \in Carried
  /\ way[m] # "arrived" => heard[m] = {}
  /\ heard[m] # {} /\ Attr(m, "type") \in LowLevel =>
       heard[m] \ {Raw(m)} \subseteq {[by |-> Attr(m, "type"), client |-> To(m), said |-> letter[m].said]}
  /\ way[m] = "arrived" =>
       LET takers == {h \in heard[m] : h.by \in {"adapter", "proxy"}}
       IN takers = {} <=> Raw(m) \in heard[m]

Vouched(p, q, f, m) ==
  /\ channel[m] # "unsent" /\ letter[m].from = q /\ letter[m].to = p
  /\ Attr(m, "type") = "response" /\ Attr(m, "capability") = f
  /\ Proxy(m, q) \in heard[m]

MailInv ==
  /\ SendingInv /\ MailTypes
  /\ \A m \in Messages : channel[m] # "unsent" => Posted(m)
  /\ \A m \in Messages : Told(m)
  /\ \A p, q \in Clients : \A r \in pending[p][q] : Asked(p, q, r)
  /\ \A p, q \in Clients : \A f \in proxies[p][q] : \E m \in Messages : Vouched(p, q, f, m)

\* What the receiver makes of payload v.
Flat(v) ==
  IF v.type = "dict" THEN [i \in 1..(2 * Len(v.of)) |-> v.of[(i + 1) \div 2][2 - (i % 2)]]
  ELSE v.of

\* The text of a GVariant read back, for the types that messages carry.
LEMMA ReadBack ==
  ASSUME NEW v, v.type \in {"s", "as", "dict", "b"}
  PROVE  Parsed(Printed(v)).type = v.type /\ Parsed(Printed(v)).of = v.of
  BY DEF Parsed, Printed, Brackets

\* A dictionary's names and values are as many pairs, and flat again in order.
LEMMA PairsFlat ==
  ASSUME NEW d \in Dictionaries
  PROVE  d = [i \in 1..(2 * Len(Pairs(d))) |-> Pairs(d)[(i + 1) \div 2][2 - (i % 2)]]
<1>1. d \in Seq(STRING) /\ Len(d) % 2 = 0
  BY MessagesAssumption DEF MessagesAssumption
<1>2. PICK n \in Nat : n = Len(d) \div 2 /\ Len(d) = 2 * n /\ d \in [1..(2 * n) -> STRING]
  <2>1. Len(d) \in Nat /\ d \in [1..Len(d) -> STRING]
    BY <1>1, LenProperties
  <2>2. PICK k \in Nat : k = Len(d)
    BY <2>1
  <2>3. k % 2 = 0
    BY <1>1, <2>2
  <2>4. k \div 2 \in Nat /\ k = 2 * (k \div 2)
    BY <2>3
  <2>5. QED  BY <2>1, <2>2, <2>4
<1>3. Pairs(d) = [i \in 1..n |-> <<d[2 * i - 1], d[2 * i]>>]
  BY <1>2 DEF Pairs
<1>4. Len(Pairs(d)) = n
  <2>1. \A i \in 1..n : <<d[2 * i - 1], d[2 * i]>> \in STRING \X STRING
    BY <1>2
  <2>2. Pairs(d) \in [1..n -> STRING \X STRING]
    BY <1>3, <2>1
  <2>3. Pairs(d) \in Seq(STRING \X STRING)
    BY <2>2
  <2>4. DOMAIN Pairs(d) = 1..n /\ Len(Pairs(d)) \in Nat /\ DOMAIN Pairs(d) = 1..Len(Pairs(d))
    BY <2>2, <2>3, LenProperties
  <2>5. QED  BY <2>4
<1>5. ASSUME NEW i \in 1..(2 * n)
      PROVE  Pairs(d)[(i + 1) \div 2][2 - (i % 2)] = d[i]
  <2>1. PICK k, r : k = (i + 1) \div 2 /\ r = 2 - (i % 2)
    OBVIOUS
  <2>2. \/ k \in 1..n /\ 2 * k - 1 = i /\ r = 1
        \/ k \in 1..n /\ 2 * k = i /\ r = 2
    BY <1>2, <2>1
  <2>3. Pairs(d)[k] = <<d[2 * k - 1], d[2 * k]>>
    BY <1>3, <2>2
  <2>4. Pairs(d)[k][r] = d[i]
    BY <2>2, <2>3
  <2>5. QED  BY <2>1, <2>4
<1>6. QED  BY <1>2, <1>4, <1>5

-----------------------------------------------------------------------------
(* What the clients' steps share *)

\* What was sent stays sent, and as it was written, and what was carried, carried.
Stays ==
  \A n \in Messages :
    /\ channel[n] # "unsent" => channel'[n] # "unsent" /\ letter'[n] = letter[n]
    /\ channel[n] \in Carried => channel'[n] \in Carried

\* A letter that stays is read as before.
LEMMA ReadAgain ==
  ASSUME NEW n, letter'[n] = letter[n]
  PROVE  /\ \A a : Attr(n, a)' = Attr(n, a) /\ Value(n, a)' = Value(n, a)
         /\ To(n)' = To(n) /\ Raw(n)' = Raw(n) /\ Said(n)' = Said(n)
         /\ \A q : Proxy(n, q)' = Proxy(n, q)
<1>1. \A a : Attr(n, a)' = Attr(n, a) /\ Value(n, a)' = Value(n, a)
  BY DEF Attr, Value
<1>2. To(n)' = To(n) /\ Raw(n)' = Raw(n)
  BY DEF To, Raw
<1>3. Said(n)' = Said(n)
  <2>1. Value(n, "payload")' = Value(n, "payload")
    BY <1>1
  <2>2. QED  BY <2>1, Zenon DEF Said
<1>4. QED  BY <1>1, <1>2, <1>3 DEF Proxy

LEMMA PostedKept ==
  ASSUME MailInv, Stays, NEW n \in Messages, channel[n] # "unsent"
  PROVE  Posted(n)'
<1>1. letter'[n] = letter[n] /\ Posted(n)
  BY DEF MailInv, Stays
<1>2. /\ \A a : Attr(n, a)' = Attr(n, a) /\ Value(n, a)' = Value(n, a)
      /\ Said(n)' = Said(n)
  BY <1>1, ReadAgain
<1>3. ASSUME NEW r, Answers(n, r)
      PROVE  Answers(n, r)'
  BY <1>1, <1>3 DEF Answers, Stays
<1>4. QED  BY <1>1, <1>2, <1>3 DEF Posted

LEMMA ToldKept ==
  ASSUME MailInv, Stays, NEW n \in Messages, way'[n] = way[n], heard'[n] = heard[n]
  PROVE  Told(n)'
<1>1. Told(n)
  BY DEF MailInv
<1>2. CASE channel[n] = "unsent"
  <2>1. way[n] = "none" /\ heard[n] = {} /\ way'[n] = "none" /\ heard'[n] = {}
    BY <1>1, <1>2 DEF Told, Carried
  <2>2. QED  BY <2>1 DEF Told
<1>3. CASE channel[n] # "unsent"
  <2>1. letter'[n] = letter[n] /\ (channel[n] \in Carried => channel'[n] \in Carried)
    BY <1>3 DEF Stays
  <2>2. Attr(n, "type")' = Attr(n, "type") /\ To(n)' = To(n) /\ Raw(n)' = Raw(n)
    BY <2>1, ReadAgain
  <2>3. QED  BY <1>1, <2>1, <2>2 DEF Told
<1>4. QED  BY <1>2, <1>3

LEMMA VouchedKept ==
  ASSUME Stays, NEW p, NEW q, NEW f, NEW n \in Messages, Vouched(p, q, f, n),
         heard[n] # {} => heard'[n] = heard[n]
  PROVE  Vouched(p, q, f, n)'
<1>1. /\ channel'[n] # "unsent" /\ letter'[n] = letter[n] /\ heard'[n] = heard[n]
  BY DEF Vouched, Stays
<1>2. /\ \A a : Attr(n, a)' = Attr(n, a)
      /\ Proxy(n, q)' = Proxy(n, q)
  BY <1>1, ReadAgain
<1>3. QED  BY <1>1, <1>2 DEF Vouched

\* A step keeps the invariant when it is one of sending, keeps the types and what
\* was written and heard, and whatever it adds is right.
LEMMA StepOfMail ==
  ASSUME MailInv, SendingInv', MailTypes', Stays,
         \A n \in Messages : channel[n] = "unsent" /\ channel'[n] # "unsent" => Posted(n)',
         \A n \in Messages : (way'[n] = way[n] /\ heard'[n] = heard[n]) \/ Told(n)',
         \A n \in Messages : heard[n] # {} => heard'[n] = heard[n],
         \A p, q \in Clients : \A r \in pending'[p][q] : r \in pending[p][q] \/ Asked(p, q, r)',
         \A p, q \in Clients : \A f \in proxies'[p][q] :
           f \in proxies[p][q] \/ \E m \in Messages : Vouched(p, q, f, m)'
  PROVE  MailInv'
<1>1. \A n \in Messages : channel'[n] # "unsent" => Posted(n)'
  BY PostedKept
<1>2. \A n \in Messages : Told(n)'
  BY ToldKept
<1>3. ASSUME NEW p \in Clients, NEW q \in Clients, NEW r \in pending'[p][q]
      PROVE  Asked(p, q, r)'
  <2>1. CASE r \in pending[p][q]
    <3>1. Asked(p, q, r)
      BY <2>1 DEF MailInv
    <3>2. pending \in [Clients -> [Clients -> SUBSET (Messages \X Capabilities)]]
      BY DEF MailInv, MailTypes
    <3>3. r \in Messages \X Capabilities
      BY <2>1, <3>2
    <3>4. r[1] \in Messages
      BY <3>3
    <3>5. QED  BY <3>1, <3>4 DEF Asked, Stays
  <2>2. QED  BY <1>3, <2>1
<1>4. ASSUME NEW p \in Clients, NEW q \in Clients, NEW f \in proxies'[p][q]
      PROVE  \E m \in Messages : Vouched(p, q, f, m)'
  <2>1. CASE f \in proxies[p][q]
    <3>1. PICK m \in Messages : Vouched(p, q, f, m)
      BY <2>1 DEF MailInv
    <3>2. QED  BY <3>1, VouchedKept
  <2>2. QED  BY <1>4, <2>1
<1>5. QED  BY <1>1, <1>2, <1>3, <1>4 DEF MailInv

\* Message m is sent, and its letter is written.
LEMMA PostParts ==
  ASSUME MailInv, SendingInv', NEW m \in Messages, NEW p \in Clients, NEW q \in Clients,
         NEW mdata, NEW said, Post(m, p, q, mdata, said)
  PROVE  /\ channel[m] = "unsent" /\ channel'[m] # "unsent"
         /\ \A n \in Messages \ {m} : channel'[n] = channel[n] /\ letter'[n] = letter[n]
         /\ Stays /\ DOMAIN letter' = Messages
         /\ letter'[m].from = p /\ letter'[m].to = q /\ letter'[m].said = said
         /\ letter'[m].attrs = Put(mdata.node.attrs, "from-service", p)
         /\ way[m] = "none" /\ heard[m] = {}
<1>1. /\ channel[m] = "unsent" /\ channel' = [channel EXCEPT ![m] = "requesting"]
      /\ letter' = [letter EXCEPT ![m] =
           [from |-> p, to |-> q, said |-> said,
            attrs |-> Put(Extract(mdata).attrs, "from-service", p)]]
  BY DEF Post, SendMessage
<1>2. channel \in [Messages -> Stages] /\ DOMAIN letter = Messages
  BY DEF MailInv, MailTypes, SendingInv, TypeOK
<1>3. /\ channel'[m] # "unsent"
      /\ \A n \in Messages \ {m} : channel'[n] = channel[n] /\ letter'[n] = letter[n]
      /\ DOMAIN letter' = Messages
  BY <1>1, <1>2
<1>4. /\ letter'[m].from = p /\ letter'[m].to = q /\ letter'[m].said = said
      /\ letter'[m].attrs = Put(mdata.node.attrs, "from-service", p)
  BY <1>1, <1>2 DEF Extract
<1>5. Stays
  BY <1>1, <1>3 DEF Stays, Carried
<1>6. way[m] = "none" /\ heard[m] = {}
  BY <1>1 DEF MailInv, Told, Carried
<1>7. QED  BY <1>1, <1>3, <1>4, <1>5, <1>6

-----------------------------------------------------------------------------
(* What is written in the letters of each kind *)

\* The low-level interface: said is what the receiver makes of the payload.
LEMMA SpokenPosted ==
  ASSUME MailInv, SendingInv', NEW m \in Messages, NEW p \in Clients, NEW q \in Clients,
         NEW type \in LowLevel, NEW v, v.type \in {"s", "as", "dict"}, NEW said, Flat(v) = said,
         Post(m, p, q, CreateMessage(type, v), said)
  PROVE  Posted(m)'
<1>1. /\ letter'[m].from = p /\ letter'[m].to = q /\ letter'[m].said = said
      /\ letter'[m].attrs = Put(CreateMessage(type, v).node.attrs, "from-service", p)
  BY PostParts
<1>2. /\ Attr(m, "type")' = type /\ Attr(m, "from-service")' = p
      /\ Attr(m, "payload")' = Printed(v)
  BY <1>1 DEF Attr, GetAttribute, Put, CreateMessage, Message, Node
<1>3. PICK w : w = Value(m, "payload")' /\ w.type = v.type /\ w.of = v.of
  BY <1>2, ReadBack DEF Value
<1>4. Said(m)' = Flat(w)
  BY <1>3, Zenon DEF Said, Flat
<1>5. Said(m)' = said
  BY <1>3, <1>4, Zenon DEF Flat
<1>6. type # "invocation" /\ type # "response"
  BY DEF LowLevel
<1>7. QED  BY <1>1, <1>2, <1>5, <1>6 DEF Posted

\* An invocation has its own id, and a registration the capability it is for.
LEMMA InvocationPosted ==
  ASSUME MailInv, SendingInv', NEW m \in Messages, NEW p \in Clients, NEW q \in Clients,
         NEW capability, NEW aspect, NEW arguments, NEW said,
         capability = Profile =>
           \E f \in Capabilities : arguments = [type |-> "s", of |-> f],
         Post(m, p, q, InvocationMessage(m, capability, aspect, arguments), said)
  PROVE  Posted(m)'
<1>1. /\ letter'[m].from = p /\ letter'[m].to = q /\ letter'[m].said = said
      /\ letter'[m].attrs =
           Put(InvocationMessage(m, capability, aspect, arguments).node.attrs, "from-service", p)
  BY PostParts
<1>2. /\ Attr(m, "type")' = "invocation" /\ Attr(m, "from-service")' = p
      /\ Attr(m, "invocation")' = m /\ Attr(m, "capability")' = capability
      /\ arguments # NoText => Attr(m, "arguments")' = Printed(arguments)
  BY <1>1 DEF Attr, GetAttribute, Put, InvocationMessage, Message, Node, Joined, Argument, Empty
<1>3. ASSUME capability = Profile
      PROVE  Value(m, "arguments")'.of \in Capabilities
  <2>1. PICK f \in Capabilities : arguments = [type |-> "s", of |-> f]
    BY <1>3
  <2>2. arguments # NoText
    BY <2>1, MessagesAssumption DEF MessagesAssumption
  <2>3. Parsed(Printed(arguments)).of = f
    BY <2>1, ReadBack
  <2>4. QED  BY <1>2, <2>2, <2>3 DEF Value
<1>4. QED  BY <1>1, <1>2, <1>3 DEF Posted, LowLevel

LEMMA EventPosted ==
  ASSUME MailInv, SendingInv', NEW m \in Messages, NEW p \in Clients, NEW q \in Clients,
         NEW capability, NEW aspect, NEW arguments, NEW said,
         Post(m, p, q, EventMessage(capability, aspect, arguments), said)
  PROVE  Posted(m)'
<1>1. /\ letter'[m].from = p /\ letter'[m].to = q
      /\ letter'[m].attrs =
           Put(EventMessage(capability, aspect, arguments).node.attrs, "from-service", p)
  BY PostParts
<1>2. Attr(m, "type")' = "event" /\ Attr(m, "from-service")' = p
  BY <1>1 DEF Attr, GetAttribute, Put, EventMessage, Message, Node, Joined, Argument, Empty
<1>3. QED  BY <1>1, <1>2 DEF Posted, LowLevel

\* A response to message r, for a capability.
LEMMA ResponsePosted ==
  ASSUME MailInv, SendingInv', NEW n \in Messages, NEW p \in Clients, NEW q \in Clients,
         NEW f \in Capabilities, NEW r \in Messages, NEW response, NEW said,
         channel[r] # "unsent", letter[r].from = q, letter[r].to = p,
         Post(n, p, q, ResponseMessage(f, r, response), said)
  PROVE  Posted(n)'
<1>1. /\ letter'[n].from = p /\ letter'[n].to = q /\ Stays
      /\ letter'[n].attrs = Put(ResponseMessage(f, r, response).node.attrs, "from-service", p)
  BY PostParts
<1>2. /\ Attr(n, "type")' = "response" /\ Attr(n, "from-service")' = p
      /\ Attr(n, "invocation")' = r /\ Attr(n, "capability")' = f
  BY <1>1 DEF Attr, GetAttribute, Put, ResponseMessage, Message, Node, Joined, Argument, Empty
<1>3. Answers(n, r)'
  BY <1>1 DEF Answers, Stays
<1>4. QED  BY <1>1, <1>2, <1>3 DEF Posted, LowLevel

-----------------------------------------------------------------------------
(* The steps of the clients *)

\* A step that sends m, and hears and creates nothing.
LEMMA SendsInv ==
  ASSUME MailInv, SendingInv', NEW m \in Messages, NEW p \in Clients, NEW q \in Clients,
         NEW mdata, NEW said, Post(m, p, q, mdata, said), Posted(m)',
         UNCHANGED <<known, adapters, registered, pending, proxies, way, heard>>
  PROVE  MailInv'
<1>1. /\ \A n \in Messages \ {m} : channel'[n] = channel[n] /\ letter'[n] = letter[n]
      /\ Stays /\ DOMAIN letter' = Messages
  BY PostParts
<1>2. MailTypes'
  BY <1>1 DEF MailInv, MailTypes
<1>3. \A n \in Messages : channel[n] = "unsent" /\ channel'[n] # "unsent" => Posted(n)'
  BY <1>1
<1>4. QED  BY <1>1, <1>2, <1>3, StepOfMail

LEMMA SayInv ==
  ASSUME MailInv, SendingInv', NEW m \in Messages, NEW p \in Clients, NEW q \in Clients,
         Say(m, p, q)
  PROVE  MailInv'
<1>1. UNCHANGED <<known, adapters, registered, pending, proxies, way, heard>>
  BY DEF Say, objects
<1>2. CASE \E t \in Texts : Post(m, p, q, TextMessage(t), t)
  <2>1. PICK t \in Texts : Post(m, p, q, TextMessage(t), t)
    BY <1>2
  <2>2. Post(m, p, q, CreateMessage("text", [type |-> "s", of |-> t]), t)
    BY <2>1 DEF TextMessage
  <2>3. Posted(m)'
    <3>1. PICK v : v = [type |-> "s", of |-> t]
      OBVIOUS
    <3>2. v.type = "s" /\ v.of = t /\ "text" \in LowLevel /\ Flat(v) = t
      BY <3>1 DEF LowLevel, Flat
    <3>3. Post(m, p, q, CreateMessage("text", v), t)
      BY <2>2, <3>1
    <3>4. QED  BY <3>2, <3>3, SpokenPosted
  <2>4. QED  BY <1>1, <2>1, <2>3, SendsInv
<1>3. CASE \E l \in Lists : Post(m, p, q, ListMessage(l), l)
  <2>1. PICK l \in Lists : Post(m, p, q, ListMessage(l), l)
    BY <1>3
  <2>2. Post(m, p, q, CreateMessage("list", [type |-> "as", of |-> l]), l)
    BY <2>1 DEF ListMessage
  <2>3. Posted(m)'
    <3>1. PICK v : v = [type |-> "as", of |-> l]
      OBVIOUS
    <3>2. v.type = "as" /\ v.of = l /\ "list" \in LowLevel /\ Flat(v) = l
      BY <3>1 DEF LowLevel, Flat
    <3>3. Post(m, p, q, CreateMessage("list", v), l)
      BY <2>2, <3>1
    <3>4. QED  BY <3>2, <3>3, SpokenPosted
  <2>4. QED  BY <1>1, <2>1, <2>3, SendsInv
<1>4. CASE \E d \in Dictionaries : Post(m, p, q, DictionaryMessage(d), d)
  <2>1. PICK d \in Dictionaries : Post(m, p, q, DictionaryMessage(d), d)
    BY <1>4
  <2>2. Posted(m)'
    <3>1. PICK v : v = [type |-> "dict", of |-> Pairs(d)]
      OBVIOUS
    <3>2. v.type = "dict" /\ v.of = Pairs(d) /\ "dictionary" \in LowLevel
      BY <3>1 DEF LowLevel
    <3>3. Flat(v) = d
      BY <3>2, PairsFlat, Zenon DEF Flat
    <3>4. Post(m, p, q, CreateMessage("dictionary", v), d)
      BY <2>1, <3>1 DEF DictionaryMessage
    <3>5. QED  BY <3>2, <3>3, <3>4, SpokenPosted
  <2>3. QED  BY <1>1, <2>1, <2>2, SendsInv
<1>5. QED  BY <1>2, <1>3, <1>4 DEF Say

LEMMA InvokeInv ==
  ASSUME MailInv, SendingInv', NEW m \in Messages, NEW p \in Clients, NEW q \in Clients,
         NEW f \in Capabilities, Invoke(m, p, q, f)
  PROVE  MailInv'
<1>1. /\ Post(m, p, q, InvocationMessage(m, f, "method", NoText), f)
      /\ UNCHANGED <<known, adapters, registered, pending, proxies, way, heard>>
  BY DEF Invoke, objects
<1>2. f # Profile
  BY MessagesAssumption DEF MessagesAssumption
<1>3. Posted(m)'
  BY <1>1, <1>2, InvocationPosted
<1>4. QED  BY <1>1, <1>3, SendsInv

LEMMA AdapterEventInv ==
  ASSUME MailInv, SendingInv', NEW m \in Messages, NEW p \in Clients, NEW q \in Clients,
         NEW f \in Capabilities, AdapterEvent(m, p, q, f)
  PROVE  MailInv'
<1>1. /\ Post(m, p, q, EventMessage(f, "property", [type |-> "s", of |-> f]), f)
      /\ UNCHANGED <<known, adapters, registered, pending, proxies, way, heard>>
  BY DEF AdapterEvent, objects
<1>2. Posted(m)'
  BY <1>1, EventPosted
<1>3. QED  BY <1>1, <1>2, SendsInv

\* The registration is kept at the service it goes to.
LEMMA CreateProxyInv ==
  ASSUME MailInv, SendingInv', NEW m \in Messages, NEW p \in Clients, NEW q \in Clients,
         NEW f \in Capabilities, CreateProxy(m, p, q, f)
  PROVE  MailInv'
<1>1. /\ Post(m, p, q, InvocationMessage(m, Profile, "register-proxy", [type |-> "s", of |-> f]), f)
      /\ pending' = [pending EXCEPT ![p][q] = @ \cup {<<m, f>>}]
      /\ UNCHANGED <<known, adapters, registered, proxies, way, heard>>
  BY DEF CreateProxy, RegisterProxy
<1>2. Posted(m)'
  BY <1>1, InvocationPosted
<1>3. /\ \A n \in Messages \ {m} : channel'[n] = channel[n] /\ letter'[n] = letter[n]
      /\ channel'[m] # "unsent" /\ letter'[m].from = p /\ letter'[m].to = q
      /\ Stays /\ DOMAIN letter' = Messages
  BY <1>1, PostParts
<1>4. pending \in [Clients -> [Clients -> SUBSET (Messages \X Capabilities)]]
  BY DEF MailInv, MailTypes
<1>5. /\ pending' \in [Clients -> [Clients -> SUBSET (Messages \X Capabilities)]]
      /\ \A a, b \in Clients : \A r \in pending'[a][b] :
           r \in pending[a][b] \/ (a = p /\ b = q /\ r = <<m, f>>)
  BY <1>1, <1>4
<1>6. MailTypes'
  BY <1>1, <1>3, <1>5 DEF MailInv, MailTypes
<1>7. \A n \in Messages : channel[n] = "unsent" /\ channel'[n] # "unsent" => Posted(n)'
  BY <1>2, <1>3
<1>8. \A a, b \in Clients : \A r \in pending'[a][b] : r \in pending[a][b] \/ Asked(a, b, r)'
  BY <1>3, <1>5 DEF Asked
<1>9. QED  BY <1>1, <1>3, <1>6, <1>7, <1>8, StepOfMail

\* The rosters: a service that goes takes its registrations and proxies along.
LEMMA RosterInv ==
  ASSUME MailInv, SendingInv', NEW p \in Clients,
         \/ \E q \in Clients : Discovered(p, q) \/ Withdrawn(p, q)
         \/ \E f \in Capabilities : ServiceDestroyed(p, f)
  PROVE  MailInv'
<1>1. /\ Sees \in [Clients -> SUBSET Clients]
      /\ known \in [Clients -> SUBSET Clients]
      /\ adapters \in [Clients -> SUBSET Capabilities]
      /\ registered \in [Clients -> SUBSET (Clients \X Capabilities)]
      /\ pending \in [Clients -> [Clients -> SUBSET (Messages \X Capabilities)]]
      /\ proxies \in [Clients -> [Clients -> SUBSET Capabilities]]
  BY MessagesAssumption DEF MessagesAssumption, MailInv, MailTypes
<1>2. /\ UNCHANGED <<channel, letter, way, heard>>
      /\ known' \in [Clients -> SUBSET Clients]
      /\ adapters' \in [Clients -> SUBSET Capabilities]
      /\ registered' \in [Clients -> SUBSET (Clients \X Capabilities)]
      /\ pending' \in [Clients -> [Clients -> SUBSET (Messages \X Capabilities)]]
      /\ proxies' \in [Clients -> [Clients -> SUBSET Capabilities]]
      /\ \A a, b \in Clients : pending'[a][b] \subseteq pending[a][b]
                               /\ proxies'[a][b] \subseteq proxies[a][b]
  <2>1. CASE \E q \in Clients : Discovered(p, q)
    BY <1>1, <2>1 DEF Discovered, vars, mail
  <2>2. CASE \E q \in Clients : Withdrawn(p, q)
    <3>1. PICK q \in Clients :
            /\ known' = [known EXCEPT ![p] = @ \ {q}]
            /\ pending' = [pending EXCEPT ![p][q] = {}]
            /\ proxies' = [proxies EXCEPT ![p][q] = {}]
            /\ registered' = [registered EXCEPT ![p] = {r \in @ : r[1] # q}]
            /\ UNCHANGED <<channel, letter, way, heard, adapters>>
      BY <2>2 DEF Withdrawn, vars, mail
    <3>2. known' \in [Clients -> SUBSET Clients] /\ adapters' \in [Clients -> SUBSET Capabilities]
      BY <1>1, <3>1
    <3>3. registered' \in [Clients -> SUBSET (Clients \X Capabilities)]
      BY <1>1, <3>1
    <3>4. /\ pending' \in [Clients -> [Clients -> SUBSET (Messages \X Capabilities)]]
          /\ \A a, b \in Clients : pending'[a][b] \subseteq pending[a][b]
      BY <1>1, <3>1
    <3>5. /\ proxies' \in [Clients -> [Clients -> SUBSET Capabilities]]
          /\ \A a, b \in Clients : proxies'[a][b] \subseteq proxies[a][b]
      BY <1>1, <3>1
    <3>6. QED  BY <3>1, <3>2, <3>3, <3>4, <3>5
  <2>3. CASE \E f \in Capabilities : ServiceDestroyed(p, f)
    BY <1>1, <2>3 DEF ServiceDestroyed, vars, mail
  <2>4. QED  BY <2>1, <2>2, <2>3
<1>3. Stays
  BY <1>2 DEF Stays
<1>4. MailTypes'
  BY <1>2 DEF MailInv, MailTypes
<1>5. QED  BY <1>2, <1>3, <1>4, StepOfMail

\* Along a channel, and back from it.
LEMMA CarriedInv ==
  ASSUME MailInv, SendingInv', NEW m \in Messages, Requested(m) \/ Bounced(m) \/ Channel(m)
  PROVE  MailInv'
<1>1. /\ channel \in [Messages -> Stages]
      /\ way \in [Messages -> {"none", "under way", "bounced", "arrived"}]
  BY DEF MailInv, MailTypes, SendingInv, TypeOK
<1>2. /\ UNCHANGED <<known, adapters, registered, pending, proxies, letter, heard>>
      /\ \E stage \in Stages :
           /\ channel' = [channel EXCEPT ![m] = stage]
           /\ channel[m] # "unsent" /\ stage # "unsent"
           /\ channel[m] \in Carried => stage \in Carried
  BY DEF Requested, Bounced, Channel, RequestAnswered, Failed, ChannelOpened, ChannelFailed,
         Replied, Closed, objects, mail, Stages, Carried
<1>3. \A n \in Messages \ {m} : channel'[n] = channel[n]
  BY <1>1, <1>2
<1>4. Stays
  BY <1>1, <1>2 DEF Stays
<1>5. /\ way' \in [Messages -> {"none", "under way", "bounced", "arrived"}]
      /\ \A n \in Messages \ {m} : way'[n] = way[n]
      /\ way'[m] # way[m] =>
           /\ channel'[m] \in Carried /\ way'[m] # "arrived"
           /\ channel[m] = "opened" \/ way[m] = "under way"
  BY <1>1 DEF Requested, Bounced, Channel, RequestAnswered, Failed, Carried, mail
<1>6. Told(m)'
  <2>1. CASE way'[m] = way[m]
    BY <1>2, <1>4, <2>1, ToldKept
  <2>2. CASE way'[m] # way[m]
    <3>1. heard[m] = {}
      BY <1>5, <2>2 DEF MailInv, Told, Carried
    <3>2. QED  BY <1>2, <1>5, <2>2, <3>1 DEF Told
  <2>3. QED  BY <2>1, <2>2
<1>7. MailTypes'
  BY <1>2, <1>5 DEF MailInv, MailTypes
<1>8. \A n \in Messages : channel[n] = "unsent" /\ channel'[n] # "unsent" => Posted(n)'
  BY <1>2, <1>3
<1>9. \A n \in Messages : (way'[n] = way[n] /\ heard'[n] = heard[n]) \/ Told(n)'
  BY <1>2, <1>5, <1>6
<1>10. QED  BY <1>2, <1>4, <1>7, <1>8, <1>9, StepOfMail

-----------------------------------------------------------------------------
(* Receiving *)

\* Message m arrives, and those in listeners get it.
LEMMA ArrivalParts ==
  ASSUME MailInv, NEW m \in Messages, NEW listeners, Arrives(m),
         heard' = [heard EXCEPT ![m] = listeners]
  PROVE  /\ channel[m] \in Carried /\ channel[m] # "unsent"
         /\ heard[m] = {} /\ Posted(m)
         /\ To(m) \in Clients /\ FromContact(m) \subseteq Clients
         /\ way' \in [Messages -> {"none", "under way", "bounced", "arrived"}]
         /\ way'[m] = "arrived" /\ heard'[m] = listeners /\ DOMAIN heard' = Messages
         /\ \A n \in Messages \ {m} : way'[n] = way[n] /\ heard'[n] = heard[n]
         /\ \A n \in Messages : heard[n] # {} => heard'[n] = heard[n]
<1>1. /\ way \in [Messages -> {"none", "under way", "bounced", "arrived"}]
      /\ DOMAIN heard = Messages /\ known \in [Clients -> SUBSET Clients]
  BY DEF MailInv, MailTypes
<1>2. way[m] = "under way" /\ way' = [way EXCEPT ![m] = "arrived"]
  BY DEF Arrives
<1>3. channel[m] \in Carried /\ heard[m] = {} /\ channel[m] # "unsent" /\ Posted(m)
  BY <1>2 DEF MailInv, Told, Carried
<1>4. To(m) \in Clients /\ FromContact(m) \subseteq Clients
  BY <1>1, <1>3 DEF Posted, To, FromContact
<1>5. /\ way' \in [Messages -> {"none", "under way", "bounced", "arrived"}]
      /\ way'[m] = "arrived" /\ heard'[m] = listeners /\ DOMAIN heard' = Messages
      /\ \A n \in Messages \ {m} : way'[n] = way[n] /\ heard'[n] = heard[n]
  BY <1>1, <1>2
<1>6. QED  BY <1>3, <1>4, <1>5

\* Nobody took the message: raw-message, and a signal of the low-level interface
\* with what was said.
LEMMA ToldRaw ==
  ASSUME MailInv, NEW m \in Messages, channel[m] \in Carried, channel'[m] = channel[m],
         letter'[m] = letter[m], way'[m] = "arrived", NEW signals, heard'[m] = signals \cup {Raw(m)},
         signals \subseteq {[by |-> Attr(m, "type"), client |-> To(m), said |-> letter[m].said]},
         signals = {} \/ Attr(m, "type") \in LowLevel
  PROVE  Told(m)'
<1>1. /\ Attr(m, "type")' = Attr(m, "type") /\ To(m)' = To(m) /\ Raw(m)' = Raw(m)
      /\ letter'[m].said = letter[m].said
  BY ReadAgain
<1>2. \A h \in heard'[m] : h.by \notin {"adapter", "proxy"}
  <2>1. \A h \in signals : h.by \in LowLevel
    OBVIOUS
  <2>2. Raw(m).by = "raw-message"
    BY DEF Raw
  <2>3. QED  BY <2>1, <2>2 DEF LowLevel
<1>3. heard'[m] \ {Raw(m)} \subseteq {[by |-> Attr(m, "type"), client |-> To(m), said |-> letter[m].said]}
  OBVIOUS
<1>4. QED  BY <1>1, <1>2, <1>3 DEF Told

\* One listener took it, an adapter or a proxy.
LEMMA ToldOne ==
  ASSUME MailInv, NEW m \in Messages, channel[m] \in Carried, channel'[m] = channel[m],
         letter'[m] = letter[m], way'[m] = "arrived", NEW h, heard'[m] = {h},
         h.by \in {"adapter", "proxy"}, Attr(m, "type") \notin LowLevel
  PROVE  Told(m)'
<1>1. Attr(m, "type")' = Attr(m, "type") /\ Raw(m)' = Raw(m)
  BY ReadAgain
<1>2. Raw(m) \notin heard'[m]
  BY DEF Raw
<1>3. {x \in heard'[m] : x.by \in {"adapter", "proxy"}} = {h}
  OBVIOUS
<1>4. QED  BY <1>1, <1>2, <1>3 DEF Told

\* A step that gives m to whom it may concern, and changes nothing else.
LEMMA HearsInv ==
  ASSUME MailInv, SendingInv', NEW m \in Messages, NEW listeners, Arrives(m),
         heard' = [heard EXCEPT ![m] = listeners], Told(m)',
         UNCHANGED <<channel, letter, known, adapters, registered, pending, proxies>>
  PROVE  MailInv'
<1>1. /\ way' \in [Messages -> {"none", "under way", "bounced", "arrived"}]
      /\ DOMAIN heard' = Messages
      /\ \A n \in Messages \ {m} : way'[n] = way[n] /\ heard'[n] = heard[n]
      /\ \A n \in Messages : heard[n] # {} => heard'[n] = heard[n]
  BY ArrivalParts
<1>2. Stays
  BY DEF Stays
<1>3. MailTypes'
  BY <1>1 DEF MailInv, MailTypes
<1>4. QED  BY <1>1, <1>2, <1>3, StepOfMail

LEMMA NobodyTook ==
  ASSUME MailInv, SendingInv', NEW m \in Messages, NEW signals, Accept(m, signals, FALSE),
         signals \subseteq {[by |-> Attr(m, "type"), client |-> To(m), said |-> letter[m].said]},
         signals = {} \/ Attr(m, "type") \in LowLevel,
         UNCHANGED <<channel, letter, known, adapters, registered, pending, proxies>>
  PROVE  MailInv'
<1>1. Arrives(m) /\ heard' = [heard EXCEPT ![m] = signals \cup {Raw(m)}]
  BY DEF Accept, Raw
<1>2. Told(m)'
  BY <1>1, ArrivalParts, ToldRaw
<1>3. QED  BY <1>1, <1>2, HearsInv

LEMMA OneTook ==
  ASSUME MailInv, SendingInv', NEW m \in Messages, NEW h, Accept(m, {h}, TRUE),
         h.by \in {"adapter", "proxy"}, Attr(m, "type") \notin LowLevel,
         UNCHANGED <<channel, letter, known, adapters, registered, pending, proxies>>
  PROVE  MailInv'
<1>1. Arrives(m) /\ heard' = [heard EXCEPT ![m] = {h}]
  BY DEF Accept
<1>2. Told(m)'
  BY <1>1, ArrivalParts, ToldOne
<1>3. QED  BY <1>1, <1>2, HearsInv

LEMMA ReceivedMessageInv ==
  ASSUME MailInv, SendingInv', NEW m \in Messages, ReceivedMessage(m)
  PROVE  MailInv'
<1>1. /\ Attr(m, "type") \in LowLevel
      /\ Accept(m, {[by |-> Attr(m, "type"), client |-> To(m), said |-> Said(m)]}, FALSE)
      /\ UNCHANGED <<channel, letter, known, adapters, registered, pending, proxies>>
  BY DEF ReceivedMessage, Accept, vars, objects
<1>2. Said(m) = letter[m].said
  BY <1>1, ArrivalParts DEF Accept, Posted
<1>3. QED  BY <1>1, <1>2, NobodyTook

LEMMA ReceivedInvocationInv ==
  ASSUME MailInv, SendingInv', NEW m \in Messages, ReceivedInvocation(m)
  PROVE  MailInv'
<1>1. UNCHANGED <<channel, letter, known, adapters, registered, pending, proxies>>
  BY DEF ReceivedInvocation, Accept, vars, objects
<1>2. Attr(m, "type") \notin LowLevel
  BY DEF ReceivedInvocation, LowLevel
<1>3. CASE Attr(m, "capability") \in adapters[To(m)]
  <2>1. PICK h : h = [by |-> "adapter", client |-> To(m), capability |-> Attr(m, "capability")]
    OBVIOUS
  <2>2. Accept(m, {h}, TRUE) /\ h.by = "adapter"
    BY <1>3, <2>1 DEF ReceivedInvocation, Accept
  <2>3. QED  BY <1>1, <1>2, <2>2, OneTook
<1>4. CASE Attr(m, "capability") \notin adapters[To(m)]
  <2>1. Accept(m, {}, FALSE)
    BY <1>4 DEF ReceivedInvocation, Accept
  <2>2. QED  BY <1>1, <2>1, NobodyTook
<1>5. QED  BY <1>3, <1>4

LEMMA ReceivedEventInv ==
  ASSUME MailInv, SendingInv', NEW m \in Messages, ReceivedEvent(m)
  PROVE  MailInv'
<1>1. UNCHANGED <<channel, letter, known, adapters, registered, pending, proxies>>
  BY DEF ReceivedEvent, Accept, vars, objects
<1>2. Attr(m, "type") \notin LowLevel
  BY DEF ReceivedEvent, LowLevel
<1>3. CASE Accept(m, {}, FALSE)
  BY <1>1, <1>3, NobodyTook
<1>4. CASE \E q \in FromContact(m) : Accept(m, {Proxy(m, q)}, TRUE)
  <2>1. PICK q : Accept(m, {Proxy(m, q)}, TRUE)
    BY <1>4
  <2>2. Proxy(m, q).by = "proxy"
    BY DEF Proxy
  <2>3. QED  BY <1>1, <1>2, <2>1, <2>2, OneTook
<1>5. QED  BY <1>3, <1>4 DEF ReceivedEvent

\* The registration goes under its proxy's address, and is answered.
LEMMA ReceivedRegistrationInv ==
  ASSUME MailInv, SendingInv', NEW m \in Messages, NEW n \in Messages, ReceivedRegistration(m, n)
  PROVE  MailInv'
<1>1. PICK p, q, f, h, response :
        /\ p = To(m) /\ q = Attr(m, "from-service") /\ f = Value(m, "arguments").of
        /\ h.by = "adapter" /\ heard' = [heard EXCEPT ![m] = {h}] /\ Arrives(m)
        /\ registered' = [registered EXCEPT ![p] = @ \cup {<<q, f>>}]
        /\ Post(n, p, q, ResponseMessage(f, Attr(m, "invocation"), response), f)
        /\ UNCHANGED <<known, adapters, pending, proxies>>
        /\ Attr(m, "type") = "invocation" /\ Attr(m, "capability") = Profile
  <2>1. PICK h : h = [by |-> "adapter", client |-> To(m), capability |-> Profile]
    OBVIOUS
  <2>2. h.by = "adapter"
    BY <2>1
  <2>3. QED  BY <2>1, <2>2 DEF ReceivedRegistration
<1>2. /\ channel[m] \in Carried /\ channel[m] # "unsent" /\ Posted(m)
      /\ To(m) \in Clients
      /\ way' \in [Messages -> {"none", "under way", "bounced", "arrived"}]
      /\ way'[m] = "arrived" /\ heard'[m] = {h} /\ DOMAIN heard' = Messages
      /\ \A x \in Messages \ {m} : way'[x] = way[x] /\ heard'[x] = heard[x]
      /\ \A x \in Messages : heard[x] # {} => heard'[x] = heard[x]
  BY <1>1, ArrivalParts
<1>3. /\ p \in Clients /\ p = letter[m].to /\ q \in Clients /\ q = letter[m].from
      /\ f \in Capabilities /\ Attr(m, "invocation") = m
  BY <1>1, <1>2 DEF Posted, To
<1>4. /\ channel[n] = "unsent" /\ Stays /\ DOMAIN letter' = Messages
      /\ \A x \in Messages \ {n} : channel'[x] = channel[x] /\ letter'[x] = letter[x]
  BY <1>1, <1>3, PostParts
<1>5. Posted(n)'
  BY <1>1, <1>2, <1>3, ResponsePosted
<1>6. channel'[m] = channel[m] /\ letter'[m] = letter[m]
  BY <1>2, <1>4
<1>7. Told(m)'
  <2>1. Attr(m, "type") \notin LowLevel
    BY <1>1 DEF LowLevel
  <2>2. QED  BY <1>1, <1>2, <1>6, <2>1, ToldOne
<1>8. MailTypes'
  <2>1. registered \in [Clients -> SUBSET (Clients \X Capabilities)]
    BY DEF MailInv, MailTypes
  <2>2. registered' \in [Clients -> SUBSET (Clients \X Capabilities)]
    BY <1>1, <1>3, <2>1
  <2>3. QED  BY <1>1, <1>2, <1>4, <2>2 DEF MailInv, MailTypes
<1>9. \A x \in Messages : channel[x] = "unsent" /\ channel'[x] # "unsent" => Posted(x)'
  BY <1>4, <1>5
<1>10. \A x \in Messages : (way'[x] = way[x] /\ heard'[x] = heard[x]) \/ Told(x)'
  BY <1>2, <1>7
<1>11. QED  BY <1>1, <1>2, <1>4, <1>8, <1>9, <1>10, StepOfMail

\* The registration a response answers is at the service that the response is
\* from, since it was kept at the one it was sent to.
LEMMA ReceivedResponseInv ==
  ASSUME MailInv, SendingInv', NEW m \in Messages, ReceivedResponse(m)
  PROVE  MailInv'
<1>1. /\ UNCHANGED <<channel, letter, known, adapters, registered>>
      /\ Attr(m, "type") = "response" /\ Attr(m, "type") \notin LowLevel
  BY DEF ReceivedResponse, vars, Accept, LowLevel
<1>2. CASE Accept(m, {}, FALSE) /\ UNCHANGED <<pending, proxies>>
  BY <1>1, <1>2, NobodyTook
<1>3. CASE \E q \in FromContact(m) :
             Accept(m, {Proxy(m, q)}, TRUE) /\ UNCHANGED <<pending, proxies>>
  <2>1. PICK q : Accept(m, {Proxy(m, q)}, TRUE) /\ UNCHANGED <<pending, proxies>>
    BY <1>3
  <2>2. Proxy(m, q).by = "proxy"
    BY DEF Proxy
  <2>3. QED  BY <1>1, <2>1, <2>2, OneTook
<1>4. CASE \E q \in FromContact(m) :
             /\ CreatesProxy(m, q) /\ Accept(m, {Proxy(m, q)}, TRUE)
             /\ pending' = [pending EXCEPT ![To(m)][q] = @ \ Registration(m, q)]
             /\ proxies' = [proxies EXCEPT ![To(m)][q] = @ \cup {Attr(m, "capability")}]
  <2>1. PICK q, p, f, answered :
          /\ q \in FromContact(m) /\ p = To(m) /\ f = Attr(m, "capability")
          /\ CreatesProxy(m, q) /\ Arrives(m) /\ heard' = [heard EXCEPT ![m] = {Proxy(m, q)}]
          /\ pending' = [pending EXCEPT ![p][q] = @ \ answered]
          /\ proxies' = [proxies EXCEPT ![p][q] = @ \cup {f}]
    <3>1. PICK q \in FromContact(m) :
            /\ CreatesProxy(m, q) /\ Accept(m, {Proxy(m, q)}, TRUE)
            /\ pending' = [pending EXCEPT ![To(m)][q] = @ \ Registration(m, q)]
            /\ proxies' = [proxies EXCEPT ![To(m)][q] = @ \cup {Attr(m, "capability")}]
      BY <1>4
    <3>2. Arrives(m) /\ heard' = [heard EXCEPT ![m] = {Proxy(m, q)}]
      BY <3>1 DEF Accept
    <3>3. QED  BY <3>1, <3>2, Zenon
  <2>2. /\ channel[m] \in Carried /\ channel[m] # "unsent" /\ Posted(m)
        /\ p \in Clients /\ q \in Clients
        /\ way' \in [Messages -> {"none", "under way", "bounced", "arrived"}]
        /\ way'[m] = "arrived" /\ heard'[m] = {Proxy(m, q)} /\ DOMAIN heard' = Messages
        /\ \A x \in Messages \ {m} : way'[x] = way[x] /\ heard'[x] = heard[x]
        /\ \A x \in Messages : heard[x] # {} => heard'[x] = heard[x]
    BY <2>1, ArrivalParts
  <2>3. letter[m].from = q /\ letter[m].to = p /\ f \in Capabilities
    <3>1. PICK r \in pending[p][q] : r[1] = Attr(m, "invocation")
      BY <2>1 DEF CreatesProxy, Registration
    <3>2. Asked(p, q, r)
      BY <2>1, <2>2, <3>1 DEF MailInv
    <3>3. Answers(m, r[1]) /\ f \in Capabilities
      BY <1>1, <2>1, <2>2, <3>1 DEF Posted
    <3>4. QED  BY <2>1, <3>2, <3>3 DEF Asked, Answers, To
  <2>4. Stays
    BY <1>1 DEF Stays
  <2>5. Told(m)'
    <3>1. Proxy(m, q).by = "proxy"
      BY DEF Proxy
    <3>2. QED  BY <1>1, <2>2, <3>1, ToldOne
  <2>6. Vouched(p, q, f, m)'
    <3>1. /\ Attr(m, "type")' = "response" /\ Attr(m, "capability")' = f
          /\ Proxy(m, q)' = Proxy(m, q)
      BY <1>1, <2>1, ReadAgain
    <3>2. letter'[m].from = q /\ letter'[m].to = p /\ channel'[m] # "unsent"
      BY <1>1, <2>2, <2>3
    <3>3. Proxy(m, q)' \in heard'[m]
      BY <2>2, <3>1
    <3>4. QED  BY <3>1, <3>2, <3>3 DEF Vouched
  <2>7. /\ pending \in [Clients -> [Clients -> SUBSET (Messages \X Capabilities)]]
        /\ proxies \in [Clients -> [Clients -> SUBSET Capabilities]]
    BY DEF MailInv, MailTypes
  <2>8. /\ pending' \in [Clients -> [Clients -> SUBSET (Messages \X Capabilities)]]
        /\ \A a, b \in Clients : pending'[a][b] \subseteq pending[a][b]
    <3>1. p \in Clients /\ q \in Clients /\ pending' = [pending EXCEPT ![p][q] = @ \ answered]
      BY <2>1, <2>2
    <3>2. \A a, b \in Clients :
            pending'[a][b] = IF a = p /\ b = q THEN pending[a][b] \ answered ELSE pending[a][b]
      BY <2>7, <3>1
    <3>3. QED  BY <2>7, <3>1, <3>2
  <2>9. /\ proxies' \in [Clients -> [Clients -> SUBSET Capabilities]]
        /\ \A a, b \in Clients : \A x \in proxies'[a][b] :
             x \in proxies[a][b] \/ (a = p /\ b = q /\ x = f)
    <3>1. /\ p \in Clients /\ q \in Clients /\ f \in Capabilities
          /\ proxies' = [proxies EXCEPT ![p][q] = @ \cup {f}]
      BY <2>1, <2>2, <2>3
    <3>2. QED  BY <2>7, <3>1
  <2>10. \A a, b \in Clients : \A x \in proxies'[a][b] :
           x \in proxies[a][b] \/ \E n \in Messages : Vouched(a, b, x, n)'
    BY <2>6, <2>9
  <2>11. MailTypes'
    BY <1>1, <2>2, <2>8, <2>9 DEF MailInv, MailTypes
  <2>12. \A x \in Messages : (way'[x] = way[x] /\ heard'[x] = heard[x]) \/ Told(x)'
    BY <2>2, <2>5
  <2>13. QED  BY <1>1, <2>2, <2>4, <2>8, <2>10, <2>11, <2>12, StepOfMail
<1>5. QED  BY <1>2, <1>3, <1>4 DEF ReceivedResponse

LEMMA MailInitInv == MessagesInit => MailInv
<1>1. SUFFICES ASSUME MessagesInit PROVE MailInv
  OBVIOUS
<1>2. SendingInv
  BY <1>1, SendingInitInv DEF MessagesInit
<1>3. MailTypes
  BY <1>1, MessagesAssumption DEF MessagesAssumption, MessagesInit, MailTypes
<1>4. \A m \in Messages : channel[m] = "unsent" /\ way[m] = "none" /\ heard[m] = {}
  BY <1>1 DEF MessagesInit, Init
<1>5. \A m \in Messages : Told(m)
  BY <1>4 DEF Told
<1>6. \A p, q \in Clients : pending[p][q] = {} /\ proxies[p][q] = {}
  BY <1>1 DEF MessagesInit
<1>7. QED  BY <1>2, <1>3, <1>4, <1>5, <1>6 DEF MailInv

LEMMA ReceivesInv ==
  ASSUME MailInv, SendingInv', NEW m \in Messages, Receives(m)
  PROVE  MailInv'
<1>1. CASE ReceivedUnknown(m)
  <2>1. Accept(m, {}, FALSE)
    BY <1>1 DEF ReceivedUnknown
  <2>2. UNCHANGED <<channel, letter, known, adapters, registered, pending, proxies>>
    BY <1>1 DEF ReceivedUnknown, Accept, vars, objects
  <2>3. QED  BY <2>1, <2>2, NobodyTook
<1>2. CASE ReceivedMessage(m)
  BY <1>2, ReceivedMessageInv
<1>3. CASE ReceivedInvocation(m)
  BY <1>3, ReceivedInvocationInv
<1>4. CASE ReceivedEvent(m)
  BY <1>4, ReceivedEventInv
<1>5. CASE ReceivedResponse(m)
  BY <1>5, ReceivedResponseInv
<1>6. CASE \E n \in Messages : ReceivedRegistration(m, n)
  BY <1>6, ReceivedRegistrationInv
<1>7. QED  BY <1>1, <1>2, <1>3, <1>4, <1>5, <1>6 DEF Receives

LEMMA SendsStepInv ==
  ASSUME MailInv, SendingInv', NEW m \in Messages, Sends(m)
  PROVE  MailInv'
<1>1. CASE \E p, q \in Clients : Say(m, p, q)
  BY <1>1, SayInv
<1>2. ASSUME NEW p \in Clients, NEW q \in Clients, NEW f \in Capabilities,
             CreateProxy(m, p, q, f) \/ Invoke(m, p, q, f) \/ AdapterEvent(m, p, q, f)
      PROVE  MailInv'
  BY <1>2, CreateProxyInv, InvokeInv, AdapterEventInv
<1>3. QED  BY <1>1, <1>2 DEF Sends

LEMMA MailStepInv == MailInv /\ [MessagesNext]_allVars => MailInv'
<1>1. SUFFICES ASSUME MailInv, [MessagesNext]_allVars PROVE MailInv'
  OBVIOUS
<1>2. SendingInv'
  BY <1>1, StepsAreSending, SendingStepInv DEF MailInv
<1>3. CASE UNCHANGED allVars
  <2>1. UNCHANGED <<channel, letter, known, adapters, registered, pending, proxies, way, heard>>
    BY <1>3 DEF allVars, vars, objects, mail
  <2>2. Stays /\ MailTypes'
    BY <1>1, <2>1 DEF Stays, MailInv, MailTypes
  <2>3. QED  BY <1>1, <1>2, <2>1, <2>2, StepOfMail
<1>4. CASE MessagesNext
  <2>1. CASE \E p, q \in Clients : Discovered(p, q) \/ Withdrawn(p, q)
    BY <1>1, <1>2, <2>1, RosterInv
  <2>2. CASE \E p \in Clients, f \in Capabilities : ServiceDestroyed(p, f)
    BY <1>1, <1>2, <2>2, RosterInv
  <2>3. ASSUME NEW m \in Messages,
               Sends(m) \/ Requested(m) \/ Bounced(m) \/ Channel(m) \/ Receives(m)
        PROVE  MailInv'
    BY <1>1, <1>2, <2>3, SendsStepInv, CarriedInv, ReceivesInv
  <2>4. QED  BY <1>4, <2>1, <2>2, <2>3 DEF MessagesNext
<1>5. QED  BY <1>1, <1>3, <1>4

-----------------------------------------------------------------------------
(* What holds of messages between clients *)

\* The letters, registrations, proxies and listeners fit together, in every
\* behaviour of any number of clients.
THEOREM MailInvariant == MessagesSpec => []MailInv
<1>1. QED  BY MailInitInv, MailStepInv, PTL DEF MessagesSpec

\* Objects, letters and the ways of messages have their types.
THEOREM MessagesTypeCorrect == MessagesSpec => []MessagesTypeOK
<1>1. MailInv => MessagesTypeOK
  BY DEF MailInv, SendingInv, MailTypes, MessagesTypeOK
<1>2. QED  BY <1>1, MailInvariant, PTL

\* Text, list and dictionary reach the application of the addressee as they were
\* said, through the printed GVariant of yts-service.c and its reader in
\* yts-client.c.
THEOREM AsItWasSaid == MessagesSpec => []HeardAsSent
<1>1. MailInv => HeardAsSent
  BY DEF MailInv, Told, HeardAsSent, Raw
<1>2. QED  BY <1>1, MailInvariant, PTL

\* What arrives at a client is heard there: by an adapter or a proxy, or else by
\* the application as raw-message, and not by both (dispatch_to_service).
THEOREM WhatArrivesIsHeard == MessagesSpec => []NothingSilent
<1>1. MailInv => NothingSilent
  BY DEF MailInv, Told, NothingSilent, Raw
<1>2. QED  BY <1>1, MailInvariant, PTL

\* A proxy stands for a registration that its own service answered, though a
\* response is offered to all services of the device it came from.
THEOREM ProxiesVouchedFor == MessagesSpec => []ProxiesAgreed
<1>1. MailInv => ProxiesAgreed
  BY DEF MailInv, Vouched, ProxiesAgreed
<1>2. QED  BY <1>1, MailInvariant, PTL
=============================================================================
