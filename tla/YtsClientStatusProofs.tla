----------------------- MODULE YtsClientStatusProofs -----------------------
(***************************************************************************)
(* The client's status over any number of connections, for any sets of     *)
(* capabilities and statuses and any number of calls in flight.            *)
(*                                                                         *)
(* The composition is a connection with variables added: every step of it  *)
(* is one of YtsConnection or leaves that alone, so what is proved of the  *)
(* connection carries over.  On top of it LatestAdvertised and             *)
(* CapabilitiesPublished need the types and no more: what makes them true  *)
(* is that every step that breaks the tie between the table and the queue  *)
(* either appends to the queue or gives up the TpYtsStatus.                *)
(***************************************************************************)
EXTENDS YtsClientStatus, YtsConnectionProofs, SequenceTheorems

StatusInv ==
  /\ StatusTypeOK
  /\ LatestAdvertised
  /\ CapabilitiesPublished

ClientInv == Inv /\ StatusInv

-----------------------------------------------------------------------------
(* Queues *)

\* A call that is appended is the last.
LEMMA AppendedIsLast ==
  ASSUME NEW q \in Seq(Shown), NEW s \in Shown
  PROVE  /\ Append(q, s) \in Seq(Shown) /\ Append(q, s) # <<>>
         /\ Append(q, s)[Len(Append(q, s))] = s
  BY AppendProperties

\* Delivering the first call does not change the last word.
LEMMA DeliveredIsLast ==
  ASSUME NEW q \in Seq(Shown), q # <<>>
  PROVE  /\ Head(q) \in Shown /\ Tail(q) \in Seq(Shown)
         /\ Tail(q) = <<>> => Head(q) = q[Len(q)]
         /\ Tail(q) # <<>> => Tail(q)[Len(Tail(q))] = q[Len(q)]
<1>1. /\ Head(q) \in Shown /\ Tail(q) \in Seq(Shown)
      /\ Len(q) \in Nat /\ Len(Tail(q)) \in Nat /\ Len(Tail(q)) = Len(q) - 1
      /\ \A i \in 1 .. Len(Tail(q)) : Tail(q)[i] = q[i+1]
  BY HeadTailProperties, LenProperties
<1>2. ASSUME Tail(q) = <<>> PROVE Head(q) = q[Len(q)]
  <2>1. Len(q) = 1
    BY <1>1, <1>2
  <2>2. QED  BY <2>1
<1>3. ASSUME Tail(q) # <<>> PROVE Tail(q)[Len(Tail(q))] = q[Len(q)]
  <2>1. Len(Tail(q)) # 0
    BY <1>1, <1>3, EmptySeq
  <2>2. Len(Tail(q)) \in 1 .. Len(Tail(q)) /\ Len(Tail(q)) + 1 = Len(q)
    BY <1>1, <2>1
  <2>3. QED  BY <1>1, <2>2
<1>4. QED  BY <1>1, <1>2, <1>3

-----------------------------------------------------------------------------
(* The composition and the connection *)

\* Every step is one of the connection, or leaves it alone.
LEMMA ClientStep == ClientNext => [Next]_vars
<1> SUFFICES ASSUME ClientNext PROVE [Next]_vars
  OBVIOUS
<1>1. ASSUME NEW c \in Capabilities, AddCapability(c) \/ AddInterest(c) \/ Deliver(c)
      PROVE  UNCHANGED vars
  BY <1>1 DEF AddCapability, AddInterest, Deliver
<1>2. ASSUME NEW c \in Capabilities, NEW s \in Statuses, SetStatus(c, s)
      PROVE  UNCHANGED vars
  BY <1>2 DEF SetStatus
<1>3. ASSUME ClientPrepared \/ StatusAsked \/ StatusDropped PROVE Next
  BY <1>3 DEF ClientPrepared, StatusAsked, StatusDropped, Next
<1>4. ASSUME StatusReady PROVE Next
  BY <1>4 DEF StatusReady, Next
<1>5. ASSUME ConnectionStep PROVE Next
  BY <1>5 DEF ConnectionStep, Next
<1>6. QED  BY <1>1, <1>2, <1>3, <1>4, <1>5 DEF ClientNext

\* A client with a status is a client: what holds of every behaviour of
\* YtsConnection holds of it.
THEOREM ClientImplementsConnection == ClientSpec => Spec
<1>1. ClientInit => Init
  BY DEF ClientInit
<1>2. [ClientNext]_client_vars => [Next]_vars
  BY ClientStep DEF client_vars
<1>3. QED  BY <1>1, <1>2, PTL DEF ClientSpec, Spec

\* The account is prepared in one step only.
LEMMA PreparedKept ==
  ASSUME TypeOK, ConnectionStep \/ StatusAsked \/ StatusReady \/ StatusDropped
  PROVE  prepared' = prepared
<1>1. ASSUME NEW t \in Timers, TimerFires(t) PROVE prepared' = prepared
  BY <1>1 DEF TimerFires
<1>2. ASSUME NEW ok \in BOOLEAN, PresenceAnswered(ok) \/ StatusEnsured(ok)
      PROVE  prepared' = prepared
  BY <1>2 DEF PresenceAnswered, StatusEnsured
<1>3. ASSUME Connect \/ Disconnect \/ AccountOnline \/ Connected \/ AccountOffline
             \/ ConnectSucceeds \/ ConnectFailed \/ ConnectionReady \/ Dropped
      PROVE  prepared' = prepared
  BY <1>3 DEF Connect, Disconnect, AccountOnline, Connected, AccountOffline,
              ConnectSucceeds, ConnectFailed, ConnectionReady, Dropped
<1>4. QED
  BY <1>1, <1>2, <1>3 DEF ConnectionStep, StatusAsked, StatusReady, StatusDropped

-----------------------------------------------------------------------------
(* The invariant *)

LEMMA StatusInitInv == ClientInit => StatusInv
<1> SUFFICES ASSUME ClientInit PROVE StatusInv
  OBVIOUS
<1>1. <<>> \in Seq(Shown)
  BY EmptySeq
<1>2. StatusTypeOK
  BY <1>1 DEF ClientInit, StatusTypeOK, Entries
<1>3. LatestAdvertised /\ CapabilitiesPublished
  BY DEF ClientInit, Init, LatestAdvertised, CapabilitiesPublished
<1>4. QED  BY <1>2, <1>3 DEF StatusInv

\* What the table provides after c got an entry, and what tp_client then has.
LEMMA CapablePublished ==
  ASSUME StatusInv, NEW c \in Capabilities, NEW e \in Shown, Capable(c),
         table' = [table EXCEPT ![c] = e], UNCHANGED <<prepared, interests>>
  PROVE  /\ table' \in [Capabilities -> Entries]
         /\ published' \in [capabilities : SUBSET Capabilities, interests : SUBSET Capabilities]
         /\ CapabilitiesPublished'
<1>1. e # Absent /\ e \in Entries
  BY StatusAssumption DEF StatusAssumption, Shown, Entries
<1>2. table' \in [Capabilities -> Entries] /\ Provided' = Provided \cup {c}
  BY <1>1 DEF StatusInv, StatusTypeOK, Provided
<1>3. published' \in [capabilities : SUBSET Capabilities, interests : SUBSET Capabilities]
  BY DEF Capable, StatusInv, StatusTypeOK
<1>4. table[c] # Absent => Provided \cup {c} = Provided
  BY DEF Provided
<1>5. CapabilitiesPublished'
  BY <1>2, <1>4 DEF Capable, StatusInv, CapabilitiesPublished
<1>6. QED  BY <1>2, <1>3, <1>5

LEMMA SetStatusInv ==
  ASSUME StatusInv, NEW c \in Capabilities, NEW s \in Statuses, SetStatus(c, s)
  PROVE  StatusInv'
<1>1. s \in Shown
  BY DEF Shown
<1>2. /\ table' \in [Capabilities -> Entries]
      /\ published' \in [capabilities : SUBSET Capabilities, interests : SUBSET Capabilities]
      /\ CapabilitiesPublished'
  BY <1>1, CapablePublished DEF SetStatus, vars
<1>3. /\ Append(queued[c], s) \in Seq(Shown) /\ Append(queued[c], s) # <<>>
      /\ Append(queued[c], s)[Len(Append(queued[c], s))] = s
  BY <1>1, AppendedIsLast DEF StatusInv, StatusTypeOK
<1>4. queued' \in [Capabilities -> Seq(Shown)]
  BY <1>3 DEF SetStatus, Advertised, StatusInv, StatusTypeOK
<1>5. StatusTypeOK'
  BY <1>2, <1>4 DEF SetStatus, StatusInv, StatusTypeOK
<1>6. ASSUME tp_status' = "current", NEW d \in Capabilities, table'[d] \in Statuses
      PROVE  Latest(d)' = table'[d]
  <2>1. /\ tp_status = "current" /\ shown' = shown
        /\ queued' = [queued EXCEPT ![c] = Append(@, s)]
        /\ table' = [table EXCEPT ![c] = s]
    BY <1>6 DEF SetStatus, Advertised
  <2>2. CASE d = c
    <3>1. queued'[d] = Append(queued[c], s) /\ table'[d] = s
      BY <2>1, <2>2 DEF StatusInv, StatusTypeOK
    <3>2. QED  BY <1>3, <3>1 DEF Latest
  <2>3. CASE d # c
    BY <1>6, <2>1, <2>3 DEF Latest, LatestAdvertised, StatusInv, StatusTypeOK
  <2>4. QED  BY <2>2, <2>3
<1>7. QED  BY <1>2, <1>5, <1>6 DEF StatusInv, LatestAdvertised

LEMMA DeliverInv ==
  ASSUME StatusInv, NEW c \in Capabilities, Deliver(c)
  PROVE  StatusInv'
<1>1. /\ Head(queued[c]) \in Shown /\ Tail(queued[c]) \in Seq(Shown)
      /\ Tail(queued[c]) = <<>> => Head(queued[c]) = queued[c][Len(queued[c])]
      /\ Tail(queued[c]) # <<>> =>
           Tail(queued[c])[Len(Tail(queued[c]))] = queued[c][Len(queued[c])]
  BY DeliveredIsLast DEF Deliver, StatusInv, StatusTypeOK
<1>2. StatusTypeOK'
  BY <1>1 DEF Deliver, StatusInv, StatusTypeOK, Entries
<1>3. ASSUME NEW d \in Capabilities PROVE Latest(d)' = Latest(d)
  <2>1. CASE d = c
    BY <1>1, <2>1 DEF Deliver, Latest, StatusInv, StatusTypeOK
  <2>2. CASE d # c
    BY <2>2 DEF Deliver, Latest, StatusInv, StatusTypeOK
  <2>3. QED  BY <2>1, <2>2
<1>4. LatestAdvertised'
  BY <1>3 DEF Deliver, StatusInv, LatestAdvertised
<1>5. CapabilitiesPublished'
  BY DEF Deliver, vars, StatusInv, CapabilitiesPublished, Provided
<1>6. QED  BY <1>2, <1>4, <1>5 DEF StatusInv

LEMMA StatusReadyInv ==
  ASSUME TypeOK, StatusInv, StatusReady
  PROVE  StatusInv'
<1>1. prepared' = prepared
  BY PreparedKept
<1>2. ASSUME NEW c \in Capabilities, c \in Provided
      PROVE  /\ Append(queued[c], table[c]) \in Seq(Shown)
             /\ Append(queued[c], table[c]) # <<>>
             /\ Append(queued[c], table[c])[Len(Append(queued[c], table[c]))] = table[c]
  <2>1. table[c] \in Shown /\ queued[c] \in Seq(Shown)
    BY <1>2 DEF Provided, Entries, StatusInv, StatusTypeOK
  <2>2. QED  BY <2>1, AppendedIsLast
<1>3. StatusTypeOK'
  <2>1. \A c \in Capabilities : queued'[c] \in Seq(Shown)
    BY <1>2 DEF StatusReady, StatusInv, StatusTypeOK
  <2>2. QED  BY <2>1 DEF StatusReady, StatusInv, StatusTypeOK
<1>4. ASSUME tp_status' = "current", NEW c \in Capabilities, table'[c] \in Statuses
      PROVE  Latest(c)' = table'[c]
  <2>1. asked /\ table' = table
    BY <1>4 DEF StatusReady
  <2>2. c \in Provided
    BY <1>4, <2>1, StatusAssumption DEF StatusAssumption, Provided
  <2>3. queued'[c] = Append(queued[c], table[c])
    BY <2>1, <2>2 DEF StatusReady
  <2>4. QED  BY <1>2, <2>1, <2>2, <2>3 DEF Latest
<1>5. CapabilitiesPublished'
  BY <1>1 DEF StatusReady, StatusInv, CapabilitiesPublished, Provided
<1>6. QED  BY <1>3, <1>4, <1>5 DEF StatusInv, LatestAdvertised

LEMMA StatusStepInv == TypeOK /\ StatusInv /\ [ClientNext]_client_vars => StatusInv'
<1> SUFFICES ASSUME TypeOK, StatusInv, [ClientNext]_client_vars PROVE StatusInv'
  OBVIOUS
<1>1. ASSUME NEW c \in Capabilities, AddCapability(c) PROVE StatusInv'
  <2>1. /\ table[c] = Absent /\ table' = [table EXCEPT ![c] = NoStatus]
        /\ Capable(c) /\ UNCHANGED <<prepared, interests, tp_status, asked, queued, shown>>
    BY <1>1 DEF AddCapability, vars
  <2>2. NoStatus \in Shown /\ NoStatus \notin Statuses
    BY StatusAssumption DEF StatusAssumption, Shown
  <2>3. /\ table' \in [Capabilities -> Entries]
        /\ published' \in [capabilities : SUBSET Capabilities, interests : SUBSET Capabilities]
        /\ CapabilitiesPublished'
    BY <2>1, <2>2, CapablePublished
  <2>4. LatestAdvertised'
    BY <2>1, <2>2 DEF StatusInv, StatusTypeOK, LatestAdvertised, Latest
  <2>5. QED  BY <2>1, <2>3, <2>4 DEF StatusInv, StatusTypeOK
<1>2. ASSUME NEW c \in Capabilities, AddInterest(c) PROVE StatusInv'
  <2>1. /\ interests' = interests \cup {c}
        /\ published' = IF prepared THEN [published EXCEPT !.interests = @ \cup {c}]
                        ELSE published
        /\ UNCHANGED <<prepared, table, tp_status, asked, queued, shown>>
    BY <1>2 DEF AddInterest, vars
  <2>2. StatusTypeOK'
    BY <2>1 DEF StatusInv, StatusTypeOK
  <2>3. LatestAdvertised'
    BY <2>1 DEF StatusInv, LatestAdvertised, Latest
  <2>4. CapabilitiesPublished'
    BY <2>1 DEF StatusInv, CapabilitiesPublished, Provided
  <2>5. QED  BY <2>2, <2>3, <2>4 DEF StatusInv
<1>3. ASSUME NEW c \in Capabilities, NEW s \in Statuses, SetStatus(c, s)
      PROVE  StatusInv'
  BY <1>3, SetStatusInv
<1>4. ASSUME NEW c \in Capabilities, Deliver(c) PROVE StatusInv'
  BY <1>4, DeliverInv
<1>5. CASE ClientPrepared
  BY <1>5 DEF ClientPrepared, StatusInv, StatusTypeOK, LatestAdvertised, Latest,
              CapabilitiesPublished, Provided
<1>6. CASE StatusAsked
  <2>1. prepared' = prepared
    BY <1>6, PreparedKept
  <2>2. asked' \in BOOLEAN
    BY <1>6 DEF StatusAsked, StatusInv, StatusTypeOK
  <2>3. QED
    BY <1>6, <2>1, <2>2 DEF StatusAsked, StatusInv, StatusTypeOK, LatestAdvertised, Latest,
                            CapabilitiesPublished, Provided
<1>7. CASE StatusReady
  BY <1>7, StatusReadyInv
<1>8. CASE StatusDropped
  <2>1. prepared' = prepared
    BY <1>8, PreparedKept
  <2>2. tp_status' # "current" /\ <<>> \in Seq(Shown)
    BY <1>8, EmptySeq DEF StatusDropped
  <2>3. StatusTypeOK'
    BY <1>8, <2>2 DEF StatusDropped, StatusInv, StatusTypeOK, Entries
  <2>4. CapabilitiesPublished'
    BY <1>8, <2>1 DEF StatusDropped, StatusInv, CapabilitiesPublished, Provided
  <2>5. QED  BY <2>2, <2>3, <2>4 DEF StatusInv, LatestAdvertised
<1>9. CASE ConnectionStep
  <2>1. prepared' = prepared
    BY <1>9, PreparedKept
  <2>2. UNCHANGED status_vars
    BY <1>9 DEF ConnectionStep
  <2>3. QED
    BY <2>1, <2>2 DEF status_vars, StatusInv, StatusTypeOK, LatestAdvertised, Latest,
                      CapabilitiesPublished, Provided
<1>10. CASE UNCHANGED client_vars
  BY <1>10 DEF client_vars, vars, status_vars, StatusInv, StatusTypeOK, LatestAdvertised,
               Latest, CapabilitiesPublished, Provided
<1>11. QED
  BY <1>1, <1>2, <1>3, <1>4, <1>5, <1>6, <1>7, <1>8, <1>9, <1>10 DEF ClientNext

\* The client's table and what is advertised of it agree, whatever the
\* application sets and the connection does.
THEOREM ClientInvHolds == ClientSpec => []ClientInv
<1>1. ClientInit => ClientInv
  BY InitInv, StatusInitInv DEF ClientInit, ClientInv
<1>2. ClientInv /\ [ClientNext]_client_vars => ClientInv'
  <2> SUFFICES ASSUME ClientInv, [ClientNext]_client_vars PROVE ClientInv'
    OBVIOUS
  <2>1. [Next]_vars
    BY ClientStep DEF client_vars
  <2>2. Inv'
    BY <2>1, StepInv DEF ClientInv
  <2>3. StatusInv'
    BY StatusStepInv DEF ClientInv, Inv
  <2>4. QED  BY <2>2, <2>3 DEF ClientInv
<1>3. QED  BY <1>1, <1>2, PTL DEF ClientSpec

-----------------------------------------------------------------------------
(* The invariants the run checks. *)

\* Every reachable state of the client and its connection is well typed.
THEOREM ClientTypes == ClientSpec => []ClientTypeOK
<1>1. ClientInv => ClientTypeOK
  BY DEF ClientInv, Inv, StatusInv, ClientTypeOK
<1>2. QED  BY <1>1, ClientInvHolds, PTL

\* The TpYtsStatus of the connection was told the status last set of each
\* capability, whenever it was set.
THEOREM StatusesAdvertised == ClientSpec => []LatestAdvertised
<1>1. ClientInv => LatestAdvertised
  BY DEF ClientInv, StatusInv
<1>2. QED  BY <1>1, ClientInvHolds, PTL

\* No capability and no interest is missing from a TpYtsClient.
THEOREM EverythingPublished == ClientSpec => []CapabilitiesPublished
<1>1. ClientInv => CapabilitiesPublished
  BY DEF ClientInv, StatusInv
<1>2. QED  BY <1>1, ClientInvHolds, PTL
=============================================================================
