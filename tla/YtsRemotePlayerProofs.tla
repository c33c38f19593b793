----------------------- MODULE YtsRemotePlayerProofs -----------------------
(***************************************************************************)
(* A player and its proxies, for any values, ids, objects and bounds.      *)
(*                                                                         *)
(* That the proxies implement YtsMirror rests on the order of what is on   *)
(* its way to them: every value in a message is one the property has had,  *)
(* is not older than the values of messages before it, and not older than  *)
(* what any proxy shows (InOrder).                                         *)
(*                                                                         *)
(* That none is left behind rests on the order of registrations and their  *)
(* answers: one that is not wanted any more, its service gone, is before   *)
(* all that are, so none is under way once a proxy has been made (InLine,  *)
(* Wanted).  With that the values on their way end with the present one,   *)
(* and none of them is dropped (Told).                                     *)
(***************************************************************************)
EXTENDS YtsRemotePlayer, SequenceTheorems, TLAPS

\* Messages that carry a value of the property.
Carries(m) == m.type \in {"properties", "event"}

Fresh ==
  \A k \in DOMAIN to_client : Carries(to_client[k]) =>
    /\ to_client[k].version \in 1..Len(history)
    /\ \A q \in Objects : mirror[q] <= to_client[k].version

InOrder ==
  \A j, k \in DOMAIN to_client :
    j < k /\ Carries(to_client[j]) /\ Carries(to_client[k]) =>
    to_client[j].version <= to_client[k].version

Shown ==
  /\ \A q \in Objects : mirror[q] <= Len(history)
  /\ \A q \in Objects \ held : mirror[q] = 0

PlayerInv == TypeOK /\ TableLive /\ Shown /\ Fresh /\ InOrder

-----------------------------------------------------------------------------
(* The queues *)

\* What was typed of the messages.
LEMMA MessageTypes ==
  /\ \A i \in Ids : /\ [type |-> "register", id |-> i] \in Invocations
                    /\ [type |-> "next", id |-> i] \in Invocations
  /\ \A v \in Values : [type |-> "set", value |-> v] \in Invocations
  /\ \A i \in Ids, n \in Nat : [type |-> "properties", id |-> i, version |-> n] \in Replies
  /\ \A n \in Nat : [type |-> "event", version |-> n] \in Replies
  /\ \A i \in Ids : /\ [type |-> "refused", id |-> i] \in Replies
                    /\ [type |-> "answer", id |-> i] \in Replies
  /\ \A m \in Invocations : /\ m.type \in {"register", "next"} => m.id \in Ids
                            /\ m.type = "set" => m.value \in Values
  /\ \A m \in Replies : /\ m.type \in {"properties", "refused", "answer"} => m.id \in Ids
                        /\ Carries(m) => m.version \in Nat
  BY DEF Invocations, Replies, Carries

LEMMA HistoryParts ==
  ASSUME TypeOK
  PROVE  /\ history \in Seq(Values) /\ Len(history) \in Nat /\ Len(history) >= 1
         /\ \A v \in Values : /\ Append(history, v) \in Seq(Values) \ {<<>>}
                              /\ Len(Append(history, v)) = Len(history) + 1
<1>1. history \in Seq(Values) /\ history # <<>>
  BY DEF TypeOK
<1>2. Len(history) \in Nat /\ Len(history) >= 1
  BY <1>1, EmptySeq, LenProperties
<1>3. ASSUME NEW v \in Values
      PROVE  /\ Append(history, v) \in Seq(Values) \ {<<>>}
             /\ Len(Append(history, v)) = Len(history) + 1
  <2>1. /\ Append(history, v) \in Seq(Values) /\ Append(history, v) # <<>>
        /\ Len(Append(history, v)) = Len(history) + 1
    BY <1>1, AppendProperties
  <2>2. QED  BY <2>1
<1>4. QED  BY <1>1, <1>2, <1>3

\* The head of a queue and what is left of it.
LEMMA TakeParts ==
  ASSUME NEW S, NEW queue \in Seq(S), queue # <<>>
  PROVE  /\ Head(queue) \in S /\ Tail(queue) \in Seq(S)
         /\ Head(queue) = queue[1] /\ 1 \in DOMAIN queue
         /\ \A k \in DOMAIN Tail(queue) :
              k \in Nat /\ k + 1 \in DOMAIN queue /\ Tail(queue)[k] = queue[k + 1] /\ 1 < k + 1
<1>1. /\ Len(queue) \in Nat /\ Len(queue) # 0 /\ DOMAIN queue = 1..Len(queue)
      /\ Head(queue) = queue[1] /\ Tail(queue) \in Seq(S)
      /\ Len(Tail(queue)) = Len(queue) - 1
      /\ \A k \in 1..Len(Tail(queue)) : Tail(queue)[k] = queue[k + 1]
  BY HeadTailProperties, EmptySeq, LenProperties
<1>2. DOMAIN Tail(queue) = 1..Len(Tail(queue))
  BY <1>1, LenProperties
<1>3. Head(queue) \in S
  BY HeadTailProperties
<1>4. QED  BY <1>1, <1>2, <1>3

\* Nothing is sent and no mirror goes up.
LEMMA SameQueue ==
  ASSUME PlayerInv, to_client' = to_client, Len(history') \in Nat, Len(history) <= Len(history'),
         \A q \in Objects : mirror'[q] \in Nat /\ mirror'[q] <= mirror[q]
  PROVE  Fresh' /\ InOrder'
<1>1. \A q \in Objects : mirror[q] \in Nat
  BY DEF PlayerInv, TypeOK
<1>2. Len(history) \in Nat
  BY HistoryParts DEF PlayerInv
<1>3. ASSUME NEW k \in DOMAIN to_client, Carries(to_client[k])
      PROVE  /\ to_client[k].version \in 1..Len(history')
             /\ \A q \in Objects : mirror'[q] <= to_client[k].version
  <2>1. /\ to_client[k].version \in 1..Len(history)
        /\ \A q \in Objects : mirror[q] <= to_client[k].version
    BY <1>3 DEF PlayerInv, Fresh
  <2>2. QED  BY <1>1, <1>2, <2>1
<1>4. Fresh'
  BY <1>3 DEF Fresh, Carries
<1>5. InOrder'
  BY DEF PlayerInv, InOrder, Carries
<1>6. QED  BY <1>4, <1>5

\* A message is sent, with the present value if it carries one.
LEMMA OneMore ==
  ASSUME PlayerInv, NEW m, to_client' = Append(to_client, m), mirror' = mirror,
         Len(history') \in Nat, Len(history) <= Len(history'),
         Carries(m) => m.version = Len(history')
  PROVE  Fresh' /\ InOrder'
<1>1. /\ to_client \in Seq(Replies) /\ Len(history) \in Nat /\ Len(history) >= 1
      /\ \A q \in Objects : mirror[q] \in Nat /\ mirror[q] <= Len(history)
  BY HistoryParts DEF PlayerInv, TypeOK, Shown
<1>2. PICK n \in Nat :
        /\ n = Len(to_client) /\ DOMAIN to_client = 1..n /\ DOMAIN to_client' = 1..(n + 1)
        /\ \A k \in 1..n : to_client'[k] = to_client[k]
        /\ to_client'[n + 1] = m
  <2>1. to_client \in Seq(Replies \cup {m})
    BY <1>1, SeqMonotonic
  <2>2. /\ to_client' \in Seq(Replies \cup {m}) /\ Len(to_client') = Len(to_client) + 1
        /\ \A k \in 1..Len(to_client) : to_client'[k] = to_client[k]
        /\ to_client'[Len(to_client) + 1] = m
    BY <2>1, AppendProperties
  <2>3. /\ Len(to_client) \in Nat /\ DOMAIN to_client = 1..Len(to_client)
        /\ DOMAIN to_client' = 1..Len(to_client')
    BY <2>1, <2>2, LenProperties
  <2>4. QED  BY <2>2, <2>3
<1>3. \A k \in 1..n : Carries(to_client[k]) =>
        /\ to_client[k].version \in Nat /\ to_client[k].version \in 1..Len(history)
        /\ \A q \in Objects : mirror[q] <= to_client[k].version
  BY <1>1, <1>2 DEF PlayerInv, Fresh
<1>4. Fresh'
  <2>1. ASSUME NEW k \in DOMAIN to_client', Carries(to_client'[k])
        PROVE  /\ to_client'[k].version \in 1..Len(history')
               /\ \A q \in Objects : mirror[q] <= to_client'[k].version
    <3>1. CASE k \in 1..n
      BY <1>1, <1>2, <1>3, <2>1, <3>1
    <3>2. CASE k = n + 1
      BY <1>1, <1>2, <2>1, <3>2
    <3>3. QED  BY <1>2, <3>1, <3>2
  <2>2. QED  BY <2>1 DEF Fresh, Carries
<1>5. InOrder'
  <2>1. ASSUME NEW j \in DOMAIN to_client', NEW k \in DOMAIN to_client', j < k,
               Carries(to_client'[j]), Carries(to_client'[k])
        PROVE  to_client'[j].version <= to_client'[k].version
    <3>1. j \in 1..n /\ to_client'[j] = to_client[j]
      BY <1>2, <2>1
    <3>2. CASE k \in 1..n
      BY <1>2, <2>1, <3>1, <3>2 DEF PlayerInv, InOrder
    <3>3. CASE k = n + 1
      BY <1>1, <1>2, <1>3, <2>1, <3>1, <3>3
    <3>4. QED  BY <1>2, <3>2, <3>3
  <2>2. QED  BY <2>1 DEF InOrder, Carries
<1>6. QED  BY <1>4, <1>5

\* The first message is taken, and a mirror shows its value if anything new.
LEMMA OneLess ==
  ASSUME PlayerInv, to_client # <<>>, to_client' = Tail(to_client), history' = history,
         \A q \in Objects :
           /\ mirror'[q] \in Nat
           /\ \/ mirror'[q] <= mirror[q]
              \/ Carries(Head(to_client)) /\ mirror'[q] = Head(to_client).version
  PROVE  Fresh' /\ InOrder'
<1>1. /\ to_client \in Seq(Replies)
      /\ \A q \in Objects : mirror[q] \in Nat
  BY DEF PlayerInv, TypeOK
<1>2. /\ Head(to_client) = to_client[1] /\ 1 \in DOMAIN to_client
      /\ \A k \in DOMAIN to_client' :
           k \in Nat /\ k + 1 \in DOMAIN to_client /\ to_client'[k] = to_client[k + 1] /\ 1 < k + 1
  BY <1>1, TakeParts
<1>3. /\ \A k \in DOMAIN to_client : Carries(to_client[k]) =>
           /\ to_client[k].version \in 1..Len(history)
           /\ \A q \in Objects : mirror[q] <= to_client[k].version
      /\ \A j, k \in DOMAIN to_client :
           j < k /\ Carries(to_client[j]) /\ Carries(to_client[k]) =>
           to_client[j].version <= to_client[k].version
      /\ Len(history) \in Nat
  BY HistoryParts DEF PlayerInv, Fresh, InOrder
<1>4. Fresh'
  <2>1. ASSUME NEW k \in DOMAIN to_client', Carries(to_client'[k])
        PROVE  /\ to_client'[k].version \in 1..Len(history)
               /\ \A q \in Objects : mirror'[q] <= to_client'[k].version
    <3>1. /\ k + 1 \in DOMAIN to_client /\ to_client'[k] = to_client[k + 1]
          /\ Carries(to_client[k + 1]) /\ 1 < k + 1
      BY <1>2, <2>1
    <3>2. /\ to_client[k + 1].version \in Nat /\ to_client[k + 1].version \in 1..Len(history)
          /\ \A q \in Objects : mirror[q] <= to_client[k + 1].version
      BY <1>3, <3>1
    <3>3. Carries(to_client[1]) =>
            to_client[1].version \in Nat /\ to_client[1].version <= to_client[k + 1].version
      BY <1>2, <1>3, <3>1
    <3>4. QED  BY <1>1, <1>2, <3>1, <3>2, <3>3
  <2>2. QED  BY <2>1 DEF Fresh, Carries
<1>5. InOrder'
  <2>1. ASSUME NEW j \in DOMAIN to_client', NEW k \in DOMAIN to_client', j < k,
               Carries(to_client'[j]), Carries(to_client'[k])
        PROVE  to_client'[j].version <= to_client'[k].version
    BY <1>2, <1>3, <2>1
  <2>2. QED  BY <2>1 DEF InOrder, Carries
<1>6. QED  BY <1>4, <1>5

-----------------------------------------------------------------------------
(* Steps that neither tell a proxy anything nor give it a value *)

\* What such a step keeps; it may take a proxy out of the table.
LEMMA QuietInv ==
  ASSUME PlayerInv, TypeOK', UNCHANGED <<history, to_client, held, mirror>>,
         table' = table \/ table' = None
  PROVE  PlayerInv'
<1>1. Len(history) \in Nat /\ \A q \in Objects : mirror[q] \in Nat
  BY HistoryParts DEF PlayerInv, TypeOK
<1>2. Fresh' /\ InOrder'
  BY <1>1, SameQueue
<1>3. TableLive' /\ Shown'
  BY DEF PlayerInv, TableLive, Shown
<1>4. QED  BY <1>2, <1>3 DEF PlayerInv

LEMMA PlayerQuiet ==
  ASSUME PlayerInv,
         (\E i \in Ids : NextTimeout(i)) \/ PlayerDestroyed \/ PeerLost \/ PeerFound
  PROVE  PlayerInv'
<1>1. /\ UNCHANGED <<history, network_vars, service_vars, proxy_vars, used>>
      /\ published' \in BOOLEAN /\ visible' \in BOOLEAN /\ registered' \in BOOLEAN
      /\ envelopes' \in SUBSET Ids
  BY DEF PlayerInv, TypeOK, NextTimeout, PlayerDestroyed, PeerLost, PeerFound, player_vars
<1>2. TypeOK'
  BY <1>1 DEF PlayerInv, TypeOK, network_vars, service_vars, proxy_vars
<1>3. QED  BY <1>1, <1>2, QuietInv DEF network_vars, service_vars, proxy_vars

LEMMA SentTypes ==
  ASSUME PlayerInv, NEW m \in Invocations, Send(m)
  PROVE  to_server' \in Seq(Invocations)
  BY AppendProperties DEF Send, PlayerInv, TypeOK

\* The remote control's steps, most of which send.
LEMMA RemoteQuiet ==
  ASSUME PlayerInv, to_server' \in Seq(Invocations),
         present' \in BOOLEAN, pending' \in SUBSET Ids, used' \in SUBSET Ids,
         calls' \in [Ids -> Objects \cup {None}], table' = table \/ table' = None,
         UNCHANGED <<player_vars, server_vars, to_client, held, mirror>>
  PROVE  PlayerInv'
<1>1. TypeOK'
  BY DEF PlayerInv, TypeOK, player_vars, server_vars
<1>2. QED  BY <1>1, QuietInv DEF player_vars

LEMMA RostersQuiet ==
  ASSUME PlayerInv, ServiceLost \/ ServiceFound
  PROVE  PlayerInv'
  BY RemoteQuiet DEF ServiceLost, ServiceFound, network_vars, proxy_vars, PlayerInv, TypeOK

LEMMA CreateProxyQuiet ==
  ASSUME PlayerInv, NEW i \in Ids, CreateProxy(i)
  PROVE  PlayerInv'
<1>1. to_server' \in Seq(Invocations)
  BY MessageTypes, SentTypes DEF CreateProxy
<1>2. present' \in BOOLEAN /\ pending' \in SUBSET Ids /\ used' \in SUBSET Ids
  BY DEF CreateProxy, Draw, PlayerInv, TypeOK
<1>3. QED  BY <1>1, <1>2, RemoteQuiet DEF CreateProxy, proxy_vars, PlayerInv, TypeOK

LEMMA ProxySetQuiet ==
  ASSUME PlayerInv, NEW q \in Objects, NEW v \in Values, ProxySet(q, v) \/ ProxyPlay(q, v)
  PROVE  PlayerInv'
<1>1. to_server' \in Seq(Invocations)
  BY MessageTypes, SentTypes DEF ProxySet, ProxyPlay
<1>2. QED  BY <1>1, RemoteQuiet DEF ProxySet, ProxyPlay, service_vars, proxy_vars, PlayerInv, TypeOK

LEMMA ProxyNextQuiet ==
  ASSUME PlayerInv, NEW q \in Objects, NEW i \in Ids, ProxyNext(q, i)
  PROVE  PlayerInv'
<1>1. to_server' \in Seq(Invocations)
  BY MessageTypes, SentTypes DEF ProxyNext
<1>2. used' \in SUBSET Ids /\ calls' \in [Ids -> Objects \cup {None}]
  BY DEF ProxyNext, Draw, PlayerInv, TypeOK
<1>3. QED  BY <1>1, <1>2, RemoteQuiet DEF ProxyNext, service_vars, PlayerInv, TypeOK

\* Messages the player's client takes without a word to the remote control.
LEMMA ServerQuiet ==
  ASSUME PlayerInv, NEW m, InvocationDropped(m) \/ NextArrives(m)
  PROVE  PlayerInv'
<1>1. /\ to_server \in Seq(Invocations) /\ to_server # <<>> /\ m = Head(to_server)
      /\ to_server' = Tail(to_server)
  BY DEF InvocationDropped, NextArrives, Take, PlayerInv, TypeOK
<1>2. m \in Invocations /\ to_server' \in Seq(Invocations)
  BY <1>1, TakeParts
<1>3. /\ UNCHANGED <<player_vars, visible, registered, to_client, service_vars, proxy_vars, used>>
      /\ envelopes' \in SUBSET Ids
  BY <1>2, MessageTypes DEF InvocationDropped, NextArrives, server_vars, PlayerInv, TypeOK
<1>4. TypeOK'
  BY <1>2, <1>3 DEF PlayerInv, TypeOK, player_vars, service_vars, proxy_vars
<1>5. QED  BY <1>3, <1>4, QuietInv DEF player_vars, service_vars, proxy_vars

\* A proxy that is dropped shows nothing, and is in no table.
LEMMA DropProxyInv ==
  ASSUME PlayerInv, NEW q \in Objects, DropProxy(q)
  PROVE  PlayerInv'
<1>1. /\ held' = held \ {q} /\ mirror' = [mirror EXCEPT ![q] = 0]
      /\ calls' = [i \in Ids |-> IF calls[i] \in {q} THEN None ELSE calls[i]]
      /\ table' = IF table = q THEN None ELSE table
      /\ UNCHANGED <<player_vars, server_vars, network_vars, present, pending, used>>
  BY DEF DropProxy, Orphan, ProxyDestroyed
<1>2. /\ mirror \in [Objects -> Nat] /\ calls \in [Ids -> Objects \cup {None}]
      /\ Len(history) \in Nat
  BY HistoryParts DEF PlayerInv, TypeOK
<1>3. /\ mirror' \in [Objects -> Nat] /\ mirror'[q] = 0
      /\ \A p \in Objects \ {q} : mirror'[p] = mirror[p]
  BY <1>1, <1>2
<1>4. calls' \in [Ids -> Objects \cup {None}]
  BY <1>1, <1>2
<1>5. TypeOK'
  BY <1>1, <1>3, <1>4 DEF PlayerInv, TypeOK, player_vars, server_vars, network_vars
<1>6. TableLive'
  BY <1>1 DEF PlayerInv, TableLive
<1>7. Shown'
  <2>1. history' = history
    BY <1>1 DEF player_vars
  <2>2. QED  BY <1>1, <1>2, <1>3, <2>1 DEF PlayerInv, Shown
<1>8. Fresh' /\ InOrder'
  <2>1. to_client' = to_client /\ history' = history
    BY <1>1 DEF network_vars, player_vars
  <2>2. \A p \in Objects : mirror'[p] \in Nat /\ mirror'[p] <= mirror[p]
    BY <1>2, <1>3
  <2>3. QED  BY <1>2, <2>1, <2>2, SameQueue
<1>9. QED  BY <1>5, <1>6, <1>7, <1>8 DEF PlayerInv

-----------------------------------------------------------------------------
(* Steps that send to the remote control *)

\* A message more for the remote control, and the property as it was or later.
LEMMA SendsInv ==
  ASSUME PlayerInv, TypeOK', Len(history') >= Len(history),
         UNCHANGED <<held, mirror, table>>,
         \/ to_client' = to_client
         \/ \E m : to_client' = Append(to_client, m) /\ (Carries(m) => m.version = Len(history'))
  PROVE  PlayerInv'
<1>1. /\ Len(history) \in Nat /\ Len(history') \in Nat /\ Len(history) <= Len(history')
      /\ \A q \in Objects : mirror[q] \in Nat
  <2>1. Len(history) \in Nat /\ history' \in Seq(Values)
    BY HistoryParts DEF PlayerInv, TypeOK
  <2>2. Len(history') \in Nat
    BY <2>1, LenProperties
  <2>3. \A q \in Objects : mirror[q] \in Nat
    BY DEF PlayerInv, TypeOK
  <2>4. QED  BY <2>1, <2>2, <2>3
<1>2. Fresh' /\ InOrder'
  <2>1. CASE to_client' = to_client
    BY <1>1, <2>1, SameQueue
  <2>2. CASE \E m : to_client' = Append(to_client, m) /\ (Carries(m) => m.version = Len(history'))
    BY <1>1, <2>2, OneMore
  <2>3. QED  BY <2>1, <2>2
<1>3. TableLive' /\ Shown'
  BY <1>1 DEF PlayerInv, TableLive, Shown
<1>4. QED  BY <1>2, <1>3 DEF PlayerInv

LEMMA ReplyTypes ==
  ASSUME PlayerInv, NEW m \in Replies
  PROVE  Append(to_client, m) \in Seq(Replies)
  BY AppendProperties DEF PlayerInv, TypeOK

\* The property changes, by the application or by a message, and is announced.
LEMMA ChangeInv ==
  ASSUME PlayerInv, NEW v \in Values,
         history' = Append(history, v), Announce(history'), to_server' \in Seq(Invocations),
         UNCHANGED <<published, server_vars, service_vars, proxy_vars, used>>
  PROVE  PlayerInv'
<1>1. /\ history' \in Seq(Values) \ {<<>>} /\ Len(history') = Len(history) + 1
      /\ Len(history) \in Nat /\ Len(history') \in Nat /\ Len(history') >= Len(history)
  BY HistoryParts DEF PlayerInv
<1>2. PICK m : /\ m = [type |-> "event", version |-> Len(history')]
               /\ to_client' = to_client \/ to_client' = Append(to_client, m)
  BY DEF Announce
<1>3. m \in Replies /\ m.version = Len(history')
  BY <1>1, <1>2, MessageTypes
<1>4. to_client' \in Seq(Replies)
  BY <1>2, <1>3, ReplyTypes DEF PlayerInv, TypeOK
<1>5. TypeOK'
  BY <1>1, <1>4 DEF PlayerInv, TypeOK, server_vars, service_vars, proxy_vars
<1>6. QED  BY <1>1, <1>2, <1>3, <1>5, SendsInv DEF service_vars, proxy_vars

LEMMA SetPropertyInv ==
  ASSUME PlayerInv, NEW v \in Values, SetProperty(v)
  PROVE  PlayerInv'
  BY ChangeInv DEF SetProperty, PlayerInv, TypeOK

LEMMA NextReturnInv ==
  ASSUME PlayerInv, NEW i \in Ids, NextReturn(i)
  PROVE  PlayerInv'
<1>1. PICK m : /\ m = [type |-> "answer", id |-> i]
               /\ to_client' = Append(to_client, m) /\ envelopes' = envelopes \ {i}
               /\ UNCHANGED <<player_vars, visible, registered, to_server, service_vars,
                              proxy_vars, used>>
  BY DEF NextReturn
<1>2. m \in Replies /\ ~Carries(m)
  BY <1>1, MessageTypes DEF Carries
<1>3. to_client' \in Seq(Replies) /\ Len(history) \in Nat
  BY <1>1, <1>2, ReplyTypes, HistoryParts DEF PlayerInv
<1>4. TypeOK'
  BY <1>1, <1>3 DEF PlayerInv, TypeOK, player_vars, service_vars, proxy_vars
<1>5. QED  BY <1>1, <1>2, <1>3, <1>4, SendsInv DEF player_vars, service_vars, proxy_vars

LEMMA RegisterArrivesInv ==
  ASSUME PlayerInv, NEW n, RegisterArrives(n)
  PROVE  PlayerInv'
<1>1. /\ to_server \in Seq(Invocations) /\ to_server # <<>> /\ n = Head(to_server)
      /\ to_server' = Tail(to_server) /\ n.type = "register"
  BY DEF RegisterArrives, Take, PlayerInv, TypeOK
<1>2. n \in Invocations /\ to_server' \in Seq(Invocations)
  BY <1>1, TakeParts
<1>3. n.id \in Ids /\ Len(history) \in Nat
  BY <1>1, <1>2, MessageTypes, HistoryParts DEF PlayerInv
<1>4. PICK m : /\ to_client' = Append(to_client, m) /\ m \in Replies
               /\ Carries(m) => m.version = Len(history)
  <2>1. PICK x, y : /\ x = [type |-> "properties", id |-> n.id, version |-> Len(history)]
                    /\ y = [type |-> "refused", id |-> n.id]
    OBVIOUS
  <2>2. x \in Replies /\ y \in Replies /\ x.version = Len(history) /\ ~Carries(y)
    BY <1>3, <2>1, MessageTypes DEF Carries
  <2>3. to_client' = Append(to_client, x) \/ to_client' = Append(to_client, y)
    BY <2>1 DEF RegisterArrives, Version
  <2>4. QED  BY <2>2, <2>3
<1>5. /\ registered' = TRUE
      /\ UNCHANGED <<player_vars, visible, envelopes, service_vars, proxy_vars, used>>
  BY DEF RegisterArrives
<1>6. TypeOK'
  <2>1. to_client' \in Seq(Replies)
    BY <1>4, ReplyTypes
  <2>2. QED  BY <1>2, <1>5, <2>1 DEF PlayerInv, TypeOK, player_vars, service_vars, proxy_vars
<1>7. QED  BY <1>3, <1>4, <1>5, <1>6, SendsInv DEF player_vars, service_vars, proxy_vars

LEMMA SetArrivesInv ==
  ASSUME PlayerInv, NEW n, SetArrives(n)
  PROVE  PlayerInv' /\ \E v \in Values : history' = Append(history, v)
<1>1. /\ to_server \in Seq(Invocations) /\ to_server # <<>> /\ n = Head(to_server)
      /\ to_server' = Tail(to_server) /\ n.type = "set"
      /\ history' = Append(history, n.value) /\ Announce(history')
      /\ UNCHANGED <<published, server_vars, service_vars, proxy_vars, used>>
  BY DEF SetArrives, Take, PlayerInv, TypeOK
<1>2. n \in Invocations /\ to_server' \in Seq(Invocations)
  BY <1>1, TakeParts
<1>3. n.value \in Values
  BY <1>1, <1>2, MessageTypes
<1>4. QED  BY <1>1, <1>2, <1>3, ChangeInv

-----------------------------------------------------------------------------
(* Steps of the remote control that take a message *)

\* The message taken is a reply, and one that carries a value carries one of the
\* property that is as new as any mirror.
LEMMA ReceiveParts ==
  ASSUME PlayerInv, NEW m, Receive(m)
  PROVE  /\ m \in Replies /\ m = Head(to_client) /\ to_client # <<>>
         /\ to_client' = Tail(to_client) /\ to_client' \in Seq(Replies)
         /\ m.type \in {"properties", "refused", "answer"} => m.id \in Ids
         /\ Carries(m) =>
              /\ m.version \in 1..Len(history) /\ m.version \in Nat
              /\ \A q \in Objects : mirror[q] <= m.version
<1>1. /\ to_client \in Seq(Replies) /\ to_client # <<>>
      /\ m = Head(to_client) /\ to_client' = Tail(to_client)
  BY DEF Receive, PlayerInv, TypeOK
<1>2. m \in Replies /\ to_client' \in Seq(Replies) /\ m = to_client[1] /\ 1 \in DOMAIN to_client
  BY <1>1, TakeParts
<1>3. Carries(m) => /\ m.version \in 1..Len(history)
                    /\ \A q \in Objects : mirror[q] <= m.version
  BY <1>2 DEF PlayerInv, Fresh
<1>4. QED  BY <1>1, <1>2, <1>3, MessageTypes

\* The message is of no use to a proxy's mirror.
LEMMA UnseenInv ==
  ASSUME PlayerInv, NEW m, Receive(m),
         pending' \in SUBSET Ids, calls' \in [Ids -> Objects \cup {None}],
         table' = table \/ table' = None,
         UNCHANGED <<player_vars, server_vars, to_server, present, held, mirror, used>>
  PROVE  PlayerInv'
<1>1. /\ to_client # <<>> /\ to_client' = Tail(to_client) /\ to_client' \in Seq(Replies)
  BY ReceiveParts
<1>2. TypeOK'
  BY <1>1 DEF PlayerInv, TypeOK, player_vars, server_vars
<1>3. \A q \in Objects : mirror'[q] \in Nat /\ mirror'[q] <= mirror[q]
  BY DEF PlayerInv, TypeOK
<1>4. Fresh' /\ InOrder'
  BY <1>1, <1>3, OneLess DEF player_vars
<1>5. TableLive' /\ Shown'
  BY DEF PlayerInv, TableLive, Shown, player_vars
<1>6. QED  BY <1>2, <1>4, <1>5 DEF PlayerInv

LEMMA UnseenSteps ==
  ASSUME PlayerInv, NEW m, ReplyDropped(m) \/ AnswerArrives(m) \/ PropertiesUnwanted(m)
  PROVE  PlayerInv'
<1>1. /\ pending \in SUBSET Ids /\ calls \in [Ids -> Objects \cup {None}]
  BY DEF PlayerInv, TypeOK
<1>2. CASE ReplyDropped(m)
  BY <1>1, <1>2, UnseenInv DEF ReplyDropped, service_vars, proxy_vars
<1>3. CASE AnswerArrives(m)
  BY <1>1, <1>3, UnseenInv DEF AnswerArrives, service_vars
<1>4. CASE PropertiesUnwanted(m)
  BY <1>1, <1>4, UnseenInv DEF PropertiesUnwanted, proxy_vars
<1>5. QED  BY <1>2, <1>3, <1>4

\* Proxy q, which is or comes into the table, shows the value of the message.
LEMMA SeenInv ==
  ASSUME PlayerInv, NEW m, Receive(m), Carries(m), NEW q \in Objects,
         pending' \in SUBSET Ids, held' = held \cup {q}, table' = q,
         mirror' = [mirror EXCEPT ![q] = m.version],
         UNCHANGED <<player_vars, server_vars, to_server, present, calls, used>>
  PROVE  PlayerInv'
<1>1. /\ to_client # <<>> /\ to_client' = Tail(to_client) /\ to_client' \in Seq(Replies)
      /\ m = Head(to_client) /\ m.version \in 1..Len(history) /\ m.version \in Nat
  BY ReceiveParts
<1>2. mirror \in [Objects -> Nat] /\ Len(history) \in Nat
  BY HistoryParts DEF PlayerInv, TypeOK
<1>3. /\ mirror' \in [Objects -> Nat] /\ mirror'[q] = m.version
      /\ \A p \in Objects \ {q} : mirror'[p] = mirror[p]
  BY <1>1, <1>2
<1>4. TypeOK'
  BY <1>1, <1>3 DEF PlayerInv, TypeOK, player_vars, server_vars
<1>5. Fresh' /\ InOrder'
  <2>1. history' = history
    BY DEF player_vars
  <2>2. \A p \in Objects : /\ mirror'[p] \in Nat
                           /\ mirror'[p] <= mirror[p] \/ mirror'[p] = m.version
    BY <1>1, <1>2, <1>3
  <2>3. QED  BY <1>1, <2>1, <2>2, OneLess
<1>6. Shown'
  <2>1. history' = history
    BY DEF player_vars
  <2>2. \A p \in Objects : mirror'[p] <= Len(history)
    <3>1. \A p \in Objects : mirror[p] <= Len(history)
      BY DEF PlayerInv, Shown
    <3>2. m.version <= Len(history)
      BY <1>1, <1>2
    <3>3. QED  BY <1>3, <3>1, <3>2
  <2>3. QED  BY <1>3, <2>1, <2>2 DEF PlayerInv, Shown
<1>7. TableLive'
  BY DEF TableLive
<1>8. QED  BY <1>4, <1>5, <1>6, <1>7 DEF PlayerInv

LEMMA EventArrivesInv ==
  ASSUME PlayerInv, NEW m, EventArrives(m)
  PROVE  PlayerInv'
<1>1. table \in Objects /\ table \in held /\ held = held \cup {table} /\ pending \in SUBSET Ids
  BY DEF EventArrives, PlayerInv, TypeOK, TableLive
<1>2. PICK q \in Objects : q = table
  BY <1>1
<1>3. Receive(m) /\ Carries(m) /\ mirror' = [mirror EXCEPT ![q] = m.version]
  BY <1>2 DEF EventArrives, Carries
<1>4. /\ UNCHANGED <<player_vars, server_vars, to_server, present, calls, used>>
      /\ pending' = pending /\ held' = held /\ table' = table
  BY DEF EventArrives, service_vars
<1>5. QED  BY <1>1, <1>2, <1>3, <1>4, SeenInv

LEMMA PropertiesArriveInv ==
  ASSUME PlayerInv, NEW m, NEW q \in Objects, PropertiesArrive(m, q)
  PROVE  PlayerInv'
<1>1. pending' \in SUBSET Ids
  BY DEF PropertiesArrive, PlayerInv, TypeOK
<1>2. QED  BY <1>1, SeenInv DEF PropertiesArrive, Carries

-----------------------------------------------------------------------------
(* The invariant *)

LEMMA PlayerInitInv == Init => PlayerInv
<1>1. SUFFICES ASSUME Init PROVE PlayerInv
  OBVIOUS
<1>2. PICK v \in Values : history = <<v>>
  BY <1>1 DEF Init
<1>3. history \in Seq(Values) \ {<<>>} /\ Len(history) = 1
  BY <1>2
<1>4. to_server = <<>> /\ to_client = <<>> /\ DOMAIN to_client = {}
  <2>1. to_server = <<>> /\ to_client = <<>>
    BY <1>1 DEF Init
  <2>2. QED  BY <2>1
<1>5. to_server \in Seq(Invocations) /\ to_client \in Seq(Replies)
  BY <1>4, EmptySeq
<1>6. TypeOK
  BY <1>1, <1>3, <1>5 DEF Init, TypeOK
<1>7. Fresh /\ InOrder
  BY <1>4 DEF Fresh, InOrder
<1>8. TableLive /\ Shown
  BY <1>1, <1>3 DEF Init, TableLive, Shown
<1>9. QED  BY <1>6, <1>7, <1>8 DEF PlayerInv

LEMMA PlayerStepInv == PlayerInv /\ [Next]_vars => PlayerInv'
<1>1. SUFFICES ASSUME PlayerInv, [Next]_vars PROVE PlayerInv'
  OBVIOUS
<1>2. CASE UNCHANGED vars
  BY <1>1, <1>2 DEF vars, player_vars, server_vars, network_vars, service_vars, proxy_vars,
     PlayerInv, TypeOK, TableLive, Shown, Fresh, InOrder, Carries
<1>3. CASE PlayerStep
  <2>1. CASE \E v \in Values : SetProperty(v)
    BY <1>1, <2>1, SetPropertyInv
  <2>2. CASE \E i \in Ids : NextReturn(i)
    BY <1>1, <2>2, NextReturnInv
  <2>3. CASE (\E i \in Ids : NextTimeout(i)) \/ PlayerDestroyed \/ PeerLost \/ PeerFound
    BY <1>1, <2>3, PlayerQuiet
  <2>4. QED  BY <1>3, <2>1, <2>2, <2>3 DEF PlayerStep
<1>4. CASE RemoteStep
  <2>1. CASE \E q \in Objects : DropProxy(q)
    BY <1>1, <2>1, DropProxyInv
  <2>2. CASE ServiceLost \/ ServiceFound
    BY <1>1, <2>2, RostersQuiet
  <2>3. CASE \E i \in Ids : CreateProxy(i)
    BY <1>1, <2>3, CreateProxyQuiet
  <2>4. CASE \E q \in Objects, v \in Values : ProxySet(q, v) \/ ProxyPlay(q, v)
    BY <1>1, <2>4, ProxySetQuiet
  <2>5. CASE \E q \in Objects, i \in Ids : ProxyNext(q, i)
    BY <1>1, <2>5, ProxyNextQuiet
  <2>6. QED  BY <1>4, <2>1, <2>2, <2>3, <2>4, <2>5 DEF RemoteStep
<1>5. CASE ServerReceives
  BY <1>1, <1>5, ServerQuiet, RegisterArrivesInv, SetArrivesInv
     DEF ServerReceives, InvocationArrives
<1>6. CASE ClientReceives
  BY <1>1, <1>6, UnseenSteps, EventArrivesInv, PropertiesArriveInv
     DEF ClientReceives, ReplyArrives
<1>7. QED  BY <1>1, <1>2, <1>3, <1>4, <1>5, <1>6 DEF Next

-----------------------------------------------------------------------------
(* What holds of a player and its proxies *)

\* The invariant, in every behaviour.
THEOREM PlayerInvariant == Spec => []PlayerInv
<1>1. QED  BY PlayerInitInv, PlayerStepInv, PTL DEF Spec

\* Tables, queues and calls have their types.
THEOREM PlayerTypeCorrect == Spec => []TypeOK
<1>1. PlayerInv => TypeOK
  BY DEF PlayerInv
<1>2. QED  BY <1>1, PlayerInvariant, PTL

\* yts-proxy-service.c never dispatches to a proxy that was destroyed.
THEOREM TableStaysLive == Spec => []TableLive
<1>1. PlayerInv => TableLive
  BY DEF PlayerInv
<1>2. QED  BY <1>1, PlayerInvariant, PTL

LEMMA MirrorInit == Init => Mirror!Init
  BY DEF Init, Mirror!Init

\* A change is a change of the property, what a proxy takes is learnt or repeated,
\* one that goes is forgotten, and the rest is between the clients.
LEMMA MirrorStep == PlayerInv /\ [Next]_vars => [Mirror!Next]_<<history, mirror>>
<1>1. SUFFICES ASSUME PlayerInv, [Next]_vars PROVE [Mirror!Next]_<<history, mirror>>
  OBVIOUS
<1>2. CASE UNCHANGED <<history, mirror>>
  BY <1>2
<1>3. CASE \E v \in Values : history' = Append(history, v) /\ mirror' = mirror
  BY <1>3 DEF Mirror!Next, Mirror!Set
<1>4. CASE \E q \in Objects : DropProxy(q)
  BY <1>4 DEF DropProxy, player_vars, Mirror!Next, Mirror!Forget
<1>5. ASSUME NEW m, Receive(m), Carries(m), NEW q \in Objects, history' = history,
             mirror' = [mirror EXCEPT ![q] = m.version]
      PROVE  [Mirror!Next]_<<history, mirror>>
  <2>1. /\ m.version \in 1..Len(history) /\ mirror[q] <= m.version /\ m.version \in Nat
        /\ mirror \in [Objects -> Nat] /\ Len(history) \in Nat
    BY <1>1, <1>5, ReceiveParts, HistoryParts DEF PlayerInv, TypeOK
  <2>2. CASE mirror[q] = m.version
    BY <1>5, <2>1, <2>2
  <2>3. CASE mirror[q] # m.version
    <3>1. m.version \in (mirror[q] + 1)..Len(history)
      BY <2>1, <2>3
    <3>2. QED  BY <1>5, <3>1 DEF Mirror!Next, Mirror!Learn
  <2>4. QED  BY <2>2, <2>3
<1>6. CASE \E m : EventArrives(m)
  <2>1. PICK m : EventArrives(m)
    BY <1>6
  <2>2. /\ Receive(m) /\ Carries(m) /\ table \in Objects /\ history' = history
        /\ mirror' = [mirror EXCEPT ![table] = m.version]
    BY <1>1, <2>1 DEF EventArrives, Carries, player_vars, PlayerInv, TypeOK
  <2>3. QED  BY <1>5, <2>2
<1>7. CASE \E m : \E q \in Objects : PropertiesArrive(m, q)
  BY <1>5, <1>7 DEF PropertiesArrive, Carries, player_vars
<1>8. CASE PlayerStep
  BY <1>2, <1>3, <1>8 DEF PlayerStep, SetProperty, NextReturn, NextTimeout, PlayerDestroyed,
     PeerLost, PeerFound, player_vars, proxy_vars
<1>9. CASE RemoteStep
  BY <1>2, <1>4, <1>9 DEF RemoteStep, CreateProxy, ProxySet, ProxyPlay, ProxyNext, ServiceLost,
     ServiceFound, player_vars, proxy_vars
<1>10. CASE ServerReceives
  <2>1. CASE SetArrives(Head(to_server))
    <3>1. mirror' = mirror
      BY <2>1 DEF SetArrives, proxy_vars
    <3>2. QED  BY <1>1, <1>3, <2>1, <3>1, SetArrivesInv
  <2>2. CASE ~SetArrives(Head(to_server))
    BY <1>2, <1>10, <2>2 DEF ServerReceives, InvocationArrives, InvocationDropped,
       RegisterArrives, NextArrives, player_vars, proxy_vars
  <2>3. QED  BY <2>1, <2>2
<1>11. CASE ClientReceives
  BY <1>2, <1>6, <1>7, <1>11 DEF ClientReceives, ReplyArrives, ReplyDropped, AnswerArrives,
     PropertiesUnwanted, player_vars, proxy_vars
<1>12. CASE UNCHANGED vars
  BY <1>2, <1>12 DEF vars, player_vars, proxy_vars
<1>13. QED  BY <1>1, <1>8, <1>9, <1>10, <1>11, <1>12 DEF Next

\* The player proxies of a client implement the promise of YtsMirror: a proxy shows
\* a value the property has had, and never goes back to an earlier one.
THEOREM ProxiesMirror == Spec => MirrorSpec
<1>1. QED  BY MirrorInit, MirrorStep, PlayerInvariant, PTL DEF Spec, MirrorSpec, Mirror!Spec
-----------------------------------------------------------------------------
(* No proxy is left behind.  Registrations and their answers are in line: one *)
(* behind another was made later, and is wanted if that is.  So the answer to *)
(* one that is not wanted any more never comes after a proxy was made, and    *)
(* no value on its way is lost on the proxy in the table.                     *)

Registers(m) == m.type = "register"
Answers(m) == m.type = "properties"

\* Ids under way were drawn.
Known ==
  /\ \A k \in DOMAIN to_server : Registers(to_server[k]) => to_server[k].id \in used
  /\ \A k \in DOMAIN to_client : Answers(to_client[k]) => to_client[k].id \in used
  /\ pending \subseteq used

Follows(i, j) == i # j /\ (i \in pending => j \in pending)

InLine ==
  /\ \A j, k \in DOMAIN to_server :
       j < k /\ Registers(to_server[j]) /\ Registers(to_server[k]) =>
       Follows(to_server[j].id, to_server[k].id)
  /\ \A j, k \in DOMAIN to_client :
       j < k /\ Answers(to_client[j]) /\ Answers(to_client[k]) =>
       Follows(to_client[j].id, to_client[k].id)
  /\ \A j \in DOMAIN to_client, k \in DOMAIN to_server :
       Answers(to_client[j]) /\ Registers(to_server[k]) =>
       Follows(to_client[j].id, to_server[k].id)

\* With a proxy in the table, whatever is under way is still wanted.
Wanted ==
  table # None =>
    /\ \A k \in DOMAIN to_server : Registers(to_server[k]) => to_server[k].id \in pending
    /\ \A k \in DOMAIN to_client : Answers(to_client[k]) => to_client[k].id \in pending

\* The present value is on its way.
Said ==
  \E k \in DOMAIN to_client :
    Carries(to_client[k]) /\ to_client[k].version = Len(history)

\* Where values are on their way the present one is the last of them, and where
\* none is the proxy shows it.
Told ==
  registered /\ published =>
    /\ (\E k \in DOMAIN to_client : Carries(to_client[k])) => Said
    /\ table # None => mirror[table] = Len(history) \/ Said

LineInv == Known /\ InLine /\ Wanted
ToldInv == PlayerInv /\ LineInv /\ Told

\* What is left of a queue is all there was but the head.
LEMMA TailParts ==
  ASSUME NEW S, NEW queue \in Seq(S), queue # <<>>
  PROVE  \A k \in DOMAIN queue :
           k = 1 \/ (k - 1 \in DOMAIN Tail(queue) /\ Tail(queue)[k - 1] = queue[k])
<1>1. /\ Len(queue) \in Nat /\ DOMAIN queue = 1..Len(queue) /\ Tail(queue) \in Seq(S)
      /\ Len(Tail(queue)) = Len(queue) - 1
      /\ \A k \in 1..Len(Tail(queue)) : Tail(queue)[k] = queue[k + 1]
  BY HeadTailProperties, LenProperties
<1>2. DOMAIN Tail(queue) = 1..Len(Tail(queue))
  BY <1>1, LenProperties
<1>3. ASSUME NEW k \in DOMAIN queue, k # 1
      PROVE  k - 1 \in DOMAIN Tail(queue) /\ Tail(queue)[k - 1] = queue[k]
  <2>1. k \in 1..Len(queue) /\ k - 1 \in 1..Len(Tail(queue)) /\ (k - 1) + 1 = k
    BY <1>1, <1>3
  <2>2. QED  BY <1>1, <1>2, <2>1
<1>4. QED  BY <1>3

\* A queue with a message more.
LEMMA AppendParts ==
  ASSUME NEW S, NEW queue \in Seq(S), NEW m
  PROVE  \E n \in Nat : /\ DOMAIN queue = 1..n /\ DOMAIN Append(queue, m) = 1..(n + 1)
                        /\ \A k \in 1..n : Append(queue, m)[k] = queue[k]
                        /\ Append(queue, m)[n + 1] = m
<1>1. queue \in Seq(S \cup {m})
  BY SeqMonotonic
<1>2. /\ Append(queue, m) \in Seq(S \cup {m}) /\ Len(Append(queue, m)) = Len(queue) + 1
      /\ \A k \in 1..Len(queue) : Append(queue, m)[k] = queue[k]
      /\ Append(queue, m)[Len(queue) + 1] = m
  BY <1>1, AppendProperties
<1>3. /\ Len(queue) \in Nat /\ DOMAIN queue = 1..Len(queue)
      /\ DOMAIN Append(queue, m) = 1..(Len(queue) + 1)
  BY <1>1, <1>2, LenProperties
<1>4. QED  BY <1>2, <1>3, Zenon

\* The registrations of one queue are those of another, d places further on.
Moved(queue, rest, d) ==
  \A k \in DOMAIN rest :
    /\ k \in Nat
    /\ Registers(rest[k]) \/ Answers(rest[k]) =>
         k + d \in DOMAIN queue /\ queue[k + d] = rest[k]

LEMMA MovedSame ==
  ASSUME NEW S, NEW queue \in Seq(S)
  PROVE  Moved(queue, queue, 0)
<1>1. DOMAIN queue = 1..Len(queue) /\ Len(queue) \in Nat
  BY LenProperties
<1>2. \A k \in 1..Len(queue) : k \in Nat /\ k + 0 = k
  BY <1>1
<1>3. QED  BY <1>1, <1>2 DEF Moved

LEMMA MovedTail ==
  ASSUME NEW S, NEW queue \in Seq(S), queue # <<>>
  PROVE  Moved(queue, Tail(queue), 1)
  BY TakeParts DEF Moved

LEMMA MovedAppend ==
  ASSUME NEW S, NEW queue \in Seq(S), NEW m, ~Registers(m), ~Answers(m)
  PROVE  Moved(queue, Append(queue, m), 0)
<1>1. PICK n \in Nat : /\ DOMAIN queue = 1..n /\ DOMAIN Append(queue, m) = 1..(n + 1)
                       /\ \A k \in 1..n : Append(queue, m)[k] = queue[k]
                       /\ Append(queue, m)[n + 1] = m
  BY AppendParts
<1>2. \A k \in 1..(n + 1) : k \in Nat /\ k + 0 = k /\ (k \in 1..n \/ k = n + 1)
  BY <1>1
<1>3. QED  BY <1>1, <1>2 DEF Moved

\* No registration is made or answered, and those under way are wanted as before
\* unless none is any more.
LEMMA LineKept ==
  ASSUME Known, InLine, NEW d \in {0, 1}, NEW e \in {0, 1},
         Moved(to_server, to_server', d), Moved(to_client, to_client', e),
         used \subseteq used', pending' \subseteq pending,
         \/ pending' = {}
         \/ /\ \A k \in DOMAIN to_server' : Registers(to_server'[k]) =>
                 (to_server'[k].id \in pending' <=> to_server'[k].id \in pending)
            /\ \A k \in DOMAIN to_client' : Answers(to_client'[k]) =>
                 (to_client'[k].id \in pending' <=> to_client'[k].id \in pending)
  PROVE  Known' /\ InLine'
<1>1. Known'
  BY DEF Known, Moved, Registers, Answers
<1>2. ASSUME NEW j \in DOMAIN to_server', NEW k \in DOMAIN to_server', j < k,
             Registers(to_server'[j]), Registers(to_server'[k])
      PROVE  Follows(to_server[j + d].id, to_server[k + d].id)
  <2>1. /\ j \in Nat /\ k \in Nat /\ j + d \in DOMAIN to_server /\ k + d \in DOMAIN to_server
        /\ to_server[j + d] = to_server'[j] /\ to_server[k + d] = to_server'[k]
    BY <1>2 DEF Moved
  <2>2. j + d < k + d
    BY <1>2, <2>1
  <2>3. QED  BY <1>2, <2>1, <2>2 DEF InLine
<1>3. ASSUME NEW j \in DOMAIN to_client', NEW k \in DOMAIN to_client', j < k,
             Answers(to_client'[j]), Answers(to_client'[k])
      PROVE  Follows(to_client[j + e].id, to_client[k + e].id)
  <2>1. /\ j \in Nat /\ k \in Nat /\ j + e \in DOMAIN to_client /\ k + e \in DOMAIN to_client
        /\ to_client[j + e] = to_client'[j] /\ to_client[k + e] = to_client'[k]
    BY <1>3 DEF Moved
  <2>2. j + e < k + e
    BY <1>3, <2>1
  <2>3. QED  BY <1>3, <2>1, <2>2 DEF InLine
<1>4. ASSUME NEW j \in DOMAIN to_client', NEW k \in DOMAIN to_server',
             Answers(to_client'[j]), Registers(to_server'[k])
      PROVE  Follows(to_client[j + e].id, to_server[k + d].id)
  BY <1>4 DEF Moved, InLine
<1>5. InLine'
  BY <1>2, <1>3, <1>4 DEF InLine, Moved, Follows, Registers, Answers
<1>6. QED  BY <1>1, <1>5

\* The same, with the proxies wanted as before.
LEMMA LineQuiet ==
  ASSUME LineInv, NEW d \in {0, 1}, NEW e \in {0, 1},
         Moved(to_server, to_server', d), Moved(to_client, to_client', e),
         used \subseteq used', pending' = pending, table' = table \/ table' = None
  PROVE  LineInv'
<1>1. Known' /\ InLine'
  BY LineKept DEF LineInv
<1>2. Wanted'
  BY DEF LineInv, Wanted, Moved, Registers, Answers
<1>3. QED  BY <1>1, <1>2 DEF LineInv
-----------------------------------------------------------------------------
(* The line, step by step *)

\* Both queues as they are, and what may go from them.
LEMMA Queues ==
  ASSUME TypeOK
  PROVE  /\ to_server \in Seq(Invocations) /\ to_client \in Seq(Replies)
         /\ Moved(to_server, to_server, 0) /\ Moved(to_client, to_client, 0)
         /\ to_server # <<>> => Moved(to_server, Tail(to_server), 1)
         /\ to_client # <<>> => Moved(to_client, Tail(to_client), 1)
<1>1. to_server \in Seq(Invocations) /\ to_client \in Seq(Replies)
  BY DEF TypeOK
<1>2. QED  BY <1>1, MovedSame, MovedTail

\* Messages that have to do with no registration.
LEMMA OtherMessages ==
  /\ \A n : LET m == [type |-> "event", version |-> n] IN ~Registers(m) /\ ~Answers(m)
  /\ \A i : LET m == [type |-> "answer", id |-> i] IN ~Registers(m) /\ ~Answers(m) /\ ~Carries(m)
  /\ \A v : LET m == [type |-> "set", value |-> v] IN ~Registers(m) /\ ~Answers(m)
  /\ \A i : LET m == [type |-> "next", id |-> i] IN ~Registers(m) /\ ~Answers(m)
  BY DEF Registers, Answers, Carries

\* Nothing is sent, or something of that kind.
Besides(queue, rest) ==
  rest = queue \/ \E m : rest = Append(queue, m) /\ ~Registers(m) /\ ~Answers(m)

LEMMA MovedBesides ==
  ASSUME NEW S, NEW queue \in Seq(S), NEW rest, Besides(queue, rest)
  PROVE  Moved(queue, rest, 0)
  BY MovedSame, MovedAppend DEF Besides

\* What is announced is an event.
LEMMA AnnounceBesides ==
  ASSUME NEW h, Announce(h)
  PROVE  Besides(to_client, to_client')
<1>1. PICK m : m = [type |-> "event", version |-> Len(h)]
  OBVIOUS
<1>2. to_client' = to_client \/ to_client' = Append(to_client, m)
  BY <1>1 DEF Announce
<1>3. ~Registers(m) /\ ~Answers(m)
  BY <1>1, OtherMessages
<1>4. QED  BY <1>2, <1>3 DEF Besides

\* The player answers next, changes, or goes; its client loses or finds its peer.
LEMMA PlayerLine ==
  ASSUME TypeOK, LineInv, PlayerStep
  PROVE  LineInv'
<1>1. to_server' = to_server /\ pending' = pending /\ table' = table /\ used' = used
  BY DEF PlayerStep, SetProperty, NextReturn, NextTimeout, PlayerDestroyed, PeerLost, PeerFound,
     network_vars, service_vars
<1>2. Besides(to_client, to_client')
  <2>1. CASE \E v \in Values : SetProperty(v)
    BY <2>1, AnnounceBesides DEF SetProperty
  <2>2. ASSUME NEW i \in Ids, NextReturn(i) PROVE Besides(to_client, to_client')
    <3>1. PICK m : m = [type |-> "answer", id |-> i] /\ to_client' = Append(to_client, m)
      BY <2>2 DEF NextReturn
    <3>2. ~Registers(m) /\ ~Answers(m)
      BY <3>1, OtherMessages
    <3>3. QED  BY <3>1, <3>2 DEF Besides
  <2>3. CASE (\E i \in Ids : NextTimeout(i)) \/ PlayerDestroyed \/ PeerLost \/ PeerFound
    BY <2>3 DEF NextTimeout, PlayerDestroyed, PeerLost, PeerFound, network_vars, Besides
  <2>4. QED  BY <2>1, <2>2, <2>3 DEF PlayerStep
<1>3. Moved(to_server, to_server', 0) /\ Moved(to_client, to_client', 0)
  BY <1>1, <1>2, Queues, MovedBesides
<1>4. QED  BY <1>1, <1>3, LineQuiet

\* A registration is the last of the line, and wanted; its id is new.
LEMMA CreateProxyLine ==
  ASSUME TypeOK, LineInv, NEW i \in Ids, CreateProxy(i)
  PROVE  LineInv'
<1> DEFINE m == [type |-> "register", id |-> i]
           Behind(x, y) == x # y /\ (x \in pending' => y \in pending')
<1>1. /\ to_server \in Seq(Invocations) /\ to_server' = Append(to_server, m)
      /\ pending' = pending \cup {i} /\ i \notin used /\ used' = used \cup {i}
      /\ to_client' = to_client /\ table' = table
  BY DEF CreateProxy, Send, Draw, TypeOK
<1>2. m.type = "register" /\ m.id = i
  OBVIOUS
<1> HIDE DEF m
<1>3. PICK n \in Nat : /\ DOMAIN to_server = 1..n /\ DOMAIN to_server' = 1..(n + 1)
                       /\ \A k \in 1..n : to_server'[k] = to_server[k]
                       /\ to_server'[n + 1] = m
  BY <1>1, AppendParts
<1>4. \A k \in DOMAIN to_server' : k \in DOMAIN to_server \/ (k = n + 1 /\ to_server'[k] = m)
  BY <1>3
<1>5. \A j, k \in DOMAIN to_server' : j < k => j \in DOMAIN to_server
  BY <1>3
<1>6. /\ \A k \in DOMAIN to_server : Registers(to_server[k]) =>
           to_server[k].id \in used /\ to_server[k].id # i
      /\ \A k \in DOMAIN to_client : Answers(to_client[k]) =>
           to_client[k].id \in used /\ to_client[k].id # i
  BY <1>1 DEF LineInv, Known
<1>7. Known'
  BY <1>1, <1>2, <1>3, <1>4, <1>6 DEF LineInv, Known, Registers, Answers
<1>8. \A j, k \in DOMAIN to_server' :
        j < k /\ Registers(to_server'[j]) /\ Registers(to_server'[k]) =>
        Behind(to_server'[j].id, to_server'[k].id)
  <2> SUFFICES ASSUME NEW j \in DOMAIN to_server', NEW k \in DOMAIN to_server', j < k,
                      Registers(to_server'[j]), Registers(to_server'[k])
               PROVE  Behind(to_server'[j].id, to_server'[k].id)
    OBVIOUS
  <2>1. j \in DOMAIN to_server /\ to_server'[j] = to_server[j] /\ to_server[j].id # i
    BY <1>3, <1>5, <1>6
  <2>2. CASE k \in DOMAIN to_server
    <3>1. to_server'[k] = to_server[k] /\ to_server[k].id # i
      BY <1>3, <1>6, <2>2
    <3>2. Follows(to_server[j].id, to_server[k].id)
      BY <2>1, <2>2, <3>1 DEF LineInv, InLine
    <3>3. QED  BY <1>1, <2>1, <3>1, <3>2 DEF Follows
  <2>3. CASE to_server'[k] = m
    BY <1>1, <1>2, <2>1, <2>3 DEF Follows
  <2>4. QED  BY <1>4, <2>2, <2>3
<1>9. \A j \in DOMAIN to_client, k \in DOMAIN to_server' :
        Answers(to_client[j]) /\ Registers(to_server'[k]) =>
        Behind(to_client[j].id, to_server'[k].id)
  <2> SUFFICES ASSUME NEW j \in DOMAIN to_client, NEW k \in DOMAIN to_server',
                      Answers(to_client[j]), Registers(to_server'[k])
               PROVE  Behind(to_client[j].id, to_server'[k].id)
    OBVIOUS
  <2>1. CASE k \in DOMAIN to_server
    <3>1. to_server'[k] = to_server[k]
      BY <1>3, <2>1
    <3>2. Follows(to_client[j].id, to_server[k].id) /\ to_client[j].id # i
      BY <1>6, <2>1, <3>1 DEF LineInv, InLine
    <3>3. QED  BY <1>1, <3>1, <3>2 DEF Follows
  <2>2. CASE to_server'[k] = m
    BY <1>1, <1>2, <1>6, <2>2 DEF Follows
  <2>3. QED  BY <1>4, <2>1, <2>2
<1>10. \A j, k \in DOMAIN to_client :
         j < k /\ Answers(to_client[j]) /\ Answers(to_client[k]) =>
         Behind(to_client[j].id, to_client[k].id)
  BY <1>1, <1>6 DEF LineInv, InLine, Follows
<1>11. InLine'
  BY <1>1, <1>8, <1>9, <1>10 DEF InLine, Follows, Registers, Answers
<1>12. Wanted'
  BY <1>1, <1>2, <1>3, <1>4 DEF LineInv, Wanted, Registers, Answers
<1>13. QED  BY <1>7, <1>11, <1>12 DEF LineInv

\* Steps of the remote control that register nothing.
LEMMA RemoteLine ==
  ASSUME TypeOK, LineInv,
         \/ \E q \in Objects, v \in Values : ProxySet(q, v) \/ ProxyPlay(q, v)
         \/ \E q \in Objects, i \in Ids : ProxyNext(q, i)
         \/ \E q \in Objects : DropProxy(q)
         \/ ServiceFound
  PROVE  LineInv'
<1>1. to_client' = to_client /\ pending' = pending /\ (table' = table \/ table' = None) /\ used \subseteq used'
  BY DEF ProxySet, ProxyPlay, ProxyNext, DropProxy, ProxyDestroyed, ServiceFound, Draw,
     network_vars, service_vars
<1>2. Besides(to_server, to_server')
  <2>1. ASSUME NEW q \in Objects, NEW v \in Values, ProxySet(q, v) \/ ProxyPlay(q, v)
        PROVE  Besides(to_server, to_server')
    <3>1. PICK m : m = [type |-> "set", value |-> v] /\ to_server' = Append(to_server, m)
      BY <2>1 DEF ProxySet, ProxyPlay, Send
    <3>2. ~Registers(m) /\ ~Answers(m)
      BY <3>1, OtherMessages
    <3>3. QED  BY <3>1, <3>2 DEF Besides
  <2>2. ASSUME NEW q \in Objects, NEW i \in Ids, ProxyNext(q, i)
        PROVE  Besides(to_server, to_server')
    <3>1. PICK m : m = [type |-> "next", id |-> i] /\ to_server' = Append(to_server, m)
      BY <2>2 DEF ProxyNext, Send
    <3>2. ~Registers(m) /\ ~Answers(m)
      BY <3>1, OtherMessages
    <3>3. QED  BY <3>1, <3>2 DEF Besides
  <2>3. CASE (\E q \in Objects : DropProxy(q)) \/ ServiceFound
    BY <2>3 DEF DropProxy, ServiceFound, network_vars, Besides
  <2>4. QED  BY <2>1, <2>2, <2>3
<1>3. Moved(to_server, to_server', 0) /\ Moved(to_client, to_client', 0)
  BY <1>1, <1>2, Queues, MovedBesides
<1>4. QED  BY <1>1, <1>3, LineQuiet

\* With the service goes every registration that waits.
LEMMA ServiceLostLine ==
  ASSUME TypeOK, LineInv, ServiceLost
  PROVE  LineInv'
<1>1. /\ to_server' = to_server /\ to_client' = to_client /\ used' = used
      /\ pending' = {} /\ table' = None
  BY DEF ServiceLost, network_vars
<1>2. Moved(to_server, to_server', 0) /\ Moved(to_client, to_client', 0)
  BY <1>1, Queues
<1>3. Known' /\ InLine'
  BY <1>1, <1>2, LineKept DEF LineInv
<1>4. QED  BY <1>1, <1>3 DEF LineInv, Wanted

\* The player's client takes a message, and answers a registration.
LEMMA ServerQuietLine ==
  ASSUME TypeOK, LineInv, NEW m, InvocationDropped(m) \/ SetArrives(m) \/ NextArrives(m)
  PROVE  LineInv'
<1>1. /\ to_server # <<>> /\ to_server' = Tail(to_server) /\ used' = used
      /\ pending' = pending /\ table' = table
  BY DEF InvocationDropped, SetArrives, NextArrives, Take, service_vars
<1>2. Besides(to_client, to_client')
  BY AnnounceBesides DEF InvocationDropped, SetArrives, NextArrives, Besides
<1>3. Moved(to_server, to_server', 1) /\ Moved(to_client, to_client', 0)
  BY <1>1, <1>2, Queues, MovedBesides
<1>4. QED  BY <1>1, <1>3, LineQuiet

LEMMA RegisterArrivesLine ==
  ASSUME TypeOK, LineInv, NEW r, RegisterArrives(r)
  PROVE  LineInv'
<1>1. /\ to_server # <<>> /\ to_server' = Tail(to_server) /\ used' = used /\ r = Head(to_server)
      /\ pending' = pending /\ table' = table /\ r.type = "register"
      /\ to_server \in Seq(Invocations) /\ to_client \in Seq(Replies)
  BY DEF RegisterArrives, Take, service_vars, TypeOK
<1>2. Moved(to_server, to_server', 1)
  BY <1>1, Queues
<1>3. PICK m : /\ to_client' = Append(to_client, m) /\ ~Registers(m)
               /\ Answers(m) => m.id = r.id
  BY DEF RegisterArrives, Registers, Answers
<1>4. CASE ~Answers(m)
  <2>1. Moved(to_client, to_client', 0)
    BY <1>1, <1>3, <1>4, MovedAppend
  <2>2. QED  BY <1>1, <1>2, <2>1, LineQuiet
<1>5. CASE Answers(m)
  <2>1. PICK n \in Nat : /\ DOMAIN to_client = 1..n /\ DOMAIN to_client' = 1..(n + 1)
                         /\ \A k \in 1..n : to_client'[k] = to_client[k]
                         /\ to_client'[n + 1] = m
    <3>1. to_client \in Seq(Replies)
      BY <1>1
    <3>2. PICK n \in Nat : /\ DOMAIN to_client = 1..n /\ DOMAIN Append(to_client, m) = 1..(n + 1)
                           /\ \A k \in 1..n : Append(to_client, m)[k] = to_client[k]
                           /\ Append(to_client, m)[n + 1] = m
      BY <3>1, AppendParts
    <3>3. QED  BY <1>3, <3>2
  <2>2. \A k \in DOMAIN to_client' : k \in DOMAIN to_client \/ (k = n + 1 /\ to_client'[k] = m)
    BY <2>1
  <2>3. \A j, k \in DOMAIN to_client' : j < k => j \in DOMAIN to_client
    BY <2>1
  <2>4. /\ r = to_server[1] /\ 1 \in DOMAIN to_server /\ Registers(r) /\ m.id = r.id
        /\ \A k \in DOMAIN to_server' :
             /\ k \in Nat /\ k + 1 \in DOMAIN to_server
             /\ to_server'[k] = to_server[k + 1] /\ 1 < k + 1
    BY <1>1, <1>3, <1>5, TakeParts DEF Registers
  <2>5. Known'
    BY <1>1, <1>3, <1>5, <2>1, <2>2, <2>4 DEF LineInv, Known, Registers, Answers
  <2>6. ASSUME NEW j \in DOMAIN to_server', NEW k \in DOMAIN to_server', j < k,
               Registers(to_server'[j]), Registers(to_server'[k])
        PROVE  Follows(to_server'[j].id, to_server'[k].id)
    <3>1. j + 1 < k + 1
      BY <2>4, <2>6
    <3>2. QED  BY <2>4, <2>6, <3>1 DEF LineInv, InLine
  <2>7. ASSUME NEW j \in DOMAIN to_client', NEW k \in DOMAIN to_client', j < k,
               Answers(to_client'[j]), Answers(to_client'[k])
        PROVE  Follows(to_client'[j].id, to_client'[k].id)
    <3>1. j \in DOMAIN to_client /\ to_client'[j] = to_client[j]
      BY <2>1, <2>3, <2>7
    <3>2. CASE k \in DOMAIN to_client
      BY <2>1, <2>7, <3>1, <3>2 DEF LineInv, InLine
    <3>3. CASE to_client'[k] = m
      BY <2>4, <2>7, <3>1, <3>3 DEF LineInv, InLine
    <3>4. QED  BY <2>2, <3>2, <3>3
  <2>8. ASSUME NEW j \in DOMAIN to_client', NEW k \in DOMAIN to_server',
               Answers(to_client'[j]), Registers(to_server'[k])
        PROVE  Follows(to_client'[j].id, to_server'[k].id)
    <3>1. CASE j \in DOMAIN to_client
      BY <2>1, <2>4, <2>8, <3>1 DEF LineInv, InLine
    <3>2. CASE to_client'[j] = m
      BY <2>4, <2>8, <3>2 DEF LineInv, InLine
    <3>3. QED  BY <2>2, <3>1, <3>2
  <2>9. InLine'
    BY <1>1, <2>6, <2>7, <2>8 DEF InLine, Follows, Registers, Answers
  <2>10. Wanted'
    BY <1>1, <2>1, <2>2, <2>4 DEF LineInv, Wanted, Registers, Answers
  <2>11. QED  BY <2>5, <2>9, <2>10 DEF LineInv
<1>6. QED  BY <1>4, <1>5

\* A reply is taken that makes no proxy.
LEMMA ClientQuietLine ==
  ASSUME TypeOK, LineInv, NEW m, ReplyDropped(m) \/ EventArrives(m) \/ AnswerArrives(m)
  PROVE  LineInv'
<1>1. /\ to_client # <<>> /\ to_client' = Tail(to_client) /\ to_server' = to_server
      /\ used' = used /\ pending' = pending /\ table' = table
  BY DEF ReplyDropped, EventArrives, AnswerArrives, Receive, service_vars
<1>2. Moved(to_server, to_server', 0) /\ Moved(to_client, to_client', 1)
  BY <1>1, Queues
<1>3. QED  BY <1>1, <1>2, LineQuiet

\* The answer to a registration that waits: all behind it are wanted.
LEMMA PropertiesLine ==
  ASSUME TypeOK, LineInv, NEW m,
         PropertiesUnwanted(m) \/ \E q \in Objects : PropertiesArrive(m, q)
  PROVE  LineInv'
<1>1. /\ to_client # <<>> /\ to_client' = Tail(to_client) /\ to_server' = to_server
      /\ used' = used /\ m = Head(to_client) /\ Answers(m) /\ m.id \in pending
      /\ pending' = pending \ {m.id} /\ to_client \in Seq(Replies)
  BY DEF PropertiesUnwanted, PropertiesArrive, Receive, Answers, TypeOK
<1>2. /\ m = to_client[1] /\ 1 \in DOMAIN to_client
      /\ \A k \in DOMAIN to_client' :
           k + 1 \in DOMAIN to_client /\ to_client'[k] = to_client[k + 1] /\ 1 < k + 1
  BY <1>1, TakeParts
<1>3. Moved(to_server, to_server', 0) /\ Moved(to_client, to_client', 1)
  BY <1>1, Queues
<1>4. /\ \A k \in DOMAIN to_server' : Registers(to_server'[k]) => Follows(m.id, to_server'[k].id)
      /\ \A k \in DOMAIN to_client' : Answers(to_client'[k]) => Follows(m.id, to_client'[k].id)
  BY <1>1, <1>2 DEF LineInv, InLine
<1>5. /\ \A k \in DOMAIN to_server' : Registers(to_server'[k]) =>
           to_server'[k].id \in pending /\ to_server'[k].id \in pending'
      /\ \A k \in DOMAIN to_client' : Answers(to_client'[k]) =>
           to_client'[k].id \in pending /\ to_client'[k].id \in pending'
  BY <1>1, <1>4 DEF Follows
<1>6. Known' /\ InLine'
  BY <1>1, <1>3, <1>5, LineKept DEF LineInv
<1>7. Wanted'
  BY <1>5 DEF Wanted, Registers, Answers
<1>8. QED  BY <1>6, <1>7 DEF LineInv

LEMMA LineStep ==
  ASSUME TypeOK, LineInv, [Next]_vars
  PROVE  LineInv'
<1>1. CASE UNCHANGED vars
  BY <1>1 DEF vars, network_vars, service_vars, LineInv, Known, InLine, Follows, Wanted,
     Registers, Answers
<1>2. CASE PlayerStep
  BY <1>2, PlayerLine
<1>3. CASE RemoteStep
  BY <1>3, CreateProxyLine, RemoteLine, ServiceLostLine DEF RemoteStep
<1>4. CASE ServerReceives
  BY <1>4, ServerQuietLine, RegisterArrivesLine DEF ServerReceives, InvocationArrives
<1>5. CASE ClientReceives
  BY <1>5, ClientQuietLine, PropertiesLine DEF ClientReceives, ReplyArrives
<1>6. QED  BY <1>1, <1>2, <1>3, <1>4, <1>5 DEF Next
-----------------------------------------------------------------------------
(* The present value, step by step *)

\* Nothing new is said or shown.
LEMMA ToldQuiet ==
  ASSUME Told, to_client' = to_client, history' = history,
         registered' => registered, published' => published,
         table' = None \/ (table' = table /\ mirror'[table] = mirror[table])
  PROVE  Told'
<1>1. Said => Said'
  BY DEF Said, Carries
<1>2. QED  BY <1>1 DEF Told, Carries

\* Something more is said to the remote control; if it is a value, the present one.
LEMMA ToldMore ==
  ASSUME TypeOK, Told, NEW m, to_client' = Append(to_client, m),
         Carries(m) => m.version = Len(history'),
         ~Carries(m) => history' = history /\ (registered' => registered),
         published' = published, table' = table, mirror' = mirror
  PROVE  Told'
<1>1. to_client \in Seq(Replies)
  BY DEF TypeOK
<1>2. PICK n \in Nat : /\ DOMAIN to_client = 1..n /\ DOMAIN Append(to_client, m) = 1..(n + 1)
                       /\ \A k \in 1..n : Append(to_client, m)[k] = to_client[k]
                       /\ Append(to_client, m)[n + 1] = m
  BY <1>1, AppendParts
<1>3. n + 1 \in 1..(n + 1) /\ \A k \in 1..(n + 1) : k \in 1..n \/ k = n + 1
  OBVIOUS
<1>4. \A k \in 1..n : k \in 1..(n + 1)
  OBVIOUS
<1>5. CASE Carries(m)
  <2>1. Said'
    BY <1>2, <1>3, <1>5 DEF Said, Carries
  <2>2. QED  BY <2>1 DEF Told
<1>6. CASE ~Carries(m)
  <2>1. Said => Said'
    BY <1>2, <1>4, <1>6 DEF Said, Carries
  <2>2. (\E k \in DOMAIN to_client' : Carries(to_client'[k])) =>
          \E k \in DOMAIN to_client : Carries(to_client[k])
    BY <1>2, <1>3, <1>6
  <2>3. QED  BY <1>6, <2>1, <2>2 DEF Told, Carries
<1>7. QED  BY <1>5, <1>6

\* A message is taken.  If the present value was on its way and that was not the
\* message, it still is; and if a value still is, so is the present one.
LEMMA SaidTail ==
  ASSUME PlayerInv, NEW m, Receive(m), history' = history
  PROVE  /\ Said => Said' \/ (Carries(m) /\ m.version = Len(history))
         /\ Said => ((\E k \in DOMAIN to_client' : Carries(to_client'[k])) => Said')
<1>1. /\ to_client \in Seq(Replies) /\ to_client # <<>>
      /\ m = Head(to_client) /\ to_client' = Tail(to_client)
  BY ReceiveParts DEF PlayerInv, TypeOK
<1>2. /\ m = to_client[1] /\ 1 \in DOMAIN to_client
      /\ \A k \in DOMAIN to_client' :
           k + 1 \in DOMAIN to_client /\ to_client'[k] = to_client[k + 1] /\ 1 < k + 1
  BY <1>1, TakeParts
<1>3. Said => Said' \/ (Carries(m) /\ m.version = Len(history))
  <2> SUFFICES ASSUME NEW w \in DOMAIN to_client, Carries(to_client[w]),
                      to_client[w].version = Len(history)
               PROVE  Said' \/ (Carries(m) /\ m.version = Len(history))
    BY DEF Said
  <2>1. CASE w = 1
    BY <1>2, <2>1
  <2>2. CASE w # 1
    <3>1. w - 1 \in DOMAIN to_client' /\ to_client'[w - 1] = to_client[w]
      BY <1>1, <2>2, TailParts
    <3>2. QED  BY <3>1 DEF Said, Carries
  <2>3. QED  BY <2>1, <2>2
<1>4. ASSUME NEW k \in DOMAIN to_client', Carries(to_client'[k]),
             Carries(m), m.version = Len(history)
      PROVE  Said'
  <2>1. /\ k + 1 \in DOMAIN to_client /\ to_client'[k] = to_client[k + 1] /\ 1 < k + 1
        /\ Carries(to_client[k + 1]) /\ Carries(to_client[1])
        /\ to_client[1].version = Len(history)
    BY <1>2, <1>4
  <2>2. to_client[1].version <= to_client[k + 1].version
    BY <1>2, <2>1 DEF PlayerInv, InOrder
  <2>3. to_client[k + 1].version \in 1..Len(history) /\ Len(history) \in Nat
    BY <2>1, HistoryParts DEF PlayerInv, Fresh
  <2>4. \A a, b \in Nat : a <= b /\ b \in 1..a => b = a
    OBVIOUS
  <2>5. to_client[k + 1].version = Len(history)
    BY <2>1, <2>2, <2>3, <2>4
  <2>6. QED  BY <1>4, <2>1, <2>5 DEF Said, Carries
<1>5. QED  BY <1>3, <1>4

\* A message is taken that is of no use to the proxy in the table.
LEMMA ToldUnseen ==
  ASSUME PlayerInv, Told, NEW m, Receive(m), history' = history,
         registered' = registered, published' = published,
         \/ table' = None
         \/ table' = table /\ mirror'[table] = mirror[table] /\ ~Carries(m)
  PROVE  Told'
<1>1. (\E k \in DOMAIN to_client' : Carries(to_client'[k])) =>
        \E k \in DOMAIN to_client : Carries(to_client[k])
  <2>1. to_client \in Seq(Replies) /\ to_client # <<>> /\ to_client' = Tail(to_client)
    BY ReceiveParts DEF PlayerInv, TypeOK
  <2>2. \A k \in DOMAIN to_client' : k + 1 \in DOMAIN to_client /\ to_client'[k] = to_client[k + 1]
    BY <2>1, TakeParts
  <2>3. QED  BY <2>2
<1>2. Said => ((\E k \in DOMAIN to_client' : Carries(to_client'[k])) => Said')
  BY SaidTail
<1>3. Said /\ ~Carries(m) => Said'
  BY SaidTail
<1>4. QED  BY <1>1, <1>2, <1>3 DEF Told, Carries

\* The proxy in the table takes the value of the message.
LEMMA ToldSeen ==
  ASSUME PlayerInv, Told, NEW m, Receive(m), Carries(m), history' = history,
         registered' = registered, published' = published,
         mirror'[table'] = m.version
  PROVE  Told'
<1>1. SUFFICES ASSUME registered, published PROVE Told'
  BY DEF Told
<1>2. to_client \in Seq(Replies) /\ to_client # <<>> /\ m = Head(to_client)
  BY ReceiveParts DEF PlayerInv, TypeOK
<1>3. Said
  BY <1>1, <1>2, TakeParts DEF Told
<1>4. QED  BY <1>3, SaidTail DEF Told, Carries

LEMMA PlayerTold ==
  ASSUME PlayerInv, Told, PlayerStep
  PROVE  Told'
<1>1. ASSUME NEW v \in Values, SetProperty(v) PROVE Told'
  <2>1. CASE registered
    <3>1. PICK m : /\ m = [type |-> "event", version |-> Len(history')]
                   /\ to_client' = Append(to_client, m)
      BY <1>1, <2>1 DEF SetProperty, Announce
    <3>2. Carries(m) /\ m.version = Len(history')
      BY <3>1 DEF Carries
    <3>3. QED  BY <1>1, <3>1, <3>2, ToldMore DEF SetProperty, service_vars, proxy_vars, PlayerInv
  <2>2. CASE ~registered
    BY <1>1, <2>2 DEF SetProperty, server_vars, Told
  <2>3. QED  BY <2>1, <2>2
<1>2. ASSUME NEW i \in Ids, NextReturn(i) PROVE Told'
  <2>1. PICK m : m = [type |-> "answer", id |-> i] /\ to_client' = Append(to_client, m)
    BY <1>2 DEF NextReturn
  <2>2. ~Carries(m)
    BY <2>1, OtherMessages
  <2>3. QED  BY <1>2, <2>1, <2>2, ToldMore
             DEF NextReturn, player_vars, service_vars, proxy_vars, PlayerInv
<1>3. CASE (\E i \in Ids : NextTimeout(i)) \/ PlayerDestroyed \/ PeerLost \/ PeerFound
  <2>1. /\ to_client' = to_client /\ history' = history /\ table' = table /\ mirror' = mirror
        /\ (registered' => registered) /\ (published' => published)
    BY <1>3 DEF NextTimeout, PlayerDestroyed, PeerLost, PeerFound, player_vars, network_vars,
       service_vars, proxy_vars
  <2>2. QED  BY <2>1, ToldQuiet
<1>4. QED  BY <1>1, <1>2, <1>3 DEF PlayerStep

LEMMA RemoteTold ==
  ASSUME PlayerInv, Told, RemoteStep
  PROVE  Told'
<1>1. CASE \E q \in Objects : DropProxy(q)
  <2>1. PICK q \in Objects : DropProxy(q)
    BY <1>1
  <2>2. mirror \in [Objects -> Nat] /\ table \in Objects \cup {None}
    BY DEF PlayerInv, TypeOK
  <2>3. table' = None \/ (table' = table /\ mirror'[table] = mirror[table])
    BY <2>1, <2>2 DEF DropProxy, ProxyDestroyed
  <2>4. QED  BY <2>1, <2>3, ToldQuiet DEF DropProxy, player_vars, server_vars, network_vars
<1>2. CASE ~\E q \in Objects : DropProxy(q)
  <2>1. /\ to_client' = to_client /\ UNCHANGED player_vars /\ UNCHANGED server_vars
        /\ mirror' = mirror /\ table' \in {table, None}
    BY <1>2 DEF RemoteStep, CreateProxy, ProxySet, ProxyPlay, ProxyNext, ServiceLost, ServiceFound,
       network_vars, service_vars, proxy_vars
  <2>2. QED  BY <2>1, ToldQuiet DEF player_vars, server_vars
<1>3. QED  BY <1>1, <1>2

LEMMA ServerTold ==
  ASSUME PlayerInv, Told, NEW n, InvocationArrives(n)
  PROVE  Told'
<1>1. CASE InvocationDropped(n) \/ NextArrives(n)
  BY <1>1, ToldQuiet DEF InvocationDropped, NextArrives, player_vars, server_vars, service_vars,
     proxy_vars
<1>2. CASE SetArrives(n)
  <2>1. CASE registered
    <3>1. PICK m : /\ m = [type |-> "event", version |-> Len(history')]
                   /\ to_client' = Append(to_client, m)
      BY <1>2, <2>1 DEF SetArrives, Announce
    <3>2. Carries(m) /\ m.version = Len(history')
      BY <3>1 DEF Carries
    <3>3. QED  BY <1>2, <3>1, <3>2, ToldMore DEF SetArrives, service_vars, proxy_vars, PlayerInv
  <2>2. CASE ~registered
    BY <1>2, <2>2 DEF SetArrives, server_vars, Told
  <2>3. QED  BY <2>1, <2>2
<1>3. CASE RegisterArrives(n)
  <2>1. CASE published
    <3>1. PICK m : /\ m = [type |-> "properties", id |-> n.id, version |-> Len(history)]
                   /\ to_client' = Append(to_client, m)
      BY <1>3, <2>1 DEF RegisterArrives, Version
    <3>2. Carries(m) /\ m.version = Len(history) /\ history' = history
      BY <1>3, <3>1 DEF Carries, RegisterArrives, player_vars
    <3>3. QED  BY <1>3, <3>1, <3>2, ToldMore
               DEF RegisterArrives, player_vars, service_vars, proxy_vars, PlayerInv
  <2>2. CASE ~published
    BY <1>3, <2>2 DEF RegisterArrives, player_vars, Told
  <2>3. QED  BY <2>1, <2>2
<1>4. QED  BY <1>1, <1>2, <1>3 DEF InvocationArrives

\* A message that is dropped carries nothing to the proxy in the table: what is
\* under way while there is one is wanted.
LEMMA ClientTold ==
  ASSUME PlayerInv, LineInv, Told, NEW m, ReplyArrives(m)
  PROVE  Told'
<1>1. CASE ReplyDropped(m)
  <2>1. /\ Receive(m) /\ table' = table /\ mirror' = mirror /\ history' = history
        /\ registered' = registered /\ published' = published
    BY <1>1 DEF ReplyDropped, player_vars, server_vars, service_vars, proxy_vars
  <2>2. table = None \/ ~Carries(m)
    <3>1. to_client \in Seq(Replies) /\ to_client # <<>> /\ m = Head(to_client)
      BY <2>1, ReceiveParts DEF PlayerInv, TypeOK
    <3>2. 1 \in DOMAIN to_client /\ to_client[1] = m
      BY <3>1, TakeParts
    <3>3. table # None /\ Answers(m) => m.id \in pending
      BY <3>2 DEF LineInv, Wanted
    <3>4. QED  BY <1>1, <3>3 DEF ReplyDropped, Carries, Answers
  <2>3. QED  BY <2>1, <2>2, ToldUnseen
<1>2. CASE AnswerArrives(m)
  <2>1. /\ Receive(m) /\ table' = table /\ mirror' = mirror /\ history' = history
        /\ registered' = registered /\ published' = published /\ ~Carries(m)
    BY <1>2 DEF AnswerArrives, player_vars, server_vars, service_vars, proxy_vars, Carries
  <2>2. QED  BY <2>1, ToldUnseen
<1>3. CASE PropertiesUnwanted(m)
  BY <1>3, ToldUnseen DEF PropertiesUnwanted, player_vars, server_vars
<1>4. CASE EventArrives(m)
  <2>1. /\ Receive(m) /\ Carries(m) /\ history' = history /\ table' = table
        /\ registered' = registered /\ published' = published
        /\ mirror' = [mirror EXCEPT ![table] = m.version]
        /\ mirror \in [Objects -> Nat] /\ table \in Objects
    BY <1>4 DEF EventArrives, player_vars, server_vars, service_vars, Carries, PlayerInv, TypeOK
  <2>2. mirror'[table'] = m.version
    BY <2>1
  <2>3. QED  BY <2>1, <2>2, ToldSeen
<1>5. ASSUME NEW q \in Objects, PropertiesArrive(m, q) PROVE Told'
  <2>1. /\ Receive(m) /\ Carries(m) /\ history' = history /\ table' = q
        /\ registered' = registered /\ published' = published
        /\ mirror' = [mirror EXCEPT ![q] = m.version] /\ mirror \in [Objects -> Nat]
    BY <1>5 DEF PropertiesArrive, player_vars, server_vars, Carries, PlayerInv, TypeOK
  <2>2. mirror'[table'] = m.version
    BY <2>1
  <2>3. QED  BY <2>1, <2>2, ToldSeen
<1>6. QED  BY <1>1, <1>2, <1>3, <1>4, <1>5 DEF ReplyArrives

LEMMA ToldInit == Init => ToldInv
<1>1. SUFFICES ASSUME Init PROVE ToldInv
  OBVIOUS
<1>2. /\ to_server = <<>> /\ to_client = <<>> /\ pending = {} /\ table = None
      /\ registered = FALSE
  BY <1>1 DEF Init
<1>3. DOMAIN to_server = {} /\ DOMAIN to_client = {}
  BY <1>2
<1>4. LineInv
  BY <1>2, <1>3 DEF LineInv, Known, InLine, Wanted
<1>5. Told
  BY <1>2 DEF Told
<1>6. QED  BY <1>1, <1>4, <1>5, PlayerInitInv DEF ToldInv

LEMMA ToldStep == ToldInv /\ [Next]_vars => ToldInv'
<1>1. SUFFICES ASSUME ToldInv, [Next]_vars PROVE ToldInv'
  OBVIOUS
<1>2. PlayerInv /\ TypeOK /\ LineInv /\ Told /\ PlayerInv'
  BY <1>1, PlayerStepInv DEF ToldInv, PlayerInv
<1>3. LineInv'
  BY <1>1, <1>2, LineStep
<1>4. CASE UNCHANGED vars
  <2>1. Told'
    BY <1>2, <1>4, ToldQuiet
       DEF vars, player_vars, server_vars, network_vars, service_vars, proxy_vars
  <2>2. QED  BY <1>2, <1>3, <2>1 DEF ToldInv
<1>5. CASE Next
  <2>1. Told'
    BY <1>2, <1>5, PlayerTold, RemoteTold, ServerTold, ClientTold
       DEF Next, ServerReceives, ClientReceives
  <2>2. QED  BY <1>2, <1>3, <2>1 DEF ToldInv
<1>6. QED  BY <1>1, <1>4, <1>5

\* A proxy that is registered shows the property as it is, or will be told: the
\* events of yts-vp-player-adapter.c and the properties a registration is answered
\* with miss nothing between them, whatever is lost, dropped and made anew.
THEOREM NoneLeftBehind == Spec => []ShownOrTold
<1>1. ToldInv => ShownOrTold
  <2> SUFFICES ASSUME ToldInv, registered, published, table # None, mirror[table] # Version
               PROVE  \E k \in DOMAIN to_client :
                        Brings(to_client[k]) /\ to_client[k].version = Version
    BY DEF ShownOrTold
  <2>1. PICK k \in DOMAIN to_client : Carries(to_client[k]) /\ to_client[k].version = Version
    BY DEF ToldInv, Told, Said, Version
  <2>2. Brings(to_client[k])
    BY <2>1 DEF ToldInv, LineInv, Wanted, Brings, Carries, Answers
  <2>3. QED  BY <2>1, <2>2
<1>2. QED  BY <1>1, ToldInit, ToldStep, PTL DEF Spec
=============================================================================
