--------------------------- MODULE YtsRemotePlayer ---------------------------
(***************************************************************************)
(* A player and a remote control: a service of the video profile, the      *)
(* proxies another client makes of it, and the messages between the two.   *)
(*                                                                         *)
(* On the side of the player: the adapter (yts-vp-player-adapter.c,        *)
(* yts-service-adapter.c) and the profile service that registers proxies   *)
(* (yts-profile-impl.c, yts-client.c).  On the side of the remote control: *)
(* the YtsProxyService (yts-proxy-service.c), the profile proxy            *)
(* (yts-profile-proxy.c), and the player proxies it makes                  *)
(* (yts-vp-player-proxy.c, yts-proxy.c), which hold a mirror of the        *)
(* player's property.  YtsInvocations has the tables of the serving client *)
(* for many peers; here there is one peer, and what it sees.               *)
(*                                                                         *)
(* The property is playing, which is mirrored exactly; a proxy takes no    *)
(* notice of a change of volume by 0.01 or less, and none of a playable-   *)
(* uri that becomes NULL.  Its values are kept in a history, so that a     *)
(* mirror is an index into it.  Messages between two clients arrive in     *)
(* order: the library leaves that to the connection that carries them.  A  *)
(* client drops the messages of a peer its roster does not know.           *)
(* The application drops its proxies when their service goes:              *)
(* YtsProxyService leaves them with a pointer to itself.                   *)
(***************************************************************************)
EXTENDS Integers, Sequences, FiniteSets

CONSTANTS
  Values,       \* values of the property
  Ids,          \* invocation ids, drawn at random: none is drawn twice
  Objects,      \* addresses of proxy objects
  None,         \* NULL, or no entry in a table
  MaxChanges,   \* bound: how often the property is set
  MaxMessages   \* bound: messages in flight in one direction

ASSUME RemotePlayerAssumption ==
  /\ Values # {}
  /\ None \notin Objects
  /\ MaxChanges \in Nat
  /\ MaxMessages \in Nat

VARIABLES
  history,      \* values the player's property has had, the present one last
  published,    \* the player has an adapter in its client
  visible,      \* the player's client knows the remote control's service
  registered,   \* the remote control is in the list of proxies
  envelopes,    \* invocations of next the player has still to answer
  to_server,    \* messages on their way to the player
  to_client,    \* messages on their way to the remote control
  present,      \* the remote control has a YtsProxyService for the player
  pending,      \* its pending_proxies
  table,        \* the entry of its proxies, or None
  held,         \* proxy objects that are alive, by the application's reference
  mirror,       \* mirror[q]: the value proxy q shows, as an index into history
  calls,        \* calls[i]: the proxy that waits for the answer to i, or None
  used          \* invocation ids drawn so far

player_vars == <<history, published>>
server_vars == <<visible, registered, envelopes>>
network_vars == <<to_server, to_client>>
service_vars == <<present, pending, table>>
proxy_vars == <<held, mirror, calls>>
vars == <<player_vars, server_vars, network_vars, service_vars, proxy_vars, used>>

-----------------------------------------------------------------------------
\* Invocations: of register-proxy on the profile, of the setter and of next on
\* the player.  Responses and events: the properties, or FALSE, for
\* register-proxy; the answer to next; a value of the property.
Invocations ==
  [type : {"register", "next"}, id : Ids] \cup [type : {"set"}, value : Values]
Replies ==
  [type : {"properties"}, id : Ids, version : Nat] \cup
  [type : {"refused", "answer"}, id : Ids] \cup
  [type : {"event"}, version : Nat]

TypeOK ==
  /\ history \in Seq(Values) \ {<<>>}
  /\ published \in BOOLEAN /\ visible \in BOOLEAN /\ registered \in BOOLEAN
  /\ envelopes \in SUBSET Ids
  /\ to_server \in Seq(Invocations)
  /\ to_client \in Seq(Replies)
  /\ present \in BOOLEAN
  /\ pending \in SUBSET Ids
  /\ table \in Objects \cup {None}
  /\ held \in SUBSET Objects
  /\ mirror \in [Objects -> Nat]
  /\ calls \in [Ids -> Objects \cup {None}]
  /\ used \in SUBSET Ids

Init ==
  /\ \E v \in Values : history = <<v>>
  /\ published = TRUE /\ visible = TRUE /\ registered = FALSE
  /\ envelopes = {}
  /\ to_server = <<>> /\ to_client = <<>>
  /\ present = TRUE /\ pending = {} /\ table = None
  /\ held = {}
  /\ mirror = [q \in Objects |-> 0]
  /\ calls = [i \in Ids |-> None]
  /\ used = {}

-----------------------------------------------------------------------------
(* Helpers *)

Version == Len(history)

\* yts_proxy_create_invocation_id
Draw(i) == i \notin used /\ used' = used \cup {i}

\* yts_proxy_invoke, _proxy_invoke_service, _profile_invoke_service
Send(m) ==
  /\ Len(to_server) < MaxMessages
  /\ to_server' = Append(to_server, m)

\* The settings on their way take their share of the bound.
Room == Version + Cardinality({k \in DOMAIN to_server : to_server[k].type = "set"}) <= MaxChanges

\* _player_notify_playing and its like, yts_service_adapter_send_event,
\* _adapter_event: an event with the new value, if anyone is registered.
Announce(h) ==
  to_client' = IF registered
               THEN Append(to_client, [type |-> "event", version |-> Len(h)])
               ELSE to_client

ToClientRoom == Len(to_client) < MaxMessages

\* The message at the head of to_server is taken.
Take(m) == to_server # <<>> /\ m = Head(to_server) /\ to_server' = Tail(to_server)

\* Mutant: the proxy stays in the table.
ProxyDestroyed_Stays(q) == UNCHANGED table

\* _proxy_destroyed: the entry of a proxy that is destroyed goes.
ProxyDestroyed(q) == table' = IF table = q THEN None ELSE table

\* The calls of proxies Q go with them.
Orphan(Q) == calls' = [i \in Ids |-> IF calls[i] \in Q THEN None ELSE calls[i]]

-----------------------------------------------------------------------------
(* The player *)

\* The application sets the property.
SetProperty(v) ==
  /\ published /\ Room /\ ToClientRoom
  /\ history' = Append(history, v)
  /\ Announce(history')
  /\ UNCHANGED <<published, server_vars, to_server, service_vars, proxy_vars, used>>

\* yts_vp_player_next_return, _player_next_response, _adapter_response.
NextReturn(i) ==
  /\ i \in envelopes /\ ToClientRoom
  /\ envelopes' = envelopes \ {i}
  /\ to_client' = Append(to_client, [type |-> "answer", id |-> i])
  /\ UNCHANGED <<player_vars, visible, registered, to_server, service_vars, proxy_vars, used>>

\* _invocation_timeout: there will be no answer.
NextTimeout(i) ==
  /\ i \in envelopes
  /\ envelopes' = envelopes \ {i}
  /\ UNCHANGED <<player_vars, visible, registered, network_vars, service_vars,
                 proxy_vars, used>>

\* The player is destroyed, and its adapter with it.  It stays in the profile,
\* and the list of proxies stays.
PlayerDestroyed ==
  /\ published
  /\ published' = FALSE /\ envelopes' = {}
  /\ UNCHANGED <<history, visible, registered, network_vars, service_vars, proxy_vars, used>>

\* The remote control's service leaves the roster of the player's client, by
\* itself or because the roster is refreshed, and takes its records with it.
\* Nobody tells the remote control.
PeerLost ==
  /\ visible
  /\ visible' = FALSE /\ registered' = FALSE /\ envelopes' = {}
  /\ UNCHANGED <<player_vars, network_vars, service_vars, proxy_vars, used>>

PeerFound ==
  /\ ~visible /\ visible' = TRUE
  /\ UNCHANGED <<player_vars, registered, envelopes, network_vars, service_vars,
                 proxy_vars, used>>

\* A message from a contact that is not in the roster, or for a capability
\* without adapter, is reported in the log.
InvocationDropped(m) ==
  /\ Take(m)
  /\ ~visible \/ (~published /\ m.type # "register")
  /\ UNCHANGED <<player_vars, server_vars, to_client, service_vars, proxy_vars, used>>

\* _register_proxy of the profile service, yts_client_register_proxy: the
\* proxy is in the list, whether or not there is an adapter to collect the
\* properties of; without one the response is FALSE.
RegisterArrives(m) ==
  /\ Take(m) /\ visible /\ m.type = "register" /\ ToClientRoom
  /\ registered' = TRUE
  /\ to_client' = Append(to_client,
       IF published THEN [type |-> "properties", id |-> m.id, version |-> Version]
       ELSE [type |-> "refused", id |-> m.id])
  /\ UNCHANGED <<player_vars, visible, envelopes, service_vars, proxy_vars, used>>

\* _service_adapter_invoke with a property, or play, or pause.
SetArrives(m) ==
  /\ Take(m) /\ visible /\ published /\ m.type = "set" /\ ToClientRoom
  /\ history' = Append(history, m.value)
  /\ Announce(history')
  /\ UNCHANGED <<published, server_vars, service_vars, proxy_vars, used>>

\* _service_adapter_invoke with next or prev, which keep the envelope.
NextArrives(m) ==
  /\ Take(m) /\ visible /\ published /\ m.type = "next"
  /\ envelopes' = envelopes \cup {m.id}
  /\ UNCHANGED <<player_vars, visible, registered, to_client, service_vars, proxy_vars, used>>

-----------------------------------------------------------------------------
(* The remote control *)

\* yts_proxy_service_create_proxy
CreateProxy(i) ==
  /\ present /\ Draw(i)
  /\ pending' = pending \cup {i}
  /\ Send([type |-> "register", id |-> i])
  /\ UNCHANGED <<player_vars, server_vars, to_client, present, table, proxy_vars>>

\* Mutant: the mirror is set at once.
ProxySet_Optimistic(q, v) ==
  /\ q \in held /\ v # history[mirror[q]] /\ Room
  /\ Send([type |-> "set", value |-> v])
  /\ mirror' = [mirror EXCEPT ![q] = IF @ = Version THEN Version + 1 ELSE @]
  /\ UNCHANGED <<player_vars, server_vars, to_client, service_vars, held, calls, used>>

\* The setter of a property of proxy q (_set_property): a value the mirror
\* shows is not sent; any other is sent, and the mirror waits for the event.
ProxySet(q, v) ==
  /\ q \in held /\ v # history[mirror[q]] /\ Room
  /\ Send([type |-> "set", value |-> v])
  /\ UNCHANGED <<player_vars, server_vars, to_client, service_vars, proxy_vars, used>>

\* _player_play, _player_pause: the mirror is not asked.
ProxyPlay(q, v) ==
  /\ q \in held /\ Room
  /\ Send([type |-> "set", value |-> v])
  /\ UNCHANGED <<player_vars, server_vars, to_client, service_vars, proxy_vars, used>>

\* _player_next, _player_prev
ProxyNext(q, i) ==
  /\ q \in held /\ Draw(i)
  /\ calls' = [calls EXCEPT ![i] = q]
  /\ Send([type |-> "next", id |-> i])
  /\ UNCHANGED <<player_vars, server_vars, to_client, service_vars, held, mirror>>

\* The application drops proxy q.  The player's client is not told.
DropProxy(q) ==
  /\ q \in held
  /\ held' = held \ {q}
  /\ mirror' = [mirror EXCEPT ![q] = 0]
  /\ Orphan({q})
  /\ ProxyDestroyed(q)
  /\ UNCHANGED <<player_vars, server_vars, network_vars, present, pending, used>>

\* The player's service leaves the roster.  _dispose has its proxies
\* unregistered, through a signal that nobody is connected to by then.
ServiceLost ==
  /\ present /\ held = {}
  /\ present' = FALSE /\ pending' = {} /\ table' = None
  /\ UNCHANGED <<player_vars, server_vars, network_vars, proxy_vars, used>>

ServiceFound ==
  /\ ~present /\ present' = TRUE
  /\ UNCHANGED <<player_vars, server_vars, network_vars, pending, table, proxy_vars, used>>

\* The message at the head of to_client is taken.
Receive(m) == to_client # <<>> /\ m = Head(to_client) /\ to_client' = Tail(to_client)

\* Mutant: a response to a registration is dropped while a proxy is in the table.
ReplyDropped_Known(m) ==
  /\ Receive(m)
  /\ \/ m.type = "properties" /\ (m.id \notin pending \/ table # None)
     \/ m.type = "refused"
     \/ m.type = "event" /\ table = None
     \/ m.type = "answer" /\ (table = None \/ calls[m.id] # table)
  /\ UNCHANGED <<player_vars, server_vars, to_server, service_vars, proxy_vars, used>>

\* A message nobody waits for: there is no service, no proxy, no such call, or
\* the response to register-proxy is not a dictionary, which leaves the
\* registration pending.
ReplyDropped(m) ==
  /\ Receive(m)
  /\ \/ m.type = "properties" /\ m.id \notin pending
     \/ m.type = "refused"
     \/ m.type = "event" /\ table = None
     \/ m.type = "answer" /\ (table = None \/ calls[m.id] # table)
  /\ UNCHANGED <<player_vars, server_vars, to_server, service_vars, proxy_vars, used>>

\* yts_proxy_service_dispatch_response for a registration: a new proxy, with
\* the properties of the response, takes the place of the one in the table.
PropertiesArrive(m, q) ==
  /\ Receive(m) /\ m.type = "properties" /\ m.id \in pending
  /\ q \in Objects \ held
  /\ pending' = pending \ {m.id}
  /\ table' = q
  /\ held' = held \cup {q}
  /\ mirror' = [mirror EXCEPT ![q] = m.version]
  /\ UNCHANGED <<player_vars, server_vars, to_server, present, calls, used>>

\* The same, and no handler of proxy-created takes a reference: the proxy is
\* destroyed at once, after it has taken its place.
PropertiesUnwanted(m) ==
  /\ Receive(m) /\ m.type = "properties" /\ m.id \in pending
  /\ pending' = pending \ {m.id}
  /\ table' = None
  /\ UNCHANGED <<player_vars, server_vars, to_server, present, proxy_vars, used>>

\* Mutant: a value the mirror has shown before is taken for a repetition.
EventArrives_OnlyNew(m) ==
  /\ Receive(m) /\ m.type = "event" /\ table # None
  /\ mirror' = IF history[m.version] \in {history[k] : k \in 1..mirror[table]}
               THEN mirror ELSE [mirror EXCEPT ![table] = m.version]
  /\ UNCHANGED <<player_vars, server_vars, to_server, service_vars, held, calls, used>>

\* yts_proxy_service_dispatch_event, _proxy_service_event
EventArrives(m) ==
  /\ Receive(m) /\ m.type = "event" /\ table # None
  /\ mirror' = [mirror EXCEPT ![table] = m.version]
  /\ UNCHANGED <<player_vars, server_vars, to_server, service_vars, held, calls, used>>

\* yts_proxy_service_dispatch_response, _proxy_service_response for next: the
\* answer goes to the proxy in the table, which has to have made the call.
AnswerArrives(m) ==
  /\ Receive(m) /\ m.type = "answer" /\ table # None /\ calls[m.id] = table
  /\ calls' = [calls EXCEPT ![m.id] = None]
  /\ UNCHANGED <<player_vars, server_vars, to_server, service_vars, held, mirror, used>>

-----------------------------------------------------------------------------
InvocationArrives(m) ==
  InvocationDropped(m) \/ RegisterArrives(m) \/ SetArrives(m) \/ NextArrives(m)

ReplyArrives(m) ==
  \/ ReplyDropped(m) \/ EventArrives(m) \/ AnswerArrives(m)
  \/ PropertiesUnwanted(m) \/ \E q \in Objects : PropertiesArrive(m, q)

\* The message at the head of each queue, if there is one.
ServerReceives == to_server # <<>> /\ InvocationArrives(Head(to_server))
ClientReceives == to_client # <<>> /\ ReplyArrives(Head(to_client))

PlayerStep ==
  \/ \E v \in Values : SetProperty(v)
  \/ \E i \in Ids : NextReturn(i) \/ NextTimeout(i)
  \/ PlayerDestroyed \/ PeerLost \/ PeerFound

RemoteStep ==
  \/ \E i \in Ids : CreateProxy(i)
  \/ \E q \in Objects, v \in Values : ProxySet(q, v) \/ ProxyPlay(q, v)
  \/ \E q \in Objects, i \in Ids : ProxyNext(q, i)
  \/ \E q \in Objects : DropProxy(q)
  \/ ServiceLost \/ ServiceFound

Next == PlayerStep \/ RemoteStep \/ ServerReceives \/ ClientReceives

Spec == Init /\ [][Next]_vars

\* Messages arrive.
FairSpec == Spec /\ WF_vars(ServerReceives) /\ WF_vars(ClientReceives)

-----------------------------------------------------------------------------
(* Safety *)

\* The proxy in the table is alive: an event or an answer is never handed to
\* one that was destroyed.
TableLive == table # None => table \in held

\* A message that brings the proxy in the table, or the next one there, a value.
Brings(m) == m.type = "event" \/ (m.type = "properties" /\ m.id \in pending)

\* No proxy is left behind: as long as the player has the remote control in its
\* list, the proxy in the table shows the property as it is, or a message with
\* just that value is on its way and will not be dropped.  A proxy that missed
\* events, while its peer was lost or before there was a proxy, is up to date
\* again when the next registration is answered.
ShownOrTold ==
  registered /\ published /\ table # None =>
    \/ mirror[table] = Version
    \/ \E k \in DOMAIN to_client : Brings(to_client[k]) /\ to_client[k].version = Version

\* The proxies implement the promise of YtsMirror.
Mirror == INSTANCE YtsMirror WITH Mirrors <- Objects, seen <- mirror
MirrorSpec == Mirror!Spec

(* Liveness *)

\* A registration the player's client has before it, or has answered, does not
\* stay pending: create_proxy returns "true if the proxy-created signal can be
\* expected to deliver" (yts-proxy-service.c, 276).  Only then: one that is
\* dropped, or refused, is pending for ever.
OnItsWay(i) ==
  \/ \E k \in DOMAIN to_server : to_server[k] = [type |-> "register", id |-> i]
  \/ \E k \in DOMAIN to_client : to_client[k].type = "properties" /\ to_client[k].id = i

PendingResolved ==
  \A i \in Ids :
    (i \in pending /\ OnItsWay(i) /\ published /\ visible) ~>
    (i \notin pending \/ ~published \/ ~visible)

\* A proxy catches up with the player, as long as it is registered.
CatchesUp ==
  \A n \in 1..MaxChanges + 1 :
    (Version = n /\ registered /\ published /\ table # None) ~>
    (table = None \/ mirror[table] >= n \/ ~registered \/ ~published)
=============================================================================
