----------------------------- MODULE YtsMessages -----------------------------
(***************************************************************************)
(* Messages between clients: from the application's call, through a        *)
(* channel of YtsSending each, to what the receiving client makes of it.   *)
(*                                                                         *)
(* A message goes to a service that the sender's roster shows (yts-        *)
(* service.c, yts-proxy-service.c, profile/yts-profile-impl.c).  The       *)
(* receiver accepts every channel, looks up the contact of the device it   *)
(* came from, and gives the message to the application, to an adapter, or  *)
(* to a proxy of one of the contact's services (yts-client.c, yts-         *)
(* contact.c, yts-proxy-service.c).                                        *)
(*                                                                         *)
(* Every message has a channel of its own; nothing here keeps two of them  *)
(* in order, and one whose channel fails or whose device is gone does not  *)
(* arrive. The connection manager turns attributes into a `message'        *)
(* element and adds from-service. Invocation ids are those of the messages *)
(* that carry them first: drawn at random and taken as unique here         *)
(* (YtsInvocations has the collisions, the records and their timeouts).    *)
(* The clients are in one process, as the tests have them, and share the   *)
(* counter of atoms.                                                       *)
(***************************************************************************)
EXTENDS YtsSending, YtsMetadata

CONSTANTS
  Clients,
  Contact,       \* Contact[p]: the device that client p runs on
  Sees,          \* Sees[p]: clients that p discovers
  Coming,        \* bound: pairs p, q where q comes to p's roster and goes again
  Troubled,      \* bound: messages that may be low-level ones, and whose channel may
                 \* fail, refuse, reply or close
  Caps,          \* Caps[p]: capabilities p has published a service for
  Texts,         \* what applications send
  Lists,
  Dictionaries   \* flat: name, value, name, value ("entry pairs", yts-service.c, 480)

Capabilities == UNION {Caps[p] : p \in Clients}
Profile == "org.freedesktop.ytstenut"

\* The profile's own capability is no application's, and NULL no GVariant.
ASSUME MessagesAssumption ==
  /\ Sees \in [Clients -> SUBSET Clients]
  /\ Coming \subseteq Clients \X Clients
  /\ Troubled \subseteq Messages
  /\ DOMAIN Contact = Clients
  /\ Caps \in [Clients -> SUBSET Capabilities] /\ Profile \notin Capabilities
  /\ NoText \notin [type : {"s"}, of : Capabilities]
  /\ Lists \subseteq Seq(STRING) \ {<<>>}
  /\ Dictionaries \subseteq Seq(STRING) \ {<<>>}
  /\ \A d \in Dictionaries : Len(d) % 2 = 0

VARIABLES
  known,        \* known[p]: the services in p's roster
  adapters,     \* adapters[p]: capabilities of p whose service is there
  registered,   \* registered[p]: proxies that events of p's services go to
  pending,      \* pending[p][q]: pending_proxies of p's object for q, ids and capabilities
  proxies,      \* proxies[p][q]: capabilities p has a proxy for in that object
  letter,       \* letter[m]: from, to, attributes, and what the application said
  way,          \* way[m]: where m is between the clients
  heard         \* heard[m]: who got m at the receiving client

objects == <<known, adapters, registered, pending, proxies>>
mail == <<letter, way, heard>>
allVars == <<vars, objects, mail>>

LowLevel == {"text", "list", "dictionary"}

MessagesTypeOK ==
  /\ TypeOK
  /\ known \in [Clients -> SUBSET Clients]
  /\ adapters \in [Clients -> SUBSET Capabilities]
  /\ registered \in [Clients -> SUBSET (Clients \X Capabilities)]
  /\ pending \in [Clients -> [Clients -> SUBSET (Messages \X Capabilities)]]
  /\ proxies \in [Clients -> [Clients -> SUBSET Capabilities]]
  /\ DOMAIN letter = Messages /\ DOMAIN heard = Messages
  /\ way \in [Messages -> {"none", "under way", "bounced", "arrived"}]

MessagesInit ==
  /\ Init
  /\ known = [p \in Clients |-> {q \in Sees[p] : <<p, q>> \notin Coming}]
  /\ adapters = Caps
  /\ registered = [p \in Clients |-> {}]
  /\ pending = [p \in Clients |-> [q \in Clients |-> {}]]
  /\ proxies = [p \in Clients |-> [q \in Clients |-> {}]]
  /\ letter = [m \in Messages |-> NoText]
  /\ way = [m \in Messages |-> "none"]
  /\ heard = [m \in Messages |-> {}]

-----------------------------------------------------------------------------
(* Rosters *)

\* The roster gets a service (YtsRoster).
Discovered(p, q) ==
  /\ q \in Sees[p] \ known[p]
  /\ known' = [known EXCEPT ![p] = @ \cup {q}]
  /\ UNCHANGED <<vars, adapters, registered, pending, proxies, mail>>

\* It goes, with its proxies, and the registrations of its own.
Withdrawn(p, q) ==
  /\ q \in known[p] /\ <<p, q>> \in Coming
  /\ known' = [known EXCEPT ![p] = @ \ {q}]
  /\ pending' = [pending EXCEPT ![p][q] = {}]
  /\ proxies' = [proxies EXCEPT ![p][q] = {}]
  /\ registered' = [registered EXCEPT ![p] = {r \in @ : r[1] # q}]
  /\ UNCHANGED <<vars, adapters, mail>>

\* The application gives up its service for capability f.
ServiceDestroyed(p, f) ==
  /\ f \in adapters[p]
  /\ adapters' = [adapters EXCEPT ![p] = @ \ {f}]
  /\ UNCHANGED <<vars, known, registered, pending, proxies, mail>>

-----------------------------------------------------------------------------
(* Sending *)

\* Message m with mdata from client p to q; said is kept to be compared.
Post(m, p, q, mdata, said) ==
  /\ SendMessage(m)
  /\ letter' = [letter EXCEPT ![m] =
       [from |-> p, to |-> q, said |-> said,
        attrs |-> Put(Extract(mdata).attrs, "from-service", p)]]

\* yts_service_send_text, yts_service_send_list, yts_service_send_dictionary
Say(m, p, q) ==
  /\ q \in known[p] /\ m \in Troubled
  /\ \/ \E t \in Texts : Post(m, p, q, TextMessage(t), t)
     \/ \E l \in Lists : Post(m, p, q, ListMessage(l), l)
     \/ \E d \in Dictionaries : Post(m, p, q, DictionaryMessage(d), d)
  /\ UNCHANGED <<objects, way, heard>>

\* _register_proxy of the profile's proxy.
RegisterProxy(id, f) ==
  InvocationMessage(id, Profile, "register-proxy", [type |-> "s", of |-> f])

\* yts_proxy_service_create_proxy
CreateProxy(m, p, q, f) ==
  /\ q \in known[p] /\ f \in Caps[q]
  /\ pending' = [pending EXCEPT ![p][q] = @ \cup {<<m, f>>}]
  /\ Post(m, p, q, RegisterProxy(m, f), f)
  /\ UNCHANGED <<known, adapters, registered, proxies, way, heard>>

\* _proxy_invoke_service, for a method or property of the service.
Invoke(m, p, q, f) ==
  /\ f \in proxies[p][q]
  /\ Post(m, p, q, InvocationMessage(m, f, "method", NoText), f)
  /\ UNCHANGED <<objects, way, heard>>

\* _adapter_event, with one proxy registered.
AdapterEvent(m, p, q, f) ==
  /\ f \in adapters[p]
  /\ {r \in registered[p] : r[2] = f} = {<<q, f>>}
  /\ Post(m, p, q, EventMessage(f, "property", [type |-> "s", of |-> f]), f)
  /\ UNCHANGED <<objects, way, heard>>

\* yts_client_msg_request_cb: with the request accepted the message is under way.
Requested(m) ==
  /\ RequestAnswered(m)
  /\ m \in Troubled \/ channel'[m] = "asked"
  /\ way' = IF channel'[m] = "asked" THEN [way EXCEPT ![m] = "under way"] ELSE way
  /\ UNCHANGED <<objects, letter, heard>>

\* The channel reports a message that did not get there.
Bounced(m) ==
  /\ m \in Troubled /\ way[m] = "under way" /\ Failed(m)
  /\ way' = [way EXCEPT ![m] = "bounced"]
  /\ UNCHANGED <<objects, letter, heard>>

\* The other callbacks of the channel.
Channel(m) ==
  /\ \/ ChannelOpened(m)
     \/ m \in Troubled /\ (ChannelFailed(m) \/ Replied(m) \/ Closed(m))
  /\ UNCHANGED <<objects, mail>>

-----------------------------------------------------------------------------
(* Receiving *)

\* Attribute a of message m as it arrives.
Attr(m, a) == GetAttribute(letter[m], a)

\* variant_new_from_escaped_literal, for an attribute that is there.
Value(m, a) == Parsed(Attr(m, a))

To(m) == letter[m].to

\* The services in the roster of the contact that m came from.
FromContact(m) == {q \in known[To(m)] : Contact[q] = Contact[letter[m].from]}

Arrives(m) == way[m] = "under way" /\ way' = [way EXCEPT ![m] = "arrived"]

\* Mutant: what no adapter takes counts as dispatched.
Accept_Always(m, listeners, dispatched) ==
  /\ Arrives(m)
  /\ heard' = [heard EXCEPT ![m] = listeners]
  /\ UNCHANGED letter

\* yts_client_yts_channels_received_cb: raw-message for what was not dispatched.
Accept(m, listeners, dispatched) ==
  /\ Arrives(m)
  /\ heard' = [heard EXCEPT ![m] = listeners \cup
                 IF dispatched THEN {} ELSE {[by |-> "raw-message", client |-> To(m)]}]
  /\ UNCHANGED letter

\* dispatch_to_service: a message from a contact that is not in the roster.
ReceivedUnknown(m) ==
  /\ Accept(m, {}, FALSE)
  /\ FromContact(m) = {}
  /\ UNCHANGED <<vars, objects>>

\* Mutant: names and values of a dictionary are swapped.
Said_Swapped(m) ==
  LET payload == Value(m, "payload")
  IN IF payload.type = "dict"
     THEN [i \in 1..(2 * Len(payload.of)) |-> payload.of[(i + 1) \div 2][1 + (i % 2)]]
     ELSE payload.of

\* What text-message, list-message or dictionary-message carries: a dictionary
\* is flat again.
Said(m) ==
  LET payload == Value(m, "payload")
  IN IF payload.type = "dict"
     THEN [i \in 1..(2 * Len(payload.of)) |-> payload.of[(i + 1) \div 2][2 - (i % 2)]]
     ELSE payload.of

\* dispatch_to_service, the low-level interface: the signal is not taken for a
\* dispatch.
ReceivedMessage(m) ==
  /\ Attr(m, "type") \in LowLevel
  /\ Accept(m, {[by |-> Attr(m, "type"), client |-> To(m), said |-> Said(m)]}, FALSE)
  /\ FromContact(m) # {}
  /\ UNCHANGED <<vars, objects>>

\* yts_client_register_proxy: the properties of the service, or none where it is
\* there no more; profile/yts-profile-impl.c makes FALSE of that.
RegistrationResult(p, f) ==
  IF f \in adapters[p] THEN [type |-> "dict", of |-> <<"properties">>]
  ELSE [type |-> "b", of |-> FALSE]

\* dispatch_to_service, an invocation of the profile: register-proxy.  The answer
\* goes under the name of the capability.  The profile came with the first
\* service published.
ReceivedRegistration(m, n) ==
  /\ Attr(m, "type") = "invocation" /\ Attr(m, "capability") = Profile
  /\ FromContact(m) # {}
  /\ LET p == To(m)
         q == Attr(m, "from-service")
         f == Value(m, "arguments").of
     IN /\ Arrives(m)
        /\ heard' = [heard EXCEPT ![m] = {[by |-> "adapter", client |-> p, capability |-> Profile]}]
        /\ registered' = [registered EXCEPT ![p] = @ \cup {<<q, f>>}]
        /\ Post(n, p, q, ResponseMessage(f, Attr(m, "invocation"), RegistrationResult(p, f)), f)
  /\ UNCHANGED <<known, adapters, pending, proxies>>

\* dispatch_to_service, an invocation of a service.
ReceivedInvocation(m) ==
  /\ Attr(m, "type") = "invocation" /\ Attr(m, "capability") # Profile
  /\ FromContact(m) # {}
  /\ LET adapter == Attr(m, "capability") \in adapters[To(m)]
     IN Accept(m, IF adapter THEN {[by |-> "adapter", client |-> To(m), capability |-> Attr(m, "capability")]}
                  ELSE {}, adapter)
  /\ UNCHANGED <<vars, objects>>

Proxy(m, q) == [by |-> "proxy", client |-> To(m), service |-> q, capability |-> Attr(m, "capability")]

\* yts_proxy_service_dispatch_event: there is a proxy for the capability.
TakesEvent(m, q) == Attr(m, "capability") \in proxies[To(m)][q]

\* yts_contact_dispatch_event: the first service of the contact that takes it, in
\* the order of a hash table; `||' keeps it from the others.
ReceivedEvent(m) ==
  /\ Attr(m, "type") = "event" /\ FromContact(m) # {}
  /\ LET takers == {q \in FromContact(m) : TakesEvent(m, q)}
     IN IF takers = {} THEN Accept(m, {}, FALSE)
        ELSE \E q \in takers : Accept(m, {Proxy(m, q)}, TRUE)
  /\ UNCHANGED <<vars, objects>>

\* Mutant: a registration is looked up by its capability.
Registration_OfCapability(m, q) ==
  {r \in pending[To(m)][q] : r[2] = Attr(m, "capability")}

\* The registration at q's object that response m is for.
Registration(m, q) == {r \in pending[To(m)][q] : r[1] = Attr(m, "invocation")}

\* yts_proxy_service_dispatch_response: the registration is answered with the
\* properties, and there is a proxy.
CreatesProxy(m, q) == Registration(m, q) # {} /\ Value(m, "response").type = "dict"

\* Or a proxy for the capability is there, whoever it was that asked.
TakesResponse(m, q) == Registration(m, q) = {} /\ Attr(m, "capability") \in proxies[To(m)][q]

\* yts_contact_dispatch_response: the first that takes it of the contact's
\* services with the capability, in the order of a hash table.
ReceivedResponse(m) ==
  /\ Attr(m, "type") = "response" /\ FromContact(m) # {}
  /\ LET p == To(m)
         offering == {q \in FromContact(m) : Attr(m, "capability") \in Caps[q]}
     IN \/ /\ \A q \in offering : ~CreatesProxy(m, q) /\ ~TakesResponse(m, q)
           /\ Accept(m, {}, FALSE)
           /\ UNCHANGED <<pending, proxies>>
        \/ \E q \in offering :
             /\ TakesResponse(m, q) /\ Accept(m, {Proxy(m, q)}, TRUE)
             /\ UNCHANGED <<pending, proxies>>
        \/ \E q \in offering :
             /\ CreatesProxy(m, q) /\ Accept(m, {Proxy(m, q)}, TRUE)
             /\ pending' = [pending EXCEPT ![p][q] = @ \ Registration(m, q)]
             /\ proxies' = [proxies EXCEPT ![p][q] = @ \cup {Attr(m, "capability")}]
  /\ UNCHANGED <<vars, known, adapters, registered>>

-----------------------------------------------------------------------------
Sends(m) ==
  \/ \E p, q \in Clients : Say(m, p, q)
  \/ \E p, q \in Clients, f \in Capabilities :
       CreateProxy(m, p, q, f) \/ Invoke(m, p, q, f) \/ AdapterEvent(m, p, q, f)

Receives(m) ==
  /\ way[m] = "under way"
  /\ \/ ReceivedUnknown(m) \/ ReceivedMessage(m) \/ ReceivedInvocation(m)
     \/ ReceivedEvent(m) \/ ReceivedResponse(m)
     \/ \E n \in Messages : ReceivedRegistration(m, n)

MessagesNext ==
  \/ \E p, q \in Clients : Discovered(p, q) \/ Withdrawn(p, q)
  \/ \E p \in Clients, f \in Capabilities : ServiceDestroyed(p, f)
  \/ \E m \in Messages :
       Sends(m) \/ Requested(m) \/ Bounced(m) \/ Channel(m) \/ Receives(m)

MessagesSpec == MessagesInit /\ [][MessagesNext]_allVars

-----------------------------------------------------------------------------
(* Safety *)

\* What text-message, list-message and dictionary-message tell the application
\* of the addressee is what was said to it, through the text of a GVariant, an
\* attribute and back; raw-message comes as well, or alone where the sender's
\* device is not in the roster (tests/message-send.c, 63-80).
HeardAsSent ==
  \A m \in Messages : heard[m] # {} /\ Attr(m, "type") \in LowLevel =>
    heard[m] \ {[by |-> "raw-message", client |-> To(m)]} \subseteq
      {[by |-> Attr(m, "type"), client |-> To(m), said |-> letter[m].said]}

\* Whatever arrives is heard: what no adapter and no proxy takes reaches the
\* application as raw-message, and what one of them takes does not, whatever
\* services and proxies went while it was under way.  To how many proxies an
\* event goes is left open here: all of them by the comment in yts-contact.c
\* (521), the first by the code below it.
NothingSilent ==
  \A m \in Messages : way[m] = "arrived" =>
    LET takers == {h \in heard[m] : h.by \in {"adapter", "proxy"}}
    IN takers = {} <=> [by |-> "raw-message", client |-> To(m)] \in heard[m]

\* A proxy is for a service that registered it, until the service lost the
\* client: a response creates the proxy its registration asked for, at the
\* service it was sent to, though it looks for it at all those of the device.
ProxiesAgreed ==
  \A p, q \in Clients : \A f \in proxies[p][q] :
    \E m \in Messages :
      /\ channel[m] # "unsent" /\ letter[m].from = q /\ letter[m].to = p
      /\ Attr(m, "type") = "response" /\ Attr(m, "capability") = f
      /\ Proxy(m, q) \in heard[m]
=============================================================================
