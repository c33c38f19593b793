--------------------------- MODULE YtsInvocations ---------------------------
(***************************************************************************)
(* The serving side of a YtsClient: the invocations it has not answered    *)
(* yet and the remote proxies registered for its capabilities              *)
(* (yts-client.c, profile/yts-profile-impl.c, and the service adapters).   *)
(*                                                                         *)
(* Both tables hold the YtsContact of the peer as a pointer without a      *)
(* reference, so the addresses of contact objects are part of the model:   *)
(* contact[p] is the address the roster has for peer p, and a freed        *)
(* address may be given to the next contact object.  What the peers asked  *)
(* for (asked) and what the application owes (held) is kept beside the two *)
(* tables, to say what these are for; and so are the addresses of contacts *)
(* that went without a word (dropped).  No step depends on these but for   *)
(* the answers that the application gives.                                 *)
(*                                                                         *)
(* The roster appears by its effects on contact and uids only; YtsRoster   *)
(* has the reasons for them.  Where the code runs into undefined behaviour *)
(* the process may be gone (fault says why) or may go on.                  *)
(***************************************************************************)
EXTENDS Integers, Functions

CONSTANTS
  Peers,          \* JIDs of the remote clients
  Uids,           \* Uids[p]: the UIDs of the services that run on p
  Capabilities,   \* fqc ids the application may publish, the profile's apart
  InvocationIds,  \* strings a peer draws invocation ids from
  Objects,        \* addresses of YtsContact objects
  None,           \* NULL, or no entry in a table
  Collisions      \* whether an invocation id may be one that is in use

ServiceUids == UNION Range(Uids)

ASSUME InvocationsAssumption ==
  /\ DOMAIN Uids = Peers
  /\ None \notin Objects
  /\ Collisions \in BOOLEAN

VARIABLES
  contact,      \* contact[p]: address of the roster's contact for p, or None
  uids,         \* uids[p]: the services of that contact
  advertised,   \* capabilities of the client's status
  services,     \* capabilities with an adapter
  profile,      \* capabilities the profile service lists
  invocations,  \* invocations[i]: the record under id i, or None
  proxies,      \* proxies[k]: the proxies registered for capability k
  asked,        \* the proxies the peers asked for and did not give up
  held,         \* invocations the application still has to answer
  dropped,      \* addresses of contacts the tables were not told of
  fault         \* what ended the process, or "none"

roster_vars == <<contact, uids>>
service_vars == <<advertised, services, profile>>
record_vars == <<invocations, proxies>>
vars == <<roster_vars, service_vars, record_vars, asked, held, dropped, fault>>

-----------------------------------------------------------------------------
\* An InvocationData or a ProxyData: a bare pointer to the contact, and the
\* UID of the service that waits on it.
Records == [contact : Objects, proxy_id : ServiceUids]

Requests == [peer : Peers, proxy_id : ServiceUids, capability : Capabilities]
Promises == [id : InvocationIds, peer : Peers, proxy_id : ServiceUids,
             capability : Capabilities]

Faults == {"no record", "no contact", "stale contact", "stale adapter"}

TypeOK ==
  /\ contact \in [Peers -> Objects \cup {None}]
  /\ uids \in [Peers -> SUBSET ServiceUids]
  /\ advertised \in SUBSET Capabilities
  /\ services \in SUBSET Capabilities
  /\ profile \in SUBSET Capabilities
  /\ invocations \in [InvocationIds -> Records \cup {None}]
  /\ proxies \in [Capabilities -> SUBSET Records]
  /\ asked \in SUBSET Requests
  /\ held \in SUBSET Promises
  /\ dropped \in SUBSET Objects
  /\ fault \in Faults \cup {"none"}

Init ==
  /\ contact = [p \in Peers |-> None]
  /\ uids = [p \in Peers |-> {}]
  /\ advertised = {} /\ services = {} /\ profile = {}
  /\ invocations = [i \in InvocationIds |-> None]
  /\ proxies = [k \in Capabilities |-> {}]
  /\ asked = {} /\ held = {} /\ dropped = {}
  /\ fault = "none"

-----------------------------------------------------------------------------
(* Helpers *)

Running == fault = "none"

\* Undefined behaviour: the process may end here, or go on.
MayFault(f) == fault' \in {f, "none"}

Live == Range(contact) \ {None}

\* Mutant: one contact's departure takes every record with it.
OfContacts_All(O) == IF O = {} THEN {} ELSE Records

OfContacts(O) == {r \in Records : r.contact \in O}

\* Mutant: the loop over the list does not compare the UID.
OfProxyId_All(u) == Records

\* Mutant: the pass over the records of the UID is missing.
OfProxyId_Nothing(u) == {}

OfProxyId(u) == {r \in Records : r.proxy_id = u}

\* Mutant: the first loop is missing.
Purge_ProxiesOnly(G) ==
  /\ proxies' = [k \in Capabilities |-> proxies[k] \ G]
  /\ UNCHANGED invocations

\* The two loops of _roster_contact_removed and of service_removed_cb: the
\* records of G leave both tables.
Purge(G) ==
  /\ invocations' = [i \in InvocationIds |->
                       IF invocations[i] \in G THEN None ELSE invocations[i]]
  /\ proxies' = [k \in Capabilities |-> proxies[k] \ G]

\* Mutant: the contacts go, and the records are not told.
Clear_Silent ==
  /\ contact' = [p \in Peers |-> None]
  /\ uids' = [p \in Peers |-> {}]
  /\ UNCHANGED <<record_vars, dropped>>

\* yts_roster_clear: contact-removed is emitted for every contact.
Clear ==
  /\ contact' = [p \in Peers |-> None]
  /\ uids' = [p \in Peers |-> {}]
  /\ Purge(OfContacts(Live))
  /\ dropped' = dropped \ Live

\* The record under id i once client_establish_invocation has run: an id in
\* use keeps its record, and dispatch_to_service does not look at the result.
Established(i, r) == IF invocations[i] = None THEN r ELSE invocations[i]

InUse(i) == invocations[i] # None \/ \E h \in held : h.id = i

\* An invocation by service u of peer p gets as far as the adapters.
Arrives(p, u, i) ==
  /\ Running
  /\ contact[p] # None /\ u \in Uids[p]
  /\ Collisions \/ ~InUse(i)

\* Following a pointer to a contact that is gone is undefined.
Follow(o) == IF o \in Live THEN UNCHANGED fault ELSE MayFault("stale contact")

-----------------------------------------------------------------------------
(* The roster *)

\* A service comes into the roster, and its contact with it when the contact is
\* new: at an address that is free.
ServiceAdded(p, u, o) ==
  /\ Running
  /\ u \in Uids[p] \ uids[p]
  /\ IF contact[p] = None
     THEN o \notin Live /\ contact' = [contact EXCEPT ![p] = o]
     ELSE o = contact[p] /\ UNCHANGED contact
  /\ uids' = [uids EXCEPT ![p] = @ \cup {u}]
  /\ UNCHANGED <<service_vars, record_vars, asked, held, dropped, fault>>

\* _connection_get_contacts for a contact the roster knows already: the old
\* object is dropped with its services, and contact-removed is not emitted.
ContactReplaced(p, u, o) ==
  /\ Running
  /\ contact[p] # None /\ o \notin Live
  /\ u \in Uids[p]
  /\ contact' = [contact EXCEPT ![p] = o]
  /\ uids' = [uids EXCEPT ![p] = {u}]
  /\ dropped' = dropped \cup {contact[p]}
  /\ UNCHANGED <<service_vars, record_vars, asked, held, fault>>

\* yts_client_service_removed_cb: the roster drops the contact with its last
\* service, and then whatever bears the UID goes, on any contact.
ServiceRemoved(p, u) ==
  LET last == uids[p] = {u}
      gone == IF last THEN {contact[p]} ELSE {}
  IN
  /\ Running
  /\ u \in Uids[p]
  /\ uids' = [uids EXCEPT ![p] = @ \ {u}]
  /\ contact' = IF last THEN [contact EXCEPT ![p] = None] ELSE contact
  /\ Purge(OfProxyId(u) \cup OfContacts(gone))
  /\ dropped' = dropped \ gone
  /\ asked' = {r \in asked : r.peer # p \/ r.proxy_id # u}
  /\ UNCHANGED <<service_vars, held, fault>>

\* yts_client_cleanup_connection_resources: the peers lose sight of us too.
Disconnected ==
  /\ Running
  /\ Clear
  /\ asked' = {}
  /\ UNCHANGED <<service_vars, held, fault>>

-----------------------------------------------------------------------------
(* The application's capabilities *)

\* yts_client_add_capability: a new one refreshes the roster.
Advertise(k) ==
  /\ advertised' = advertised \cup {k}
  /\ IF k \in advertised THEN UNCHANGED <<roster_vars, record_vars, dropped>> ELSE Clear

AddCapability(k) ==
  /\ Running
  /\ k \notin advertised
  /\ Advertise(k)
  /\ UNCHANGED <<services, profile, asked, held, fault>>

\* yts_client_publish_service
PublishService(k) ==
  /\ Running
  /\ k \notin services
  /\ services' = services \cup {k}
  /\ Advertise(k)
  /\ profile' = profile \cup {k}
  /\ UNCHANGED <<asked, held, fault>>

\* The service is destroyed: its adapter, told first, drops the reference that
\* belongs to the client's table (_player_destroyed), and the client then has
\* the table drop it again (_service_destroyed).
ServiceDestroyed(k) ==
  /\ Running
  /\ k \in services
  /\ services' = services \ {k}
  /\ held' = {h \in held : h.capability # k}
  /\ MayFault("stale adapter")
  /\ UNCHANGED <<roster_vars, record_vars, advertised, profile, asked, dropped>>

-----------------------------------------------------------------------------
(* Messages from the peers, and answers to them *)

\* dispatch_to_service for a capability with an adapter: the record goes at
\* once unless the adapter keeps it for an answer that comes later.
Invoke(p, u, k, i, keep) ==
  /\ Arrives(p, u, i)
  /\ k \in services
  /\ IF keep
     THEN /\ invocations' = [invocations EXCEPT
               ![i] = Established(i, [contact |-> contact[p], proxy_id |-> u])]
          /\ held' = held \cup
               {[id |-> i, peer |-> p, proxy_id |-> u, capability |-> k]}
     ELSE /\ invocations' = [invocations EXCEPT ![i] = None]
          /\ UNCHANGED held
  /\ UNCHANGED <<roster_vars, service_vars, proxies, asked, dropped, fault>>

\* Mutant: what is advertised counts, with a service behind it or not.
Listed_Advertised(k) == k \in advertised

\* The profile service lists k.
Listed(k) == k \in profile

\* proxy_list_create_with_proxy, proxy_list_ensure_proxy: a proxy that is in
\* the list already, of the same contact, is not added again.
Ensured(k, r) == [proxies EXCEPT ![k] = @ \cup {r}]

\* dispatch_to_service for register-proxy, with the response.  For a
\* capability the profile does not list, the response goes to a contact
\* nobody assigned.
RegisterProxy(p, u, k, i) ==
  LET r == Established(i, [contact |-> contact[p], proxy_id |-> u]) IN
  /\ Arrives(p, u, i)
  /\ profile # {} /\ k \in advertised
  /\ asked' = asked \cup {[peer |-> p, proxy_id |-> u, capability |-> k]}
  /\ invocations' = [invocations EXCEPT ![i] = None]
  /\ IF Listed(k)
     THEN proxies' = Ensured(k, r) /\ Follow(r.contact)
     ELSE UNCHANGED proxies /\ MayFault("no contact")
  /\ UNCHANGED <<roster_vars, service_vars, held, dropped>>

\* yts_client_unregister_proxy: whoever registered with the id.
Unregistered(k, u) == [proxies EXCEPT ![k] = @ \ OfProxyId(u)]

\* dispatch_to_service for unregister-proxy, with the response.
UnregisterProxy(p, u, k, i) ==
  LET r == Established(i, [contact |-> contact[p], proxy_id |-> u]) IN
  /\ Arrives(p, u, i)
  /\ profile # {} /\ k \in advertised
  /\ asked' = asked \ {[peer |-> p, proxy_id |-> u, capability |-> k]}
  /\ invocations' = [invocations EXCEPT ![i] = None]
  /\ proxies' = IF Listed(k)
                THEN Unregistered(k, r.proxy_id)
                ELSE proxies
  /\ Follow(r.contact)
  /\ UNCHANGED <<roster_vars, service_vars, held, dropped>>

\* Mutant: the timer reports and leaves the record.
Timeout_Reports(i) ==
  /\ Running
  /\ invocations[i] # None
  /\ UNCHANGED vars

\* _invocation_timeout
Timeout(i) ==
  /\ Running
  /\ invocations[i] # None
  /\ invocations' = [invocations EXCEPT ![i] = None]
  /\ UNCHANGED <<roster_vars, service_vars, proxies, asked, held, dropped, fault>>

\* _adapter_response: without a record it says so, and reads the record.
Respond(h) ==
  /\ Running
  /\ h \in held
  /\ held' = held \ {h}
  /\ invocations' = [invocations EXCEPT ![h.id] = None]
  /\ IF invocations[h.id] = None
     THEN fault' = "no record"
     ELSE Follow(invocations[h.id].contact)
  /\ UNCHANGED <<roster_vars, service_vars, proxies, asked, dropped>>

\* _adapter_event: a message to every proxy of the capability.
Event(k) ==
  /\ Running
  /\ k \in services /\ proxies[k] # {}
  /\ IF \A r \in proxies[k] : r.contact \in Live
     THEN UNCHANGED fault
     ELSE MayFault("stale contact")
  /\ UNCHANGED <<roster_vars, service_vars, record_vars, asked, held, dropped>>

-----------------------------------------------------------------------------
RosterStep ==
  \/ \E p \in Peers, u \in ServiceUids, o \in Objects :
       ServiceAdded(p, u, o) \/ ContactReplaced(p, u, o)
  \/ \E p \in Peers, u \in ServiceUids : ServiceRemoved(p, u)
  \/ Disconnected

ServiceStep ==
  \E k \in Capabilities : AddCapability(k) \/ PublishService(k) \/ ServiceDestroyed(k)

MessageStep ==
  \/ \E p \in Peers, u \in ServiceUids, k \in Capabilities, i \in InvocationIds :
       \/ \E keep \in BOOLEAN : Invoke(p, u, k, i, keep)
       \/ RegisterProxy(p, u, k, i)
       \/ UnregisterProxy(p, u, k, i)
  \/ \E i \in InvocationIds : Timeout(i)
  \/ \E h \in Promises : Respond(h)
  \/ \E k \in Capabilities : Event(k)

Next == RosterStep \/ ServiceStep \/ MessageStep

Spec == Init /\ [][Next]_vars

\* The main loop fires the timer of every record.
FairSpec == Spec /\ \A i \in InvocationIds : WF_vars(Timeout(i))

-----------------------------------------------------------------------------
(* Safety *)

\* No record outlives the contact object it points to, but for those of a
\* contact that was replaced: contact-removed reaches both tables before the
\* object goes, and the records of an address that was given away again go
\* with it.
RecordsLive ==
  /\ \A i \in InvocationIds :
       invocations[i] # None => invocations[i].contact \in Live \cup dropped
  /\ \A k \in Capabilities : \A r \in proxies[k] : r.contact \in Live \cup dropped

\* An invocation the application holds will be answered, if at all, to the
\* service that made it, and to its peer unless that one's contact was replaced.
AnswersGoHome ==
  \A h \in held :
    invocations[h.id] # None =>
      /\ invocations[h.id].proxy_id = h.proxy_id
      /\ invocations[h.id].contact \in dropped \cup {contact[h.peer]}

\* A proxy in the table stands for a peer that asked for it and did not give it
\* up since: no one gets events it did not subscribe to, unless a contact was
\* replaced and its address is that of another now.
ProxiesAskedFor ==
  \A k \in Capabilities : \A r \in proxies[k] :
    \/ r.contact \in dropped
    \/ \E q \in asked : /\ q.capability = k /\ q.proxy_id = r.proxy_id
                        /\ contact[q.peer] = r.contact

\* Proxies are registered for capabilities the profile lists only.
ProxiesOfProfile == \A k \in Capabilities : proxies[k] # {} => k \in profile

\* An answer that comes too late is reported (yts-client.c, 3162), no more.
LateAnswerReported == fault # "no record"

-----------------------------------------------------------------------------
(* What a step may not do *)

Effective(q) ==
  [contact |-> contact[q.peer], proxy_id |-> q.proxy_id] \in proxies[q.capability]

Answerable(h) == invocations[h.id] # None

\* A proxy stays registered until its own peer gives it up, or the contact
\* object of that peer leaves the roster (with the last service, replaced, or
\* when all are refreshed for a new capability).  Another peer can end it in one
\* way only: with a service of the same UID, that goes or gives up the proxy.
RegistrationKept ==
  [][\A q \in asked \cap asked' :
       Effective(q) =>
         \/ Effective(q)'
         \/ contact'[q.peer] # contact[q.peer]
         \/ \E p \in Peers : ServiceRemoved(p, q.proxy_id)
         \/ \E p \in Peers, i \in InvocationIds :
              UnregisterProxy(p, q.proxy_id, q.capability, i)]_vars

\* An invocation the application holds stays answerable until its timer fires,
\* a service of its UID goes, or the contact object it points to leaves the
\* roster; an id of another invocation, an answer to one, a replaced contact or
\* the departure of a peer at another address does not end it.
InvocationKept ==
  [][\A h \in held \cap held' :
       Answerable(h) =>
         \/ Answerable(h)'
         \/ Timeout(h.id)
         \/ \E p \in Peers : ServiceRemoved(p, h.proxy_id)
         \/ invocations[h.id].contact \in Live \ Live']_vars

(* Liveness *)

\* No record of an invocation stays for ever, whatever the application does.
InvocationsEnd ==
  \A i \in InvocationIds : invocations[i] # None ~> (invocations[i] = None \/ ~Running)
=============================================================================
