------------------------------ MODULE YtsRoster ------------------------------
(***************************************************************************)
(* Discovery: how the services a TpYtsStatus object reports become the     *)
(* contacts and services of a YtsRoster, and how the status a remote       *)
(* service advertises finds its way to the YtsService object that stands   *)
(* for it.                                                                 *)
(*                                                                         *)
(* Three components meet here.  yts-client.c receives the signals of       *)
(* TpYtsStatus, yts-roster.c keeps a table of contacts and asks            *)
(* telepathy-glib for the TpContact of a contact it does not know yet, and *)
(* yts-contact.c keeps the table of services of one contact.  The answer   *)
(* to the request for a TpContact comes later and in any order, so a       *)
(* status can be reported before there is a contact, or before there is a  *)
(* service, to hang it on: both levels have a table of deferred statuses.  *)
(*                                                                         *)
(* The objects are flattened into functions of the contact's JID, which is *)
(* the key of the roster's table: services[c] is the table of the contact  *)
(* object stored under c, and is empty when there is none.                 *)
(*                                                                         *)
(* outdated is a history variable, to say which statuses are still those   *)
(* of an earlier connection; no step depends on it.                        *)
(***************************************************************************)
EXTENDS Integers, FiniteSets

CONSTANTS
  Contacts,       \* JIDs on the mesh
  Services,       \* service UIDs
  Capabilities,   \* fqc ids
  Statuses,       \* status documents
  NoStatus,       \* NULL, or no entry in a table of statuses
  Caps,           \* Caps[s]: the capabilities service s announces
  Unresolvable,   \* contacts whose TpContact the connection may fail to give
  Reports,        \* Reports[c][s]: bound: the statuses that service s of c may report
  MaxPending,     \* MaxPending[c]: bound: requests for the TpContact of c in flight
  MaxConnections  \* bound: connections made in one run

ASSUME RosterAssumption ==
  /\ NoStatus \notin Statuses
  /\ IsFiniteSet(Services)
  /\ Caps \in [Services -> SUBSET Capabilities]
  /\ Unresolvable \subseteq Contacts
  /\ Reports \in [Contacts -> [Services -> SUBSET Statuses]]
  /\ MaxPending \in [Contacts -> Nat]
  /\ MaxConnections \in Nat

VARIABLES
  connection,   \* "none", "made" (tp_conn is set), "ready" (tp_status is for it)
  connections,  \* how many connections were made, for MaxConnections
  has_status,   \* priv->tp_status # NULL; never reset
  fault,        \* what ended the process, or "none"
  discovered,   \* discovered[c]: tp_yts_status_get_discovered_services
  reported,     \* reported[c][s][f]: tp_yts_status_get_discovered_statuses
  contacts,     \* keys of the roster's table of contacts
  services,     \* services[c]: keys of the service table of contact c
  statuses,     \* statuses[c][s][f]: the statuses of the YtsService object
  deferred_service_statuses, \* the contact's deferred statuses
  deferred_statuses,         \* the roster's deferred statuses
  pending,      \* pending[c]: bag of requests for the TpContact of c
  outdated,     \* outdated[c][s]: capabilities the roster had a status for when the
                \* last TpYtsStatus came, and which that has not reported since
  contact_view, \* the contacts an application knows from the roster's signals
  service_view  \* service_view[c]: the services it knows likewise

mesh_vars == <<discovered, reported>>
conn_vars == <<connection, connections, has_status, fault>>
view_vars == <<contact_view, service_view>>
table_vars == <<contacts, services, statuses, deferred_service_statuses>>
vars == <<conn_vars, mesh_vars, table_vars, deferred_statuses, pending, outdated,
          view_vars>>

-----------------------------------------------------------------------------
StatusMap == [Capabilities -> Statuses \cup {NoStatus}]
NoStatuses == [f \in Capabilities |-> NoStatus]
NoServiceStatuses == [s \in Services |-> NoStatuses]

\* A request for a TpContact holds the YtsService that waits for it.
Requests == [service : Services, statuses : StatusMap]
NoRequests == [r \in Requests |-> 0]

TypeOK ==
  /\ connection \in {"none", "made", "ready"}
  /\ connections \in 0..MaxConnections
  /\ has_status \in BOOLEAN
  /\ fault \in {"none", "null_error"}
  /\ discovered \in [Contacts -> SUBSET Services]
  /\ reported \in [Contacts -> [Services -> StatusMap]]
  /\ contacts \in SUBSET Contacts
  /\ services \in [Contacts -> SUBSET Services]
  /\ statuses \in [Contacts -> [Services -> StatusMap]]
  /\ deferred_service_statuses \in [Contacts -> [Services -> StatusMap]]
  /\ deferred_statuses \in [Contacts -> [Services -> StatusMap]]
  /\ pending \in [Contacts -> [Requests -> Nat]]
  /\ outdated \in [Contacts -> [Services -> SUBSET Capabilities]]
  /\ contact_view \in SUBSET Contacts
  /\ service_view \in [Contacts -> SUBSET Services]

Init ==
  /\ connection = "none" /\ connections = 0 /\ has_status = FALSE /\ fault = "none"
  /\ discovered = [c \in Contacts |-> {}]
  /\ reported = [c \in Contacts |-> NoServiceStatuses]
  /\ contacts = {}
  /\ services = [c \in Contacts |-> {}]
  /\ statuses = [c \in Contacts |-> NoServiceStatuses]
  /\ deferred_service_statuses = [c \in Contacts |-> NoServiceStatuses]
  /\ deferred_statuses = [c \in Contacts |-> NoServiceStatuses]
  /\ pending = [c \in Contacts |-> NoRequests]
  /\ outdated = [c \in Contacts |-> [s \in Services |-> {}]]
  /\ contact_view = {}
  /\ service_view = [c \in Contacts |-> {}]

-----------------------------------------------------------------------------
(* Helpers *)

\* The requests of a bag, one by one.
Copies(reqs) == UNION {{r} \X (1..reqs[r]) : r \in Requests}

InFlight(reqs) == Cardinality(Copies(reqs))

\* Mutant: a deferred status only fills a gap.
Overlay_FillsGaps(base, over) ==
  [f \in Capabilities |-> IF base[f] = NoStatus THEN over[f] ELSE base[f]]

\* The entries of over replace those of base (g_hash_table_insert).
Overlay(base, over) ==
  [f \in Capabilities |-> IF over[f] = NoStatus THEN base[f] ELSE over[f]]

\* The service object made for s: its statuses are those TpYtsStatus has
\* for the capabilities the service announces.
NewService(rep, s) ==
  [service |-> s,
   statuses |-> [f \in Capabilities |->
                   IF f \in Caps[s] THEN rep[s][f] ELSE NoStatus]]

\* Mutant: one request per contact, whatever the number of its services.
Enqueue_OnePerContact(reqs, S, rep) ==
  [r \in Requests |->
     reqs[r] + IF S # {} /\ r = NewService(rep, CHOOSE s \in S : TRUE) THEN 1 ELSE 0]

\* One more request for the TpContact per service of S.
Enqueue(reqs, S, rep) ==
  [r \in Requests |->
     reqs[r] + IF \E s \in S : r = NewService(rep, s) THEN 1 ELSE 0]

\* yts_roster_add_service for every service of D[c]: a known contact takes
\* the services it does not have, with the statuses it deferred for them; a
\* service it has already is announced again and dropped.  An unknown
\* contact is requested.
AddToRoster(D, rep) ==
  LET new(c) == IF c \in contacts THEN D[c] \ services[c] ELSE {} IN
  /\ services' = [c \in Contacts |-> services[c] \cup new(c)]
  /\ statuses' = [c \in Contacts |-> [s \in Services |->
       IF s \in new(c)
       THEN Overlay(NewService(rep[c], s).statuses, deferred_service_statuses[c][s])
       ELSE statuses[c][s]]]
  /\ deferred_service_statuses' = [c \in Contacts |-> [s \in Services |->
       IF s \in new(c) THEN NoStatuses ELSE deferred_service_statuses[c][s]]]
  /\ pending' = [c \in Contacts |->
       IF c \in contacts THEN pending[c] ELSE Enqueue(pending[c], D[c], rep[c])]
  /\ service_view' = [c \in Contacts |->
       IF c \in contacts THEN service_view[c] \cup D[c] ELSE service_view[c]]
  /\ UNCHANGED <<contacts, contact_view, deferred_statuses>>

\* What an application makes of contact-removed: the contact is gone, and its
\* services with it.
EmitContactRemoved(S) ==
  /\ contact_view' = contact_view \ S
  /\ service_view' = [c \in Contacts |-> IF c \in S THEN {} ELSE service_view[c]]

\* Mutant: a loop that removes the contacts without telling anyone.
Clear_Silent ==
  /\ contacts' = {}
  /\ services' = [c \in Contacts |-> {}]
  /\ statuses' = [c \in Contacts |-> NoServiceStatuses]
  /\ deferred_service_statuses' = [c \in Contacts |-> NoServiceStatuses]
  /\ UNCHANGED view_vars

\* yts_roster_clear: every contact goes, with its services and what it
\* deferred; contact-removed is emitted for each.  The roster's own deferred
\* statuses stay, and so do the requests in flight.
Clear ==
  /\ contacts' = {}
  /\ services' = [c \in Contacts |-> {}]
  /\ statuses' = [c \in Contacts |-> NoServiceStatuses]
  /\ deferred_service_statuses' = [c \in Contacts |-> NoServiceStatuses]
  /\ EmitContactRemoved(contacts)

Only(c, S) == [k \in Contacts |-> IF k = c THEN S ELSE {}]

WithinBound == \A c \in Contacts : InFlight(pending'[c]) <= MaxPending[c]

-----------------------------------------------------------------------------
(* The connection *)

\* yts_client_setup_account_connection.
ConnectionMade ==
  /\ connection = "none" /\ connections < MaxConnections
  /\ connection' = "made" /\ connections' = connections + 1
  /\ UNCHANGED <<has_status, fault, mesh_vars, table_vars, deferred_statuses, pending,
                 outdated, view_vars>>

\* The roster has a status of s for capability f, or a service object of s made
\* with one, in a table or with a request.
Has(c, s, f) ==
  \/ deferred_statuses[c][s][f] # NoStatus
  \/ deferred_service_statuses[c][s][f] # NoStatus
  \/ s \in services[c]
  \/ \E r \in Requests : pending[c][r] > 0 /\ r.service = s

\* yts_client_yts_status_cb: the TpYtsStatus of the connection is there, with
\* what the mesh looks like now, and every service it knows is processed.  What
\* the roster has already, of the TpYtsStatus before or from a refresh since,
\* stays.
StatusReady(D, rep) ==
  /\ connection = "made"
  /\ \A c \in Contacts, s \in Services, f \in Capabilities :
       rep[c][s][f] \in Reports[c][s] \cup {NoStatus}
  /\ connection' = "ready" /\ has_status' = TRUE
  /\ discovered' = D /\ reported' = rep
  /\ AddToRoster(D, rep)
  /\ WithinBound
  /\ outdated' = [c \in Contacts |-> [s \in Services |-> {f \in Capabilities : Has(c, s, f)}]]
  /\ UNCHANGED <<connections, fault>>

\* yts_client_status_cb with TP_CONNECTION_STATUS_DISCONNECTED.  The requests
\* in flight end with the connection, and without a contact: as the error is the
\* connection's, none is listed for the JID, and _connection_get_contacts, which
\* looks for it there, reads its message through NULL (unless there is no list).
\* The process may end by that; the tables are as if the answers had not come.
Disconnected ==
  /\ connection # "none"
  /\ connection' = "none"
  /\ Clear
  /\ pending' = [c \in Contacts |-> NoRequests]
  /\ \/ UNCHANGED fault
     \/ (\E c \in Contacts : pending[c] # NoRequests) /\ fault' = "null_error"
  /\ UNCHANGED <<connections, has_status, mesh_vars, deferred_statuses, outdated>>

\* yts_client_refresh_roster, called when the application adds a capability.
\* Without a connection the requests are refused; with one that has no
\* TpYtsStatus yet, the services are those of the last one.
RefreshRoster ==
  /\ has_status
  /\ Clear
  /\ pending' = [c \in Contacts |->
       IF connection = "none" THEN pending[c]
       ELSE Enqueue(pending[c], discovered[c], reported[c])]
  /\ WithinBound
  /\ UNCHANGED <<conn_vars, mesh_vars, deferred_statuses, outdated>>

-----------------------------------------------------------------------------
(* The signals of TpYtsStatus *)

\* yts_client_service_added_cb
ServiceAdded(c, s) ==
  /\ connection = "ready" /\ s \notin discovered[c]
  /\ discovered' = [discovered EXCEPT ![c] = @ \cup {s}]
  /\ AddToRoster(Only(c, {s}), reported)
  /\ WithinBound
  /\ UNCHANGED <<conn_vars, reported, outdated>>

\* Mutant: only the contact's last service is announced.
EmitServiceRemoved_LastOnly(c, s) ==
  IF services[c] = {s} THEN EmitContactRemoved({c}) ELSE UNCHANGED view_vars

\* service-removed, and contact-removed with the contact's last service.
EmitServiceRemoved(c, s) ==
  IF services[c] = {s} THEN EmitContactRemoved({c})
  ELSE /\ service_view' = [service_view EXCEPT ![c] = @ \ {s}]
       /\ UNCHANGED contact_view

\* Mutant: the contact stays when its last service goes.
DropService_KeepContact(c, s) ==
  /\ services' = [services EXCEPT ![c] = @ \ {s}]
  /\ statuses' = [statuses EXCEPT ![c][s] = NoStatuses]
  /\ service_view' = [service_view EXCEPT ![c] = @ \ {s}]
  /\ UNCHANGED <<contacts, deferred_service_statuses, contact_view>>

\* yts_roster_remove_service_by_id for a service the contact has; a contact
\* left without services goes too, with what it deferred.
DropService(c, s) ==
  LET empty == services[c] = {s} IN
  /\ services' = [services EXCEPT ![c] = @ \ {s}]
  /\ statuses' = [statuses EXCEPT ![c][s] = NoStatuses]
  /\ contacts' = IF empty THEN contacts \ {c} ELSE contacts
  /\ deferred_service_statuses' =
       IF empty THEN [deferred_service_statuses EXCEPT ![c] = NoServiceStatuses]
       ELSE deferred_service_statuses
  /\ EmitServiceRemoved(c, s)

\* yts_client_service_removed_cb.  When the contact is unknown, or does not
\* have the service, the roster only logs: a request in flight goes on.
ServiceRemoved(c, s) ==
  /\ connection = "ready" /\ s \in discovered[c]
  /\ discovered' = [discovered EXCEPT ![c] = @ \ {s}]
  /\ IF c \in contacts /\ s \in services[c]
     THEN DropService(c, s)
     ELSE UNCHANGED <<table_vars, view_vars>>
  /\ UNCHANGED <<conn_vars, reported, deferred_statuses, pending, outdated>>

\* yts_contact_update_service_status of a contact in the roster: "a race
\* condition between the service's status being discovered, and the service's
\* capabilities being discovered", which the contact's table waits out.
UpdateServiceStatus(c, s, f, x) ==
  \/ /\ s \in services[c]
     /\ statuses' = [statuses EXCEPT ![c][s][f] = x]
     /\ UNCHANGED deferred_service_statuses
  \/ /\ s \notin services[c]
     /\ deferred_service_statuses' = [deferred_service_statuses EXCEPT ![c][s][f] = x]
     /\ UNCHANGED statuses

\* _tp_yts_status_changed, yts_roster_update_contact_status: the status goes
\* to the contact, or waits in the roster's table.
StatusChanged(c, s, f, x) ==
  /\ connection = "ready" /\ x \in Reports[c][s] /\ reported[c][s][f] # x
  /\ reported' = [reported EXCEPT ![c][s][f] = x]
  /\ \/ /\ c \in contacts
        /\ UpdateServiceStatus(c, s, f, x)
        /\ UNCHANGED deferred_statuses
     \/ /\ c \notin contacts
        /\ deferred_statuses' = [deferred_statuses EXCEPT ![c][s][f] = x]
        /\ UNCHANGED <<statuses, deferred_service_statuses>>
  /\ outdated' = [outdated EXCEPT ![c][s] = @ \ {f}]
  /\ UNCHANGED <<conn_vars, discovered, contacts, services, pending, view_vars>>

-----------------------------------------------------------------------------
(* The answers of telepathy-glib, in any order *)

\* Mutant: the request is accounted for twice.
Answered_Twice(c, r) == pending' = [pending EXCEPT ![c][r] = @ - 2]

Answered(c, r) == pending' = [pending EXCEPT ![c][r] = @ - 1]

\* Mutant: the deferred statuses are applied and kept.
TakeDeferred_Keep(c) == UNCHANGED deferred_statuses

TakeDeferred(c) ==
  deferred_statuses' = [deferred_statuses EXCEPT ![c] = NoServiceStatuses]

\* _connection_get_contacts with a TpContact: a new contact object takes the
\* place of whatever the table holds under the JID, the service that waited
\* is added to it, and the statuses the roster deferred for the JID go to
\* that service or to the new contact's own table.
GotContact(c, r) ==
  /\ pending[c][r] > 0
  /\ Answered(c, r)
  /\ contacts' = contacts \cup {c}
  /\ services' = [services EXCEPT ![c] = {r.service}]
  /\ statuses' = [statuses EXCEPT ![c] =
       [s \in Services |-> IF s = r.service
                           THEN Overlay(r.statuses, deferred_statuses[c][s])
                           ELSE NoStatuses]]
  /\ deferred_service_statuses' = [deferred_service_statuses EXCEPT ![c] =
       [deferred_statuses[c] EXCEPT ![r.service] = NoStatuses]]
  /\ TakeDeferred(c)
  /\ contact_view' = contact_view \cup {c}
  /\ service_view' = [service_view EXCEPT ![c] = @ \cup {r.service}]
  /\ UNCHANGED <<conn_vars, mesh_vars, outdated>>

\* _connection_get_contacts with an error for the JID: logged, and the service is
\* lost.
ContactFailed(c, r) ==
  /\ pending[c][r] > 0 /\ c \in Unresolvable
  /\ Answered(c, r)
  /\ UNCHANGED <<conn_vars, mesh_vars, table_vars, deferred_statuses, outdated, view_vars>>

-----------------------------------------------------------------------------
Next ==
  /\ fault = "none"
  /\ \/ ConnectionMade
     \/ \E D \in [Contacts -> SUBSET Services],
           rep \in [Contacts -> [Services -> StatusMap]] : StatusReady(D, rep)
     \/ Disconnected
     \/ RefreshRoster
     \/ \E c \in Contacts, s \in Services : ServiceAdded(c, s) \/ ServiceRemoved(c, s)
     \/ \E c \in Contacts, s \in Services, f \in Capabilities, x \in Statuses :
          StatusChanged(c, s, f, x)
     \/ \E c \in Contacts, r \in Requests : GotContact(c, r) \/ ContactFailed(c, r)

Spec == Init /\ [][Next]_vars

-----------------------------------------------------------------------------
(* Safety *)

\* A contact is in the roster exactly as long as it has a service
\* (yts_roster_remove_service_by_id drops it with its last one).
ContactIffService == \A c \in Contacts : c \in contacts <=> services[c] # {}

\* A status waits only while what it waits for is missing.  A deferred status
\* that outlives the arrival of its contact or service would be applied, out
\* of date, to the next one.
DeferredOnlyWhileMissing ==
  \A c \in Contacts, s \in Services :
    /\ deferred_statuses[c][s] # NoStatuses => c \notin contacts
    /\ deferred_service_statuses[c][s] # NoStatuses =>
         c \in contacts /\ s \notin services[c]

\* An application that follows the roster's signals knows exactly the contacts
\* of the roster, and every service of theirs.
ViewComplete ==
  /\ contact_view = contacts
  /\ \A c \in Contacts : services[c] \subseteq service_view[c]

\* The contacts that are asked for one request at a time.
Serial == {c \in Contacts : MaxPending[c] = 1}

\* What such an application takes for a service of a contact is one:
\* service-removed is emitted for every service that leaves the roster while
\* its contact stays.
ViewExact == \A c \in Serial : service_view[c] \subseteq services[c]

\* A service in the roster shows the last status reported for each of its
\* capabilities: none of the updates that overtook the service's arrival, or
\* that arrived with the TpContact still in flight, is lost or undone.  The
\* exception is what the roster had from the TpYtsStatus of an earlier connection
\* when a new one came (deferred statuses outlive a disconnect, and a refresh
\* before the new one brings old services), until that reports a status for it.
StatusFresh ==
  connection = "ready" =>
    \A c \in Serial : \A s \in services[c] : \A f \in Caps[s] :
      f \in outdated[c][s] \/ statuses[c][s][f] = reported[c][s][f]

\* Once no answer is due for a contact that can be resolved, each of its
\* discovered services is in the roster.
NothingLost ==
  connection = "ready" =>
    \A c \in Serial \ Unresolvable :
      InFlight(pending[c]) = 0 => discovered[c] \subseteq services[c]

\* Once no answer is due for a contact, every service it has in the roster is
\* on the mesh.
NoGhost ==
  connection = "ready" =>
    \A c \in Contacts :
      InFlight(pending[c]) = 0 => services[c] \subseteq discovered[c]
=============================================================================
