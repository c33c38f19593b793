--------------------------- MODULE YtsRosterProofs ---------------------------
(***************************************************************************)
(* The roster's bookkeeping, for any mesh, in three layers: type           *)
(* correctness, and the three invariants that hold whatever the order in   *)
(* which TpContacts arrive; what holds of a contact that is asked for one  *)
(* request at a time; and the freshness of statuses, on any number of      *)
(* connections.                                                            *)
(*                                                                         *)
(* Inv is inductive as it stands.  Its parts lean on each other:           *)
(* ContactIffService needs the removal of the last service to take the     *)
(* contact along, DeferredOnlyWhileMissing needs ContactIffService to know *)
(* that a removed contact leaves no table behind, and ViewComplete needs   *)
(* both to know which tables a signal is about.                            *)
(***************************************************************************)
EXTENDS YtsRoster, FiniteSetTheorems, TLAPS

Inv ==
  /\ TypeOK
  /\ ContactIffService
  /\ DeferredOnlyWhileMissing
  /\ ViewComplete

-----------------------------------------------------------------------------
(* The operators on status tables and request bags keep their types. *)

LEMMA NoStatusesType == NoStatuses \in StatusMap /\ NoServiceStatuses \in [Services -> StatusMap]
  BY DEF NoStatuses, NoServiceStatuses, StatusMap

LEMMA OverlayType ==
  ASSUME NEW base \in StatusMap, NEW over \in StatusMap
  PROVE  Overlay(base, over) \in StatusMap
  BY DEF Overlay, StatusMap

LEMMA NewServiceType ==
  ASSUME NEW rep \in [Services -> StatusMap], NEW s \in Services
  PROVE  NewService(rep, s) \in Requests
  BY DEF NewService, Requests, StatusMap

LEMMA EnqueueType ==
  ASSUME NEW reqs \in [Requests -> Nat], NEW S, NEW rep
  PROVE  Enqueue(reqs, S, rep) \in [Requests -> Nat]
<1>1. ASSUME NEW r \in Requests
      PROVE  reqs[r] + (IF \E s \in S : r = NewService(rep, s) THEN 1 ELSE 0) \in Nat
  OBVIOUS
<1>2. QED  BY <1>1 DEF Enqueue

-----------------------------------------------------------------------------
(* One lemma for each of the two compound steps. *)

LEMMA AddToRosterInv ==
  ASSUME Inv,
         NEW D \in [Contacts -> SUBSET Services],
         NEW rep \in [Contacts -> [Services -> StatusMap]],
         AddToRoster(D, rep)
  PROVE  /\ services' \in [Contacts -> SUBSET Services]
         /\ statuses' \in [Contacts -> [Services -> StatusMap]]
         /\ deferred_service_statuses' \in [Contacts -> [Services -> StatusMap]]
         /\ pending' \in [Contacts -> [Requests -> Nat]]
         /\ service_view' \in [Contacts -> SUBSET Services]
         /\ UNCHANGED <<contacts, contact_view, deferred_statuses>>
         /\ ContactIffService'
         /\ DeferredOnlyWhileMissing'
         /\ ViewComplete'
<1> DEFINE new(c) == IF c \in contacts THEN D[c] \ services[c] ELSE {}
<1> USE DEF Inv, TypeOK
<1>1. UNCHANGED <<contacts, contact_view, deferred_statuses>>
  BY DEF AddToRoster
<1>2. services' = [c \in Contacts |-> services[c] \cup new(c)]
  BY DEF AddToRoster
<1>3. services' \in [Contacts -> SUBSET Services]
  BY <1>2
<1>4. statuses' \in [Contacts -> [Services -> StatusMap]]
  <2>1. ASSUME NEW c \in Contacts, NEW s \in Services
        PROVE  /\ Overlay(NewService(rep[c], s).statuses,
                          deferred_service_statuses[c][s]) \in StatusMap
               /\ statuses[c][s] \in StatusMap
    <3>1. rep[c] \in [Services -> StatusMap] /\ statuses[c][s] \in StatusMap
          /\ deferred_service_statuses[c][s] \in StatusMap
      OBVIOUS
    <3>2. NewService(rep[c], s).statuses \in StatusMap
      BY <3>1, NewServiceType DEF Requests
    <3>3. QED  BY <3>1, <3>2, OverlayType
  <2>2. QED  BY <2>1 DEF AddToRoster
<1>5. deferred_service_statuses' = [c \in Contacts |-> [s \in Services |->
         IF s \in new(c) THEN NoStatuses ELSE deferred_service_statuses[c][s]]]
  BY DEF AddToRoster
<1>6. deferred_service_statuses' \in [Contacts -> [Services -> StatusMap]]
  BY <1>5, NoStatusesType
<1>7. pending' \in [Contacts -> [Requests -> Nat]]
  BY EnqueueType DEF AddToRoster
<1>8. service_view' = [c \in Contacts |->
         IF c \in contacts THEN service_view[c] \cup D[c] ELSE service_view[c]]
  BY DEF AddToRoster
<1>9. service_view' \in [Contacts -> SUBSET Services]
  BY <1>8
<1>10. ContactIffService'
  BY <1>1, <1>2 DEF ContactIffService
<1>11. DeferredOnlyWhileMissing'
  BY <1>1, <1>2, <1>5 DEF DeferredOnlyWhileMissing
<1>12. ViewComplete'
  BY <1>1, <1>2, <1>8 DEF ViewComplete
<1>13. QED
  BY <1>1, <1>3, <1>4, <1>6, <1>7, <1>9, <1>10, <1>11, <1>12

LEMMA ClearInv ==
  ASSUME Inv, Clear, UNCHANGED deferred_statuses
  PROVE  /\ contacts' \in SUBSET Contacts
         /\ services' \in [Contacts -> SUBSET Services]
         /\ statuses' \in [Contacts -> [Services -> StatusMap]]
         /\ deferred_service_statuses' \in [Contacts -> [Services -> StatusMap]]
         /\ contact_view' \in SUBSET Contacts
         /\ service_view' \in [Contacts -> SUBSET Services]
         /\ ContactIffService'
         /\ DeferredOnlyWhileMissing'
         /\ ViewComplete'
<1> USE DEF Inv, TypeOK, Clear, EmitContactRemoved
<1>1. /\ contacts' = {}
      /\ services' = [c \in Contacts |-> {}]
      /\ deferred_service_statuses' = [c \in Contacts |-> NoServiceStatuses]
  OBVIOUS
<1>2. ContactIffService'
  BY <1>1 DEF ContactIffService
<1>3. DeferredOnlyWhileMissing'
  BY <1>1 DEF DeferredOnlyWhileMissing, NoServiceStatuses
<1>4. ViewComplete'
  BY <1>1 DEF ViewComplete
<1>5. QED
  BY <1>1, <1>2, <1>3, <1>4, NoStatusesType

-----------------------------------------------------------------------------
LEMMA InitInv == Init => Inv
<1> SUFFICES ASSUME Init PROVE Inv
  OBVIOUS
<1>1. TypeOK
  <2>1. NoRequests \in [Requests -> Nat]
    BY DEF NoRequests
  <2>2. connections \in 0..MaxConnections
    BY RosterAssumption DEF Init
  <2>3. /\ reported \in [Contacts -> [Services -> StatusMap]]
        /\ statuses \in [Contacts -> [Services -> StatusMap]]
        /\ deferred_service_statuses \in [Contacts -> [Services -> StatusMap]]
        /\ deferred_statuses \in [Contacts -> [Services -> StatusMap]]
    BY NoStatusesType DEF Init
  <2>4. pending \in [Contacts -> [Requests -> Nat]]
    BY <2>1 DEF Init
  <2>5. QED
    BY <2>2, <2>3, <2>4 DEF Init, TypeOK
<1>2. ContactIffService /\ DeferredOnlyWhileMissing /\ ViewComplete
  BY DEF Init, ContactIffService, DeferredOnlyWhileMissing, ViewComplete,
         NoServiceStatuses
<1>3. QED  BY <1>1, <1>2 DEF Inv

LEMMA StepInv == Inv /\ [Next]_vars => Inv'
<1> SUFFICES ASSUME Inv, [Next]_vars PROVE Inv'
  OBVIOUS
<1> USE DEF Inv
<1>1. CASE ConnectionMade
  <2>1. TypeOK'
    BY <1>1, RosterAssumption
    DEF ConnectionMade, TypeOK, mesh_vars, table_vars, view_vars
  <2>2. QED
    BY <1>1, <2>1
    DEF ConnectionMade, mesh_vars, table_vars, view_vars,
        ContactIffService, DeferredOnlyWhileMissing, ViewComplete
<1>2. ASSUME NEW D \in [Contacts -> SUBSET Services],
             NEW rep \in [Contacts -> [Services -> StatusMap]],
             StatusReady(D, rep)
      PROVE  Inv'
  <2>1. AddToRoster(D, rep)
    BY <1>2 DEF StatusReady
  <2>2. QED
    BY <1>2, <2>1, AddToRosterInv DEF StatusReady, TypeOK
<1>3. CASE Disconnected
  <2>1. NoRequests \in [Requests -> Nat]
    BY DEF NoRequests
  <2>2. QED
    BY <1>3, <2>1, ClearInv DEF Disconnected, mesh_vars, TypeOK
<1>4. CASE RefreshRoster
  <2>1. pending' \in [Contacts -> [Requests -> Nat]]
    BY <1>4, EnqueueType DEF RefreshRoster, TypeOK
  <2>2. QED
    BY <1>4, <2>1, ClearInv DEF RefreshRoster, conn_vars, mesh_vars, TypeOK
<1>5. ASSUME NEW c \in Contacts, NEW s \in Services, ServiceAdded(c, s)
      PROVE  Inv'
  <2>1. Only(c, {s}) \in [Contacts -> SUBSET Services]
    BY DEF Only
  <2>2. AddToRoster(Only(c, {s}), reported) /\ reported \in [Contacts -> [Services -> StatusMap]]
    BY <1>5 DEF ServiceAdded, TypeOK
  <2>3. discovered' \in [Contacts -> SUBSET Services]
    BY <1>5 DEF ServiceAdded, TypeOK
  <2>4. QED
    BY <1>5, <2>1, <2>2, <2>3, AddToRosterInv DEF ServiceAdded, conn_vars, TypeOK
<1>6. ASSUME NEW c \in Contacts, NEW s \in Services, ServiceRemoved(c, s)
      PROVE  Inv'
  <2>1. discovered' \in [Contacts -> SUBSET Services]
    BY <1>6 DEF ServiceRemoved, TypeOK
  <2>2. CASE ~(c \in contacts /\ s \in services[c])
    BY <1>6, <2>1, <2>2
    DEF ServiceRemoved, conn_vars, table_vars, view_vars, TypeOK,
        ContactIffService, DeferredOnlyWhileMissing, ViewComplete
  <2>3. CASE /\ c \in contacts /\ s \in services[c]
             /\ services[c] = {s}
    <3>1. /\ contacts' = contacts \ {c}
          /\ services' = [services EXCEPT ![c] = {}]
          /\ statuses' = [statuses EXCEPT ![c][s] = NoStatuses]
          /\ deferred_service_statuses' =
               [deferred_service_statuses EXCEPT ![c] = NoServiceStatuses]
          /\ contact_view' = contact_view \ {c}
          /\ service_view' = [k \in Contacts |-> IF k \in {c} THEN {} ELSE service_view[k]]
          /\ UNCHANGED <<conn_vars, reported, deferred_statuses, pending, outdated>>
      BY <1>6, <2>3
      DEF ServiceRemoved, DropService, EmitServiceRemoved, EmitContactRemoved, TypeOK
    <3>2. TypeOK'
      BY <2>1, <3>1, NoStatusesType DEF TypeOK, conn_vars
    <3>3. ContactIffService'
      BY <3>1 DEF ContactIffService, TypeOK
    <3>4. DeferredOnlyWhileMissing'
      <4>1. deferred_statuses[c] = NoServiceStatuses
        BY <2>3 DEF DeferredOnlyWhileMissing, NoServiceStatuses, TypeOK
      <4>2. QED
        BY <3>1, <4>1 DEF DeferredOnlyWhileMissing, NoServiceStatuses, TypeOK
    <3>5. ViewComplete'
      BY <3>1 DEF ViewComplete, TypeOK
    <3>6. QED  BY <3>2, <3>3, <3>4, <3>5
  <2>4. CASE /\ c \in contacts /\ s \in services[c]
             /\ services[c] # {s}
    <3>1. /\ services' = [services EXCEPT ![c] = @ \ {s}]
          /\ statuses' = [statuses EXCEPT ![c][s] = NoStatuses]
          /\ service_view' = [service_view EXCEPT ![c] = @ \ {s}]
          /\ UNCHANGED <<conn_vars, reported, deferred_statuses, pending, outdated>>
          /\ UNCHANGED <<contacts, deferred_service_statuses, contact_view>>
      BY <1>6, <2>4 DEF ServiceRemoved, DropService, EmitServiceRemoved
    <3>2. TypeOK'
      BY <2>1, <3>1, NoStatusesType DEF TypeOK, conn_vars
    <3>3. ContactIffService'
      BY <2>4, <3>1 DEF ContactIffService, TypeOK
    <3>4. DeferredOnlyWhileMissing'
      BY <3>1 DEF DeferredOnlyWhileMissing, TypeOK
    <3>5. ViewComplete'
      BY <3>1 DEF ViewComplete, TypeOK
    <3>6. QED  BY <3>2, <3>3, <3>4, <3>5
  <2>5. QED  BY <2>2, <2>3, <2>4
<1>7. ASSUME NEW c \in Contacts, NEW s \in Services, NEW f \in Capabilities,
             NEW x \in Statuses, StatusChanged(c, s, f, x)
      PROVE  Inv'
  <2> USE <1>7 DEF StatusChanged, UpdateServiceStatus
  <2>1. reported' \in [Contacts -> [Services -> StatusMap]]
    BY DEF TypeOK, StatusMap
  <2>2. CASE c \in contacts /\ s \in services[c]
    <3>1. /\ statuses' = [statuses EXCEPT ![c][s][f] = x]
          /\ UNCHANGED <<deferred_service_statuses, deferred_statuses>>
      BY <2>2
    <3>2. statuses' \in [Contacts -> [Services -> StatusMap]]
      BY <3>1 DEF TypeOK, StatusMap
    <3>3. QED
      BY <2>1, <3>1, <3>2
      DEF TypeOK, conn_vars, view_vars,
          ContactIffService, DeferredOnlyWhileMissing, ViewComplete
  <2>3. CASE c \in contacts /\ s \notin services[c]
    <3>1. /\ deferred_service_statuses' =
               [deferred_service_statuses EXCEPT ![c][s][f] = x]
          /\ UNCHANGED <<statuses, deferred_statuses>>
      BY <2>3
    <3>2. deferred_service_statuses' \in [Contacts -> [Services -> StatusMap]]
      BY <3>1 DEF TypeOK, StatusMap
    <3>3. DeferredOnlyWhileMissing'
      BY <2>3, <3>1 DEF DeferredOnlyWhileMissing, TypeOK
    <3>4. QED
      BY <2>1, <3>1, <3>2, <3>3
      DEF TypeOK, conn_vars, view_vars, ContactIffService, ViewComplete
  <2>4. CASE c \notin contacts
    <3>1. /\ deferred_statuses' = [deferred_statuses EXCEPT ![c][s][f] = x]
          /\ UNCHANGED <<statuses, deferred_service_statuses>>
      BY <2>4
    <3>2. deferred_statuses' \in [Contacts -> [Services -> StatusMap]]
      BY <3>1 DEF TypeOK, StatusMap
    <3>3. DeferredOnlyWhileMissing'
      BY <2>4, <3>1 DEF DeferredOnlyWhileMissing, TypeOK
    <3>4. QED
      BY <2>1, <3>1, <3>2, <3>3
      DEF TypeOK, conn_vars, view_vars, ContactIffService, ViewComplete
  <2>5. QED  BY <2>2, <2>3, <2>4
<1>8. ASSUME NEW c \in Contacts, NEW r \in Requests, GotContact(c, r)
      PROVE  Inv'
  <2> USE DEF GotContact, Answered, TakeDeferred
  <2>1. r.service \in Services /\ r.statuses \in StatusMap
    BY DEF Requests
  <2>2. pending' \in [Contacts -> [Requests -> Nat]]
    BY <1>8 DEF TypeOK
  <2>3. statuses' \in [Contacts -> [Services -> StatusMap]]
    <3>1. ASSUME NEW s \in Services
          PROVE  Overlay(r.statuses, deferred_statuses[c][s]) \in StatusMap
      BY <2>1, OverlayType DEF TypeOK
    <3>2. QED  BY <1>8, <3>1, NoStatusesType DEF TypeOK
  <2>4. deferred_service_statuses' \in [Contacts -> [Services -> StatusMap]]
    BY <1>8, NoStatusesType DEF TypeOK
  <2>5. TypeOK'
    BY <1>8, <2>1, <2>2, <2>3, <2>4, NoStatusesType
    DEF TypeOK, conn_vars, mesh_vars
  <2>6. ContactIffService'
    BY <1>8 DEF ContactIffService, TypeOK
  <2>7. DeferredOnlyWhileMissing'
    BY <1>8, <2>1 DEF DeferredOnlyWhileMissing, NoServiceStatuses, TypeOK
  <2>8. ViewComplete'
    BY <1>8 DEF ViewComplete, TypeOK
  <2>9. QED  BY <2>5, <2>6, <2>7, <2>8
<1>9. ASSUME NEW c \in Contacts, NEW r \in Requests, ContactFailed(c, r)
      PROVE  Inv'
  <2>1. pending' \in [Contacts -> [Requests -> Nat]]
    BY <1>9 DEF ContactFailed, Answered, TypeOK
  <2>2. QED
    BY <1>9, <2>1
    DEF ContactFailed, conn_vars, mesh_vars, table_vars, view_vars, TypeOK,
        ContactIffService, DeferredOnlyWhileMissing, ViewComplete
<1>10. CASE UNCHANGED vars
  BY <1>10
  DEF vars, conn_vars, mesh_vars, table_vars, view_vars, TypeOK,
      ContactIffService, DeferredOnlyWhileMissing, ViewComplete
<1>11. QED
  BY <1>1, <1>2, <1>3, <1>4, <1>5, <1>6, <1>7, <1>8, <1>9, <1>10 DEF Next

-----------------------------------------------------------------------------
LEMMA InvHolds == Spec => []Inv
<1>1. QED  BY InitInv, StepInv, PTL DEF Spec

\* Every table of the roster keeps its shape; no request is answered more
\* often than it was made.
THEOREM TypeCorrect == Spec => []TypeOK
<1>1. Inv => TypeOK  BY DEF Inv
<1>2. QED  BY <1>1, InvHolds, PTL

\* A contact is in the roster exactly as long as it has a service.
THEOREM ContactLifetime == Spec => []ContactIffService
<1>1. Inv => ContactIffService  BY DEF Inv
<1>2. QED  BY <1>1, InvHolds, PTL

\* No deferred status outlives the arrival of what it waits for.
THEOREM DeferredLifetime == Spec => []DeferredOnlyWhileMissing
<1>1. Inv => DeferredOnlyWhileMissing  BY DEF Inv
<1>2. QED  BY <1>1, InvHolds, PTL

\* The signals tell an application of every contact, and of every service.
THEOREM SignalsComplete == Spec => []ViewComplete
<1>1. Inv => ViewComplete  BY DEF Inv
<1>2. QED  BY <1>1, InvHolds, PTL

-----------------------------------------------------------------------------
(* Bags of requests.  A contact of Serial has at most one copy of one      *)
(* request in its bag, so an answer leaves the bag empty.                  *)

LEMMA CopyOfRequest ==
  ASSUME NEW reqs \in [Requests -> Nat], NEW r \in Requests
  PROVE  /\ reqs[r] > 0 => <<r, 1>> \in Copies(reqs)
         /\ Copies(reqs) = {} => reqs[r] = 0
<1>1. \A k \in 1..reqs[r] : <<r, k>> \in Copies(reqs)
  BY DEF Copies
<1>2. reqs[r] \in Nat
  OBVIOUS
<1>3. reqs[r] > 0 => 1 \in 1..reqs[r]
  BY <1>2
<1>4. QED  BY <1>1, <1>2, <1>3

LEMMA NoCopies == Copies(NoRequests) = {}
  BY DEF Copies, NoRequests

LEMMA FewerCopies ==
  ASSUME NEW reqs \in [Requests -> Nat], NEW r \in Requests, reqs[r] > 0
  PROVE  Copies([reqs EXCEPT ![r] = @ - 1]) \subseteq Copies(reqs)
<1> DEFINE less == [reqs EXCEPT ![r] = @ - 1]
<1>1. ASSUME NEW q \in Requests
      PROVE  less[q] \in Int /\ reqs[q] \in Nat /\ less[q] <= reqs[q]
  OBVIOUS
<1>2. \A q \in Requests : 1..less[q] \subseteq 1..reqs[q]
  BY <1>1
<1>3. QED  BY <1>2 DEF Copies

LEMMA LastCopy ==
  ASSUME NEW reqs \in [Requests -> Nat], NEW r \in Requests, reqs[r] > 0,
         \A p, q \in Copies(reqs) : p = q
  PROVE  Copies([reqs EXCEPT ![r] = @ - 1]) = {}
<1> DEFINE less == [reqs EXCEPT ![r] = @ - 1]
<1>1. \A q \in Requests \ {r} : reqs[q] = 0
  <2> SUFFICES ASSUME NEW q \in Requests \ {r}, reqs[q] # 0 PROVE FALSE
    OBVIOUS
  <2>1. <<r, 1>> \in Copies(reqs) /\ <<q, 1>> \in Copies(reqs)
    BY CopyOfRequest
  <2>2. QED  BY <2>1
<1>2. reqs[r] = 1
  <2> SUFFICES ASSUME reqs[r] # 1 PROVE FALSE
    OBVIOUS
  <2>1. 1 \in 1..reqs[r] /\ 2 \in 1..reqs[r]
    OBVIOUS
  <2>2. <<r, 1>> \in Copies(reqs) /\ <<r, 2>> \in Copies(reqs)
    BY <2>1 DEF Copies
  <2>3. QED  BY <2>2
<1>3. \A q \in Requests : less[q] = 0
  BY <1>1, <1>2
<1>4. \A q \in Requests : 1..less[q] = {}
  BY <1>3
<1>5. QED  BY <1>4 DEF Copies

LEMMA EnqueueFinite ==
  ASSUME NEW reqs \in [Requests -> Nat], IsFiniteSet(Copies(reqs)),
         NEW S \in SUBSET Services, NEW rep \in [Services -> StatusMap]
  PROVE  IsFiniteSet(Copies(Enqueue(reqs, S, rep)))
<1> DEFINE more == Enqueue(reqs, S, rep)
           Extra(s) == <<NewService(rep, s), reqs[NewService(rep, s)] + 1>>
           extras == {Extra(s) : s \in S}
<1>1. IsFiniteSet(S)
  BY FS_Subset, RosterAssumption
<1>2. IsFiniteSet(extras)
  <2>1. [s \in S |-> Extra(s)] \in Surjection(S, extras)
    BY DEF Surjection
  <2>2. QED  BY <1>1, <2>1, FS_Surjection
<1>3. IsFiniteSet(Copies(reqs) \cup extras)
  BY <1>2, FS_Union
<1>4. ASSUME NEW q \in Requests, NEW k \in 1..more[q]
      PROVE  <<q, k>> \in Copies(reqs) \cup extras
  <2>1. reqs[q] \in Nat
    OBVIOUS
  <2>2. CASE \E s \in S : q = NewService(rep, s)
    <3>1. PICK s \in S : q = NewService(rep, s)
      BY <2>2
    <3>2. more[q] = reqs[q] + 1
      BY <2>2 DEF Enqueue
    <3>3. k \in 1..reqs[q] \/ k = reqs[q] + 1
      BY <2>1, <3>2
    <3>4. k = reqs[q] + 1 => <<q, k>> = Extra(s)
      BY <3>1
    <3>5. QED  BY <3>3, <3>4 DEF Copies
  <2>3. CASE ~\E s \in S : q = NewService(rep, s)
    <3>1. more[q] = reqs[q]
      BY <2>1, <2>3 DEF Enqueue
    <3>2. QED  BY <3>1 DEF Copies
  <2>4. QED  BY <2>2, <2>3
<1>5. Copies(more) \subseteq Copies(reqs) \cup extras
  <2> HIDE DEF more, extras
  <2>1. QED  BY <1>4 DEF Copies
<1>6. QED  BY <1>3, <1>5, FS_Subset

LEMMA EnqueueAsks ==
  ASSUME NEW reqs \in [Requests -> Nat],
         NEW S \in SUBSET Services, NEW rep \in [Services -> StatusMap]
  PROVE  /\ \A r \in Requests : reqs[r] > 0 => Enqueue(reqs, S, rep)[r] > 0
         /\ \A s \in S : \E r \in Requests :
              r.service = s /\ Enqueue(reqs, S, rep)[r] > 0
         /\ \A r \in Requests : Enqueue(reqs, S, rep)[r] > 0 =>
              reqs[r] > 0 \/ \E s \in S : r = NewService(rep, s)
<1>1. ASSUME NEW r \in Requests
      PROVE  /\ reqs[r] \in Nat
             /\ Enqueue(reqs, S, rep)[r] =
                  reqs[r] + (IF \E s \in S : r = NewService(rep, s) THEN 1 ELSE 0)
  BY DEF Enqueue
<1>2. \A s \in S : NewService(rep, s) \in Requests /\ NewService(rep, s).service = s
  BY NewServiceType DEF NewService
<1>3. \A s \in S : Enqueue(reqs, S, rep)[NewService(rep, s)] > 0
  BY <1>1, <1>2
<1>4. QED  BY <1>1, <1>2, <1>3

LEMMA AtMostOneCopy ==
  ASSUME NEW reqs, IsFiniteSet(Copies(reqs)), InFlight(reqs) <= 1
  PROVE  \A p, q \in Copies(reqs) : p = q
<1> SUFFICES ASSUME NEW p \in Copies(reqs), NEW q \in Copies(reqs), p # q
             PROVE  FALSE
  OBVIOUS
<1>1. Cardinality({p, q}) = 2
  <2>1. IsFiniteSet({p}) /\ Cardinality({p}) = 1 /\ q \notin {p}
    BY FS_Singleton
  <2>2. Cardinality({p} \cup {q}) = 2
    BY <2>1, FS_AddElement
  <2>3. {p} \cup {q} = {p, q}
    OBVIOUS
  <2>4. QED  BY <2>2, <2>3
<1>2. Cardinality({p, q}) <= Cardinality(Copies(reqs))
  BY FS_Subset
<1>3. Cardinality(Copies(reqs)) \in Nat
  BY FS_CardinalityType
<1>4. QED  BY <1>1, <1>2, <1>3 DEF InFlight

-----------------------------------------------------------------------------
(* Contacts that are asked for one request at a time.  While such a        *)
(* contact is in the roster nothing is asked for it, so no TpContact can   *)
(* put another object in its place; what is discovered and not in the      *)
(* roster has a request under way, and there is only one.                  *)

Countable == \A c \in Contacts : IsFiniteSet(Copies(pending[c]))

OneAtATime == \A c \in Serial : \A p, q \in Copies(pending[c]) : p = q

AskedWhenAbsent == \A c \in Serial : c \in contacts => Copies(pending[c]) = {}

Awaited ==
  connection = "ready" =>
    \A c \in Serial \ Unresolvable : \A s \in discovered[c] \ services[c] :
      \E r \in Requests : r.service = s /\ pending[c][r] > 0

SerialInv == Countable /\ OneAtATime /\ AskedWhenAbsent /\ ViewExact /\ Awaited

\* Whatever is asked for the services of D, within the bound.
LEMMA Asking ==
  ASSUME Inv, SerialInv, WithinBound,
         NEW D \in [Contacts -> SUBSET Services],
         NEW rep \in [Contacts -> [Services -> StatusMap]],
         \A c \in Contacts :
           pending'[c] \in {pending[c], Enqueue(pending[c], D[c], rep[c])}
  PROVE  /\ Countable'
         /\ OneAtATime'
<1>1. ASSUME NEW c \in Contacts
      PROVE  IsFiniteSet(Copies(pending'[c]))
  <2>1. /\ pending[c] \in [Requests -> Nat] /\ IsFiniteSet(Copies(pending[c]))
        /\ D[c] \in SUBSET Services /\ rep[c] \in [Services -> StatusMap]
    BY DEF Inv, TypeOK, SerialInv, Countable
  <2>2. pending'[c] = pending[c] \/ pending'[c] = Enqueue(pending[c], D[c], rep[c])
    OBVIOUS
  <2>3. QED  BY <2>1, <2>2, EnqueueFinite
<1>2. ASSUME NEW c \in Serial
      PROVE  \A p, q \in Copies(pending'[c]) : p = q
  <2>1. c \in Contacts /\ InFlight(pending'[c]) <= 1
    BY DEF Serial, WithinBound
  <2>2. QED  BY <1>1, <2>1, AtMostOneCopy
<1>3. Countable'
  BY <1>1 DEF Countable
<1>4. OneAtATime'
  BY <1>2 DEF OneAtATime, Serial
<1>5. QED  BY <1>3, <1>4

LEMMA AddToRosterSerial ==
  ASSUME Inv, SerialInv, WithinBound,
         NEW D \in [Contacts -> SUBSET Services],
         NEW rep \in [Contacts -> [Services -> StatusMap]],
         AddToRoster(D, rep)
  PROVE  /\ Countable' /\ OneAtATime' /\ AskedWhenAbsent' /\ ViewExact'
         /\ \A c \in Contacts : \A s \in D[c] \ services'[c] :
              \E r \in Requests : r.service = s /\ pending'[c][r] > 0
         /\ \A c \in Contacts : \A r \in Requests :
              pending[c][r] > 0 => pending'[c][r] > 0
         /\ \A c \in Contacts : services[c] \subseteq services'[c]
<1>1. /\ contacts' = contacts
      /\ pending' = [c \in Contacts |->
           IF c \in contacts THEN pending[c] ELSE Enqueue(pending[c], D[c], rep[c])]
      /\ services' = [c \in Contacts |->
           services[c] \cup (IF c \in contacts THEN D[c] \ services[c] ELSE {})]
      /\ service_view' = [c \in Contacts |->
           IF c \in contacts THEN service_view[c] \cup D[c] ELSE service_view[c]]
  BY DEF AddToRoster
<1>2. Countable' /\ OneAtATime'
  <2>1. \A c \in Contacts :
          pending'[c] \in {pending[c], Enqueue(pending[c], D[c], rep[c])}
    BY <1>1
  <2>2. QED  BY <2>1, Asking
<1>3. AskedWhenAbsent'
  BY <1>1 DEF SerialInv, AskedWhenAbsent, Serial
<1>4. ViewExact'
  BY <1>1 DEF SerialInv, ViewExact, Serial
<1>5. ASSUME NEW c \in Contacts
      PROVE  /\ \A s \in D[c] \ services'[c] :
                  \E r \in Requests : r.service = s /\ pending'[c][r] > 0
             /\ \A r \in Requests : pending[c][r] > 0 => pending'[c][r] > 0
  <2>1. CASE c \in contacts
    BY <1>1, <2>1
  <2>2. CASE c \notin contacts
    <3>1. pending'[c] = Enqueue(pending[c], D[c], rep[c])
      BY <1>1, <2>2
    <3>2. /\ pending[c] \in [Requests -> Nat]
          /\ D[c] \in SUBSET Services /\ rep[c] \in [Services -> StatusMap]
      BY DEF Inv, TypeOK
    <3>3. PICK reqs, S, table : reqs = pending[c] /\ S = D[c] /\ table = rep[c]
      OBVIOUS
    <3>4. /\ \A r \in Requests : reqs[r] > 0 => Enqueue(reqs, S, table)[r] > 0
          /\ \A s \in S : \E r \in Requests :
               r.service = s /\ Enqueue(reqs, S, table)[r] > 0
      <4>1. /\ reqs \in [Requests -> Nat]
            /\ S \in SUBSET Services /\ table \in [Services -> StatusMap]
        BY <3>2, <3>3
      <4>2. QED  BY <4>1, EnqueueAsks
    <3>5. QED  BY <3>1, <3>3, <3>4
  <2>3. QED  BY <2>1, <2>2
<1>6. \A c \in Contacts : services[c] \subseteq services'[c]
  BY <1>1
<1>7. QED  BY <1>2, <1>3, <1>4, <1>5, <1>6

LEMMA RefreshSerial == ASSUME Inv, SerialInv, RefreshRoster PROVE SerialInv'
<1>1. /\ contacts' = {}
      /\ services' = [c \in Contacts |-> {}]
      /\ service_view' = [c \in Contacts |->
           IF c \in contacts THEN {} ELSE service_view[c]]
      /\ WithinBound
      /\ UNCHANGED <<connection, discovered>>
      /\ pending' = [c \in Contacts |->
           IF connection = "none" THEN pending[c]
           ELSE Enqueue(pending[c], discovered[c], reported[c])]
  BY DEF RefreshRoster, Clear, EmitContactRemoved, conn_vars, mesh_vars
<1>2. Countable' /\ OneAtATime'
  <2>1. /\ discovered \in [Contacts -> SUBSET Services]
        /\ reported \in [Contacts -> [Services -> StatusMap]]
    BY DEF Inv, TypeOK
  <2>2. \A c \in Contacts : pending'[c] \in
          {pending[c], Enqueue(pending[c], discovered[c], reported[c])}
    BY <1>1
  <2>3. QED  BY <1>1, <2>1, <2>2, Asking
<1>3. AskedWhenAbsent'
  BY <1>1 DEF AskedWhenAbsent
<1>4. ViewExact'
  BY <1>1 DEF Inv, ContactIffService, SerialInv, ViewExact, Serial
<1>5. Awaited'
  <2> SUFFICES ASSUME connection = "ready",
                      NEW c \in Contacts, NEW s \in discovered[c]
               PROVE  \E r \in Requests : r.service = s /\ pending'[c][r] > 0
    BY <1>1 DEF Awaited, Serial
  <2>1. pending'[c] = Enqueue(pending[c], discovered[c], reported[c])
    BY <1>1
  <2>2. /\ pending[c] \in [Requests -> Nat]
        /\ discovered[c] \in SUBSET Services /\ reported[c] \in [Services -> StatusMap]
    BY DEF Inv, TypeOK
  <2>3. QED  BY <2>1, <2>2, EnqueueAsks
<1>6. QED  BY <1>2, <1>3, <1>4, <1>5 DEF SerialInv

LEMMA ServiceRemovedSerial ==
  ASSUME Inv, SerialInv, NEW c \in Contacts, NEW s \in Services, ServiceRemoved(c, s)
  PROVE  SerialInv'
<1>1. /\ UNCHANGED <<connection, pending>>
      /\ discovered' = [discovered EXCEPT ![c] = @ \ {s}]
      /\ contacts' \subseteq contacts
  BY DEF ServiceRemoved, DropService, conn_vars, table_vars
<1>2. \/ UNCHANGED <<services, service_view>> /\ s \notin services[c]
      \/ /\ services' = [services EXCEPT ![c] = @ \ {s}]
         /\ service_view' = [k \in Contacts |-> IF k = c THEN {} ELSE service_view[k]]
         /\ services[c] = {s}
      \/ /\ services' = [services EXCEPT ![c] = @ \ {s}]
         /\ service_view' = [service_view EXCEPT ![c] = @ \ {s}]
  BY DEF ServiceRemoved, DropService, EmitServiceRemoved, EmitContactRemoved,
         table_vars, view_vars, Inv, ContactIffService
<1>3. Countable' /\ OneAtATime' /\ AskedWhenAbsent'
  BY <1>1 DEF SerialInv, Countable, OneAtATime, AskedWhenAbsent, Serial
<1>4. ViewExact'
  <2>1. /\ services \in [Contacts -> SUBSET Services]
        /\ service_view \in [Contacts -> SUBSET Services]
        /\ \A k \in Serial : k \in Contacts /\ service_view[k] \subseteq services[k]
    BY DEF SerialInv, ViewExact, Serial, Inv, TypeOK
  <2>2. CASE UNCHANGED <<services, service_view>>
    BY <2>1, <2>2 DEF ViewExact, Serial
  <2>3. CASE /\ services' = [services EXCEPT ![c] = @ \ {s}]
             /\ service_view' = [k \in Contacts |-> IF k = c THEN {} ELSE service_view[k]]
    BY <2>1, <2>3 DEF ViewExact, Serial
  <2>4. CASE /\ services' = [services EXCEPT ![c] = @ \ {s}]
             /\ service_view' = [service_view EXCEPT ![c] = @ \ {s}]
    BY <2>1, <2>4 DEF ViewExact, Serial
  <2>5. QED  BY <1>2, <2>2, <2>3, <2>4
<1>5. \A k \in Contacts : discovered'[k] \ services'[k] \subseteq discovered[k] \ services[k]
  BY <1>1, <1>2 DEF Inv, TypeOK
<1>6. Awaited'
  BY <1>1, <1>5 DEF SerialInv, Awaited, Serial
<1>7. QED  BY <1>3, <1>4, <1>6 DEF SerialInv

\* An answer takes the only request there is of such a contact.
LEMMA AnsweredSerial ==
  ASSUME Inv, SerialInv, NEW c \in Contacts, NEW r \in Requests,
         pending[c][r] > 0, Answered(c, r)
  PROVE  /\ Countable' /\ OneAtATime'
         /\ c \in Serial => Copies(pending'[c]) = {} /\ c \notin contacts
         /\ \A k \in Contacts \ {c} : pending'[k] = pending[k]
<1>1. /\ pending[c] \in [Requests -> Nat]
      /\ pending'[c] = [pending[c] EXCEPT ![r] = @ - 1]
      /\ \A k \in Contacts \ {c} : pending'[k] = pending[k]
  BY DEF Answered, Inv, TypeOK
<1>2. Copies(pending'[c]) \subseteq Copies(pending[c])
  BY <1>1, FewerCopies
<1>3. Countable'
  <2>1. IsFiniteSet(Copies(pending'[c]))
    BY <1>2, FS_Subset DEF SerialInv, Countable
  <2>2. QED  BY <1>1, <2>1 DEF SerialInv, Countable
<1>4. OneAtATime'
  BY <1>1, <1>2 DEF SerialInv, OneAtATime, Serial
<1>5. ASSUME c \in Serial
      PROVE  Copies(pending'[c]) = {} /\ c \notin contacts
  <2>1. Copies(pending'[c]) = {}
    BY <1>1, <1>5, LastCopy DEF SerialInv, OneAtATime
  <2>2. <<r, 1>> \in Copies(pending[c])
    BY <1>1, CopyOfRequest
  <2>3. QED  BY <1>5, <2>1, <2>2 DEF SerialInv, AskedWhenAbsent
<1>6. QED  BY <1>1, <1>3, <1>4, <1>5

LEMMA GotContactSerial ==
  ASSUME Inv, SerialInv, NEW c \in Contacts, NEW r \in Requests, GotContact(c, r)
  PROVE  SerialInv'
<1>1. /\ pending[c][r] > 0 /\ Answered(c, r)
      /\ contacts' = contacts \cup {c}
      /\ services' = [services EXCEPT ![c] = {r.service}]
      /\ service_view' = [service_view EXCEPT ![c] = @ \cup {r.service}]
      /\ UNCHANGED <<connection, discovered>>
  BY DEF GotContact, conn_vars, mesh_vars
<1>2. /\ Countable' /\ OneAtATime'
      /\ c \in Serial => Copies(pending'[c]) = {} /\ c \notin contacts
      /\ \A k \in Contacts \ {c} : pending'[k] = pending[k]
  BY <1>1, AnsweredSerial
<1>3. /\ services \in [Contacts -> SUBSET Services]
      /\ service_view \in [Contacts -> SUBSET Services]
      /\ c \notin contacts => services[c] = {}
  BY DEF Inv, TypeOK, ContactIffService
<1>4. AskedWhenAbsent'
  BY <1>1, <1>2 DEF SerialInv, AskedWhenAbsent, Serial
<1>5. ViewExact'
  <2> SUFFICES ASSUME NEW k \in Serial
               PROVE  service_view'[k] \subseteq services'[k]
    BY DEF ViewExact, Serial
  <2>1. k \in Contacts /\ service_view[k] \subseteq services[k]
    BY DEF SerialInv, ViewExact, Serial
  <2>2. CASE k = c
    BY <1>1, <1>2, <1>3, <2>1, <2>2
  <2>3. CASE k # c
    BY <1>1, <1>3, <2>1, <2>3
  <2>4. QED  BY <2>2, <2>3
<1>6. Awaited'
  <2> SUFFICES ASSUME connection = "ready", NEW k \in Serial \ Unresolvable,
                      NEW s \in discovered[k], s \notin services'[k]
               PROVE  \E q \in Requests : q.service = s /\ pending'[k][q] > 0
    BY <1>1 DEF Awaited, Serial
  <2>1. k \in Contacts
    BY DEF Serial
  <2>2. s \notin services[k] =>
          \E q \in Requests : q.service = s /\ pending[k][q] > 0
    BY DEF SerialInv, Awaited
  <2>3. CASE k = c
    <3>1. PICK q \in Requests : q.service = s /\ pending[c][q] > 0
      BY <1>2, <1>3, <2>2, <2>3
    <3>2. pending[c] \in [Requests -> Nat]
      BY DEF Inv, TypeOK
    <3>3. <<q, 1>> \in Copies(pending[c]) /\ <<r, 1>> \in Copies(pending[c])
      BY <1>1, <3>1, <3>2, CopyOfRequest
    <3>4. q = r
      BY <2>3, <3>3 DEF SerialInv, OneAtATime
    <3>5. QED  BY <1>1, <1>3, <2>3, <3>1, <3>4
  <2>4. CASE k # c
    BY <1>1, <1>2, <1>3, <2>1, <2>2, <2>4
  <2>5. QED  BY <2>3, <2>4
<1>7. QED  BY <1>2, <1>4, <1>5, <1>6 DEF SerialInv

LEMMA InitSerial == Init => SerialInv
<1> SUFFICES ASSUME Init PROVE SerialInv
  OBVIOUS
<1>1. \A c \in Contacts : Copies(pending[c]) = {}
  BY NoCopies DEF Init
<1>2. QED
  BY <1>1, FS_EmptySet
  DEF Init, SerialInv, Countable, OneAtATime, AskedWhenAbsent, ViewExact, Awaited,
      Serial

LEMMA StepSerial == Inv /\ SerialInv /\ [Next]_vars => SerialInv'
<1> SUFFICES ASSUME Inv, SerialInv, [Next]_vars PROVE SerialInv'
  OBVIOUS
<1>1. CASE ConnectionMade
  BY <1>1
  DEF ConnectionMade, mesh_vars, table_vars, view_vars, SerialInv, Countable,
      OneAtATime, AskedWhenAbsent, ViewExact, Awaited, Serial
<1>2. ASSUME NEW D \in [Contacts -> SUBSET Services],
             NEW rep \in [Contacts -> [Services -> StatusMap]],
             StatusReady(D, rep)
      PROVE  SerialInv'
  <2>1. AddToRoster(D, rep) /\ WithinBound /\ discovered' = D
    BY <1>2 DEF StatusReady
  <2>2. /\ Countable' /\ OneAtATime' /\ AskedWhenAbsent' /\ ViewExact'
        /\ \A c \in Contacts : \A s \in D[c] \ services'[c] :
             \E r \in Requests : r.service = s /\ pending'[c][r] > 0
    BY <2>1, AddToRosterSerial
  <2>3. Awaited'
    BY <2>1, <2>2 DEF Awaited, Serial
  <2>4. QED  BY <2>2, <2>3 DEF SerialInv
<1>3. CASE Disconnected
  <2>1. /\ contacts' = {}
        /\ services' = [c \in Contacts |-> {}]
        /\ service_view' = [c \in Contacts |->
             IF c \in contacts THEN {} ELSE service_view[c]]
        /\ pending' = [c \in Contacts |-> NoRequests]
        /\ connection' = "none"
    BY <1>3 DEF Disconnected, Clear, EmitContactRemoved
  <2>2. \A c \in Contacts : Copies(pending'[c]) = {}
    BY <2>1, NoCopies
  <2>3. Countable' /\ OneAtATime' /\ AskedWhenAbsent' /\ Awaited'
    BY <2>1, <2>2, FS_EmptySet
    DEF Countable, OneAtATime, AskedWhenAbsent, Awaited, Serial
  <2>4. ViewExact'
    BY <2>1 DEF Inv, ContactIffService, SerialInv, ViewExact, Serial
  <2>5. QED  BY <2>3, <2>4 DEF SerialInv
<1>4. CASE RefreshRoster
  BY <1>4, RefreshSerial
<1>5. ASSUME NEW c \in Contacts, NEW s \in Services, ServiceAdded(c, s)
      PROVE  SerialInv'
  <2>1. /\ Only(c, {s}) \in [Contacts -> SUBSET Services]
        /\ Only(c, {s})[c] = {s}
    BY DEF Only
  <2>2. /\ AddToRoster(Only(c, {s}), reported) /\ WithinBound
        /\ discovered' = [discovered EXCEPT ![c] = @ \cup {s}]
        /\ reported \in [Contacts -> [Services -> StatusMap]]
        /\ discovered \in [Contacts -> SUBSET Services]
        /\ connection' = connection
    BY <1>5 DEF ServiceAdded, Inv, TypeOK, conn_vars
  <2>3. /\ Countable' /\ OneAtATime' /\ AskedWhenAbsent' /\ ViewExact'
        /\ \A q \in {s} \ services'[c] :
             \E r \in Requests : r.service = q /\ pending'[c][r] > 0
        /\ \A k \in Contacts : \A r \in Requests :
              pending[k][r] > 0 => pending'[k][r] > 0
        /\ \A k \in Contacts : services[k] \subseteq services'[k]
    <3>1. PICK D : D = Only(c, {s})
      OBVIOUS
    <3>2. D \in [Contacts -> SUBSET Services] /\ D[c] = {s} /\ AddToRoster(D, reported)
      BY <2>1, <2>2, <3>1
    <3>3. /\ Countable' /\ OneAtATime' /\ AskedWhenAbsent' /\ ViewExact'
          /\ \A k \in Contacts : \A q \in D[k] \ services'[k] :
               \E r \in Requests : r.service = q /\ pending'[k][r] > 0
          /\ \A k \in Contacts : \A r \in Requests :
                pending[k][r] > 0 => pending'[k][r] > 0
          /\ \A k \in Contacts : services[k] \subseteq services'[k]
      BY <2>2, <3>2, AddToRosterSerial
    <3>4. QED  BY <3>2, <3>3
  <2>4. Awaited'
    <3> SUFFICES ASSUME connection = "ready", NEW k \in Serial \ Unresolvable,
                        NEW q \in discovered'[k], q \notin services'[k]
                 PROVE  \E r \in Requests : r.service = q /\ pending'[k][r] > 0
      BY <2>2 DEF Awaited, Serial
    <3>1. k \in Contacts
      BY DEF Serial
    <3>2. CASE q \in discovered[k]
      <4>1. PICK r \in Requests : r.service = q /\ pending[k][r] > 0
        BY <2>3, <3>1, <3>2 DEF SerialInv, Awaited
      <4>2. QED  BY <2>3, <3>1, <4>1
    <3>3. CASE q \notin discovered[k]
      <4>1. k = c /\ q = s
        BY <2>2, <3>1, <3>3
      <4>2. QED  BY <2>3, <4>1
    <3>4. QED  BY <3>2, <3>3
  <2>5. QED  BY <2>3, <2>4 DEF SerialInv
<1>6. ASSUME NEW c \in Contacts, NEW s \in Services, ServiceRemoved(c, s)
      PROVE  SerialInv'
  BY <1>6, ServiceRemovedSerial
<1>7. ASSUME NEW c \in Contacts, NEW s \in Services, NEW f \in Capabilities,
             NEW x \in Statuses, StatusChanged(c, s, f, x)
      PROVE  SerialInv'
  BY <1>7
  DEF StatusChanged, conn_vars, view_vars, SerialInv, Countable,
      OneAtATime, AskedWhenAbsent, ViewExact, Awaited, Serial
<1>8. ASSUME NEW c \in Contacts, NEW r \in Requests, GotContact(c, r)
      PROVE  SerialInv'
  BY <1>8, GotContactSerial
<1>9. ASSUME NEW c \in Contacts, NEW r \in Requests, ContactFailed(c, r)
      PROVE  SerialInv'
  <2>1. /\ pending[c][r] > 0 /\ Answered(c, r) /\ c \in Unresolvable
        /\ UNCHANGED <<connection, discovered, contacts, services, service_view>>
    BY <1>9 DEF ContactFailed, conn_vars, mesh_vars, table_vars, view_vars
  <2>2. /\ Countable' /\ OneAtATime'
        /\ c \in Serial => Copies(pending'[c]) = {} /\ c \notin contacts
        /\ \A k \in Contacts \ {c} : pending'[k] = pending[k]
    BY <2>1, AnsweredSerial
  <2>3. AskedWhenAbsent' /\ ViewExact' /\ Awaited'
    BY <2>1, <2>2 DEF SerialInv, AskedWhenAbsent, ViewExact, Awaited, Serial
  <2>4. QED  BY <2>2, <2>3 DEF SerialInv
<1>10. CASE UNCHANGED vars
  BY <1>10
  DEF vars, conn_vars, mesh_vars, table_vars, view_vars, SerialInv, Countable,
      OneAtATime, AskedWhenAbsent, ViewExact, Awaited, Serial
<1>11. QED
  BY <1>1, <1>2, <1>3, <1>4, <1>5, <1>6, <1>7, <1>8, <1>9, <1>10 DEF Next

LEMMA SerialHolds == Spec => [](Inv /\ SerialInv)
<1>1. Init => Inv /\ SerialInv
  BY InitInv, InitSerial
<1>2. (Inv /\ SerialInv) /\ [Next]_vars => (Inv /\ SerialInv)'
  BY StepInv, StepSerial
<1>3. QED  BY <1>1, <1>2, PTL DEF Spec

\* The signals tell the application of every service that leaves a contact
\* asked for one request at a time: what it knows is what the roster has.
THEOREM SignalsExact == Spec => []ViewExact
<1>1. Inv /\ SerialInv => ViewExact  BY DEF SerialInv
<1>2. QED  BY <1>1, SerialHolds, PTL

\* Every discovered service of such a contact is in the roster once its
\* answers are in.
THEOREM DiscoveredIsThere == Spec => []NothingLost
<1>1. Inv /\ SerialInv => NothingLost
  <2> SUFFICES ASSUME Inv, SerialInv, connection = "ready",
                      NEW c \in Serial \ Unresolvable, InFlight(pending[c]) = 0,
                      NEW s \in discovered[c], s \notin services[c]
               PROVE  FALSE
    BY DEF NothingLost
  <2>1. c \in Contacts /\ pending[c] \in [Requests -> Nat]
    BY DEF Inv, TypeOK, Serial
  <2>2. PICK r \in Requests : pending[c][r] > 0
    BY DEF SerialInv, Awaited
  <2>3. <<r, 1>> \in Copies(pending[c])
    BY <2>1, <2>2, CopyOfRequest
  <2>4. Copies(pending[c]) = {}
    BY <2>1, FS_EmptySet DEF SerialInv, Countable, InFlight
  <2>5. QED  BY <2>3, <2>4
<1>2. QED  BY <1>1, SerialHolds, PTL

-----------------------------------------------------------------------------
(* Freshness, but for what is in outdated.  The tables are about several    *)
(* TpYtsStatus objects when one comes with services or deferred statuses   *)
(* still in the roster; what these have is old until it is reported anew.  *)

\* The statuses that wait, at either level, are the last reported.
Tracked(rep, old) ==
  \A c \in Contacts, s \in Services, f \in Capabilities :
    \/ f \in old[c][s]
    \/ /\ deferred_statuses[c][s][f] \in {NoStatus, rep[c][s][f]}
       /\ deferred_service_statuses[c][s][f] \in {NoStatus, rep[c][s][f]}

\* So are those of a service whose TpContact is in flight, but for what has
\* been deferred since.
UpToDate(rep, old) ==
  \A c \in Serial : \A r \in Requests : pending[c][r] > 0 =>
    \A f \in Caps[r.service] :
      \/ f \in old[c][r.service]
      \/ r.statuses[f] = rep[c][r.service][f]
      \/ deferred_statuses[c][r.service][f] # NoStatus

Shown(rep, old) ==
  \A c \in Serial : \A s \in services[c] : \A f \in Caps[s] :
    f \in old[c][s] \/ statuses[c][s][f] = rep[c][s][f]

Fresh(rep, old) == Tracked(rep, old) /\ UpToDate(rep, old) /\ Shown(rep, old)

FreshInv == connection = "ready" => Fresh(reported, outdated)

LEMMA CapsAreCapabilities ==
  \A s \in Services : Caps[s] \subseteq Capabilities
  BY RosterAssumption

\* The service object made for a service has what is reported of every
\* capability it announces.
LEMMA NewServiceFresh ==
  ASSUME NEW rep \in [Services -> StatusMap], NEW s \in Services, NEW f \in Caps[s]
  PROVE  NewService(rep, s).statuses[f] = rep[s][f]
  BY CapsAreCapabilities DEF NewService

LEMMA EnqueueUpToDate ==
  ASSUME Inv,
         NEW D \in [Contacts -> SUBSET Services],
         NEW rep \in [Contacts -> [Services -> StatusMap]],
         NEW old, UpToDate(rep, old), UNCHANGED deferred_statuses,
         \A c \in Contacts :
           pending'[c] \in {pending[c], Enqueue(pending[c], D[c], rep[c])}
  PROVE  UpToDate(rep, old)'
<1> SUFFICES ASSUME NEW c \in Serial, NEW r \in Requests, pending'[c][r] > 0,
                    NEW f \in Caps[r.service]
             PROVE  \/ f \in old[c][r.service]
                    \/ r.statuses[f] = rep[c][r.service][f]
                    \/ deferred_statuses[c][r.service][f] # NoStatus
  BY DEF UpToDate, Serial
<1>1. PICK reqs, S, table : reqs = pending[c] /\ S = D[c] /\ table = rep[c]
  OBVIOUS
<1>2. /\ c \in Contacts /\ reqs \in [Requests -> Nat]
      /\ S \in SUBSET Services /\ table \in [Services -> StatusMap]
  BY <1>1 DEF Serial, Inv, TypeOK
<1>3. CASE reqs[r] > 0
  BY <1>1, <1>3 DEF UpToDate
<1>4. CASE ~(reqs[r] > 0)
  <2>1. Enqueue(reqs, S, table)[r] > 0
    BY <1>1, <1>2, <1>4
  <2>2. PICK s \in S : r = NewService(table, s)
    BY <1>2, <1>4, <2>1, EnqueueAsks
  <2>3. r.service = s
    BY <2>2 DEF NewService
  <2>4. r.statuses[f] = table[s][f]
    BY <1>2, <2>2, <2>3, NewServiceFresh
  <2>5. QED  BY <1>1, <2>3, <2>4
<1>5. QED  BY <1>3, <1>4

LEMMA AddToRosterFresh ==
  ASSUME Inv,
         NEW D \in [Contacts -> SUBSET Services],
         NEW rep \in [Contacts -> [Services -> StatusMap]],
         NEW old, Fresh(rep, old), reported' = rep, outdated' = old,
         AddToRoster(D, rep)
  PROVE  Fresh(reported, outdated)'
<1>1. /\ services' = [c \in Contacts |->
           services[c] \cup (IF c \in contacts THEN D[c] \ services[c] ELSE {})]
      /\ \A c \in Contacts, s \in Services : statuses'[c][s] =
           IF s \in (IF c \in contacts THEN D[c] \ services[c] ELSE {})
           THEN Overlay(NewService(rep[c], s).statuses, deferred_service_statuses[c][s])
           ELSE statuses[c][s]
      /\ \A c \in Contacts, s \in Services : deferred_service_statuses'[c][s] =
           IF s \in (IF c \in contacts THEN D[c] \ services[c] ELSE {})
           THEN NoStatuses ELSE deferred_service_statuses[c][s]
      /\ pending' = [c \in Contacts |->
           IF c \in contacts THEN pending[c] ELSE Enqueue(pending[c], D[c], rep[c])]
      /\ UNCHANGED deferred_statuses
  BY DEF AddToRoster
<1>2. Tracked(reported, outdated)'
  <2> SUFFICES ASSUME NEW c \in Contacts, NEW s \in Services, NEW f \in Capabilities,
                      f \notin old[c][s]
               PROVE  /\ deferred_statuses'[c][s][f] \in {NoStatus, rep[c][s][f]}
                      /\ deferred_service_statuses'[c][s][f] \in {NoStatus, rep[c][s][f]}
    BY DEF Tracked
  <2>1. /\ deferred_statuses[c][s][f] \in {NoStatus, rep[c][s][f]}
        /\ deferred_service_statuses[c][s][f] \in {NoStatus, rep[c][s][f]}
    BY DEF Fresh, Tracked
  <2>2. QED  BY <1>1, <2>1 DEF NoStatuses
<1>3. UpToDate(reported, outdated)'
  <2>1. \A c \in Contacts :
          pending'[c] \in {pending[c], Enqueue(pending[c], D[c], rep[c])}
    BY <1>1
  <2>2. UpToDate(rep, old)'
    <3>1. UpToDate(rep, old)
      BY DEF Fresh
    <3>2. UNCHANGED deferred_statuses
      BY <1>1
    <3>3. QED  BY <2>1, <3>1, <3>2, EnqueueUpToDate
  <2>3. QED  BY <2>2 DEF UpToDate, Serial
<1>4. Shown(reported, outdated)'
  <2> SUFFICES ASSUME NEW c \in Serial, NEW s \in services'[c], NEW f \in Caps[s]
               PROVE  f \in old[c][s] \/ statuses'[c][s][f] = rep[c][s][f]
    BY DEF Shown, Serial
  <2>1. /\ c \in Contacts /\ s \in Services /\ f \in Capabilities
        /\ rep[c] \in [Services -> StatusMap]
        /\ deferred_service_statuses[c][s] \in StatusMap
    BY <1>1, CapsAreCapabilities DEF Serial, Inv, TypeOK
  <2>2. CASE s \in services[c]
    <3>1. f \in old[c][s] \/ statuses[c][s][f] = rep[c][s][f]
      BY <2>2 DEF Fresh, Shown
    <3>2. statuses'[c][s] = statuses[c][s]
      BY <1>1, <2>1, <2>2
    <3>3. QED  BY <3>1, <3>2
  <2>3. CASE s \notin services[c] /\ f \notin old[c][s]
    <3>1. statuses'[c][s] =
            Overlay(NewService(rep[c], s).statuses, deferred_service_statuses[c][s])
      BY <1>1, <2>1, <2>3
    <3>2. /\ NewService(rep[c], s).statuses[f] = rep[c][s][f]
          /\ NewService(rep[c], s).statuses \in StatusMap
      BY <2>1, NewServiceFresh, NewServiceType DEF Requests
    <3>3. deferred_service_statuses[c][s][f] \in {NoStatus, rep[c][s][f]}
      BY <2>1, <2>3 DEF Fresh, Tracked
    <3>4. PICK base, over, x :
            /\ base = NewService(rep[c], s).statuses
            /\ over = deferred_service_statuses[c][s]
            /\ x = rep[c][s][f]
      OBVIOUS
    <3>5. Overlay(base, over)[f] = x
      <4>1. /\ base \in StatusMap /\ over \in StatusMap
            /\ over[f] = NoStatus \/ over[f] = x
            /\ base[f] = x
        BY <2>1, <3>2, <3>3, <3>4
      <4>2. QED  BY <2>1, <4>1 DEF Overlay
    <3>6. QED  BY <3>1, <3>4, <3>5
  <2>4. QED  BY <2>2, <2>3
<1>5. QED  BY <1>2, <1>3, <1>4 DEF Fresh

\* Whatever the roster has when a TpYtsStatus comes is in outdated.
LEMMA StatusReadyFresh ==
  ASSUME Inv,
         NEW D \in [Contacts -> SUBSET Services],
         NEW rep \in [Contacts -> [Services -> StatusMap]],
         StatusReady(D, rep)
  PROVE  Fresh(reported, outdated)'
<1>1. PICK old : old = [c \in Contacts |-> [s \in Services |-> {f \in Capabilities : Has(c, s, f)}]]
  OBVIOUS
<1>2. AddToRoster(D, rep) /\ reported' = rep /\ outdated' = old
  BY <1>1 DEF StatusReady
<1>3. \A c \in Contacts, s \in Services, f \in Capabilities :
        f \notin old[c][s] =>
          /\ deferred_statuses[c][s][f] = NoStatus
          /\ deferred_service_statuses[c][s][f] = NoStatus
          /\ s \notin services[c]
          /\ \A r \in Requests : ~(pending[c][r] > 0 /\ r.service = s)
  <2>1. \A c \in Contacts, s \in Services, f \in Capabilities :
          Has(c, s, f) => f \in old[c][s]
    BY <1>1
  <2>2. QED  BY <2>1 DEF Has
<1>4. Tracked(rep, old)
  <2> SUFFICES ASSUME NEW c \in Contacts, NEW s \in Services, NEW f \in Capabilities,
                      f \notin old[c][s]
               PROVE  /\ deferred_statuses[c][s][f] \in {NoStatus, rep[c][s][f]}
                      /\ deferred_service_statuses[c][s][f] \in {NoStatus, rep[c][s][f]}
    BY DEF Tracked
  <2>1. QED  BY <1>3
<1>5. UpToDate(rep, old)
  BY <1>3, CapsAreCapabilities DEF UpToDate, Serial, Requests
<1>6. Shown(rep, old)
  BY <1>3, CapsAreCapabilities DEF Shown, Serial, Inv, TypeOK
<1>7. QED  BY <1>2, <1>4, <1>5, <1>6, AddToRosterFresh DEF Fresh

LEMMA RefreshFresh ==
  ASSUME Inv, FreshInv, RefreshRoster, connection = "ready"
  PROVE  Fresh(reported, outdated)'
<1>1. /\ services' = [c \in Contacts |-> {}]
      /\ deferred_service_statuses' = [c \in Contacts |-> NoServiceStatuses]
      /\ \A c \in Contacts :
           pending'[c] = Enqueue(pending[c], discovered[c], reported[c])
      /\ UNCHANGED <<reported, deferred_statuses, outdated>>
  BY DEF RefreshRoster, Clear, mesh_vars
<1>2. Tracked(reported, outdated) /\ UpToDate(reported, outdated)
  BY DEF FreshInv, Fresh
<1>3. Tracked(reported, outdated)'
  BY <1>1, <1>2 DEF Tracked, NoServiceStatuses, NoStatuses
<1>4. UpToDate(reported, outdated)'
  <2>1. PICK D, rep, old : D = discovered /\ rep = reported /\ old = outdated
    OBVIOUS
  <2>2. /\ D \in [Contacts -> SUBSET Services]
        /\ rep \in [Contacts -> [Services -> StatusMap]]
    BY <2>1 DEF Inv, TypeOK
  <2>3. \A c \in Contacts :
          pending'[c] \in {pending[c], Enqueue(pending[c], D[c], rep[c])}
    BY <1>1, <2>1
  <2>4. UpToDate(rep, old)
    BY <1>2, <2>1
  <2>5. UpToDate(rep, old)'
    <3>1. UNCHANGED deferred_statuses
      BY <1>1
    <3>2. QED  BY <2>2, <2>3, <2>4, <3>1, EnqueueUpToDate
  <2>6. QED  BY <1>1, <2>1, <2>5 DEF UpToDate, Serial
<1>5. Shown(reported, outdated)'
  BY <1>1 DEF Shown, Serial
<1>6. QED  BY <1>3, <1>4, <1>5 DEF Fresh

LEMMA ServiceRemovedFresh ==
  ASSUME Inv, FreshInv, NEW c \in Contacts, NEW s \in Services, ServiceRemoved(c, s)
  PROVE  Fresh(reported, outdated)'
<1>1. Fresh(reported, outdated)
  BY DEF FreshInv, ServiceRemoved
<1>2. UNCHANGED <<reported, pending, deferred_statuses, outdated>>
  BY DEF ServiceRemoved
<1>3. CASE UNCHANGED table_vars
  BY <1>1, <1>2, <1>3 DEF table_vars, Fresh, Tracked, UpToDate, Shown, Serial
<1>4. CASE DropService(c, s)
  <2>1. /\ services' = [services EXCEPT ![c] = @ \ {s}]
        /\ statuses' = [statuses EXCEPT ![c][s] = NoStatuses]
        /\ deferred_service_statuses' \in
             {[deferred_service_statuses EXCEPT ![c] = NoServiceStatuses],
              deferred_service_statuses}
    BY <1>4 DEF DropService
  <2>2. /\ services \in [Contacts -> SUBSET Services]
        /\ statuses \in [Contacts -> [Services -> StatusMap]]
        /\ deferred_service_statuses \in [Contacts -> [Services -> StatusMap]]
    BY DEF Inv, TypeOK
  <2>3. Tracked(reported, outdated)'
    <3>1. \A k \in Contacts, q \in Services, f \in Capabilities :
            deferred_service_statuses'[k][q][f] \in
              {NoStatus, deferred_service_statuses[k][q][f]}
      BY <2>1, <2>2 DEF NoServiceStatuses, NoStatuses
    <3>2. QED  BY <1>1, <1>2, <3>1 DEF Fresh, Tracked
  <2>4. UpToDate(reported, outdated)'
    BY <1>1, <1>2 DEF Fresh, UpToDate, Serial
  <2>5. Shown(reported, outdated)'
    <3> SUFFICES ASSUME NEW k \in Serial, NEW q \in services'[k], NEW f \in Caps[q]
                 PROVE  f \in outdated[k][q] \/ statuses'[k][q][f] = reported[k][q][f]
      BY <1>2 DEF Shown, Serial
    <3>1. k \in Contacts /\ q \in services[k] /\ ~(k = c /\ q = s)
      BY <2>1, <2>2 DEF Serial
    <3>2. statuses'[k][q] = statuses[k][q]
      BY <2>1, <2>2, <3>1
    <3>3. QED  BY <1>1, <3>1, <3>2 DEF Fresh, Shown
  <2>6. QED  BY <2>3, <2>4, <2>5 DEF Fresh
<1>5. QED  BY <1>3, <1>4 DEF ServiceRemoved

LEMMA StatusChangedFresh ==
  ASSUME Inv, SerialInv, FreshInv, NEW c \in Contacts, NEW s \in Services,
         NEW f \in Capabilities, NEW x \in Statuses, StatusChanged(c, s, f, x)
  PROVE  Fresh(reported, outdated)'
<1>1. /\ Tracked(reported, outdated) /\ UpToDate(reported, outdated)
      /\ Shown(reported, outdated)
  BY DEF FreshInv, Fresh, StatusChanged
<1>2. /\ UNCHANGED <<contacts, services, pending>>
      /\ reported' = [reported EXCEPT ![c][s][f] = x]
      /\ outdated' = [outdated EXCEPT ![c][s] = @ \ {f}]
  BY DEF StatusChanged
<1>3. /\ reported \in [Contacts -> [Services -> StatusMap]]
      /\ statuses \in [Contacts -> [Services -> StatusMap]]
      /\ deferred_statuses \in [Contacts -> [Services -> StatusMap]]
      /\ deferred_service_statuses \in [Contacts -> [Services -> StatusMap]]
      /\ \A k \in Contacts, q \in Services : 
           deferred_service_statuses[k][q] # NoStatuses => q \notin services[k]
      /\ \A k \in Contacts, q \in Services : 
           deferred_statuses[k][q] # NoStatuses => k \notin contacts
      /\ \A k \in Contacts : k \in contacts <=> services[k] # {}
      /\ outdated \in [Contacts -> [Services -> SUBSET Capabilities]]
  BY DEF Inv, TypeOK, ContactIffService, DeferredOnlyWhileMissing
<1>4. \A k \in Contacts, q \in Services, g \in Capabilities :
          /\ reported'[k][q][g] =
               IF k = c /\ q = s /\ g = f THEN x ELSE reported[k][q][g]
          /\ g \in outdated'[k][q] <=>
               g \in outdated[k][q] /\ ~(k = c /\ q = s /\ g = f)
  <2>1. \A k \in Contacts, q \in Services, g \in Capabilities :
          reported'[k][q][g] =
            IF k = c /\ q = s /\ g = f THEN x ELSE reported[k][q][g]
    BY <1>2, <1>3 DEF StatusMap
  <2>2. \A k \in Contacts, q \in Services :
          outdated'[k][q] =
            IF k = c /\ q = s THEN outdated[c][s] \ {f} ELSE outdated[k][q]
    BY <1>2, <1>3
  <2>3. QED  BY <2>1, <2>2
<1>5. x # NoStatus
  BY RosterAssumption
<1>6. \A r \in Requests : r.service \in Services /\ Caps[r.service] \subseteq Capabilities
  BY CapsAreCapabilities DEF Requests
<1>7. \A r \in Requests : c \in contacts /\ c \in Serial => ~(pending[c][r] > 0)
  <2> SUFFICES ASSUME NEW r \in Requests, c \in contacts, c \in Serial
               PROVE  ~(pending[c][r] > 0)
    OBVIOUS
  <2>1. pending[c] \in [Requests -> Nat] /\ Copies(pending[c]) = {}
    BY DEF Inv, TypeOK, SerialInv, AskedWhenAbsent
  <2>2. QED  BY <2>1, CopyOfRequest
<1>8. c \in contacts => \A q \in Services, g \in Capabilities : deferred_statuses[c][q][g] = NoStatus
  BY <1>3 DEF NoStatuses
<1>9. \A k \in Contacts, q \in Services, g \in Capabilities :
        q \in services[k] => deferred_service_statuses[k][q][g] = NoStatus
  BY <1>3 DEF NoStatuses
<1>10. CASE c \in contacts /\ s \in services[c]
  <2>1. /\ statuses' = [statuses EXCEPT ![c][s][f] = x]
        /\ UNCHANGED <<deferred_statuses, deferred_service_statuses>>
    BY <1>10 DEF StatusChanged, UpdateServiceStatus
  <2>2. Tracked(reported, outdated)'
    <3> SUFFICES ASSUME NEW k \in Contacts, NEW q \in Services, NEW g \in Capabilities,
                        g \notin outdated'[k][q]
                 PROVE  /\ deferred_statuses'[k][q][g] \in {NoStatus, reported'[k][q][g]}
                        /\ deferred_service_statuses'[k][q][g]
                             \in {NoStatus, reported'[k][q][g]}
      BY DEF Tracked
    <3>1. \/ k = c /\ q = s /\ g = f
          \/ /\ deferred_statuses[k][q][g] \in {NoStatus, reported[k][q][g]}
             /\ deferred_service_statuses[k][q][g] \in {NoStatus, reported[k][q][g]}
      BY <1>1, <1>4 DEF Tracked
    <3>2. QED  BY <1>4, <1>8, <1>9, <1>10, <2>1, <3>1
  <2>3. UpToDate(reported, outdated)'
    BY <1>1, <1>2, <1>4, <1>6, <1>7, <1>10, <2>1 DEF UpToDate, Serial
  <2>4. \A k \in Contacts, q \in Services, g \in Capabilities :
          statuses'[k][q][g] =
            IF k = c /\ q = s /\ g = f THEN x ELSE statuses[k][q][g]
    BY <1>3, <2>1 DEF StatusMap
  <2>5. Shown(reported, outdated)'
    <3> SUFFICES ASSUME NEW k \in Serial, NEW q \in services[k], NEW g \in Caps[q]
                 PROVE  g \in outdated'[k][q] \/ statuses'[k][q][g] = reported'[k][q][g]
      BY <1>2 DEF Shown, Serial
    <3>1. k \in Contacts /\ q \in Services /\ g \in Capabilities
      BY CapsAreCapabilities DEF Serial, Inv, TypeOK
    <3>2. QED  BY <1>1, <1>4, <2>4, <3>1 DEF Shown
  <2>6. QED  BY <2>2, <2>3, <2>5 DEF Fresh
<1>11. CASE c \in contacts /\ s \notin services[c]
  <2>1. /\ deferred_service_statuses' =
             [deferred_service_statuses EXCEPT ![c][s][f] = x]
        /\ UNCHANGED <<deferred_statuses, statuses>>
    BY <1>11 DEF StatusChanged, UpdateServiceStatus
  <2>2. \A k \in Contacts, q \in Services, g \in Capabilities :
          deferred_service_statuses'[k][q][g] =
            IF k = c /\ q = s /\ g = f THEN x ELSE deferred_service_statuses[k][q][g]
    BY <1>3, <2>1 DEF StatusMap
  <2>3. Tracked(reported, outdated)'
    <3> SUFFICES ASSUME NEW k \in Contacts, NEW q \in Services, NEW g \in Capabilities,
                        g \notin outdated'[k][q]
                 PROVE  /\ deferred_statuses'[k][q][g] \in {NoStatus, reported'[k][q][g]}
                        /\ deferred_service_statuses'[k][q][g]
                             \in {NoStatus, reported'[k][q][g]}
      BY DEF Tracked
    <3>1. \/ k = c /\ q = s /\ g = f
          \/ /\ deferred_statuses[k][q][g] \in {NoStatus, reported[k][q][g]}
             /\ deferred_service_statuses[k][q][g] \in {NoStatus, reported[k][q][g]}
      BY <1>1, <1>4 DEF Tracked
    <3>2. QED  BY <1>4, <1>8, <1>11, <2>1, <2>2, <3>1
  <2>4. UpToDate(reported, outdated)'
    BY <1>1, <1>2, <1>4, <1>6, <1>7, <1>11, <2>1 DEF UpToDate, Serial
  <2>5. Shown(reported, outdated)'
    <3> SUFFICES ASSUME NEW k \in Serial, NEW q \in services[k], NEW g \in Caps[q]
                 PROVE  g \in outdated'[k][q] \/ statuses[k][q][g] = reported'[k][q][g]
      BY <1>2, <2>1 DEF Shown, Serial
    <3>1. k \in Contacts /\ q \in Services /\ g \in Capabilities
      BY CapsAreCapabilities DEF Serial, Inv, TypeOK
    <3>2. QED  BY <1>1, <1>4, <1>11, <3>1 DEF Shown
  <2>6. QED  BY <2>3, <2>4, <2>5 DEF Fresh
<1>12. CASE c \notin contacts
  <2>1. /\ deferred_statuses' = [deferred_statuses EXCEPT ![c][s][f] = x]
        /\ UNCHANGED <<deferred_service_statuses, statuses>>
    BY <1>12 DEF StatusChanged
  <2>2. \A k \in Contacts, q \in Services, g \in Capabilities :
          deferred_statuses'[k][q][g] =
            IF k = c /\ q = s /\ g = f THEN x ELSE deferred_statuses[k][q][g]
    BY <1>3, <2>1 DEF StatusMap
  <2>3. \A q \in Services, g \in Capabilities : deferred_service_statuses[c][q][g] = NoStatus
    BY <1>12 DEF Inv, DeferredOnlyWhileMissing, NoStatuses
  <2>4. Tracked(reported, outdated)'
    <3> SUFFICES ASSUME NEW k \in Contacts, NEW q \in Services, NEW g \in Capabilities,
                        g \notin outdated'[k][q]
                 PROVE  /\ deferred_statuses'[k][q][g] \in {NoStatus, reported'[k][q][g]}
                        /\ deferred_service_statuses'[k][q][g]
                             \in {NoStatus, reported'[k][q][g]}
      BY DEF Tracked
    <3>1. \/ k = c /\ q = s /\ g = f
          \/ /\ deferred_statuses[k][q][g] \in {NoStatus, reported[k][q][g]}
             /\ deferred_service_statuses[k][q][g] \in {NoStatus, reported[k][q][g]}
      BY <1>1, <1>4 DEF Tracked
    <3>2. QED  BY <1>4, <2>1, <2>2, <2>3, <3>1
  <2>5. UpToDate(reported, outdated)'
    <3> SUFFICES ASSUME NEW k \in Serial, NEW r \in Requests, pending[k][r] > 0,
                        NEW g \in Caps[r.service]
                 PROVE  \/ g \in outdated'[k][r.service]
                        \/ r.statuses[g] = reported'[k][r.service][g]
                        \/ deferred_statuses'[k][r.service][g] # NoStatus
      BY <1>2 DEF UpToDate, Serial
    <3>1. k \in Contacts /\ r.service \in Services /\ g \in Capabilities
      BY <1>6 DEF Serial
    <3>2. PICK q : q = r.service
      OBVIOUS
    <3>3. \/ g \in outdated[k][q] \/ r.statuses[g] = reported[k][q][g]
          \/ deferred_statuses[k][q][g] # NoStatus
      BY <1>1, <3>2 DEF UpToDate
    <3>4. QED  BY <1>4, <1>5, <2>2, <3>1, <3>2, <3>3
  <2>6. Shown(reported, outdated)'
    <3> SUFFICES ASSUME NEW k \in Serial, NEW q \in services[k], NEW g \in Caps[q]
                 PROVE  g \in outdated'[k][q] \/ statuses[k][q][g] = reported'[k][q][g]
      BY <1>2, <2>1 DEF Shown, Serial
    <3>1. k \in Contacts /\ q \in Services /\ g \in Capabilities /\ k # c
      BY <1>3, <1>12, CapsAreCapabilities DEF Serial, Inv, TypeOK
    <3>2. QED  BY <1>1, <1>4, <3>1 DEF Shown
  <2>7. QED  BY <2>4, <2>5, <2>6 DEF Fresh
<1>13. QED  BY <1>10, <1>11, <1>12

\* A contact takes over what the roster deferred for it.
LEMMA GotContactFresh ==
  ASSUME Inv, SerialInv, FreshInv, connection = "ready",
         NEW c \in Contacts, NEW r \in Requests, GotContact(c, r)
  PROVE  Fresh(reported, outdated)'
<1>1. /\ Tracked(reported, outdated) /\ UpToDate(reported, outdated)
      /\ Shown(reported, outdated)
  BY DEF FreshInv, Fresh
<1>2. /\ pending[c][r] > 0 /\ Answered(c, r)
      /\ services' = [services EXCEPT ![c] = {r.service}]
      /\ statuses' = [statuses EXCEPT ![c] =
           [s \in Services |-> IF s = r.service
                               THEN Overlay(r.statuses, deferred_statuses[c][s])
                               ELSE NoStatuses]]
      /\ deferred_service_statuses' = [deferred_service_statuses EXCEPT ![c] =
           [deferred_statuses[c] EXCEPT ![r.service] = NoStatuses]]
      /\ deferred_statuses' = [deferred_statuses EXCEPT ![c] = NoServiceStatuses]
      /\ UNCHANGED <<reported, outdated>>
  BY DEF GotContact, TakeDeferred, mesh_vars
<1>3. /\ c \in Serial => Copies(pending'[c]) = {}
      /\ \A k \in Contacts \ {c} : pending'[k] = pending[k]
      /\ pending'[c] \in [Requests -> Int]
  <2>1. pending' = [pending EXCEPT ![c][r] = @ - 1] /\ pending \in [Contacts -> [Requests -> Nat]]
    BY <1>2 DEF Answered, Inv, TypeOK
  <2>2. pending'[c] \in [Requests -> Int]
    BY <2>1
  <2>3. QED  BY <1>2, <2>2, AnsweredSerial
<1>4. /\ services \in [Contacts -> SUBSET Services]
      /\ statuses \in [Contacts -> [Services -> StatusMap]]
      /\ deferred_statuses \in [Contacts -> [Services -> StatusMap]]
      /\ deferred_service_statuses \in [Contacts -> [Services -> StatusMap]]
      /\ r.service \in Services
  BY DEF Inv, TypeOK, Requests
<1>5. Tracked(reported, outdated)'
  <2>1. \A s \in Services, f \in Capabilities :
          /\ deferred_statuses'[c][s][f] = NoStatus
          /\ deferred_service_statuses'[c][s][f] \in {NoStatus, deferred_statuses[c][s][f]}
    BY <1>2, <1>4 DEF NoServiceStatuses, NoStatuses
  <2>2. \A k \in Contacts \ {c} :
          /\ deferred_statuses'[k] = deferred_statuses[k]
          /\ deferred_service_statuses'[k] = deferred_service_statuses[k]
    BY <1>2, <1>4
  <2> SUFFICES ASSUME NEW k \in Contacts, NEW s \in Services, NEW f \in Capabilities,
                      f \notin outdated[k][s]
               PROVE  /\ deferred_statuses'[k][s][f] \in {NoStatus, reported[k][s][f]}
                      /\ deferred_service_statuses'[k][s][f] \in {NoStatus, reported[k][s][f]}
    BY <1>2 DEF Tracked
  <2>3. /\ deferred_statuses[k][s][f] \in {NoStatus, reported[k][s][f]}
        /\ deferred_service_statuses[k][s][f] \in {NoStatus, reported[k][s][f]}
    BY <1>1 DEF Tracked
  <2>4. QED  BY <2>1, <2>2, <2>3
<1>6. UpToDate(reported, outdated)'
  <2> SUFFICES ASSUME NEW k \in Serial, NEW q \in Requests, pending'[k][q] > 0,
                      NEW f \in Caps[q.service]
               PROVE  \/ f \in outdated[k][q.service]
                      \/ q.statuses[f] = reported[k][q.service][f]
                      \/ deferred_statuses'[k][q.service][f] # NoStatus
    BY <1>2 DEF UpToDate, Serial
  <2>1. k \in Contacts
    BY DEF Serial
  <2>2. k # c
    <3> SUFFICES ASSUME k = c PROVE FALSE
      OBVIOUS
    <3>1. 1 \in 1..pending'[c][q]
      BY <1>3
    <3>2. <<q, 1>> \in Copies(pending'[c])
      BY <3>1 DEF Copies
    <3>3. QED  BY <1>3, <3>2
  <2>3. pending'[k] = pending[k] /\ deferred_statuses'[k] = deferred_statuses[k]
    BY <1>2, <1>3, <1>4, <2>1, <2>2
  <2>4. QED  BY <1>1, <2>3 DEF UpToDate
<1>7. Shown(reported, outdated)'
  <2> SUFFICES ASSUME NEW k \in Serial, NEW s \in services'[k], NEW f \in Caps[s]
               PROVE  f \in outdated[k][s] \/ statuses'[k][s][f] = reported[k][s][f]
    <3>1. reported' = reported /\ outdated' = outdated
      BY <1>2
    <3>2. QED  BY <3>1 DEF Shown, Serial
  <2>1. k \in Contacts
    BY DEF Serial
  <2>2. CASE k # c
    BY <1>1, <1>2, <1>4, <2>1, <2>2 DEF Shown
  <2>3. CASE k = c /\ f \notin outdated[k][s]
    <3>1. s = r.service
      BY <1>2, <1>4, <2>3
    <3>2. f \in Capabilities
      BY <1>4, <3>1, CapsAreCapabilities
    <3>3. PICK base, over, x :
            base = r.statuses /\ over = deferred_statuses[c][s] /\ x = reported[c][s][f]
      OBVIOUS
    <3>4. base[f] = x \/ over[f] # NoStatus
      BY <1>1, <1>2, <2>3, <3>1, <3>3 DEF UpToDate
    <3>5. over[f] = NoStatus \/ over[f] = x
      BY <1>1, <1>4, <2>3, <3>1, <3>2, <3>3 DEF Tracked
    <3>6. statuses'[c][s] = Overlay(base, over)
      BY <1>2, <1>4, <3>1, <3>3
    <3>7. Overlay(base, over)[f] = x
      BY <3>2, <3>4, <3>5 DEF Overlay
    <3>8. QED  BY <2>3, <3>3, <3>6, <3>7
  <2>4. QED  BY <2>2, <2>3
<1>8. QED  BY <1>5, <1>6, <1>7 DEF Fresh

LEMMA StepFresh ==
  ASSUME Inv, SerialInv, FreshInv, [Next]_vars
  PROVE  FreshInv'
<1> SUFFICES ASSUME connection' = "ready"
             PROVE  Fresh(reported, outdated)'
  BY DEF FreshInv
<1>2. connection = "ready" =>
        Fresh(reported, outdated)
  BY DEF FreshInv
<1>3. CASE ConnectionMade \/ Disconnected
  BY <1>3 DEF ConnectionMade, Disconnected
<1>4. ASSUME NEW D \in [Contacts -> SUBSET Services],
             NEW rep \in [Contacts -> [Services -> StatusMap]],
             StatusReady(D, rep)
      PROVE  Fresh(reported, outdated)'
  BY <1>4, StatusReadyFresh
<1>5. CASE RefreshRoster
  BY <1>5, RefreshFresh DEF RefreshRoster, conn_vars
<1>6. ASSUME NEW c \in Contacts, NEW s \in Services, ServiceAdded(c, s)
      PROVE  Fresh(reported, outdated)'
  <2>1. PICK D, rep, old :
          D = Only(c, {s}) /\ rep = reported /\ old = outdated
    OBVIOUS
  <2>2. /\ D \in [Contacts -> SUBSET Services]
        /\ rep \in [Contacts -> [Services -> StatusMap]]
    BY <2>1 DEF Only, Inv, TypeOK
  <2>3. Fresh(rep, old)
    BY <1>2, <1>6, <2>1 DEF ServiceAdded
  <2>4. AddToRoster(D, rep) /\ reported' = rep /\ outdated' = old
    BY <1>6, <2>1 DEF ServiceAdded
  <2>5. QED  BY <2>2, <2>3, <2>4, AddToRosterFresh
<1>7. ASSUME NEW c \in Contacts, NEW s \in Services, ServiceRemoved(c, s)
      PROVE  Fresh(reported, outdated)'
  BY <1>7, ServiceRemovedFresh
<1>8. ASSUME NEW c \in Contacts, NEW s \in Services, NEW f \in Capabilities,
             NEW x \in Statuses, StatusChanged(c, s, f, x)
      PROVE  Fresh(reported, outdated)'
  BY <1>8, StatusChangedFresh
<1>9. ASSUME NEW c \in Contacts, NEW r \in Requests, GotContact(c, r)
      PROVE  Fresh(reported, outdated)'
  BY <1>9, GotContactFresh DEF GotContact, conn_vars
<1>10. ASSUME NEW c \in Contacts, NEW r \in Requests, ContactFailed(c, r)
      PROVE  Fresh(reported, outdated)'
  <2>1. UNCHANGED <<connection, reported, services, statuses,
                    deferred_statuses, deferred_service_statuses, outdated>>
    BY <1>10 DEF ContactFailed, conn_vars, mesh_vars, table_vars
  <2>2. /\ pending \in [Contacts -> [Requests -> Nat]]
        /\ pending' = [pending EXCEPT ![c][r] = @ - 1]
    BY <1>10 DEF ContactFailed, Answered, Inv, TypeOK
  <2>3. \A k \in Contacts, q \in Requests : pending'[k][q] > 0 => pending[k][q] > 0
    BY <2>2
  <2>4. QED  BY <1>2, <2>1, <2>3 DEF Fresh, Tracked, UpToDate, Shown, Serial
<1>11. CASE UNCHANGED vars
  BY <1>2, <1>11
  DEF vars, conn_vars, mesh_vars, table_vars, Fresh, Tracked, UpToDate, Shown, Serial
<1>12. QED
  BY <1>3, <1>4, <1>5, <1>6, <1>7, <1>8, <1>9, <1>10, <1>11 DEF Next

\* On every connection a service in the roster, of a contact asked for one
\* request at a time, shows the last status reported for each of its
\* capabilities, whichever of status, service and TpContact came first; but for
\* those of which the roster had something when the TpYtsStatus came, until
\* they are reported.
THEOREM StatusesFresh == Spec => []StatusFresh
<1>1. Init => Inv /\ SerialInv /\ FreshInv
  BY InitInv, InitSerial DEF Init, FreshInv
<1>2. (Inv /\ SerialInv /\ FreshInv) /\ [Next]_vars => (Inv /\ SerialInv /\ FreshInv)'
  BY StepInv, StepSerial, StepFresh
<1>3. FreshInv => StatusFresh
  BY DEF FreshInv, Fresh, Shown, StatusFresh
<1>4. QED  BY <1>1, <1>2, <1>3, PTL DEF Spec
=============================================================================
