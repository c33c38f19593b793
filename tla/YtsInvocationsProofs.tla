------------------------ MODULE YtsInvocationsProofs ------------------------
(***************************************************************************)
(* The tables of invocations and proxies, for any number of peers and      *)
(* capabilities, with services of one UID on any of them, and contacts     *)
(* that are replaced at any time.                                          *)
(*                                                                         *)
(* RecordsLive is inductive with the types alone: a record that points to  *)
(* a contact of the roster goes when that contact is announced as gone,    *)
(* and the records of one that is not announced are those of dropped.      *)
(*                                                                         *)
(* The rest needs ids that are not in use already, ~Collisions.  Inv is    *)
(* inductive under it: an address that a record points to is still that of *)
(* the peer it was made for, or in dropped.  ApartInv keeps contacts and   *)
(* promises apart; with it a step takes only the registrations and         *)
(* invocations it is about.                                                *)
(***************************************************************************)
EXTENDS YtsInvocations, TLAPS

TypeInv == TypeOK /\ ProxiesOfProfile

Inv == AnswersGoHome /\ ProxiesAskedFor

-----------------------------------------------------------------------------
(* What the helpers do to the two tables. *)

\* A purge keeps the types, and leaves what it is not asked to take.
LEMMA PurgeFacts ==
  ASSUME TypeInv, NEW G, Purge(G)
  PROVE  /\ invocations' \in [InvocationIds -> Records \cup {None}]
         /\ proxies' \in [Capabilities -> SUBSET Records]
         /\ \A i \in InvocationIds :
              invocations'[i] # None =>
                invocations'[i] = invocations[i] /\ invocations[i] \notin G
         /\ \A k \in Capabilities : proxies'[k] = proxies[k] \ G
  BY DEF TypeInv, TypeOK, Purge

\* The roster's addresses are those of its contacts.
LEMMA LiveFacts ==
  ASSUME TypeInv
  PROVE  \A o : o \in Live <=> o # None /\ \E p \in Peers : contact[p] = o
  BY DEF TypeInv, TypeOK, Live, Range

\* The UIDs of a peer are UIDs.
LEMMA UidsFacts ==
  ASSUME NEW p \in Peers, NEW u \in Uids[p]
  PROVE  u \in ServiceUids
  BY InvocationsAssumption DEF ServiceUids, Range

\* A record made for a contact of the roster, or found under the id, is one.
LEMMA EstablishedType ==
  ASSUME TypeInv, NEW p \in Peers, NEW u \in ServiceUids, NEW i \in InvocationIds,
         contact[p] # None
  PROVE  Established(i, [contact |-> contact[p], proxy_id |-> u]) \in Records
<1>1. contact[p] \in Objects
  BY DEF TypeInv, TypeOK
<1>2. [contact |-> contact[p], proxy_id |-> u] \in Records
  BY <1>1 DEF Records
<1>3. invocations[i] \in Records \cup {None}
  BY DEF TypeInv, TypeOK
<1>4. QED  BY <1>2, <1>3 DEF Established

\* Clearing the roster leaves the records that point out of it.
LEMMA ClearFacts ==
  ASSUME TypeInv, Clear
  PROVE  /\ contact' = [p \in Peers |-> None]
         /\ contact' \in [Peers -> Objects \cup {None}]
         /\ uids' \in [Peers -> SUBSET ServiceUids]
         /\ dropped' = dropped \ Live
         /\ dropped' \in SUBSET Objects
         /\ Live' = {}
         /\ invocations' \in [InvocationIds -> Records \cup {None}]
         /\ proxies' \in [Capabilities -> SUBSET Records]
         /\ \A i \in InvocationIds :
              invocations'[i] # None =>
                /\ invocations'[i] = invocations[i]
                /\ invocations[i] \in Records /\ invocations[i].contact \notin Live
         /\ \A k \in Capabilities : \A r \in proxies'[k] :
              r \in proxies[k] /\ r \in Records /\ r.contact \notin Live
<1>1. Purge(OfContacts(Live))
  BY DEF Clear
<1>2. /\ contact' = [p \in Peers |-> None]
      /\ uids' = [p \in Peers |-> {}]
      /\ dropped' = dropped \ Live
  BY DEF Clear
<1>3. Live' = {}
  BY <1>2 DEF Live, Range
<1>4. /\ invocations' \in [InvocationIds -> Records \cup {None}]
      /\ proxies' \in [Capabilities -> SUBSET Records]
      /\ \A i \in InvocationIds :
           invocations'[i] # None =>
             invocations'[i] = invocations[i] /\ invocations[i] \notin OfContacts(Live)
      /\ \A k \in Capabilities : proxies'[k] = proxies[k] \ OfContacts(Live)
  BY <1>1, PurgeFacts
<1>5. \A i \in InvocationIds : invocations[i] # None => invocations[i] \in Records
  BY DEF TypeInv, TypeOK
<1>6. \A r \in Records : r \notin OfContacts(Live) => r.contact \notin Live
  BY DEF OfContacts
<1>7. \A i \in InvocationIds :
        invocations'[i] # None =>
          /\ invocations'[i] = invocations[i]
          /\ invocations[i] \in Records /\ invocations[i].contact \notin Live
  BY <1>4, <1>5, <1>6
<1>8. \A k \in Capabilities : \A r \in proxies'[k] :
        r \in proxies[k] /\ r \in Records /\ r.contact \notin Live
  BY <1>4, <1>6
<1>9. dropped' \in SUBSET Objects /\ contact' \in [Peers -> Objects \cup {None}]
      /\ uids' \in [Peers -> SUBSET ServiceUids]
  BY <1>2 DEF TypeInv, TypeOK
<1>10. QED  BY <1>2, <1>3, <1>4, <1>7, <1>8, <1>9

-----------------------------------------------------------------------------
(* Types, and the profile *)

LEMMA TypeInit == Init => TypeInv
  BY DEF Init, TypeInv, TypeOK, ProxiesOfProfile

LEMMA TypeStep == TypeInv /\ [Next]_vars => TypeInv'
<1> SUFFICES ASSUME TypeInv, [Next]_vars PROVE TypeInv'
  OBVIOUS
<1> USE DEF TypeInv, TypeOK, ProxiesOfProfile
<1>1. ASSUME NEW p \in Peers, NEW u \in ServiceUids, NEW o \in Objects,
             ServiceAdded(p, u, o)
      PROVE  TypeInv'
  BY <1>1 DEF ServiceAdded, service_vars, record_vars
<1>2. ASSUME NEW p \in Peers, NEW u \in ServiceUids, NEW o \in Objects,
             ContactReplaced(p, u, o)
      PROVE  TypeInv'
  BY <1>2 DEF ContactReplaced, service_vars, record_vars
<1>3. ASSUME NEW p \in Peers, NEW u \in ServiceUids, ServiceRemoved(p, u)
      PROVE  TypeInv'
  <2>1. contact' \in [Peers -> Objects \cup {None}] /\ uids' \in [Peers -> SUBSET ServiceUids]
    BY <1>3 DEF ServiceRemoved
  <2>2. /\ invocations' \in [InvocationIds -> Records \cup {None}]
        /\ proxies' \in [Capabilities -> SUBSET Records]
        /\ \A k \in Capabilities : proxies'[k] \subseteq proxies[k]
    BY <1>3, PurgeFacts DEF ServiceRemoved
  <2>3. /\ UNCHANGED <<service_vars, held, fault>>
        /\ asked' \subseteq asked /\ dropped' \subseteq dropped
    BY <1>3 DEF ServiceRemoved
  <2>4. QED  BY <2>1, <2>2, <2>3 DEF service_vars
<1>4. CASE Disconnected
  BY <1>4, ClearFacts DEF Disconnected, service_vars
<1>5. ASSUME NEW k \in Capabilities, AddCapability(k)
      PROVE  TypeInv'
  BY <1>5, ClearFacts DEF AddCapability, Advertise
<1>6. ASSUME NEW k \in Capabilities, PublishService(k)
      PROVE  TypeInv'
  <2>1. /\ contact' \in [Peers -> Objects \cup {None}]
        /\ uids' \in [Peers -> SUBSET ServiceUids]
        /\ invocations' \in [InvocationIds -> Records \cup {None}]
        /\ proxies' \in [Capabilities -> SUBSET Records]
        /\ \A l \in Capabilities : proxies'[l] \subseteq proxies[l]
        /\ dropped' \in SUBSET Objects
    BY <1>6, ClearFacts DEF PublishService, Advertise, roster_vars, record_vars
  <2>2. QED  BY <1>6, <2>1 DEF PublishService, Advertise
<1>7. ASSUME NEW k \in Capabilities, ServiceDestroyed(k)
      PROVE  TypeInv'
  BY <1>7 DEF ServiceDestroyed, MayFault, Faults, roster_vars, record_vars
<1>8. ASSUME NEW p \in Peers, NEW u \in ServiceUids, NEW k \in Capabilities,
             NEW i \in InvocationIds, NEW keep \in BOOLEAN, Invoke(p, u, k, i, keep)
      PROVE  TypeInv'
  <2>1. Established(i, [contact |-> contact[p], proxy_id |-> u]) \in Records
    BY <1>8, EstablishedType DEF Invoke, Arrives
  <2>2. invocations' \in [InvocationIds -> Records \cup {None}]
    BY <1>8, <2>1 DEF Invoke
  <2>3. held' \in SUBSET Promises
    BY <1>8 DEF Invoke, Promises
  <2>4. QED  BY <1>8, <2>2, <2>3 DEF Invoke, roster_vars, service_vars
<1>9. ASSUME NEW p \in Peers, NEW u \in ServiceUids, NEW k \in Capabilities,
             NEW i \in InvocationIds, RegisterProxy(p, u, k, i)
      PROVE  TypeInv'
  <2> DEFINE r == Established(i, [contact |-> contact[p], proxy_id |-> u])
  <2>1. r \in Records
    BY <1>9, EstablishedType DEF RegisterProxy, Ensured, Arrives
  <2>2. asked' \in SUBSET Requests
    <3>1. asked' = asked \cup {[peer |-> p, proxy_id |-> u, capability |-> k]}
      BY <1>9 DEF RegisterProxy, Ensured
    <3>2. [peer |-> p, proxy_id |-> u, capability |-> k] \in Requests
      BY DEF Requests
    <3>3. asked \in SUBSET Requests
      OBVIOUS
    <3> HIDE DEF TypeInv, TypeOK
    <3>4. QED  BY <3>1, <3>2, <3>3
  <2>3. invocations' \in [InvocationIds -> Records \cup {None}]
    BY <1>9 DEF RegisterProxy, Ensured
  <2>4. fault' \in Faults \cup {"none"}
    BY <1>9 DEF RegisterProxy, Ensured, Follow, MayFault, Faults
  <2> HIDE DEF r
  <2>5. UNCHANGED <<roster_vars, service_vars, held, dropped>>
        /\ \/ proxies' = [proxies EXCEPT ![k] = @ \cup {r}] /\ k \in profile
           \/ proxies' = proxies
    BY <1>9 DEF RegisterProxy, Ensured, Listed, r
  <2>6. QED  BY <2>1, <2>2, <2>3, <2>4, <2>5 DEF roster_vars, service_vars
<1>10. ASSUME NEW p \in Peers, NEW u \in ServiceUids, NEW k \in Capabilities,
              NEW i \in InvocationIds, UnregisterProxy(p, u, k, i)
       PROVE  TypeInv'
  <2>1. asked' \in SUBSET Requests
    BY <1>10 DEF UnregisterProxy, Unregistered
  <2>2. invocations' \in [InvocationIds -> Records \cup {None}]
    BY <1>10 DEF UnregisterProxy, Unregistered
  <2>3. fault' \in Faults \cup {"none"}
    BY <1>10 DEF UnregisterProxy, Unregistered, Follow, MayFault, Faults
  <2>4. /\ proxies' \in [Capabilities -> SUBSET Records]
        /\ \A l \in Capabilities : proxies'[l] \subseteq proxies[l]
    BY <1>10 DEF UnregisterProxy, Unregistered
  <2>5. UNCHANGED <<roster_vars, service_vars, held, dropped>>
    BY <1>10 DEF UnregisterProxy, Unregistered
  <2>6. QED  BY <2>1, <2>2, <2>3, <2>4, <2>5 DEF roster_vars, service_vars
<1>11. ASSUME NEW i \in InvocationIds, Timeout(i)
       PROVE  TypeInv'
  BY <1>11 DEF Timeout, roster_vars, service_vars
<1>12. ASSUME NEW h \in Promises, Respond(h)
       PROVE  TypeInv'
  <2>1. fault' \in Faults \cup {"none"}
    BY <1>12 DEF Respond, Follow, MayFault, Faults
  <2>2. QED  BY <1>12, <2>1 DEF Respond, roster_vars, service_vars
<1>13. ASSUME NEW k \in Capabilities, Event(k)
       PROVE  TypeInv'
  BY <1>13 DEF Event, MayFault, Faults, roster_vars, service_vars, record_vars
<1>14. CASE UNCHANGED vars
  BY <1>14 DEF vars, roster_vars, service_vars, record_vars
<1>15. QED
  BY <1>1, <1>2, <1>3, <1>4, <1>5, <1>6, <1>7, <1>8, <1>9, <1>10, <1>11, <1>12,
     <1>13, <1>14
  DEF Next, RosterStep, ServiceStep, MessageStep

LEMMA TypeHolds == Spec => []TypeInv
<1>1. QED  BY TypeInit, TypeStep, PTL DEF Spec

\* Both tables keep their shape: a record always names a contact object and a
\* service, whatever ids the peers choose.
THEOREM InvocationTypes == Spec => []TypeOK
<1>1. TypeInv => TypeOK  BY DEF TypeInv
<1>2. QED  BY <1>1, TypeHolds, PTL

\* No proxy is ever registered for a capability that the profile service does
\* not list.
THEOREM ProfileGuards == Spec => []ProxiesOfProfile
<1>1. TypeInv => ProxiesOfProfile  BY DEF TypeInv
<1>2. QED  BY <1>1, TypeHolds, PTL

-----------------------------------------------------------------------------
(* Pointers *)

LEMMA RecordsInit == Init => RecordsLive
  BY DEF Init, RecordsLive

\* A step that adds no record and keeps the addresses records may point to.
LEMMA KeptLive ==
  ASSUME RecordsLive, Live \cup dropped \subseteq Live' \cup dropped',
         \A i \in InvocationIds : invocations'[i] = invocations[i] \/ invocations'[i] = None,
         \A k \in Capabilities : proxies'[k] \subseteq proxies[k]
  PROVE  RecordsLive'
  BY DEF RecordsLive

LEMMA RecordsStep == TypeInv /\ TypeInv' /\ RecordsLive /\ [Next]_vars => RecordsLive'
<1> SUFFICES ASSUME TypeInv, TypeInv', RecordsLive, [Next]_vars PROVE RecordsLive'
  OBVIOUS
<1>0. \A r \in Records : r.contact \in Objects /\ r.contact # None
  BY InvocationsAssumption DEF Records
<1>a. \A o : o \in Live' <=> o # None /\ \E p \in Peers : contact'[p] = o
  BY DEF TypeInv, TypeOK, Live, Range
<1>b. ASSUME UNCHANGED <<contact, dropped>> PROVE Live' = Live /\ dropped' = dropped
  BY <1>b DEF Live
<1>c. ASSUME Clear PROVE RecordsLive'
  BY <1>c, ClearFacts DEF RecordsLive
<1>1. ASSUME NEW p \in Peers, NEW u \in ServiceUids, NEW o \in Objects,
             ServiceAdded(p, u, o)
      PROVE  RecordsLive'
  <2>1. UNCHANGED <<invocations, proxies, dropped>>
    BY <1>1 DEF ServiceAdded, record_vars
  <2>2. \A q \in Peers : contact[q] # None => contact'[q] = contact[q]
    BY <1>1 DEF ServiceAdded, TypeInv, TypeOK
  <2>3. Live \subseteq Live'
    BY <1>a, <2>2, LiveFacts
  <2>4. QED  BY <2>1, <2>3, KeptLive
<1>2. ASSUME NEW p \in Peers, NEW u \in ServiceUids, NEW o \in Objects,
             ContactReplaced(p, u, o)
      PROVE  RecordsLive'
  <2>1. UNCHANGED <<invocations, proxies>> /\ dropped' = dropped \cup {contact[p]}
    BY <1>2 DEF ContactReplaced, record_vars
  <2>2. \A q \in Peers : q # p => contact'[q] = contact[q]
    BY <1>2 DEF ContactReplaced, TypeInv, TypeOK
  <2>3. Live \subseteq Live' \cup {contact[p]}
    BY <1>a, <2>2, LiveFacts
  <2>4. QED  BY <2>1, <2>3, KeptLive
<1>3. ASSUME NEW p \in Peers, NEW u \in ServiceUids, ServiceRemoved(p, u)
      PROVE  RecordsLive'
  <2> DEFINE last == uids[p] = {u}
             gone == IF last THEN {contact[p]} ELSE {}
             purged == OfProxyId(u) \cup OfContacts(gone)
  <2>1. /\ contact' = IF last THEN [contact EXCEPT ![p] = None] ELSE contact
        /\ dropped' = dropped \ gone
        /\ Purge(purged)
    BY <1>3 DEF ServiceRemoved
  <2>2. /\ \A i \in InvocationIds :
             invocations'[i] # None =>
               invocations'[i] = invocations[i] /\ invocations[i] \notin purged
        /\ \A k \in Capabilities : proxies'[k] = proxies[k] \ purged
    BY <2>1, PurgeFacts
  <2>3. \A q \in Peers : contact[q] \notin gone => contact'[q] = contact[q]
    BY <2>1 DEF TypeInv, TypeOK
  <2>4. \A r \in Records : r \notin purged => r.contact \notin gone
    BY DEF OfContacts
  <2> HIDE DEF purged, gone
  <2>5. \A o : o \in (Live \cup dropped) \ gone => o \in Live' \cup dropped'
    BY <1>a, <2>1, <2>3, LiveFacts
  <2>6. \A i \in InvocationIds :
          invocations'[i] # None => invocations'[i].contact \in Live' \cup dropped'
    <3>1. \A i \in InvocationIds : invocations[i] # None => invocations[i] \in Records
      BY DEF TypeInv, TypeOK
    <3>2. QED  BY <2>2, <2>4, <2>5, <3>1 DEF RecordsLive
  <2>7. \A k \in Capabilities : \A r \in proxies'[k] : r.contact \in Live' \cup dropped'
    <3>1. \A k \in Capabilities : proxies[k] \subseteq Records
      BY DEF TypeInv, TypeOK
    <3>2. QED  BY <2>2, <2>4, <2>5, <3>1 DEF RecordsLive
  <2>8. QED  BY <2>6, <2>7 DEF RecordsLive
<1>4. CASE Disconnected
  BY <1>c, <1>4 DEF Disconnected
<1>5. ASSUME NEW k \in Capabilities, AddCapability(k) \/ PublishService(k)
      PROVE  RecordsLive'
  <2>1. Clear \/ UNCHANGED <<contact, dropped, invocations, proxies>>
    BY <1>5 DEF AddCapability, PublishService, Advertise, roster_vars, record_vars
  <2>2. CASE UNCHANGED <<contact, dropped, invocations, proxies>>
    BY <1>b, <2>2, KeptLive
  <2>3. QED  BY <1>c, <2>1, <2>2
<1>6. ASSUME UNCHANGED <<contact, dropped>>,
             \A i \in InvocationIds : invocations'[i] = invocations[i] \/ invocations'[i] = None,
             \A k \in Capabilities : proxies'[k] \subseteq proxies[k]
      PROVE  RecordsLive'
  BY <1>b, <1>6, KeptLive
<1>7. ASSUME NEW k \in Capabilities, ServiceDestroyed(k) \/ Event(k)
      PROVE  RecordsLive'
  BY <1>6, <1>7 DEF ServiceDestroyed, Event, roster_vars, record_vars
<1>8. ASSUME NEW p \in Peers, NEW u \in ServiceUids, NEW i \in InvocationIds,
             contact[p] # None
      PROVE  Established(i, [contact |-> contact[p], proxy_id |-> u]).contact
               \in Live \cup dropped
  <2>1. contact[p] \in Live
    BY <1>8, LiveFacts
  <2>2. QED  BY <2>1 DEF Established, RecordsLive
<1>9. ASSUME NEW p \in Peers, NEW u \in ServiceUids, NEW k \in Capabilities,
             NEW i \in InvocationIds, NEW keep \in BOOLEAN, Invoke(p, u, k, i, keep)
      PROVE  RecordsLive'
  <2>1. UNCHANGED <<contact, dropped, proxies>> /\ contact[p] # None
    BY <1>9 DEF Invoke, Arrives, roster_vars
  <2>2. PICK x : /\ invocations' = [invocations EXCEPT ![i] = x]
                 /\ x = None \/ x.contact \in Live \cup dropped
    BY <1>8, <1>9, <2>1 DEF Invoke
  <2>3. \A j \in InvocationIds :
          invocations'[j] # None => invocations'[j].contact \in Live \cup dropped
    BY <2>2 DEF TypeInv, TypeOK, RecordsLive
  <2>4. QED  BY <1>b, <2>1, <2>3 DEF RecordsLive
<1>10. ASSUME NEW p \in Peers, NEW u \in ServiceUids, NEW k \in Capabilities,
              NEW i \in InvocationIds, RegisterProxy(p, u, k, i)
       PROVE  RecordsLive'
  <2>1. /\ UNCHANGED <<contact, dropped>> /\ contact[p] # None
        /\ invocations' = [invocations EXCEPT ![i] = None]
    BY <1>10 DEF RegisterProxy, Arrives, roster_vars
  <2>2. PICK r : /\ proxies' = [proxies EXCEPT ![k] = @ \cup {r}] \/ proxies' = proxies
                 /\ r.contact \in Live \cup dropped
    BY <1>8, <1>10, <2>1 DEF RegisterProxy, Ensured
  <2>3. \A l \in Capabilities : \A s \in proxies'[l] : s.contact \in Live \cup dropped
    BY <2>2 DEF TypeInv, TypeOK, RecordsLive
  <2>4. \A j \in InvocationIds :
          invocations'[j] # None => invocations'[j].contact \in Live \cup dropped
    BY <2>1 DEF TypeInv, TypeOK, RecordsLive
  <2>5. QED  BY <1>b, <2>1, <2>3, <2>4 DEF RecordsLive
<1>11. ASSUME NEW p \in Peers, NEW u \in ServiceUids, NEW k \in Capabilities,
              NEW i \in InvocationIds, UnregisterProxy(p, u, k, i)
       PROVE  RecordsLive'
  <2>1. /\ UNCHANGED <<contact, dropped>>
        /\ invocations' = [invocations EXCEPT ![i] = None]
    BY <1>11 DEF UnregisterProxy, roster_vars
  <2>2. \A l \in Capabilities : proxies'[l] \subseteq proxies[l]
    BY <1>11 DEF UnregisterProxy, Unregistered, TypeInv, TypeOK
  <2>3. \A j \in InvocationIds : invocations'[j] = invocations[j] \/ invocations'[j] = None
    BY <2>1 DEF TypeInv, TypeOK
  <2>4. QED  BY <1>6, <2>1, <2>2, <2>3
<1>12. ASSUME NEW i \in InvocationIds, Timeout(i)
       PROVE  RecordsLive'
  BY <1>6, <1>12 DEF Timeout, roster_vars, TypeInv, TypeOK
<1>13. ASSUME NEW h \in Promises, Respond(h)
       PROVE  RecordsLive'
  BY <1>6, <1>13 DEF Respond, roster_vars, TypeInv, TypeOK
<1>14. CASE UNCHANGED vars
  BY <1>6, <1>14 DEF vars, roster_vars, record_vars
<1>15. QED
  BY <1>1, <1>2, <1>3, <1>4, <1>5, <1>7, <1>9, <1>10, <1>11, <1>12, <1>13, <1>14
  DEF Next, RosterStep, ServiceStep, MessageStep

\* Whatever ids the peers choose, a record of either table points to a contact
\* object that is there, or to an address that a contact had when it was
\* replaced and that no contact has been announced gone from since.
THEOREM PointersValid == Spec => []RecordsLive
<1>1. QED  BY RecordsInit, RecordsStep, TypeHolds, PTL DEF Spec

-----------------------------------------------------------------------------
(* Answers and subscriptions *)

LEMMA InvInit == Init => Inv
  BY DEF Init, Inv, AnswersGoHome, ProxiesAskedFor

\* An id that is not in use gets a new record.
LEMMA FreshRecord ==
  ASSUME ~Collisions, NEW p, NEW u, NEW i, Arrives(p, u, i)
  PROVE  /\ Established(i, [contact |-> contact[p], proxy_id |-> u])
              = [contact |-> contact[p], proxy_id |-> u]
         /\ contact[p] # None
         /\ \A h \in held : h.id # i
  BY DEF Arrives, InUse, Established

\* What a record with address o stands for is not disturbed by the step.
Kept(o) ==
  \/ o \in dropped'
  \/ o \notin dropped /\ \A p \in Peers : contact[p] = o => contact'[p] = o

\* A step that adds no record and no promise preserves the invariant when it
\* disturbs none of the records that stay, nor what was asked for them.
LEMMA FewerRecords ==
  ASSUME TypeInv, Inv, held' \subseteq held,
         \A i \in InvocationIds :
           invocations'[i] # None =>
             invocations'[i] = invocations[i] /\ Kept(invocations[i].contact),
         \A k \in Capabilities : \A r \in proxies'[k] :
           r \in proxies[k] /\ Kept(r.contact),
         \A q \in asked \ asked' : \A r \in proxies'[q.capability] :
           r.proxy_id = q.proxy_id /\ contact[q.peer] = r.contact => r.contact \in dropped'
  PROVE  Inv'
<1>0. /\ \A h \in held : h.id \in InvocationIds /\ h.peer \in Peers
      /\ \A q \in asked : q.peer \in Peers
  BY DEF TypeInv, TypeOK, Promises, Requests
<1>1. AnswersGoHome'
  <2> SUFFICES ASSUME NEW h \in held, invocations'[h.id] # None
               PROVE  /\ invocations'[h.id].proxy_id = h.proxy_id
                      /\ invocations'[h.id].contact \in dropped' \cup {contact'[h.peer]}
    BY DEF AnswersGoHome
  <2>1. /\ invocations'[h.id] = invocations[h.id]
        /\ Kept(invocations[h.id].contact)
        /\ invocations[h.id].proxy_id = h.proxy_id
        /\ invocations[h.id].contact \in dropped \cup {contact[h.peer]}
    BY <1>0 DEF Inv, AnswersGoHome
  <2>2. QED  BY <1>0, <2>1 DEF Kept
<1>2. ProxiesAskedFor'
  <2> SUFFICES ASSUME NEW k \in Capabilities, NEW r \in proxies'[k], r.contact \notin dropped'
               PROVE  \E q \in asked' : /\ q.capability = k /\ q.proxy_id = r.proxy_id
                                         /\ contact'[q.peer] = r.contact
    BY DEF ProxiesAskedFor
  <2>1. /\ r \in proxies[k] /\ r.contact \notin dropped
        /\ \A p \in Peers : contact[p] = r.contact => contact'[p] = r.contact
    BY DEF Kept
  <2>2. PICK q \in asked : /\ q.capability = k /\ q.proxy_id = r.proxy_id
                            /\ contact[q.peer] = r.contact
    BY <2>1 DEF Inv, ProxiesAskedFor
  <2>3. q \in asked'
    BY <2>2
  <2>4. contact'[q.peer] = r.contact
    BY <1>0, <2>1, <2>2
  <2>5. QED  BY <2>2, <2>3, <2>4
<1>3. QED  BY <1>1, <1>2 DEF Inv

\* The records that survive a refresh of the roster are not disturbed by it.
LEMMA ClearInv ==
  ASSUME TypeInv, Inv, Clear, held' = held
  PROVE  Inv'
<1>1. \A o \in Objects : o \notin Live => Kept(o)
  BY LiveFacts, ClearFacts, InvocationsAssumption DEF Kept
<1>2. \A r \in Records : r.contact \in Objects
  BY DEF Records
<1>3. \A i \in InvocationIds :
        invocations'[i] # None =>
          invocations'[i] = invocations[i] /\ Kept(invocations[i].contact)
  BY <1>1, <1>2, ClearFacts
<1>4. \A k \in Capabilities : \A r \in proxies'[k] : r \in proxies[k] /\ Kept(r.contact)
  BY <1>1, <1>2, ClearFacts
<1>5. \A k \in Capabilities : \A r \in proxies'[k], p \in Peers : contact[p] # r.contact
  BY <1>2, ClearFacts, LiveFacts, InvocationsAssumption
<1>6. \A q \in asked : q.capability \in Capabilities /\ q.peer \in Peers
  BY DEF TypeInv, TypeOK, Requests
<1>7. QED  BY <1>3, <1>4, <1>5, <1>6, FewerRecords

LEMMA InvStep ==
  ASSUME ~Collisions
  PROVE  TypeInv /\ TypeInv' /\ Inv /\ [Next]_vars => Inv'
<1> SUFFICES ASSUME TypeInv, TypeInv', Inv, [Next]_vars PROVE Inv'
  OBVIOUS
<1>0. /\ \A h \in held : h.id \in InvocationIds /\ h.peer \in Peers
      /\ \A q \in asked : q.peer \in Peers /\ q.capability \in Capabilities
      /\ \A i \in InvocationIds : invocations[i] # None => invocations[i] \in Records
      /\ \A k \in Capabilities : proxies[k] \subseteq Records
      /\ \A r \in Records : r.contact \in Objects /\ r.contact # None
  BY InvocationsAssumption DEF TypeInv, TypeOK, Promises, Requests, Records
<1>a. ASSUME UNCHANGED <<contact, dropped>> PROVE \A o : Kept(o)
  BY <1>a DEF Kept
<1>b. ASSUME \A o \in Objects : Kept(o), UNCHANGED <<invocations, proxies, asked>>,
             held' \subseteq held
      PROVE  Inv'
  <2>1. \A i \in InvocationIds :
          invocations'[i] # None =>
            invocations'[i] = invocations[i] /\ Kept(invocations[i].contact)
    BY <1>0, <1>b
  <2>2. \A k \in Capabilities : \A r \in proxies'[k] : r \in proxies[k] /\ Kept(r.contact)
    BY <1>0, <1>b
  <2>3. QED  BY <1>b, <2>1, <2>2, FewerRecords
<1>c. ASSUME UNCHANGED <<contact, dropped, proxies, asked>>, held' \subseteq held,
             \A i \in InvocationIds : invocations'[i] = invocations[i] \/ invocations'[i] = None
      PROVE  Inv'
  BY <1>a, <1>c, FewerRecords
<1>1. ASSUME NEW p \in Peers, NEW u \in ServiceUids, NEW o \in Objects,
             ServiceAdded(p, u, o)
      PROVE  Inv'
  <2>1. UNCHANGED <<invocations, proxies, asked, held, dropped>>
    BY <1>1 DEF ServiceAdded, record_vars
  <2>2. \A q \in Peers : contact[q] # None => contact'[q] = contact[q]
    BY <1>1 DEF ServiceAdded, TypeInv, TypeOK
  <2>3. \A x \in Objects : Kept(x)
    BY <2>1, <2>2, InvocationsAssumption DEF Kept
  <2>4. QED  BY <1>b, <2>1, <2>3
<1>2. ASSUME NEW p \in Peers, NEW u \in ServiceUids, NEW o \in Objects,
             ContactReplaced(p, u, o)
      PROVE  Inv'
  <2>1. /\ UNCHANGED <<invocations, proxies, asked, held>>
        /\ dropped' = dropped \cup {contact[p]}
    BY <1>2 DEF ContactReplaced, record_vars
  <2>2. \A q \in Peers : q # p => contact'[q] = contact[q]
    BY <1>2 DEF ContactReplaced, TypeInv, TypeOK
  <2>3. \A x \in Objects : Kept(x)
    BY <2>1, <2>2 DEF Kept
  <2>4. QED  BY <1>b, <2>1, <2>3
<1>3. ASSUME NEW p \in Peers, NEW u \in ServiceUids, ServiceRemoved(p, u)
      PROVE  Inv'
  <2> DEFINE last == uids[p] = {u}
             gone == IF last THEN {contact[p]} ELSE {}
             purged == OfProxyId(u) \cup OfContacts(gone)
  <2>1. /\ contact' = IF last THEN [contact EXCEPT ![p] = None] ELSE contact
        /\ dropped' = dropped \ gone
        /\ Purge(purged)
        /\ asked' = {r \in asked : r.peer # p \/ r.proxy_id # u}
        /\ held' = held
    BY <1>3 DEF ServiceRemoved
  <2>2. /\ \A i \in InvocationIds :
             invocations'[i] # None =>
               invocations'[i] = invocations[i] /\ invocations[i] \notin purged
        /\ \A k \in Capabilities : proxies'[k] = proxies[k] \ purged
    BY <2>1, PurgeFacts
  <2>3. \A q \in Peers : contact[q] \notin gone => contact'[q] = contact[q]
    BY <2>1 DEF TypeInv, TypeOK
  <2>4. \A r \in Records : r \notin purged => r.contact \notin gone /\ r.proxy_id # u
    BY DEF OfContacts, OfProxyId
  <2> HIDE DEF purged, gone
  <2>5. \A o : o \notin gone => Kept(o)
    BY <2>1, <2>3 DEF Kept
  <2>6. \A i \in InvocationIds :
          invocations'[i] # None =>
            invocations'[i] = invocations[i] /\ Kept(invocations[i].contact)
    BY <1>0, <2>2, <2>4, <2>5
  <2>7. \A k \in Capabilities : \A r \in proxies'[k] :
          r \in proxies[k] /\ Kept(r.contact) /\ r.proxy_id # u
    BY <1>0, <2>2, <2>4, <2>5
  <2>8. \A q \in asked \ asked' : q.proxy_id = u /\ q.capability \in Capabilities
    BY <1>0, <2>1
  <2>9. QED  BY <2>1, <2>6, <2>7, <2>8, FewerRecords
<1>4. CASE Disconnected
  BY <1>4, ClearInv DEF Disconnected
<1>5. ASSUME NEW k \in Capabilities, AddCapability(k) \/ PublishService(k)
      PROVE  Inv'
  <2>1. /\ UNCHANGED <<asked, held>>
        /\ Clear \/ UNCHANGED <<contact, dropped, invocations, proxies>>
    BY <1>5 DEF AddCapability, PublishService, Advertise, roster_vars, record_vars
  <2>2. QED  BY <1>c, <2>1, ClearInv
<1>6. ASSUME NEW k \in Capabilities, ServiceDestroyed(k) \/ Event(k)
      PROVE  Inv'
  BY <1>c, <1>6 DEF ServiceDestroyed, Event, roster_vars, record_vars
<1>7. ASSUME NEW p \in Peers, NEW u \in ServiceUids, NEW k \in Capabilities,
             NEW i \in InvocationIds, NEW keep \in BOOLEAN, Invoke(p, u, k, i, keep)
      PROVE  Inv'
  <2> DEFINE r == [contact |-> contact[p], proxy_id |-> u]
             h0 == [id |-> i, peer |-> p, proxy_id |-> u, capability |-> k]
  <2>1. UNCHANGED <<contact, dropped, proxies, asked>>
    BY <1>7 DEF Invoke, roster_vars
  <2>2. CASE ~keep
    <3>1. \A j \in InvocationIds : invocations'[j] = invocations[j] \/ invocations'[j] = None
      BY <1>7, <2>2 DEF Invoke, TypeInv, TypeOK
    <3>2. held' = held
      BY <1>7, <2>2 DEF Invoke
    <3>3. QED  BY <1>c, <2>1, <3>1, <3>2
  <2>3. CASE keep
    <3>1. \A h \in held : h.id # i
      BY <1>7, FreshRecord DEF Invoke
    <3>2. invocations' = [invocations EXCEPT ![i] = r]
      BY <1>7, <2>3, FreshRecord DEF Invoke
    <3>3. held' = held \cup {h0}
      BY <1>7, <2>3 DEF Invoke
    <3>4. AnswersGoHome'
      <4>1. ASSUME NEW h \in held PROVE invocations'[h.id] = invocations[h.id]
        BY <1>0, <3>1, <3>2 DEF TypeInv, TypeOK
      <4>2. invocations'[i] = [contact |-> contact'[p], proxy_id |-> u]
        BY <2>1, <3>2 DEF TypeInv, TypeOK
      <4>3. QED  BY <2>1, <3>3, <4>1, <4>2 DEF Inv, AnswersGoHome
    <3>5. ProxiesAskedFor'
      BY <2>1 DEF Inv, ProxiesAskedFor
    <3>6. QED  BY <3>4, <3>5 DEF Inv
  <2>4. QED  BY <2>2, <2>3
<1>8. ASSUME NEW p \in Peers, NEW u \in ServiceUids, NEW k \in Capabilities,
             NEW i \in InvocationIds, RegisterProxy(p, u, k, i)
      PROVE  Inv'
  <2> DEFINE r == [contact |-> contact[p], proxy_id |-> u]
             q0 == [peer |-> p, proxy_id |-> u, capability |-> k]
  <2>1. UNCHANGED <<contact, dropped, held>>
    BY <1>8 DEF RegisterProxy, roster_vars
  <2>2. invocations' = [invocations EXCEPT ![i] = None]
    BY <1>8 DEF RegisterProxy
  <2>3. asked' = asked \cup {q0}
    BY <1>8 DEF RegisterProxy
  <2>4. proxies' = [proxies EXCEPT ![k] = @ \cup {r}] \/ proxies' = proxies
    BY <1>8, FreshRecord DEF RegisterProxy, Ensured
  <2>5. AnswersGoHome'
    BY <1>0, <2>1, <2>2 DEF Inv, AnswersGoHome, TypeInv, TypeOK
  <2>6. ProxiesAskedFor'
    <3> SUFFICES ASSUME NEW l \in Capabilities, NEW x \in proxies'[l], x.contact \notin dropped
                 PROVE  \E q \in asked' : /\ q.capability = l /\ q.proxy_id = x.proxy_id
                                           /\ contact'[q.peer] = x.contact
      BY <2>1 DEF ProxiesAskedFor
    <3>1. CASE x \in proxies[l]
      BY <2>1, <2>3, <3>1 DEF Inv, ProxiesAskedFor
    <3>2. CASE x \notin proxies[l]
      <4>1. l = k /\ x = r
        BY <2>4, <3>2 DEF TypeInv, TypeOK
      <4>2. /\ q0.capability = l /\ q0.proxy_id = x.proxy_id
            /\ contact'[q0.peer] = x.contact /\ q0 \in asked'
        BY <2>1, <2>3, <4>1
      <4>3. QED  BY <4>2
    <3>3. QED  BY <3>1, <3>2
  <2>7. QED  BY <2>5, <2>6 DEF Inv
<1>9. ASSUME NEW p \in Peers, NEW u \in ServiceUids, NEW k \in Capabilities,
              NEW i \in InvocationIds, UnregisterProxy(p, u, k, i)
       PROVE  Inv'
  <2> DEFINE q0 == [peer |-> p, proxy_id |-> u, capability |-> k]
  <2>1. UNCHANGED <<contact, dropped, held>>
    BY <1>9 DEF UnregisterProxy, roster_vars
  <2>2. \A j \in InvocationIds : invocations'[j] = invocations[j] \/ invocations'[j] = None
    BY <1>9 DEF UnregisterProxy, TypeInv, TypeOK
  <2>3. asked' = asked \ {q0}
    BY <1>9 DEF UnregisterProxy
  <2>4. /\ \A l \in Capabilities : proxies'[l] \subseteq proxies[l]
        /\ k \in profile => proxies'[k] = proxies[k] \ OfProxyId(u)
    BY <1>9, FreshRecord DEF UnregisterProxy, Unregistered, Listed, TypeInv, TypeOK
  <2>5. k \notin profile => proxies[k] = {}
    BY DEF TypeInv, ProxiesOfProfile
  <2>6. \A x \in proxies'[k] : x.proxy_id # u
    BY <1>0, <2>4, <2>5 DEF OfProxyId
  <2>7. \A q \in asked \ asked' : q.capability = k /\ q.proxy_id = u
    BY <2>3
  <2>8. QED  BY <1>a, <2>1, <2>2, <2>4, <2>6, <2>7, FewerRecords
<1>10. ASSUME NEW i \in InvocationIds, Timeout(i)
       PROVE  Inv'
  BY <1>c, <1>10 DEF Timeout, roster_vars, TypeInv, TypeOK
<1>11. ASSUME NEW h \in Promises, Respond(h)
       PROVE  Inv'
  BY <1>c, <1>11 DEF Respond, roster_vars, TypeInv, TypeOK
<1>12. CASE UNCHANGED vars
  BY <1>c, <1>12 DEF vars, roster_vars, record_vars
<1>13. QED
  BY <1>1, <1>2, <1>3, <1>4, <1>5, <1>6, <1>7, <1>8, <1>9, <1>10, <1>11, <1>12
  DEF Next, RosterStep, ServiceStep, MessageStep

LEMMA InvHolds ==
  ASSUME ~Collisions
  PROVE  Spec => []Inv
<1>1. QED  BY InvInit, InvStep, TypeHolds, PTL DEF Spec

\* When no id is used that is in use, an answer can only go to the service whose
\* invocation it answers, and to its peer unless that one's contact was
\* replaced, across timeouts, departures and addresses given away again.
THEOREM AnswersRouted ==
  ASSUME ~Collisions
  PROVE  Spec => []AnswersGoHome
<1>1. Inv => AnswersGoHome  BY DEF Inv
<1>2. QED  BY <1>1, InvHolds, PTL

\* Under the same condition only those get events that asked for them and did
\* not give up or leave, but for the proxies of contacts that were replaced.
THEOREM EventsSolicited ==
  ASSUME ~Collisions
  PROVE  Spec => []ProxiesAskedFor
<1>1. Inv => ProxiesAskedFor  BY DEF Inv
<1>2. QED  BY <1>1, InvHolds, PTL

-----------------------------------------------------------------------------
(* What ends a registration or an invocation.  The purges go by address    *)
(* and by UID, so this needs addresses and ids that tell contacts and      *)
(* promises apart.                                                         *)

\* No two contacts have one address.
AddressesApart ==
  \A p, q \in Peers : contact[p] = contact[q] /\ contact[p] # None => p = q

\* No two promises have one id.
IdsApart == \A g, h \in held : g.id = h.id => g = h

ApartInv == AddressesApart /\ IdsApart

LEMMA ApartInit == Init => ApartInv
  BY DEF Init, ApartInv, AddressesApart, IdsApart

\* A step by which contacts and promises may only go.
LEMMA FewerApart ==
  ASSUME ApartInv, held' \subseteq held,
         \A p \in Peers : contact'[p] \in {contact[p], None}
  PROVE  ApartInv'
  BY DEF ApartInv, AddressesApart, IdsApart

LEMMA ApartStep ==
  ASSUME ~Collisions
  PROVE  TypeInv /\ ApartInv /\ [Next]_vars => ApartInv'
<1> SUFFICES ASSUME TypeInv, ApartInv, [Next]_vars PROVE ApartInv'
  OBVIOUS
<1>0. contact \in [Peers -> Objects \cup {None}]
  BY DEF TypeInv, TypeOK
<1>1. ASSUME NEW p \in Peers, NEW u \in ServiceUids, NEW o \in Objects,
             ServiceAdded(p, u, o) \/ ContactReplaced(p, u, o)
      PROVE  ApartInv'
  <2>1. /\ held' = held
        /\ \/ o \notin Live /\ contact' = [contact EXCEPT ![p] = o]
           \/ contact' = contact
    BY <1>1 DEF ServiceAdded, ContactReplaced
  <2>2. \A q \in Peers : contact[q] # None => contact[q] \in Live
    BY LiveFacts
  <2>3. AddressesApart'
    BY <1>0, <2>1, <2>2 DEF ApartInv, AddressesApart
  <2>4. QED  BY <2>1, <2>3 DEF ApartInv, IdsApart
<1>2. ASSUME NEW p \in Peers, NEW u \in ServiceUids, ServiceRemoved(p, u)
      PROVE  ApartInv'
  <2>1. contact' \in {[contact EXCEPT ![p] = None], contact}
    BY <1>2 DEF ServiceRemoved
  <2>2. \A q \in Peers : contact'[q] \in {contact[q], None}
    BY <1>0, <2>1
  <2>3. held' = held
    BY <1>2 DEF ServiceRemoved
  <2>4. QED  BY <2>2, <2>3, FewerApart
<1>3. ASSUME Clear, held' = held
      PROVE  ApartInv'
  <2>1. \A q \in Peers : contact'[q] \in {contact[q], None}
    BY <1>3 DEF Clear
  <2>2. QED  BY <1>3, <2>1, FewerApart
<1>4. CASE Disconnected
  BY <1>3, <1>4 DEF Disconnected
<1>5. ASSUME NEW k \in Capabilities, AddCapability(k) \/ PublishService(k)
      PROVE  ApartInv'
  <2>1. held' = held /\ (Clear \/ contact' = contact)
    BY <1>5 DEF AddCapability, PublishService, Advertise, roster_vars
  <2>2. QED  BY <1>3, <2>1, FewerApart
<1>6. ASSUME NEW p \in Peers, NEW u \in ServiceUids, NEW k \in Capabilities,
             NEW i \in InvocationIds, NEW keep \in BOOLEAN, Invoke(p, u, k, i, keep)
      PROVE  ApartInv'
  <2>1. /\ contact' = contact
        /\ \A h \in held : h.id # i
        /\ \/ held' = held
           \/ held' = held \cup {[id |-> i, peer |-> p, proxy_id |-> u, capability |-> k]}
    BY <1>6, FreshRecord DEF Invoke, roster_vars
  <2>2. IdsApart'
    BY <2>1 DEF ApartInv, IdsApart
  <2>3. QED  BY <2>1, <2>2 DEF ApartInv, AddressesApart
<1>7. ASSUME contact' = contact, held' \subseteq held
      PROVE  ApartInv'
  BY <1>7, FewerApart
<1>8. ASSUME NEW p \in Peers, NEW u \in ServiceUids, NEW k \in Capabilities,
             NEW i \in InvocationIds, RegisterProxy(p, u, k, i) \/ UnregisterProxy(p, u, k, i)
      PROVE  ApartInv'
  BY <1>7, <1>8 DEF RegisterProxy, UnregisterProxy, roster_vars
<1>9. ASSUME NEW k \in Capabilities, ServiceDestroyed(k) \/ Event(k)
      PROVE  ApartInv'
  BY <1>7, <1>9 DEF ServiceDestroyed, Event, roster_vars
<1>10. ASSUME NEW i \in InvocationIds, Timeout(i)
       PROVE  ApartInv'
  BY <1>7, <1>10 DEF Timeout, roster_vars
<1>11. ASSUME NEW h \in Promises, Respond(h)
       PROVE  ApartInv'
  BY <1>7, <1>11 DEF Respond, roster_vars
<1>12. CASE UNCHANGED vars
  BY <1>7, <1>12 DEF vars, roster_vars
<1>13. QED
  BY <1>1, <1>2, <1>4, <1>5, <1>6, <1>8, <1>9, <1>10, <1>11, <1>12
  DEF Next, RosterStep, ServiceStep, MessageStep

LEMMA ApartHolds ==
  ASSUME ~Collisions
  PROVE  Spec => []ApartInv
<1>1. QED  BY ApartInit, ApartStep, TypeHolds, PTL DEF Spec

LEMMA KeptRegistration ==
  ASSUME ~Collisions, TypeInv, ApartInv, [Next]_vars,
         NEW q \in asked, Effective(q), contact'[q.peer] = contact[q.peer],
         \A p \in Peers : ~ServiceRemoved(p, q.proxy_id),
         \A p \in Peers, i \in InvocationIds :
           ~UnregisterProxy(p, q.proxy_id, q.capability, i)
  PROVE  Effective(q)'
<1> DEFINE r == [contact |-> contact[q.peer], proxy_id |-> q.proxy_id]
<1>1. /\ q \in Requests /\ q.peer \in Peers /\ q.capability \in Capabilities
      /\ contact \in [Peers -> Objects \cup {None}]
      /\ proxies \in [Capabilities -> SUBSET Records]
  BY DEF TypeInv, TypeOK, Requests
<1>2. r \in proxies[q.capability] /\ r \in Records
  BY <1>1 DEF Effective
<1>3. contact[q.peer] # None
  BY <1>2, InvocationsAssumption DEF Records
<1> HIDE DEF r
<1> SUFFICES r \in proxies'[q.capability]
  BY DEF Effective, r
<1>4. r.contact = contact[q.peer] /\ r.proxy_id = q.proxy_id
  BY DEF r
<1>5. ASSUME UNCHANGED proxies PROVE r \in proxies'[q.capability]
  BY <1>2, <1>5
<1>6. ASSUME NEW p \in Peers, NEW u \in ServiceUids, NEW o \in Objects,
             ServiceAdded(p, u, o) \/ ContactReplaced(p, u, o)
      PROVE  r \in proxies'[q.capability]
  BY <1>5, <1>6 DEF ServiceAdded, ContactReplaced, record_vars
<1>7. ASSUME NEW p \in Peers, NEW u \in ServiceUids, ServiceRemoved(p, u)
      PROVE  r \in proxies'[q.capability]
  <2> DEFINE gone == IF uids[p] = {u} THEN {contact[p]} ELSE {}
  <2>1. q.proxy_id # u
    BY <1>7
  <2>2. /\ uids[p] = {u} => contact' = [contact EXCEPT ![p] = None]
        /\ Purge(OfProxyId(u) \cup OfContacts(gone))
    BY <1>7 DEF ServiceRemoved
  <2>3. uids[p] = {u} => contact[q.peer] # contact[p]
    BY <1>1, <1>3, <2>2 DEF ApartInv, AddressesApart
  <2>4. r \notin OfProxyId(u) \cup OfContacts(gone)
    BY <1>4, <2>1, <2>3 DEF OfProxyId, OfContacts
  <2> HIDE DEF gone
  <2>5. QED  BY <1>1, <1>2, <2>2, <2>4 DEF Purge
<1>8. ~Clear
  BY <1>1, <1>3 DEF Clear
<1>9. CASE Disconnected
  BY <1>8, <1>9 DEF Disconnected
<1>10. ASSUME NEW k \in Capabilities, AddCapability(k) \/ PublishService(k)
       PROVE  r \in proxies'[q.capability]
  BY <1>5, <1>8, <1>10 DEF AddCapability, PublishService, Advertise, record_vars
<1>11. ASSUME NEW k \in Capabilities, ServiceDestroyed(k) \/ Event(k)
       PROVE  r \in proxies'[q.capability]
  BY <1>5, <1>11 DEF ServiceDestroyed, Event, record_vars
<1>12. ASSUME NEW p \in Peers, NEW u \in ServiceUids, NEW k \in Capabilities,
              NEW i \in InvocationIds, NEW keep \in BOOLEAN, Invoke(p, u, k, i, keep)
       PROVE  r \in proxies'[q.capability]
  BY <1>5, <1>12 DEF Invoke
<1>13. ASSUME NEW p \in Peers, NEW u \in ServiceUids, NEW k \in Capabilities,
              NEW i \in InvocationIds, RegisterProxy(p, u, k, i)
       PROVE  r \in proxies'[q.capability]
  <2>1. proxies' = proxies
        \/ \E s : proxies' = [proxies EXCEPT ![k] = @ \cup {s}]
    BY <1>13 DEF RegisterProxy, Ensured
  <2>2. QED  BY <1>1, <1>2, <2>1
<1>14. ASSUME NEW p \in Peers, NEW u \in ServiceUids, NEW k \in Capabilities,
              NEW i \in InvocationIds, UnregisterProxy(p, u, k, i)
       PROVE  r \in proxies'[q.capability]
  <2>1. proxies' = proxies \/ proxies' = [proxies EXCEPT ![k] = @ \ OfProxyId(u)]
    <3>1. Arrives(p, u, i)
      BY <1>14 DEF UnregisterProxy
    <3>2. Established(i, [contact |-> contact[p], proxy_id |-> u]).proxy_id = u
      BY <3>1, FreshRecord
    <3>3. QED  BY <1>14, <3>2 DEF UnregisterProxy, Unregistered
  <2>2. ~(q.capability = k /\ q.proxy_id = u)
    BY <1>14
  <2>3. QED  BY <1>1, <1>2, <1>4, <2>1, <2>2 DEF OfProxyId
<1>15. ASSUME NEW i \in InvocationIds, Timeout(i)
       PROVE  r \in proxies'[q.capability]
  BY <1>5, <1>15 DEF Timeout
<1>16. ASSUME NEW h \in Promises, Respond(h)
       PROVE  r \in proxies'[q.capability]
  BY <1>5, <1>16 DEF Respond
<1>17. CASE UNCHANGED vars
  BY <1>5, <1>17 DEF vars, record_vars
<1>18. QED
  BY <1>6, <1>7, <1>9, <1>10, <1>11, <1>12, <1>13, <1>14, <1>15, <1>16, <1>17
  DEF Next, RosterStep, ServiceStep, MessageStep

LEMMA KeptInvocation ==
  ASSUME ~Collisions, TypeInv, Inv, ApartInv, [Next]_vars,
         NEW h \in held, h \in held', Answerable(h),
         ~Timeout(h.id), \A p \in Peers : ~ServiceRemoved(p, h.proxy_id),
         invocations[h.id].contact \notin Live \ Live'
  PROVE  Answerable(h)'
<1>1. /\ h \in Promises /\ h.id \in InvocationIds
      /\ contact \in [Peers -> Objects \cup {None}]
      /\ invocations \in [InvocationIds -> Records \cup {None}]
  BY DEF TypeInv, TypeOK, Promises
<1>2. PICK r \in Records : r = invocations[h.id] /\ r # None /\ r.proxy_id = h.proxy_id
  BY <1>1 DEF Answerable, Inv, AnswersGoHome
<1>3. r.contact # None /\ r.contact \notin Live \ Live'
  BY <1>2, InvocationsAssumption DEF Records
<1>4. ASSUME invocations'[h.id] = invocations[h.id] PROVE Answerable(h)'
  BY <1>2, <1>4 DEF Answerable
<1>5. ASSUME NEW p \in Peers, NEW u \in ServiceUids, NEW o \in Objects,
             ServiceAdded(p, u, o) \/ ContactReplaced(p, u, o)
      PROVE  Answerable(h)'
  BY <1>4, <1>5 DEF ServiceAdded, ContactReplaced, record_vars
<1>6. ASSUME NEW p \in Peers, NEW u \in ServiceUids, ServiceRemoved(p, u)
      PROVE  Answerable(h)'
  <2> DEFINE gone == IF uids[p] = {u} THEN {contact[p]} ELSE {}
  <2>1. h.proxy_id # u
    BY <1>6
  <2>2. /\ uids[p] = {u} => contact' = [contact EXCEPT ![p] = None]
        /\ Purge(OfProxyId(u) \cup OfContacts(gone))
    BY <1>6 DEF ServiceRemoved
  <2>3. ASSUME uids[p] = {u}, r.contact = contact[p] PROVE FALSE
    <3>1. \A q \in Peers : contact'[q] # contact[p]
      BY <1>1, <1>3, <2>2, <2>3 DEF ApartInv, AddressesApart
    <3>2. contact[p] \notin Live'
      <4>1. contact' \in [Peers -> Objects \cup {None}]
        BY <1>1, <2>2, <2>3
      <4>2. QED  BY <3>1, <4>1 DEF Live, Range
    <3>3. QED  BY <1>3, <2>3, <3>2, LiveFacts
  <2>4. r \notin OfProxyId(u) \cup OfContacts(gone)
    BY <1>2, <2>1, <2>3 DEF OfProxyId, OfContacts
  <2> HIDE DEF gone
  <2>5. QED  BY <1>1, <1>2, <1>4, <2>2, <2>4 DEF Purge
<1>7. ASSUME Clear PROVE Answerable(h)'
  <2>1. Live' = {} /\ Purge(OfContacts(Live))
    BY <1>7, ClearFacts DEF Clear
  <2>2. r \notin OfContacts(Live)
    BY <1>3, <2>1 DEF OfContacts
  <2>3. QED  BY <1>1, <1>2, <1>4, <2>1, <2>2 DEF Purge
<1>8. CASE Disconnected
  BY <1>7, <1>8 DEF Disconnected
<1>9. ASSUME NEW k \in Capabilities, AddCapability(k) \/ PublishService(k)
      PROVE  Answerable(h)'
  BY <1>4, <1>7, <1>9 DEF AddCapability, PublishService, Advertise, record_vars
<1>10. ASSUME NEW k \in Capabilities, ServiceDestroyed(k) \/ Event(k)
       PROVE  Answerable(h)'
  BY <1>4, <1>10 DEF ServiceDestroyed, Event, record_vars
<1>11. ASSUME NEW i, i # h.id, NEW x, invocations' = [invocations EXCEPT ![i] = x]
       PROVE  Answerable(h)'
  BY <1>1, <1>4, <1>11
<1>12. ASSUME NEW p \in Peers, NEW u \in ServiceUids, NEW k \in Capabilities,
              NEW i \in InvocationIds, NEW keep \in BOOLEAN, Invoke(p, u, k, i, keep)
       PROVE  Answerable(h)'
  <2>1. i # h.id
    BY <1>12, FreshRecord DEF Invoke
  <2>2. QED  BY <1>11, <1>12, <2>1 DEF Invoke
<1>13. ASSUME NEW p \in Peers, NEW u \in ServiceUids, NEW k \in Capabilities,
              NEW i \in InvocationIds, RegisterProxy(p, u, k, i) \/ UnregisterProxy(p, u, k, i)
       PROVE  Answerable(h)'
  <2>1. i # h.id /\ invocations' = [invocations EXCEPT ![i] = None]
    BY <1>13, FreshRecord DEF RegisterProxy, UnregisterProxy
  <2>2. QED  BY <1>11, <2>1
<1>14. ASSUME NEW i \in InvocationIds, Timeout(i)
       PROVE  Answerable(h)'
  BY <1>11, <1>14 DEF Timeout
<1>15. ASSUME NEW g \in Promises, Respond(g)
       PROVE  Answerable(h)'
  <2>1. g \in held /\ g # h /\ invocations' = [invocations EXCEPT ![g.id] = None]
    BY <1>15 DEF Respond
  <2>2. g.id # h.id
    BY <2>1 DEF ApartInv, IdsApart
  <2>3. QED  BY <1>11, <2>1, <2>2
<1>16. CASE UNCHANGED vars
  BY <1>4, <1>16 DEF vars, record_vars
<1>17. QED
  BY <1>5, <1>6, <1>8, <1>9, <1>10, <1>12, <1>13, <1>14, <1>15, <1>16
  DEF Next, RosterStep, ServiceStep, MessageStep

\* Whoever else runs a service of the same UID: a registration goes with its
\* peer's contact, or by a service of its UID that leaves or gives up the proxy,
\* and by no other step.
THEOREM RegistrationsStay ==
  ASSUME ~Collisions
  PROVE  Spec => RegistrationKept
<1>1. TypeInv /\ ApartInv /\ [Next]_vars =>
        [\A q \in asked \cap asked' :
           Effective(q) =>
             \/ Effective(q)'
             \/ contact'[q.peer] # contact[q.peer]
             \/ \E p \in Peers : ServiceRemoved(p, q.proxy_id)
             \/ \E p \in Peers, i \in InvocationIds :
                  UnregisterProxy(p, q.proxy_id, q.capability, i)]_vars
  BY KeptRegistration
<1>2. QED  BY <1>1, TypeHolds, ApartHolds, PTL DEF Spec, RegistrationKept

\* An invocation the application holds can be answered until it times out, a
\* service of its UID leaves or the contact it points to does: another
\* invocation, its answer or another contact's departure does not end it.
THEOREM InvocationsStay ==
  ASSUME ~Collisions
  PROVE  Spec => InvocationKept
<1>1. TypeInv /\ Inv /\ ApartInv /\ [Next]_vars =>
        [\A h \in held \cap held' :
           Answerable(h) =>
             \/ Answerable(h)'
             \/ Timeout(h.id)
             \/ \E p \in Peers : ServiceRemoved(p, h.proxy_id)
             \/ invocations[h.id].contact \in Live \ Live']_vars
  BY KeptInvocation
<1>2. QED  BY <1>1, TypeHolds, InvHolds, ApartHolds, PTL DEF Spec, InvocationKept
=============================================================================
