# ytstenut-glib in TLA+

Ytstenut lets the devices of one user find each other over XMPP and use each
other's services: a remote control plays, pauses and skips on a media player,
a file goes from one to another. ytstenut-glib is the client library. It runs
in one thread, on the GLib main loop; what makes it hard is that nearly every
operation is a chain of callbacks whose answers come later, in any order or
never, while the roster, the connection and the objects at the other end come
and go. These modules are translated from `src/ytstenut/`, and from the programs
of `src/examples/` and `src/tests/` that use it; a definition's lines are in
`PROJECT.json` under `map`.

## 1. The system

| Part | State | Operations | Talks to |
|---|---|---|---|
| Roster (`yts-roster.c`), contacts (`yts-contact.c`), services (`yts-service.c`) | table of contacts by JID, of services by UID in each, statuses of a service by capability; deferred statuses at both levels; requests for a `TpContact` in flight | add, remove, update status, clear; signals contact-added/-removed, service-added/-removed | driven by discovery; its signals are the application's view, and purge the client's tables |
| Discovery (`yts-client.c` 2078-2268) | `tp_status` | service-added, service-removed, status-changed, the first list | Telepathy -> roster |
| Invocations and registrations (`yts-client.c` 160-460, 1720-1922, 3102-3390; `profile/yts-profile-impl.c`) | adapters by capability, invocation records by id with a timer each, lists of remote proxies by capability | invoke, answer, time out, publish, destroy, register-proxy, unregister-proxy, events, purges | messages from peers, adapters of the application's services, the roster's removals |
| Connection (`yts-client.c` 894-985, 1973-2075, 2270-2580) | `connect`, `reconnect`, `reconnect_id`, `tp_conn`, the account | connect, disconnect, timer, nine callbacks | Telepathy account and connection; clears the roster |
| Proxies and player (`yts-proxy-service.c`, `yts-proxy.c`, `profile/yts-profile-proxy.c`, `video-profile/yts-vp-player-{adapter,proxy}.c`) | pending registrations, proxies by capability, a mirror of the remote properties, calls by invocation id | create proxy, set, play, pause, next, prev, events, responses | messages to and from one peer |
| Message sending (`yts-client.c` 2828-3099) and errors (`yts-error.c`) | data of a message with a reference count and a flag, the counter of operations | send, channel, request, reply, failure, close, the error signal | one Telepathy channel for each message |
| Dispatch (`yts-client.c` 1720-1963, `yts-contact.c` 500-560, `yts-service.c`) | none of its own: it reads the roster, the adapters and the proxies | text, list, dictionary; invocation, event, response to an adapter or proxy; raw-message | a channel in, a signal or a call out |
| Messages and metadata (`yts-metadata.c`, `yts-*-message.c`) | attributes, elements, whether it may be changed | construct, add attribute, extract, compare | the text of every message |
| File transfer (`yts-{outgoing,incoming}-file.c`) | the channel, the file, progress | offer, accept, reject, state and byte notifications, results of calls | one Telepathy channel for each file |
| Client status (`yts-client-status.c`, `yts-client.c` 470-505, 2600-2826) | capabilities, interests, statuses to advertise | add, set, foreach | `tp_client` once the account is prepared, the `tp_status` of each connection |
| Mock player, remote control (`examples/video-profile/`), transcript (`video-profile/yts-vp-transcript-{adapter,proxy}.c`) | a playlist with its properties, timers of subtitles; a command | the player's operations, subtitles; start, run a command, stop | the library at both ends |
| Examples and tests (`examples/`, `tests/`) | flags, pointers to services, a return value | find the peer, send, hear, set a status, time out | two clients each |
| Factories, interfaces, start | none that changes after construction | look up | everywhere |

What is hard, and where:

* **order**: a status may come before its service and its contact
  (`yts-roster.c` 605); events race the response that makes a proxy
  (`yts-proxy-service.c` 331); reply, failure and close of a channel;
* **answers after the fact**: a `TpContact` for a service that left, an answer
  after the invocation's timeout, a Connect that fails after the disconnect, a
  provide-file result after the channel was closed;
* **pointers without references**: invocation and proxy records hold bare
  `YtsContact` pointers, handlers hold bare objects, the data of a message is
  counted by hand;
* **keys that are not unique**: peers choose invocation ids, services of two
  contacts share a UID, 16 bit atoms start again;
* **what two ends make of one thing**: a setter and a mirror that leave out small
  changes, a dictionary that is made a text and a list again, a response that is
  looked up at each service of a device;
* **liveness**: a service that was discovered must arrive, a record must end, a
  client must reconnect, a mirror must catch up, a pending operation must be
  reported.

What makes each part correct is in section 3, property by property; the
hazards, each at its line, are in `PROJECT.json`.

## 2. The modules

Each part has a module, with one action for each callback or operation of the
application, an `MC` module that gives the constants their values, and
configurations. What a step does is all of what the main loop runs before it
returns to polling: GObject signals are synchronous, so a removal in the roster
and the purge of the client's tables it causes are one action.

| Module | Models | Abstracts |
|---|---|---|
| `YtsRoster` | discovery, roster, contacts, services, statuses, the application's view of the signals | objects as functions of JID and UID; requests for one contact as a bag, for they are answered in any order |
| `YtsInvocations` | the serving side for all peers: records, proxies, profile, adapters | the roster by its effect; addresses of contact objects are explicit, and reused after they are freed |
| `YtsConnection` | connect, disconnect, reconnect, the callbacks | account and connection as telepathy-glib shows them |
| `YtsClientStatus` | what the client says of itself, on top of `YtsConnection`: the table, what is registered, the statuses advertised over each connection | calls to AdvertiseStatus as a queue for each capability, which a connection takes down with it |
| `YtsRemotePlayer` | one player and one remote control with the messages between | a message as a record of what its reader looks at; the property as a history of values |
| `YtsMirror` | the promise of a proxy: its value is one the property has had, never a future one, never an earlier one than before | |
| `YtsSending` | sending and its reports | content of messages |
| `YtsMetadata` | building and extraction of metadata; the messages | an element is a record of its name, attributes, content and children |
| `YtsMetadataUse` | a message in an application's hands, compared with others | |
| `YtsMessages` | what is sent, on top of `YtsSending` and `YtsMetadata`, and who hears of it: dispatch to application, adapter or proxy, registration of proxies | records and timeouts of invocations, which `YtsInvocations` has; names of methods |
| `YtsVideoProfile` | the mock player with several remote controls: all properties of player and transcript, subtitles and their timers, commands | a volume is hundredths, a text its number |
| `YtsFileTransfer` | both ends of a transfer, with the applications that hold and drop them, `examples/file-transfer.c` one of them | number of bytes: progress is at its start, under way, over (1.1) or negative (-0.1) |
| `YtsPrograms` | `echo`, `dictionary-message`, `status`, `message-send`, `status-set`: a pair of clients each | the library by what they see of it |
| `Yts{Roster,Invocations,Connection,ClientStatus}Proofs`, `Yts{RemotePlayer,Messages,Examples,VideoProfile}Proofs` | the theorems of section 5; sending is in `YtsMessagesProofs`, files, programs and the application's messages are in `YtsExamplesProofs` | |

`YtsRemotePlayer` composes both sides of the proxy protocol, and implements
`YtsMirror` with `history` and `mirror` for its two variables.
`YtsInvocations` and `YtsRemotePlayer` meet at `register-proxy`: the first has
the tables of a client with many peers, the second what one peer sees of them.
`YtsClientStatus` extends `YtsConnection` and shares its variables: each of its
steps is a step of the connection with its effect on the status, or one of the
status alone.
`YtsMessages` extends `YtsSending` and `YtsMetadata`: a channel of the first
carries a message of the second, and both ends' rosters, adapters and proxies
change while it is under way.
`YtsVideoProfile` is the composition at full width: a player and a transcript
with several proxies each, where `YtsRemotePlayer` has one property and every
invocation of it.
`MCYtsExamples` has the programs side by side: `YtsPrograms`, `YtsFileTransfer`
or `YtsMetadataUse` runs, by the choice of `program`.
`YtsRoster` and `YtsConnection` meet at `yts_client_cleanup_connection_resources`,
which the first has as the end of a connection and the second as the effect on
`tp_conn`.

From state to code, beyond the names that are the same: in `YtsRoster`,
`pending[c]` is the calls of
`tp_connection_get_contacts_by_id` in flight and their `ServiceClosure`;
`discovered` and `reported` belong to `TpYtsStatus`; `contact_view` and
`service_view` are what an application that follows the signals knows. In
`YtsInvocations`, `asked` and `held` are what peers asked for and what the
application owes, and `dropped` the addresses of contacts that were replaced, kept to
say what the tables are for; `fault` is set where
the code runs into undefined behaviour, which may end the process or not. In
`YtsConnection`, `wanted` is what the application asked for last. In
`YtsClientStatus`, `tp_status` says whether the `TpYtsStatus` the client holds is
that of the connection which is up (the client never lets go of an old one),
`asked` that such a one is on its way, and `shown` is what others get to see.
In `YtsRemotePlayer`, `published`, `registered` and `envelopes` stand for the
player's `services`, `proxies` and `invocations`; `table` is the entry of
`priv->proxies` for the player. In `YtsMessages`, `letter` is what was sent and
what the application meant by it, kept to be compared, and `heard` who got it.
In `YtsFileTransfer`, `held` is the application's reference, `careless` the files
it let go while something of theirs was under way, and `fault` what a freed
object led to, as in `YtsInvocations`. In `YtsVideoProfile`, `proxies[r][c]` is
the mirror of a remote control, and `player.timers` counts the sources that
`_transcript_emit_text` returns TRUE for.

## 3. The runs

| Run | Bounds | Shows |
|---|---|---|
| `roster` | 2 contacts, 2 services, 2 connections, 2 statuses for one service of each contact and one for the other; 2 requests in flight for a contact that may fail to resolve, 1 for the other | in any order of answers: contacts live exactly as long as they have services, nothing is deferred for what is there, the application knows all there is; with one request at a time a service shows the last status reported, but for what is left of an earlier connection, the application's view is exact and nothing is lost |
| `roster_ghost` | 1 contact, 1 request | finds a service that left while its contact was in flight, in the roster for good |
| `invocations` | 2 peers that share a UID, one with a second service, contacts replaced; 1 capability, 2 ids, 3 addresses | but for the contacts that were replaced, records point to live contacts, answers go to who asked, events to who subscribed and did not leave; what ends a registration or an invocation is one of the ways listed |
| `invocations_collide` | 2 peers that share a UID, contacts replaced; 2 capabilities, 1 id that may be in use, 2 addresses | proxies are of capabilities the profile lists; every record of an invocation ends, answered or timed out |
| `invocations_late` | 1 capability, 1 id | finds an answer after the timeout that goes on with a NULL record |
| `connection` | 3 timers, 2 calls, a lagging account; 1 capability, 2 statuses, 2 advertisements in flight | `YtsClientStatus` with `YtsConnection`: the timer id is good, no dead connection is held, a retry is always ahead, and the client gets there; the status set last is what each connection is told last, and it is shown |
| `connection_final` | 2 timers, 2 calls | finds a timer left after `yts_client_disconnect` |
| `remote_player` | 2 values, 3 changes, 3 messages each way, 2 invocations, 2 proxies | a registered proxy shows the value or it is on its way, mirrors catch up, registrations are resolved, `YtsMirror` is implemented |
| `messages` | 3 messages, 2 atoms; a remote control and two applications on one other device, one capability, rosters that change in one direction each | one report for each message by the time its channel is gone, no callback on freed data, atoms shared only after the counter went round; what is heard is what was said; what no adapter and no proxy takes the application gets raw; proxies are of the services that registered them |
| `sending_pending` | 2 messages | finds a refused request that is never reported |
| `examples` | a file each way, 3 service objects in a roster, 2 messages of a kind under way, return values up to 2; messages of 2 attributes and 2 levels | progress agrees with the signals, one outcome (two after a failed call, one of them the channel's), nothing late undoes it, an application that waits can be rid of a file; a test that returns 0 has heard what it waited for, a pointer to a service is that of the roster; a message is extracted as it was built, and equal both ways only to what says the same |
| `video_profile` | 2 remote controls with eight commands, 2 tracks, 2 volumes, 2 locales, 4 uses, 2 subtitles | a player that plays has a timer; a registered proxy with nothing under way to it shows each property as it is; subtitles never go back |

The bounds let the interesting cases happen. Two services of one contact and
two requests in flight are the least that make the answers for one contact
cross; two connections let statuses that wait outlive theirs. Which statuses a
service may report is bounded by `Reports`: two for one service, so that a later
one can be told from an earlier, one for its neighbour. Three addresses let
one be freed and given to another peer. Three timers let two be overwritten
with one to spare. One capability is enough for the status, for no step relates
two of them, and two statuses with two calls in flight let one be overwritten
before it is shown. Three changes of the property let it return to an earlier
value with a change after. Three messages on two atoms let the counter go round
while the first is pending, and are a registration, its answer and what is done
with the proxy. Two applications on one device are what a response may be
mistaken among. Four uses are a command of each remote control, one stopped and
started again; volumes of 0.01 and 0.03 are within the tolerance of what a
proxy starts with, and beyond it. Files share nothing with each other, so one
each way is enough. Three objects let a service leave and come back twice. With
three invocation ids `remote_player` holds as well (636 334 states with two
changes and two messages each way).

Constants that switch a case of the code on or off are named for it:
`Collisions` (an id in use is drawn again), `Uids` (services of two peers
may have one UID), `MaxPending`, `AccountLags`, `Troubled` (the messages whose
channel may fail). That the roster puts a new contact object in the place of an old
one is no switch: it happens whenever two services of a contact are found together.
Where a property is not what one would wish for, this is why:

* `RecordsLive`, `AnswersGoHome` and `ProxiesAskedFor` leave out the addresses in
  `dropped`: a contact that is replaced goes without contact-removed, and records
  keep pointing at it (`yts-roster.c` 504) until the address is given to another
  contact and that one is removed. Answers and events in between go to whoever is
  at the address.
* `AnswersGoHome`, `ProxiesAskedFor`, `RegistrationKept` and `InvocationKept` are
  stated for ids that are not in use (`Collisions` is FALSE); an invocation under an
  id in use takes the record of the other (`yts-client.c` 277). Ids are 32 random
  bits.
* `RegistrationKept` and `InvocationKept` allow a service of the same UID, of
  another peer, to end a registration or an invocation: the purge goes by UID
  alone (`yts-client.c` 2203), and two devices that run one application share it.
* `StatusFresh`, `ViewExact` and `NothingLost` are stated for contacts with
  `MaxPending` of one and fail for two: the second contact replaces the first,
  with its services and deferred statuses.
* `StatusFresh` leaves out the capabilities of which the roster had a status when
  the `TpYtsStatus` of the present connection came (`outdated`), until one is
  reported: deferred statuses outlive a connection, and are applied to a service of
  the next one (`yts-roster.c` 605).
* `NothingSilent` does not say how many proxies take an event: all of them by the
  comment in `yts-contact.c` 521, the first by the code.
* `ProgressTells` lets a handler of `error` or `cancelled` read the progress of
  before, for it is set after the signal (`yts-outgoing-file.c` 195-196, 267-268).

### Disagreements

Four runs show the code against a line of the repository; the findings in
`PROJECT.json` quote them. Others were seen while the modules were written, and
have no run:

* statuses deferred by the roster survive a disconnect, and are applied to services
  of the next connection;
* a request for a `TpContact` that is in flight when its connection ends fails with
  an error of its own and none for the JID: `_connection_get_contacts` hides the
  error it was given behind a variable of the same name, looks the JID up, and reads
  the message of what it finds, which is NULL (`yts-roster.c` 479-483). In
  `YtsRoster` the process may end there (`fault`);
* a connection is borrowed from the account and unreferenced all the same
  (`yts-client.c` 2394, 526);
* proxies registered for a capability outlive its service and meet the next one
  published under it, and refreshing the roster for a new capability drops the
  registrations of peers that are not told;
* the adapter of a destroyed service loses two references, its own and the
  client's (`yts-client.c` 3189, `yts-vp-player-adapter.c` 246);
* the refusal of an unknown capability is sent to a contact variable that was
  never set (`profile/yts-profile-impl.c` 127);
* the handler for the account's connection outlives `yts_client_disconnect` and
  takes the next connection unasked (`yts-client.c` 2522);
* a client that starts on a connection that is up is never `authenticated`, and
  the first loss of a connection is not retried unless a Connect call failed
  before (`yts-client.c` 2062, 2070);
* `yts_client_set_status_by_capability` is to "Advertise if we already have a
  tp_status" and tests `client_status`, which is always there
  (`yts-client.c` 2815-2817): before the first `TpYtsStatus` the call is made on
  NULL, which the library refuses with a message; `LatestAdvertised` holds
  because `yts_client_yts_status_cb` advertises the whole table;
* a status set while a connection is down goes to the old `TpYtsStatus`, and
  the failure is a message only;
* a message whose channel closes before there is an answer is reported as a
  success, a refused one included (`yts-client.c` 2928), and the receiving side
  never replies to a channel it accepts (1925);
* one of the three references a message's handlers take is never dropped when
  the channel closes after an answer, so the data of every answered message
  leaks;
* an event goes to the first service of a device that takes it, where the comment
  above has "Dispatch to all matching services" (`yts-contact.c` 521-523), and a response is swallowed by a service
  with a proxy for the capability that never asked (550); of text, list and
  dictionary messages the application hears twice, once raw (`yts-client.c`
  1955);
* `yts_service_send_list` with an empty list prints `[]`, which the receiver
  cannot parse without a type (`yts-client.c` 1715);
* `_adapter_error` builds an error message and drops it (`yts-client.c`
  3101-3118), so no error message is ever sent and the modules have none;
* `yts_metadata_is_equal` looks at the number of attributes where that of the
  children was due (`yts-metadata.c` 523), and so is true for an element and
  one with more children, one way round; `EqualBothWays` asks both ways. That
  needs names that are used at one level: `rest_xml_node_find` looks below the
  children when none of them has the name, so an element with the children `c` and
  `d`, a `c` in the `d`, is equal both ways to one that has the `d` only;
* the profile's proxy keeps a record of each invocation and drops none;
* a file refused when it is sent is reported and then cleared
  (`yts-client.c` 1058); one for a service that is not in the roster returns
  NULL with no error, where the doc has "%NULL on error, in which case @error
  will be set if non-null" (`yts-service.c` 522-528); an incoming one of a
  service that is not there is told to nobody, and its channel kept
  (`yts-client.c` 860); the progress of an empty file is 0/0
  (`yts-outgoing-file.c` 309);
* the calls and handlers of a file hold a raw pointer, dispose starts one more,
  and `set_and_emit_error` and `_channel_notify_state` go on with the file after
  the application's handler, where `examples/file-transfer.c` drops it
  (`yts-outgoing-file.c` 195, 288): `SafeToDrop` says who is safe;
* `message-send.c` counts authentications from -2 up to 0, the value of success,
  which main would return but for the timeout; `echo.c` answers to nobody before
  it knows its client (179);
* the mock player's timers run side by side when it is played, paused and played
  within three seconds;
* "Error or cancellation leaves the progress with a value smaller than zero"
  (`yts-file-transfer.c` 79), but a transfer cancelled for a reason other than three
  keeps its progress and sends no signal, `yts_incoming_file_reject` after accept
  included; accept after reject returns true and does nothing;
* the result of a call is finished on `tp_channel` though it may have been released
  (`yts-outgoing-file.c` 224, `yts-incoming-file.c` 382): a transfer that was told to
  be cancelled may be told to have failed as well;
* a second proxy for one capability makes the first deaf, and a refused
  registration stays pending (`yts-proxy-service.c` 352, 368);
* `_dispose` of both file classes chains up to `finalize`.

## 4. Fairness

Safety is checked of `Spec`, with no fairness. Liveness is checked of `FairSpec`,
which asks only for what the main loop or Telepathy does by itself:

* `YtsInvocations`: the timer of a record fires (`g_timeout_add_seconds`).
* `YtsConnection`: timers fire, the account gets prepared, and an account
  asked for presence gets a connection while the client listens.
* `YtsClientStatus`: the same, and calls to AdvertiseStatus arrive while their
  connection is up.
* `YtsRemotePlayer`: a message under way arrives. Nobody has to return from
  `next`, drop a proxy or set anything.
* `YtsSending`: calls return and peers answer. The run shows that not even this
  is enough.

`CHECK_DEADLOCK FALSE` is in every configuration: each of these systems may come
to rest, when the bounds are used up or the application does nothing more.

## 5. What is proved

TLAPS checks the theorems for every value of the constants: any number of
contacts, services, peers, ids, timers, calls, messages, files and remote
controls, and any bound. Of the invariants and step properties the passing runs
check for safety it proves all, and so it does the refinement of `YtsMirror`. Each
module has an invariant that is inductive, checked on the run's instance before
it was proved, one lemma for each action, and theorems that follow from the
invariant.

**Assumptions.** The `ASSUME`s of the modules, which TLC evaluates for the runs:
NULL values are not among the values, bounds are natural numbers, tables have the
domains they are named for, an element is a record of its name, attributes, content
and children, whatever the application makes is one, and NULL is no message. Some say more, for a reason in the code: the services
of a device are finitely many (`YtsRoster`: requests in flight are counted);
a dictionary is a list of even length and no list is empty (`YtsMessages`: the
loop of `yts_service_send_dictionary` takes two at a time, the text `[]` cannot
be parsed); the profile is not a capability of an application; the return value
of a program can be 1 (`YtsPrograms`); what a remote control is started with has
the type of the property, and the transcript has a locale (`YtsVideoProfile`:
`remote.c` parses it, `mock-player.c` has a fixed list). Theorems that need a
condition state it as `ASSUME`, and section 3 says what goes wrong without.

What is not under `src/` is modelled from how the code uses it, and the properties
rest on that as well:

* telepathy-glib calls each callback once, ends the calls that are in flight with
  an error when their connection goes, and has a channel change its state no more
  after COMPLETED or CANCELLED;
* of a file transfer: bytes come only while the channel is open and the call on it
  has not failed, a channel completes only after the call returned without an error,
  and a call whose object was released may end either way. That `finish` is given
  NULL in that case (section 3) is not assumed to be harmless: `CallFails` reports;
* `YtsRemotePlayer` and `YtsVideoProfile` have the messages from one client to
  another arrive in the order they were sent, as one XMPP stream carries them.
  The library sends each in a channel of its own and does nothing itself to keep
  them in order, so `YtsMessages` keeps none, and nothing it says depends on one.
  `MirrorSpec`, `ShownOrTold`, `MirrorsAgree` and `TextForward` do: two events that
  change places leave the earlier value in the mirror;
* invocation ids are drawn at random and unique but in `invocations_collide`.

* **`YtsRosterProofs`**, in three layers. `Inv` (`TypeOK /\ ContactIffService /\
  DeferredOnlyWhileMissing /\ ViewComplete`) is inductive without conditions: that
  nothing is deferred for a service that is there rests on the contact being in
  the table, which rests on contacts having services. `SerialInv` is about the
  contacts with one request at a time: such a contact has at most one request in
  its bag and none while it is in the roster, so an answer never meets a contact
  to replace, and what is discovered is there or asked for (`ViewExact`,
  `NothingLost`). `FreshInv` is about a connection that has its `TpYtsStatus`, the
  first or a later one: what waits, at either level or with a request, is the last
  status reported, or is overridden by one that waits later, or is for a capability
  the roster had a status of when the `TpYtsStatus` came (`StatusFresh`).
* **`YtsInvocationsProofs`**: `TypeOK /\ ProxiesOfProfile` is inductive
  unconditionally, and `RecordsLive` on top of it: every record of an address is
  purged in the step that announces it gone, and an address that is not announced
  is in `dropped` until the next contact there is. With ids that are not in use,
  `~Collisions`, `AnswersGoHome /\ ProxiesAskedFor` is inductive as well: an address
  a record points to is still that of the peer it was made for, or in `dropped`.
  `ApartInv` adds that contacts have different addresses and promises different
  ids; with it a step takes only the registrations and invocations it is about,
  whoever shares a UID with whom (`RegistrationKept`, `InvocationKept`).
* **`YtsConnectionProofs`**: `TypeOK`, `TimerKnown`, `NoDeadConnection`,
  `ListensOffline`, `RetryPending` and `Unprepared` (before the account is
  prepared there is no connection, handler or call) are inductive together.
  `NoConnectionLost` adds an action property: no handler of the client is there
  when the account lets go of a connection, so the assertion in
  `yts_client_setup_account_connection` cannot fail.
* **`YtsClientStatusProofs`**: `ClientSpec => Spec` of `YtsConnection`, so all of
  the above holds of the composition, and `StatusTypeOK /\ LatestAdvertised /\
  CapabilitiesPublished` is inductive on top of `TypeOK`. The argument is about
  the last call of each queue: a step that changes the table appends to the
  queue, delivering the first call leaves the last word alone, and a connection
  that goes down takes the `TpYtsStatus` with it, so nothing is claimed until
  the next has the whole table in its queue.
* **`YtsRemotePlayerProofs`**: `TableLive`, and that `Spec` implements `MirrorSpec`
  of `YtsMirror` step by step. Every value under way is one of the history
  (`Fresh`), no older than those sent before it (`InOrder`) and no older than
  what any proxy shows, so to hear of one never takes a proxy back. `YtsMirror`
  allows a proxy that hears of nothing; `ShownOrTold` does not. Its invariant has
  two parts. Registrations and their answers are in line (`InLine`): one whose
  service went, and which nobody wants any more, is before all that are wanted, so
  none of them is under way once a proxy was made (`Wanted`). And of the values
  under way to a registered remote control one is the present one, or none is under
  way and the proxy shows it (`Told`): what a proxy missed while its peer was lost
  is in the next answer, which is not dropped.
* **`YtsMessagesProofs`**: for sending, `Bookkeeping` says for each state of a
  channel which handlers are armed, how many references there are and what was
  reported; that gives `ReportedOnce` and `DataLive`. `InOrder` says that atoms
  are handed out in order until there are as many messages as atoms, which
  gives `AtomsApart`. `MessagesImplementSending` is `MessagesSpec => Spec` of
  `YtsSending`, so the three hold of messages with their contents. On top of it
  `MailInv` says of each letter what it was when it was posted (`Posted`), who can
  have heard of it (`Told`), of each registration that waits that it was asked for
  (`Asked`), and of each proxy which letter vouches for it (`Vouched`): from it
  come `HeardAsSent`, `NothingSilent` and `ProxiesAgreed`.
* **`YtsExamplesProofs`**: for files, `Lifecycle` (where handlers and call are, for
  each state of the channel), `Account` (what can have been told by then) and
  `Quiescent` (a file dropped with care has nothing under way) are inductive with
  `SafeToDrop`; `Account` gives `ProgressTells` and `OutcomeOnce` (each report
  is that of the channel's end or of the failed call, and neither comes after a
  completion); the action property `OverIsOver` follows. For the programs, `Verdict` (the loop quits when what was waited for was
  heard, or with a return value of 1) with the types gives `PassedIsHeard`, and
  with it `PointerIsLatest` is inductive. For metadata, `ConstructGives` says what
  the fold over a list of attributes leaves, the last value of each name, for a
  list of any length; the fold is a function of the sets of places in the list, and
  the lemma shows by the least counterexample, a set, that it is the table of the
  last values. `UseInv` (an application's message says what it was made or read
  with) gives `ExtractedAsBuilt`. `EqualStaysBothWays` is about the comparison
  itself, two recursive functions over trees of any depth up to `Depth`, and has two
  conditions: what is below an element has a lower rank than its name (`Nested`),
  and no name is both a child's and that of something below the children
  (`OneLevel`, see section 3). That such functions exist is proved rank by rank, a
  function up to one rank being extended to the next. Of two elements that are
  equal both ways, take the name of highest rank only one of them has: the other
  finds it further down, below a name both have, so the first has it at two levels
  (`NoneApart`). So they have the same children, which are equal both ways in turn
  (`EqualSame`), and what says the same compares as equal (`SameEqual`). The run
  has all three parts in `MCYtsExamples`, whose steps are each a step of one part
  that leaves the others alone.
* **`YtsVideoProfileProofs`**: the state is cut into links, one for each remote
  control: the two queues between it and the player, what it waits for, and its
  proxies. `Numbered`: registrations, answers and what is waited for are numbered
  in the order they were made, so a response makes a proxy only of the latest
  registration. `Faithful`: of every property, either the last event under way has
  the value it has now, or none is under way and the proxy, or the proxy a response
  under way will make, shows it (`Current`). `Forward`: subtitles are under way in
  their order. An invocation changes one property and announces it on all links
  at once (`AnnouncedInv`); every other step is about one link (`OneLink`).
  `MirrorsAgree`, `SubtitlesRun` and the action property `TextForward` follow.

**Only model-checked.** Liveness under fairness and `ENABLED`, which this prover
does not reach: `InvocationsEnd`, `Reconnects`, `StatusShown`, `PendingResolved`
and `CatchesUp`. The four disagreements, which are counterexamples.

Three of them have a safety half, and that is proved: a retry is ahead
(`RetryPending`), the last call under way has the status set last
(`LatestAdvertised`), and what a proxy is behind by is on its way (`ShownOrTold`).
That the main loop gets there is what the runs add.

No run has the type invariants, nor `ListensOffline`, `CapabilitiesPublished` and
`TableLive`: they are proved. Bags of requests are functions to `Nat`, counted as
the cardinality of a set of copies rather than by a recursive sum, and no module a
proof reaches has a `RECURSIVE` operator.

## 6. What is not modelled

* `yts_client_status_revoke_capability`, `_revoke_interest` and `_clear`, which
  nothing calls, and the text of a status document.
* Disposal of a `YtsClient` or a proxy service under running calls: raw pointers
  make anything possible (`yts-client.c` 1293, `yts-proxy-service.c` 373), and an
  application that holds its objects does not get there. That of files is in
  `YtsFileTransfer`.
* `unregister-proxy` from the remote control: `YtsProxyService` asks for it
  while it is disposed, and by then nobody listens to its send-message.
  `YtsInvocations` has the serving side of it.
* References of telepathy-glib's objects, so not that the cleanup of a connection
  drops one that the client does not own (`yts-client.c` 526).
* The characters of XML and of GVariant text: an element is a record, a text its
  items. Factories, capability and interface declarations: tables filled once.
  Debug output, property accessors, class initialisation.
* Query, content, transfer and transmission: interfaces nobody implements. The
  playable of a player, "not implemented yet" at either end.
* `tests/file-transfer.c`, which calls functions the library has no more.

## 7. Plan

Done, in this order: roster; invocations; connection; their proofs; remote
player with `YtsMirror`; sending; client status on top of the connection, with
its proofs; metadata and messages on top of sending; file transfer with
disposal and its example; the other programs; the video profile.

Then proofs, in the order of section 5: everything the passing runs check for
safety, `EqualBothWays` of the metadata and `ShownOrTold` of the player last.

Left: a composition of `YtsRoster` and `YtsConnection` around the disconnect, to
state what survives it, as an implementation of both.
