----------------------------- MODULE YtsPrograms -----------------------------
(***************************************************************************)
(* The programs of examples/ and tests/ that send messages and statuses:   *)
(* echo.c, dictionary-message.c, status.c, message-send.c and              *)
(* status-set.c.  Each is a pair of clients, two processes in the examples *)
(* and one in the tests, that find each other's service in their rosters   *)
(* and talk.                                                               *)
(*                                                                         *)
(* The library is there by what it does for them: the peer's service comes *)
(* and goes in a roster, a new object each time; what is sent by way of an *)
(* object that left goes nowhere, and the object may have been freed;      *)
(* messages arrive in any order or not at all; a status arrives at the     *)
(* service of its sender.  In the tests the main loop, once told to quit,  *)
(* may still run what was ready in the same turn.                          *)
(***************************************************************************)
EXTENDS Integers

CONSTANTS
  MaxObjects,   \* bound: service objects made in one roster
  MaxMessages,  \* bound: messages of a kind on their way to one side
  MaxRetval     \* bound: retval, which grows with each authentication

ASSUME ProgramsAssumption ==
  /\ MaxObjects \in Nat
  /\ MaxMessages \in Nat
  /\ MaxRetval \in Nat \ {0}

Client == "client"   \* or client1
Server == "server"   \* or client2
Sides == {Client, Server}
Peer(s) == IF s = Client THEN Server ELSE Client

Examples == {"echo", "dictionary", "status"}
Tests == {"message_send", "status_set"}
Kinds == {"text", "dictionary"}

-----------------------------------------------------------------------------
\* What each client is set up for: the messages it has a handler for that does
\* something, whether it follows the roster's service-added, and whether it has
\* the capability its statuses are for.
EchoClient == [hears |-> {"text"}, finds |-> TRUE, provides |-> FALSE]
EchoServer == [hears |-> {"text"}, finds |-> TRUE, provides |-> FALSE]
DictionaryClient == [hears |-> {}, finds |-> TRUE, provides |-> FALSE]
DictionaryServer == [hears |-> {"dictionary"}, finds |-> FALSE, provides |-> TRUE]
StatusClient == [hears |-> {}, finds |-> TRUE, provides |-> FALSE]
StatusServer == [hears |-> {"text"}, finds |-> FALSE, provides |-> TRUE]

\* The handler of message-send.c is connected once the peer is found (hooks).
MessageSend == [s \in Sides |-> [hears |-> {"dictionary"}, finds |-> TRUE, provides |-> FALSE]]
StatusSet == [s \in Sides |-> [hears |-> {}, finds |-> TRUE, provides |-> s = Client]]

Setup(p, s) ==
  CASE p = "echo" -> IF s = Client THEN EchoClient ELSE EchoServer
    [] p = "dictionary" -> IF s = Client THEN DictionaryClient ELSE DictionaryServer
    [] p = "status" -> IF s = Client THEN StatusClient ELSE StatusServer
    [] p = "message_send" -> MessageSend[s]
    [] p = "status_set" -> StatusSet[s]

VARIABLES
  program,      \* which one is run; YtsFileTransfer has examples/
                \* file-transfer.c, YtsMetadataUse tests/message.c
  service,      \* service[s]: the object in s's roster for the peer, or 0
  objects,      \* objects[s]: how many there were, for MaxObjects
  pointer,      \* pointer[s]: the object s keeps a pointer to, or 0
  is_sent,      \* _is_sent
  ready,        \* the sides with ready1, ready2
  hooks,        \* hooks[s]: handlers s connected because the peer was found
  net,          \* net[s][k]: messages of kind k on their way to s
  news,         \* a status on its way
  deferred,     \* a status that is kept until the service is there
  heard,        \* heard[s]: messages and statuses s was told of, up to 2
  retval,       \* retval of a test
  loop,         \* the main loop: "running", "quitting", "ended"
  timer,        \* the test's timeout is to come
  crashed       \* a freed service ended the process

peer_vars == <<pointer, is_sent, ready, hooks, net, news, crashed>>
told_by_peer == <<heard, retval, loop>>
program_vars == <<program, service, objects, deferred, timer, peer_vars, told_by_peer>>

ProgramsTypeOK ==
  /\ program \in Examples \cup Tests \cup {"file_transfer", "message"}
  /\ service \in [Sides -> 0..MaxObjects]
  /\ objects \in [Sides -> 0..MaxObjects]
  /\ pointer \in [Sides -> 0..MaxObjects]
  /\ is_sent \in BOOLEAN /\ ready \in SUBSET Sides
  /\ hooks \in [Sides -> 0..MaxObjects]
  /\ net \in [Sides -> [Kinds -> 0..MaxMessages]]
  /\ news \in BOOLEAN /\ deferred \in BOOLEAN
  /\ heard \in [Sides -> 0..2]
  /\ retval \in -2..MaxRetval
  /\ loop \in {"running", "quitting", "ended"}
  /\ timer \in BOOLEAN /\ crashed \in BOOLEAN

ProgramsInit ==
  /\ program \in Examples \cup Tests \cup {"file_transfer", "message"}
  /\ service = [s \in Sides |-> 0]
  /\ objects = [s \in Sides |-> 0]
  /\ pointer = [s \in Sides |-> 0]
  /\ is_sent = FALSE /\ ready = {}
  /\ hooks = [s \in Sides |-> 0]
  /\ net = [s \in Sides |-> [k \in Kinds |-> 0]]
  /\ news = FALSE /\ deferred = FALSE
  /\ heard = [s \in Sides |-> 0]
  /\ retval = -2
  /\ loop = "running"
  /\ timer = (program \in Tests)
  /\ crashed = FALSE

-----------------------------------------------------------------------------
(* Helpers *)

Alive == program \in Examples \cup Tests /\ loop # "ended" /\ ~crashed

\* yts_service_send_text, yts_service_send_dictionary, on the object in s's
\* roster; on top of what is on its way.
Post(s, k, on_way) ==
  /\ on_way[Peer(s)][k] < MaxMessages
  /\ net' = [on_way EXCEPT ![Peer(s)][k] = @ + 1]

\* The same by way of object n, which s holds without a reference.
PostVia(s, n, current, k, on_way) ==
  IF n = current
  THEN Post(s, k, on_way) /\ UNCHANGED crashed
  ELSE crashed' \in BOOLEAN /\ net' = on_way

\* s's handler is run.
Heard(s) == heard' = [heard EXCEPT ![s] = IF @ < 2 THEN @ + 1 ELSE @]

\* The handler of a test is run: _dictionary_message, _status_changed.
Passed(s) == Heard(s) /\ retval' = 0 /\ loop' = "quitting"

\* s is told of its peer's message or status.
TellSide(s) ==
  IF program \in Tests THEN Passed(s) ELSE Heard(s) /\ UNCHANGED <<retval, loop>>

\* yts_client_set_status_by_capability
SetStatus(s) == news' = (news \/ Setup(program, s).provides)

-----------------------------------------------------------------------------
(* Handlers of service-added, for the new object n *)

\* echo.c, the client: "Only execute once".
EchoFinds(s, n) ==
  /\ program = "echo" /\ s = Client
  /\ IF is_sent THEN UNCHANGED <<net, is_sent>> ELSE Post(s, "text", net) /\ is_sent' = TRUE
  /\ UNCHANGED <<pointer, ready, hooks, news, crashed>>

\* Mutant: the first object is kept.
EchoKnows_First(s, n) ==
  /\ program = "echo" /\ s = Server
  /\ pointer' = [pointer EXCEPT ![s] = IF @ = 0 THEN n ELSE @]
  /\ UNCHANGED <<is_sent, ready, hooks, net, news, crashed>>

\* echo.c, the server keeps the object.
EchoKnows(s, n) ==
  /\ program = "echo" /\ s = Server
  /\ pointer' = [pointer EXCEPT ![s] = n]
  /\ UNCHANGED <<is_sent, ready, hooks, net, news, crashed>>

\* dictionary-message.c, the client sends each time.
DictionaryFinds(s, n) ==
  /\ program = "dictionary" /\ s = Client
  /\ Post(s, "dictionary", net)
  /\ UNCHANGED <<pointer, is_sent, ready, hooks, news, crashed>>

\* status.c, the client listens to the new object and pings.
StatusFinds(s, n) ==
  /\ program = "status" /\ s = Client
  /\ hooks' = [hooks EXCEPT ![s] = 1]
  /\ Post(s, "text", net)
  /\ UNCHANGED <<pointer, is_sent, ready, news, crashed>>

\* message-send.c, service_added_cb: client2 connects to itself, once more each
\* time; when both were found client1 sends by way of the object it found last.
MessageSendFinds(s, n) ==
  /\ program = "message_send"
  /\ ready' = ready \cup {s}
  /\ pointer' = IF s = Client THEN [pointer EXCEPT ![s] = n] ELSE pointer
  /\ hooks' = IF s = Server THEN [hooks EXCEPT ![s] = @ + 1] ELSE hooks
  /\ IF ready' = Sides
     THEN PostVia(Client, pointer'[Client], IF s = Client THEN n ELSE service[Client], "dictionary", net)
     ELSE UNCHANGED <<net, crashed>>
  /\ UNCHANGED <<is_sent, news>>

\* status-set.c, service_added_cb: client2 listens to the new object; when both
\* were found client1 sets its status.
StatusSetFinds(s, n) ==
  /\ program = "status_set"
  /\ ready' = ready \cup {s}
  /\ pointer' = IF s = Client THEN [pointer EXCEPT ![s] = n] ELSE pointer
  /\ hooks' = IF s = Server THEN [hooks EXCEPT ![s] = 1] ELSE hooks
  /\ IF ready' = Sides THEN SetStatus(Client) ELSE UNCHANGED news
  /\ UNCHANGED <<is_sent, net, crashed>>

Finds(s, n) ==
  IF Setup(program, s).finds
  THEN \/ EchoFinds(s, n) \/ EchoKnows(s, n) \/ DictionaryFinds(s, n)
       \/ StatusFinds(s, n) \/ MessageSendFinds(s, n) \/ StatusSetFinds(s, n)
  ELSE UNCHANGED peer_vars

-----------------------------------------------------------------------------
(* Handlers of messages; on_way are the others *)

\* echo.c, _server_text_message: whoever wrote, the answer goes to the client
\* the server knows.
EchoAnswers(s, on_way) ==
  /\ program = "echo" /\ s = Server
  /\ Heard(s)
  /\ IF pointer[s] = 0 THEN net' = on_way /\ UNCHANGED crashed
     ELSE PostVia(s, pointer[s], service[s], "text", on_way)
  /\ UNCHANGED <<retval, loop, news>>

\* status.c, _server_text_message: the date becomes the status.
StatusAnswers(s, on_way) ==
  /\ program = "status"
  /\ Heard(s)
  /\ SetStatus(s)
  /\ net' = on_way
  /\ UNCHANGED <<retval, loop, crashed>>

\* message-send.c, _dictionary_message, once it is connected.
MessageSendHears(s, on_way) ==
  /\ program = "message_send"
  /\ IF hooks[s] > 0 THEN Passed(s) ELSE UNCHANGED told_by_peer
  /\ net' = on_way
  /\ UNCHANGED <<news, crashed>>

\* echo.c, _client_text_message
EchoPrints(s, on_way) ==
  /\ program = "echo" /\ s = Client
  /\ Heard(s)
  /\ net' = on_way
  /\ UNCHANGED <<retval, loop, news, crashed>>

\* dictionary-message.c, _server_dictionary_message
DictionaryPrints(s, on_way) ==
  /\ program = "dictionary"
  /\ Heard(s)
  /\ net' = on_way
  /\ UNCHANGED <<retval, loop, news, crashed>>

-----------------------------------------------------------------------------
(* The library *)

\* The status a side waits for is told to the service object of its sender.
Watcher == IF program = "status" THEN Client ELSE Server

\* The peer's service is found.  A status that came before it is told once the
\* roster's handlers ran, or was part of the new object.
Appears(s) ==
  /\ Alive
  /\ service[s] = 0 /\ objects[s] < MaxObjects
  /\ objects' = [objects EXCEPT ![s] = @ + 1]
  /\ service' = [service EXCEPT ![s] = objects'[s]]
  /\ Finds(s, objects'[s])
  /\ IF s = Watcher /\ deferred
     THEN deferred' = FALSE /\ (TellSide(s) \/ UNCHANGED told_by_peer)
     ELSE UNCHANGED <<deferred, told_by_peer>>
  /\ UNCHANGED <<program, timer>>

\* It leaves, and the handlers on the object with it.
Disappears(s) ==
  /\ Alive
  /\ service[s] # 0
  /\ service' = [service EXCEPT ![s] = 0]
  /\ hooks' = IF program = "message_send" THEN hooks ELSE [hooks EXCEPT ![s] = 0]
  /\ UNCHANGED <<program, objects, deferred, timer, pointer, is_sent, ready, net, news,
                 crashed, told_by_peer>>

\* A message arrives.  From a contact that is not in the roster it is handed
\* on as a raw message, which no program minds; the contact is there with the
\* service, and may be with another.
Arrives(s, k) ==
  /\ Alive
  /\ net[s][k] > 0
  /\ LET on_way == [net EXCEPT ![s][k] = @ - 1]
     IN \/ /\ service[s] = 0 \/ k \notin Setup(program, s).hears
           /\ net' = on_way
           /\ UNCHANGED <<told_by_peer, news, crashed>>
        \/ /\ k \in Setup(program, s).hears
           /\ \/ EchoAnswers(s, on_way) \/ EchoPrints(s, on_way)
              \/ StatusAnswers(s, on_way) \/ DictionaryPrints(s, on_way)
              \/ MessageSendHears(s, on_way)
  /\ UNCHANGED <<program, service, objects, deferred, timer, pointer, is_sent, ready, hooks>>

\* A message is lost: its channel could not be had.
Lost(s, k) ==
  /\ Alive
  /\ net[s][k] > 0
  /\ net' = [net EXCEPT ![s][k] = @ - 1]
  /\ UNCHANGED <<program, service, objects, deferred, timer, pointer, is_sent, ready,
                 hooks, news, crashed, told_by_peer>>

\* A status arrives: at the object, or where it waits for one.
StatusArrives ==
  /\ Alive
  /\ news /\ news' = FALSE
  /\ deferred' = (deferred \/ service[Watcher] = 0)
  /\ IF service[Watcher] # 0 /\ hooks[Watcher] > 0
     THEN TellSide(Watcher) ELSE UNCHANGED told_by_peer
  /\ UNCHANGED <<program, service, objects, timer, pointer, is_sent, ready, hooks, net, crashed>>

\* authenticated_cb of the tests, for each connection a client makes.
Authenticated ==
  /\ Alive /\ program \in Tests
  /\ retval < MaxRetval
  /\ retval' = retval + 1
  /\ UNCHANGED <<program, service, objects, deferred, timer, peer_vars, heard, loop>>

\* Mutant: the verdict is left as it is.
Timeout_Silent ==
  /\ Alive /\ timer
  /\ timer' = FALSE
  /\ loop' = "quitting"
  /\ UNCHANGED <<program, service, objects, deferred, peer_vars, heard, retval>>

\* timeout_test_cb
Timeout ==
  /\ Alive /\ timer
  /\ timer' = FALSE
  /\ retval' = 1 /\ loop' = "quitting"
  /\ UNCHANGED <<program, service, objects, deferred, peer_vars, heard>>

\* g_main_loop_run returns, and main with it.
Returns ==
  /\ Alive /\ loop = "quitting"
  /\ loop' = "ended"
  /\ UNCHANGED <<program, service, objects, deferred, timer, peer_vars, heard, retval>>

ProgramsNext ==
  \/ \E s \in Sides :
       \/ Appears(s) \/ Disappears(s)
       \/ \E k \in Kinds : Arrives(s, k) \/ Lost(s, k)
  \/ StatusArrives
  \/ Authenticated \/ Timeout \/ Returns

-----------------------------------------------------------------------------
\* A test that returns 0 has seen what it waited for.  retval counts the
\* authentications up to 0 on its way (-2, and one for each client): that this
\* is never returned rests on the timeout.
PassedIsHeard == loop = "ended" /\ retval = 0 => heard[Server] > 0

\* A program that keeps a pointer to its peer's service keeps the one in its
\* roster, through any number of departures: it is stale only while there is
\* none ("Should probably take a weak ref here", echo.c, 182).
PointerIsLatest ==
  \A s \in Sides : pointer[s] # 0 /\ service[s] # 0 => pointer[s] = service[s]

=============================================================================
