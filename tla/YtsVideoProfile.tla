--------------------------- MODULE YtsVideoProfile ---------------------------
(***************************************************************************)
(* The mock player and its remote controls, the programs under             *)
(* examples/video-profile, on the two capabilities of the video profile: a *)
(* player and a transcript.                                                *)
(*                                                                         *)
(* The player (mock-player.c, player.c) is one object with two adapters    *)
(* (yts-vp-player-adapter.c, yts-vp-transcript-adapter.c), each of which   *)
(* sends the events of its own properties to the proxies registered with   *)
(* it.  A remote control (remote.c) is started with one command, asks for  *)
(* a proxy of each capability when the player turns up, and runs the       *)
(* command when it has the proxy of the player.                            *)
(*                                                                         *)
(* YtsRemotePlayer has one property and follows the invocations of one     *)
(* remote control one by one.  Here there are all the properties, what the *)
(* setters on both sides make of a value, and several remote controls that *)
(* are started with their commands, stop, and start again.                 *)
(*                                                                         *)
(* A volume is counted in hundredths: 0.01 is 1.  A text is its number,    *)
(* from 1, and 0 is the NULL it starts as.  Setting a property of an       *)
(* object has it notify once, whether or not the value changed.  Messages  *)
(* between the player and a remote control arrive in the order they were   *)
(* sent, which is up to the connection: the library has no part in it.     *)
(***************************************************************************)
EXTENDS Integers, Sequences

CONSTANTS
  Remotes,     \* remote controls
  Commands,    \* Commands[r]: what r may be started with
  Tracks,      \* length of the playlist
  Volumes,     \* volumes somebody asks for
  Uris,        \* playable URIs
  Locales,     \* locales of the subtitles, the one it starts with first
  AskedLocales,  \* AskedLocales[r]: locales r asks for
  NoUri,       \* the NULL of playable-uri
  NoProxy,     \* there is no proxy of a capability
  MaxUses,     \* bound: what programs and their users do, see Use
  MaxTexts     \* bound: subtitles

Player == "player"
Transcript == "transcript"
Capabilities == {Player, Transcript}

\* The properties a proxy of each capability holds.  (The playable of a player
\* is "not implemented yet" on either side.)
PlayerAspects == {"playing", "volume", "playable-uri"}
TranscriptAspects == {"available-locales", "current-text", "locale"}
AspectsOf == [c \in Capabilities |->
                IF c = Player THEN PlayerAspects ELSE TranscriptAspects]

CapabilityOf(a) == CHOOSE c \in Capabilities : a \in AspectsOf[c]

NoCommand == [name |-> "none", value |-> 0]

ASSUME VideoProfileAssumption ==
  /\ Tracks \in Nat \ {0}
  /\ Volumes \subseteq Nat
  /\ Locales \in Seq(STRING) \ {<<>>}
  /\ NoUri \notin Uris /\ NoUri \notin BOOLEAN /\ NoUri \notin Nat
  /\ \A r \in Remotes : \A k \in Commands[r] :
       /\ k.name = "playing" => k.value \in BOOLEAN
       /\ k.name = "volume" => k.value \in Volumes
       /\ k.name = "playable-uri" => k.value \in Uris
  /\ MaxUses \in Nat /\ MaxTexts \in Nat

VARIABLES
  player,      \* the mock player
  known,       \* remote controls in the roster of the player's client
  registered,  \* registered[c]: remote controls in the list of proxies of c
  running,     \* remote controls that run
  command,     \* command[r]: what r was started with
  present,     \* remote controls whose roster has the player's service
  pending,     \* pending[r]: registrations r waits for, as ids and capabilities
  proxies,     \* proxies[r][c]: the properties of r's proxy of c, or NoProxy
  to_player,   \* to_player[r]: messages from r on their way to the player
  to_remote,   \* to_remote[r]: messages on their way to r
  uses         \* MaxUses counts these

server_vars == <<player, known, registered>>
process_vars == <<running, command>>
service_vars == <<present, pending, proxies>>
vars == <<server_vars, process_vars, service_vars, to_player, to_remote, uses>>

-----------------------------------------------------------------------------
(* The mock player *)

\* mock_player_init: the rest is zero.
NewPlayer ==
  [current |-> 0, playing |-> FALSE, timers |-> 0, volume |-> 0, uri |-> NoUri,
   text |-> 0, locale |-> 1]

\* _get_property
Property(p, a) ==
  CASE a = "playing" -> p.playing
    [] a = "volume" -> p.volume
    [] a = "playable-uri" -> p.uri
    [] a = "available-locales" -> Locales
    [] a = "current-text" -> p.text
    [] a = "locale" -> Locales[p.locale]

\* fabs: a volume counts as another one beyond 0.01.
Differ(v, w) == v - w > 1 \/ w - v > 1

\* Mutant: the timer of the first subtitle is taken to be still there.
SetPlaying_OneTimer(p, b) ==
  IF b = p.playing THEN p
  ELSE [p EXCEPT !.playing = b, !.timers = IF b /\ p.text = 0 THEN @ + 1 ELSE @]

\* Mutant: every time it plays the subtitles start over.
SetPlaying_StartsOver(p, b) ==
  IF b = p.playing THEN p
  ELSE [p EXCEPT !.playing = b, !.timers = IF b THEN @ + 1 ELSE @,
                 !.text = IF b THEN 0 ELSE @]

\* A change to playing adds a timer of three seconds.
SetPlaying(p, b) ==
  IF b = p.playing THEN p
  ELSE [p EXCEPT !.playing = b, !.timers = IF b THEN @ + 1 ELSE @]

SetVolume(p, v) == IF Differ(v, p.volume) THEN [p EXCEPT !.volume = v] ELSE p

SetUri(p, u) == [p EXCEPT !.uri = u]

\* A locale that is not there is ignored.
SetLocale(p, l) ==
  IF \E i \in DOMAIN Locales : Locales[i] = l
  THEN [p EXCEPT !.locale = CHOOSE i \in DOMAIN Locales : Locales[i] = l]
  ELSE p

\* _player_play and _player_pause leave it to the setter.
Play(p) == SetPlaying(p, TRUE)
Pause(p) == SetPlaying(p, FALSE)

\* _player_next, _player_prev: there is nothing after the last track, nor
\* before the first.
NextTrack(p) == IF p.current + 1 < Tracks THEN [p EXCEPT !.current = @ + 1] ELSE p
PrevTrack(p) == IF p.current > 0 THEN [p EXCEPT !.current = @ - 1] ELSE p

-----------------------------------------------------------------------------
(* The adapters *)

\* _service_adapter_collect_properties of the player: no NULL.
CollectPlayer(p) ==
  [a \in {b \in AspectsOf[Player] : Property(p, b) # NoUri} |-> Property(p, a)]

\* _service_adapter_collect_properties of the transcript: no NULL.
CollectTranscript(p) ==
  [a \in {b \in AspectsOf[Transcript] : b = "current-text" => p.text # 0} |->
     Property(p, a)]

Collect(c, p) == IF c = Player THEN CollectPlayer(p) ELSE CollectTranscript(p)

\* _service_adapter_invoke of the player, where nothing is returned.
PlayerInvoked(p, m) ==
  CASE m.aspect = "playing" -> SetPlaying(p, m.value)
    [] m.aspect = "volume" -> SetVolume(p, m.value)
    [] m.aspect = "playable-uri" -> SetUri(p, m.value)
    [] m.aspect = "play" -> Play(p)
    [] m.aspect = "pause" -> Pause(p)

\* _set_property: the properties whose notify an adapter has a handler for.
FollowedPlayer == {"playing", "volume", "playable-uri"}
FollowedTranscript == {"available-locales", "current-text", "locale"}

\* _player_notify_playing and its like: the property an invocation sets, of
\* which there is an event.
NotifiedBy(m) == IF m.aspect \in {"play", "pause"} THEN "playing" ELSE m.aspect

\* _service_adapter_invoke of the player, where there is an answer.
Skipped(p, m) == IF m.aspect = "next" THEN NextTrack(p) ELSE PrevTrack(p)

\* _player_next_response, _player_prev_response: whether it skipped.
Answer(p, m) == [type |-> "answer", value |-> Skipped(p, m) # p]

Deliver(r, m) == IF r \in running THEN Append(to_remote[r], m) ELSE to_remote[r]

\* _transcript_notify_current_text and its like: the value the property has.
Event(p, a) == [type |-> "event", aspect |-> a, value |-> Property(p, a)]

\* _adapter_event: property a of p notified, and all proxies are told.
Announce(p, a) ==
  to_remote' = [r \in Remotes |->
    IF a \in FollowedPlayer \cup FollowedTranscript /\ r \in registered[CapabilityOf(a)]
    THEN Deliver(r, Event(p, a))
    ELSE to_remote[r]]

-----------------------------------------------------------------------------
(* The proxies *)

\* What a proxy that has just been made shows: its fields are zero.
Zero(a) ==
  CASE a = "playing" -> FALSE
    [] a = "volume" -> 0
    [] a = "playable-uri" -> NoUri
    [] a = "available-locales" -> <<>>
    [] a = "current-text" -> 0
    [] a = "locale" -> ""

\* Mutant: a change by 0.02 is passed over.
MirrorVolume_Coarse(q, v) ==
  IF v - q.volume > 2 \/ q.volume - v > 2 THEN [q EXCEPT !.volume = v] ELSE q

\* player_proxy_set_volume
MirrorVolume(q, v) == IF Differ(v, q.volume) THEN [q EXCEPT !.volume = v] ELSE q

\* player_proxy_set_playing, player_proxy_set_playable_uri
Mirror(q, a, v) == [q EXCEPT ![a] = v]

\* _proxy_service_event of the player
PlayerEvent(q, a, v) ==
  IF a = "volume" THEN MirrorVolume(q, v) ELSE Mirror(q, a, v)

\* transcript_proxy_set_available_locales and its like
TranscriptMirror(q, a, v) == [q EXCEPT ![a] = v]

\* _proxy_service_event of the transcript: what it does not know is passed over.
TranscriptEvent(q, a, v) ==
  IF a \in TranscriptAspects THEN TranscriptMirror(q, a, v) ELSE q

\* yts_proxy_handle_service_event: the proxy's class knows what to do.
ProxyEvent(q, a, v) ==
  IF a \in PlayerAspects THEN PlayerEvent(q, a, v) ELSE TranscriptEvent(q, a, v)

\* A new proxy of c takes the properties of the response as events.
Created(c, properties) ==
  LET new == [a \in AspectsOf[c] |-> Zero(a)] IN
  [a \in AspectsOf[c] |->
     IF a \in DOMAIN properties THEN ProxyEvent(new, a, properties[a])[a] ELSE new[a]]

\* _set_property of the player's proxy: what the proxy shows is not sent.
ProxySets(q, k) ==
  \/ k.name \in {"playing", "playable-uri"} /\ k.value # q[k.name]
  \/ k.name = "volume" /\ Differ(k.value, q.volume)

\* _player_play and its like
ProxyCalls(k) == k.name \in {"play", "pause", "next", "prev"}

Invocation(a, v) == [type |-> "invoke", aspect |-> a, value |-> v]

\* use_player: command k is run on proxy q.
UsePlayer(r, q, k) ==
  to_player' = IF ProxySets(q, k) \/ ProxyCalls(k)
               THEN [to_player EXCEPT ![r] = Append(@, Invocation(k.name, k.value))]
               ELSE to_player

-----------------------------------------------------------------------------
Init ==
  /\ player = NewPlayer
  /\ known = {}
  /\ registered = [c \in Capabilities |-> {}]
  /\ running = {} /\ command = [r \in Remotes |-> NoCommand]
  /\ present = {} /\ pending = [r \in Remotes |-> {}]
  /\ proxies = [r \in Remotes |-> [c \in Capabilities |-> NoProxy]]
  /\ to_player = [r \in Remotes |-> <<>>]
  /\ to_remote = [r \in Remotes |-> <<>>]
  /\ uses = 0

\* Bounded are the starts, what is done with proxies, and how often a service
\* turns up at a remote control and is lost to the player.
Use == uses < MaxUses /\ uses' = uses + 1

(* The side of the player *)

\* _transcript_emit_text: the timer of a player that is paused stops.
TimerFires ==
  /\ player.timers > 0
  /\ IF player.playing
     THEN /\ player.text < MaxTexts
          /\ player' = [player EXCEPT !.text = @ + 1]
          /\ Announce(player', "current-text")
     ELSE player' = [player EXCEPT !.timers = @ - 1] /\ UNCHANGED to_remote
  /\ UNCHANGED <<known, registered, process_vars, service_vars, to_player, uses>>

\* The service of remote control r enters the roster of the player's client.
RemoteFound(r) ==
  /\ r \in running \ known /\ known' = known \cup {r}
  /\ UNCHANGED <<player, registered, process_vars, service_vars, to_player, to_remote, uses>>

\* It leaves it, because r is gone or the roster is refreshed, and what it
\* registered goes.  Nobody tells r.
RemoteLost(r) ==
  /\ r \in known /\ known' = known \ {r}
  /\ Use
  /\ registered' = [c \in Capabilities |-> registered[c] \ {r}]
  /\ UNCHANGED <<player, process_vars, service_vars, to_player, to_remote>>

\* The message at the head of to_player[r] is taken.
Take(r, m) ==
  /\ to_player[r] # <<>> /\ m = Head(to_player[r])
  /\ to_player' = [to_player EXCEPT ![r] = Tail(@)]

\* dispatch_to_service: the contact is not in the roster.
Dropped(r, m) ==
  /\ Take(r, m) /\ r \notin known
  /\ UNCHANGED <<server_vars, process_vars, service_vars, to_remote, uses>>

\* _service_adapter_invoke of the profile for register-proxy, which is answered
\* with the properties, _profile_register_proxy_response.
Registered(r, m) ==
  /\ Take(r, m) /\ r \in known /\ m.type = "register"
  /\ registered' = [registered EXCEPT ![m.capability] = @ \cup {r}]
  /\ to_remote' = [to_remote EXCEPT ![r] =
       Deliver(r, [type |-> "properties", id |-> m.id, capability |-> m.capability,
                   value |-> Collect(m.capability, player)])]
  /\ UNCHANGED <<player, known, process_vars, service_vars, uses>>

\* An invocation that sets a property of the player, or play, or pause.
PlayerSet(r, m) ==
  /\ Take(r, m) /\ r \in known
  /\ m.type = "invoke" /\ m.aspect \notin {"next", "prev", "locale"}
  /\ player' = PlayerInvoked(player, m)
  /\ Announce(player', NotifiedBy(m))
  /\ UNCHANGED <<known, registered, process_vars, service_vars, uses>>

\* An invocation of next or prev.
TrackSkipped(r, m) ==
  /\ Take(r, m) /\ r \in known /\ m.type = "invoke" /\ m.aspect \in {"next", "prev"}
  /\ player' = Skipped(player, m)
  /\ to_remote' = [to_remote EXCEPT ![r] = Deliver(r, Answer(player, m))]
  /\ UNCHANGED <<known, registered, process_vars, service_vars, uses>>

\* _service_adapter_invoke of the transcript
TranscriptSet(r, m) ==
  /\ Take(r, m) /\ r \in known /\ m.type = "invoke" /\ m.aspect = "locale"
  /\ player' = SetLocale(player, m.value)
  /\ Announce(player', "locale")
  /\ UNCHANGED <<known, registered, process_vars, service_vars, uses>>

(* The side of the remote controls *)

\* main: r is started with command k.
Start(r, k) ==
  /\ r \notin running /\ running' = running \cup {r}
  /\ k \in Commands[r]
  /\ command' = [command EXCEPT ![r] = k]
  /\ Use
  /\ UNCHANGED <<server_vars, service_vars, to_player, to_remote>>

\* r is stopped, and what is on its way to it is lost.  The roster of the
\* player's client finds out later.
Stop(r) ==
  /\ r \in running /\ running' = running \ {r}
  /\ present' = present \ {r}
  /\ pending' = [pending EXCEPT ![r] = {}]
  /\ proxies' = [proxies EXCEPT ![r] = [c \in Capabilities |-> NoProxy]]
  /\ to_remote' = [to_remote EXCEPT ![r] = <<>>]
  /\ UNCHANGED <<server_vars, command, to_player, uses>>

\* _roster_service_added: a proxy of each capability is asked for.
ServiceAdded(r) ==
  /\ r \in running \ present /\ present' = present \cup {r}
  /\ Use
  /\ pending' = [pending EXCEPT ![r] = {<<uses, c>> : c \in Capabilities}]
  /\ to_player' = [to_player EXCEPT ![r] = @ \o
       <<[type |-> "register", id |-> uses, capability |-> Player],
         [type |-> "register", id |-> uses, capability |-> Transcript]>>]
  /\ UNCHANGED <<server_vars, process_vars, proxies, to_remote>>

\* The player's service leaves the roster of r with its proxies; the ones the
\* program holds hear of nothing any more.
ServiceRemoved(r) ==
  /\ r \in present /\ present' = present \ {r}
  /\ pending' = [pending EXCEPT ![r] = {}]
  /\ proxies' = [proxies EXCEPT ![r] = [c \in Capabilities |-> NoProxy]]
  /\ UNCHANGED <<server_vars, process_vars, to_player, to_remote, uses>>

\* The message at the head of to_remote[r] is taken.
Receive(r, m) ==
  /\ to_remote[r] # <<>> /\ m = Head(to_remote[r])
  /\ to_remote' = [to_remote EXCEPT ![r] = Tail(@)]

\* _proxy_service_proxy_created for the player: the command runs.
PlayerCreated(r, m) ==
  /\ Receive(r, m) /\ m.type = "properties" /\ m.capability = Player
  /\ <<m.id, Player>> \in pending[r]
  /\ pending' = [pending EXCEPT ![r] = @ \ {<<m.id, Player>>}]
  /\ proxies' = [proxies EXCEPT ![r][Player] = Created(Player, m.value)]
  /\ UsePlayer(r, proxies'[r][Player], command[r])
  /\ UNCHANGED <<server_vars, process_vars, present, uses>>

\* _proxy_service_proxy_created for the transcript, use_transcript
TranscriptCreated(r, m) ==
  /\ Receive(r, m) /\ m.type = "properties" /\ m.capability = Transcript
  /\ <<m.id, Transcript>> \in pending[r]
  /\ pending' = [pending EXCEPT ![r] = @ \ {<<m.id, Transcript>>}]
  /\ proxies' = [proxies EXCEPT ![r][Transcript] = Created(Transcript, m.value)]
  /\ UNCHANGED <<server_vars, process_vars, present, to_player, uses>>

\* An event for a proxy that is there.
EventHeard(r, m) ==
  /\ Receive(r, m) /\ m.type = "event" /\ proxies[r][CapabilityOf(m.aspect)] # NoProxy
  /\ proxies' = [proxies EXCEPT ![r][CapabilityOf(m.aspect)] = ProxyEvent(@, m.aspect, m.value)]
  /\ UNCHANGED <<server_vars, process_vars, present, pending, to_player, uses>>

\* The answer to next or prev, which the program only shows, and what nobody
\* waits for.
OtherHeard(r, m) ==
  /\ Receive(r, m)
  /\ \/ m.type = "answer"
     \/ m.type = "properties" /\ <<m.id, m.capability>> \notin pending[r]
     \/ m.type = "event" /\ proxies[r][CapabilityOf(m.aspect)] = NoProxy
  /\ UNCHANGED <<server_vars, process_vars, service_vars, to_player, uses>>

\* A program other than remote.c goes on to use its proxy of the player.
RunCommand(r, k) ==
  /\ proxies[r][Player] # NoProxy /\ k \in Commands[r]
  /\ Use
  /\ UsePlayer(r, proxies[r][Player], k)
  /\ UNCHANGED <<server_vars, process_vars, service_vars, to_remote>>

\* Such a program sets the locale, yts_vp_transcript_set_locale: the proxy of
\* the transcript sends what it does not show.
SetProxyLocale(r, l) ==
  /\ proxies[r][Transcript] # NoProxy /\ l # proxies[r][Transcript]["locale"]
  /\ Use
  /\ to_player' = [to_player EXCEPT ![r] = Append(@, Invocation("locale", l))]
  /\ UNCHANGED <<server_vars, process_vars, service_vars, to_remote>>

-----------------------------------------------------------------------------
PlayerReceives(r) ==
  /\ to_player[r] # <<>>
  /\ LET m == Head(to_player[r]) IN
     \/ Dropped(r, m) \/ Registered(r, m)
     \/ PlayerSet(r, m) \/ TrackSkipped(r, m) \/ TranscriptSet(r, m)

RemoteReceives(r) ==
  /\ to_remote[r] # <<>>
  /\ LET m == Head(to_remote[r]) IN
     \/ PlayerCreated(r, m) \/ TranscriptCreated(r, m)
     \/ EventHeard(r, m) \/ OtherHeard(r, m)

Next ==
  \/ TimerFires
  \/ \E r \in Remotes :
       \/ RemoteFound(r) \/ RemoteLost(r)
       \/ \E k \in Commands[r] : Start(r, k) \/ RunCommand(r, k)
       \/ Stop(r)
       \/ ServiceAdded(r) \/ ServiceRemoved(r)
       \/ \E l \in AskedLocales[r] : SetProxyLocale(r, l)
       \/ PlayerReceives(r) \/ RemoteReceives(r)

Spec == Init /\ [][Next]_vars

-----------------------------------------------------------------------------
(* Safety *)

\* The playlist is never left, at either end, whatever remote controls skip;
\* nobody is registered whose service the player's client does not know; and
\* only a remote control that has the player's service has a proxy of it.
VideoTypeOK ==
  /\ player.current \in 0..Tracks - 1
  /\ player.locale \in DOMAIN Locales
  /\ player.text \in 0..MaxTexts /\ player.timers \in Nat
  /\ \A c \in Capabilities : registered[c] \subseteq known
  /\ \A r \in Remotes :
       r \notin present => pending[r] = {} /\ \A c \in Capabilities : proxies[r][c] = NoProxy

\* The stream of subtitles does not dry up: a player that plays has a timer,
\* whatever the remote controls pause and play between two ticks
\* (mock-player.c, 295).
SubtitlesRun == player.playing => player.timers > 0

\* A proxy that is registered, and has nothing on its way to it, shows every
\* property of its capability as it is, the volume to within 0.01.
Quiet(r) == \A k \in DOMAIN to_remote[r] : to_remote[r][k].type = "answer"
Shows(r, c) ==
  \A a \in AspectsOf[c] :
    IF a = "volume" THEN ~Differ(player.volume, proxies[r][c][a])
    ELSE proxies[r][c][a] = Property(player, a)
MirrorsAgree ==
  \A r \in Remotes, c \in Capabilities :
    r \in registered[c] /\ Quiet(r) /\ proxies[r][c] # NoProxy => Shows(r, c)

\* The subtitles a proxy shows go forward: nothing that happens to the player,
\* its timers or the other remote controls brings an earlier one back.
TextForward ==
  [][\A r \in Remotes :
       proxies[r][Transcript] # NoProxy /\ proxies'[r][Transcript] # NoProxy =>
       proxies'[r][Transcript]["current-text"] >= proxies[r][Transcript]["current-text"]]_vars
=============================================================================
