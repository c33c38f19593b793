----------------------- MODULE YtsVideoProfileProofs -----------------------
(***************************************************************************)
(* The mock player and its remote controls, for any remote controls, any   *)
(* commands, playlist and locales, and any number of uses.                 *)
(*                                                                         *)
(* What a quiet proxy shows rests on what has to be true of one that is    *)
(* not: of every property, either the last event under way to the proxy    *)
(* has the value it has now, or there is no event of it under way and the  *)
(* proxy shows it already (Current).  The same is said of a proxy that is  *)
(* still to be made of a response under way.  That a response makes a      *)
(* proxy only of the registration that is in force, and never one that is  *)
(* older than the next registration, rests on the ids (Numbered).          *)
(*                                                                         *)
(* All of it is said of the two queues between the player and one remote   *)
(* control, and of what that one waits for and shows: a link.  Subtitles   *)
(* are on their way in their order (Forward), and so are shown.            *)
(***************************************************************************)
EXTENDS YtsVideoProfile, SequenceTheorems, TLAPS

IsQueue(q) == q \in Seq({q[k] : k \in DOMAIN q})

\* Registrations of capability c, answers to them, events of property a.
Asks(m, c) == m.type = "register" /\ m.capability = c
Answers(m, c) == m.type = "properties" /\ m.capability = c
Tells(m, a) == m.type = "event" /\ m.aspect = a

\* The subtitle in a message that has one.
CarriesText(m) == Tells(m, "current-text") \/ Answers(m, Transcript)
TextOf(m) ==
  IF m.type = "event" THEN m.value
  ELSE IF "current-text" \in DOMAIN m.value THEN m.value["current-text"] ELSE 0

Aspects == PlayerAspects \cup TranscriptAspects

Request(m) ==
  \/ \E c \in Capabilities : Asks(m, c) /\ m.id \in Nat
  \/ m.type = "invoke" /\ m.aspect \in {"play", "pause", "next", "prev", "locale"}
  \/ m.type = "invoke" /\ m.aspect = "playing" /\ m.value \in BOOLEAN
  \/ m.type = "invoke" /\ m.aspect = "volume" /\ m.value \in Nat
  \/ m.type = "invoke" /\ m.aspect = "playable-uri" /\ m.value \in Uris

Notice(m) ==
  /\ \/ m.type = "answer"
     \/ \E c \in Capabilities : Answers(m, c) /\ m.id \in Nat
     \/ \E a \in Aspects : Tells(m, a)
  /\ CarriesText(m) => TextOf(m) \in Nat

-----------------------------------------------------------------------------
(* A link: out is on its way to the player, in on its way from it, waiting *)
(* are the registrations the remote control waits for, shown is its proxy  *)
(* of one capability, n counts the uses, p is the player.                  *)

Queued(out, in, waiting) ==
  /\ IsQueue(out) /\ \A k \in DOMAIN out : Request(out[k])
  /\ IsQueue(in) /\ \A k \in DOMAIN in : Notice(in[k])
  /\ waiting \subseteq Nat \X Capabilities

\* Registrations are numbered in the order they are made; an answer under way
\* is older than a registration under way, and one that is waited for is the
\* latest.  Who has a proxy asks for no other.
Numbered(c, out, in, waiting, shown, n) ==
  /\ \A k \in DOMAIN out : Asks(out[k], c) =>
       /\ out[k].id < n
       /\ \A j \in DOMAIN out : j < k /\ Asks(out[j], c) => out[j].id < out[k].id
       /\ \A j \in DOMAIN in : Answers(in[j], c) => in[j].id < out[k].id
       /\ \A i \in Nat : <<i, c>> \in waiting => out[k].id <= i
       /\ shown = NoProxy
  /\ \A j \in DOMAIN in : Answers(in[j], c) => in[j].id < n
  /\ \A i \in Nat : <<i, c>> \in waiting => i < n /\ shown = NoProxy
  /\ \A i, h \in Nat : <<i, c>> \in waiting /\ <<h, c>> \in waiting => h = i

\* Subtitles are under way in their order, none ahead of the player's, and none
\* behind what the proxy shows.
Forward(in, shown, p) ==
  /\ \A k \in DOMAIN in : CarriesText(in[k]) =>
       /\ TextOf(in[k]) <= p.text
       /\ shown # NoProxy => shown["current-text"] <= TextOf(in[k])
       /\ \A j \in DOMAIN in : j < k /\ CarriesText(in[j]) => TextOf(in[j]) <= TextOf(in[k])
  /\ shown # NoProxy => shown["current-text"] \in Nat /\ shown["current-text"] <= p.text

Agrees(a, v, value) == IF a = "volume" THEN ~Differ(value, v) ELSE v = value

\* Of the events after j the last one of a has the value; or there is none, and
\* v is the value.
Told(in, j, a, value) ==
  \E k \in DOMAIN in :
    /\ j < k /\ Tells(in[k], a) /\ in[k].value = value
    /\ \A l \in DOMAIN in : k < l => ~Tells(in[l], a)
Untold(in, j, a) == \A k \in DOMAIN in : j < k => ~Tells(in[k], a)
Current(in, j, a, v, value) ==
  Told(in, j, a, value) \/ (Untold(in, j, a) /\ Agrees(a, v, value))

\* Proxy q, with the events after j to come, will show the player as it is.
CurrentProxy(c, in, j, q, p) ==
  \A a \in AspectsOf[c] : Current(in, j, a, q[a], Property(p, a))

Brings(m, c, waiting) == Answers(m, c) /\ <<m.id, c>> \in waiting

Faithful(c, in, waiting, shown, p) ==
  /\ shown # NoProxy => CurrentProxy(c, in, 0, shown, p)
  /\ \A j \in DOMAIN in : Brings(in[j], c, waiting) =>
       CurrentProxy(c, in, j, Created(c, in[j].value), p)

\* joined: the capabilities the remote control is registered for.
LinkInv(p, joined, out, in, waiting, shown, n) ==
  /\ Queued(out, in, waiting)
  /\ \A c \in Capabilities :
       /\ shown[c] # NoProxy => DOMAIN shown[c] = AspectsOf[c]
       /\ Numbered(c, out, in, waiting, shown[c], n)
       /\ c \in joined => Faithful(c, in, waiting, shown[c], p)
  /\ Forward(in, shown[Transcript], p)

-----------------------------------------------------------------------------
\* A player that plays, or does not, with its playlist and its subtitles.
PlayerOK(p) ==
  /\ p \in [current : Nat, playing : BOOLEAN, timers : Nat, volume : Nat,
            uri : Uris \cup {NoUri}, text : Nat, locale : Nat]
  /\ p.current < Tracks /\ p.locale \in DOMAIN Locales /\ p.text <= MaxTexts
  /\ p.playing => p.timers > 0

Tables ==
  /\ DOMAIN registered = Capabilities /\ DOMAIN command = Remotes
  /\ DOMAIN pending = Remotes /\ DOMAIN proxies = Remotes
  /\ DOMAIN to_player = Remotes /\ DOMAIN to_remote = Remotes
  /\ \A r \in Remotes : DOMAIN proxies[r] = Capabilities

\* Who is registered is known, and who has proxies or waits for them runs and
\* has the player's service.
Standing ==
  /\ uses \in Nat /\ running \subseteq Remotes /\ known \subseteq Remotes
  /\ \A c \in Capabilities : registered[c] \subseteq known
  /\ present \subseteq running
  /\ \A r \in running : command[r] \in Commands[r]
  /\ \A r \in Remotes \ present :
       pending[r] = {} /\ \A c \in Capabilities : proxies[r][c] = NoProxy

Joined(r) == {c \in Capabilities : r \in registered[c]}
Link(r) ==
  LinkInv(player, Joined(r), to_player[r], to_remote[r], pending[r], proxies[r], uses)

VideoInv == PlayerOK(player) /\ Tables /\ Standing /\ \A r \in Remotes : Link(r)

-----------------------------------------------------------------------------
(* Queues of messages of any kind *)

LEMMA AnyQueue ==
  ASSUME NEW T, NEW q \in Seq(T)
  PROVE  IsQueue(q) /\ Len(q) \in Nat /\ DOMAIN q = 1..Len(q)
<1>1. /\ Len(q) \in Nat /\ DOMAIN q = 1..Len(q)
      /\ q \in [1..Len(q) -> T]
  BY LenProperties
<1>2. q \in [1..Len(q) -> {q[k] : k \in DOMAIN q}]
  BY <1>1
<1>3. QED  BY <1>1, <1>2, SeqDef DEF IsQueue

LEMMA QueueParts ==
  ASSUME NEW q, IsQueue(q)
  PROVE  /\ Len(q) \in Nat /\ DOMAIN q = 1..Len(q)
         /\ \A k \in DOMAIN q : k \in Nat
  BY LenProperties DEF IsQueue

LEMMA QueueEmpty == IsQueue(<<>>) /\ DOMAIN <<>> = {}
<1>1. <<>> \in Seq({}) /\ Len(<<>>) = 0
  BY EmptySeq
<1>2. IsQueue(<<>>) /\ DOMAIN <<>> = 1..0
  BY <1>1, AnyQueue
<1>3. QED  BY <1>2

\* The head of a queue and what is left of it.
LEMMA QueueTake ==
  ASSUME NEW q, IsQueue(q), q # <<>>
  PROVE  /\ IsQueue(Tail(q)) /\ Head(q) = q[1] /\ 1 \in DOMAIN q
         /\ \A k \in DOMAIN q : k \in Nat /\ k >= 1
         /\ \A k \in DOMAIN q : k # 1 => k - 1 \in DOMAIN Tail(q) /\ Tail(q)[k - 1] = q[k]
         /\ \A k \in DOMAIN Tail(q) :
              k \in Nat /\ k >= 1 /\ k + 1 \in DOMAIN q /\ Tail(q)[k] = q[k + 1]
<1>1. PICK S : q \in Seq(S)
  BY DEF IsQueue
<1>2. /\ Len(q) \in Nat /\ Len(q) # 0 /\ DOMAIN q = 1..Len(q)
      /\ Head(q) = q[1] /\ Tail(q) \in Seq(S)
      /\ Len(Tail(q)) = Len(q) - 1
      /\ \A k \in 1..Len(Tail(q)) : Tail(q)[k] = q[k + 1]
  BY <1>1, HeadTailProperties, EmptySeq, LenProperties
<1>3. IsQueue(Tail(q)) /\ DOMAIN Tail(q) = 1..Len(Tail(q))
  BY <1>2, AnyQueue
<1>4. QED  BY <1>2, <1>3

\* A queue with a message more.
LEMMA QueueAdd ==
  ASSUME NEW q, IsQueue(q), NEW m
  PROVE  /\ IsQueue(Append(q, m))
         /\ \E n \in Nat :
              /\ DOMAIN q = 1..n /\ DOMAIN Append(q, m) = 1..(n + 1)
              /\ \A k \in 1..n : Append(q, m)[k] = q[k]
              /\ Append(q, m)[n + 1] = m
<1>1. PICK S : q \in Seq(S)
  BY DEF IsQueue
<1>2. q \in Seq(S \cup {m})
  BY <1>1, SeqMonotonic
<1>3. /\ Append(q, m) \in Seq(S \cup {m}) /\ Len(Append(q, m)) = Len(q) + 1
      /\ \A k \in 1..Len(q) : Append(q, m)[k] = q[k]
      /\ Append(q, m)[Len(q) + 1] = m
  BY <1>2, AppendProperties
<1>4. /\ IsQueue(Append(q, m))
      /\ DOMAIN Append(q, m) = 1..Len(Append(q, m))
      /\ Len(q) \in Nat /\ DOMAIN q = 1..Len(q)
  BY <1>1, <1>3, AnyQueue
<1>5. QED  BY <1>3, <1>4

\* Two messages more are one and one.
LEMMA QueueAddTwo ==
  ASSUME NEW q, IsQueue(q), NEW m, NEW h
  PROVE  q \o <<m, h>> = Append(Append(q, m), h)
<1>1. PICK S : q \in Seq(S)
  BY DEF IsQueue
<1>2. PICK T : T = S \cup {m, h}
  OBVIOUS
<1>3. /\ q \in Seq(T) /\ m \in T /\ h \in T
      /\ <<m, h>> \in Seq(T) /\ Len(<<m, h>>) = 2
  BY <1>1, <1>2, SeqMonotonic
<1>4. QED  BY <1>3

-----------------------------------------------------------------------------
(* Properties and proxies *)

LEMMA AspectParts ==
  /\ Player # Transcript /\ Capabilities = {Player, Transcript}
  /\ AspectsOf[Player] = {"playing", "volume", "playable-uri"}
  /\ AspectsOf[Transcript] = {"available-locales", "current-text", "locale"}
  /\ \A c \in Capabilities : \A a \in AspectsOf[c] : a \in Aspects /\ CapabilityOf(a) = c
  /\ \A a \in Aspects : CapabilityOf(a) \in Capabilities /\ a \in AspectsOf[CapabilityOf(a)]
<1>1. /\ Player # Transcript /\ Capabilities = {Player, Transcript}
      /\ AspectsOf[Player] = {"playing", "volume", "playable-uri"}
      /\ AspectsOf[Transcript] = {"available-locales", "current-text", "locale"}
  BY DEF Player, Transcript, Capabilities, AspectsOf, PlayerAspects, TranscriptAspects
<1>2. \A c, d \in Capabilities : c # d => AspectsOf[c] \cap AspectsOf[d] = {}
  BY <1>1
<1>3. Aspects = AspectsOf[Player] \cup AspectsOf[Transcript]
  BY <1>1 DEF Aspects, PlayerAspects, TranscriptAspects
<1>4. ASSUME NEW c \in Capabilities, NEW a \in AspectsOf[c]
      PROVE  a \in Aspects /\ CapabilityOf(a) = c
  <2>1. \A d \in Capabilities : a \in AspectsOf[d] <=> d = c
    BY <1>2
  <2>2. a \in Aspects
    BY <1>1, <1>3
  <2>3. QED  BY <2>1, <2>2 DEF CapabilityOf
<1>5. ASSUME NEW a \in Aspects
      PROVE  CapabilityOf(a) \in Capabilities /\ a \in AspectsOf[CapabilityOf(a)]
  <2>1. PICK c \in Capabilities : a \in AspectsOf[c]
    BY <1>1, <1>3
  <2>2. QED  BY <1>4, <2>1
<1>6. QED  BY <1>1, <1>4, <1>5

LEMMA PropertyParts ==
  ASSUME NEW p
  PROVE  /\ Property(p, "playing") = p.playing /\ Property(p, "volume") = p.volume
         /\ Property(p, "playable-uri") = p.uri /\ Property(p, "available-locales") = Locales
         /\ Property(p, "current-text") = p.text /\ Property(p, "locale") = Locales[p.locale]
  BY DEF Property

\* A volume agrees with itself.
LEMMA AgreesItself ==
  ASSUME NEW a, NEW v, a = "volume" => v \in Nat
  PROVE  Agrees(a, v, v)
  BY DEF Agrees, Differ

\* What the properties of a proxy are after an event of one.
LEMMA ProxyEventParts ==
  ASSUME NEW c \in Capabilities, NEW q, DOMAIN q = AspectsOf[c], NEW a \in AspectsOf[c], NEW v
  PROVE  /\ DOMAIN ProxyEvent(q, a, v) = AspectsOf[c]
         /\ \A b \in AspectsOf[c] \ {a} : ProxyEvent(q, a, v)[b] = q[b]
         /\ a # "volume" => ProxyEvent(q, a, v)[a] = v
         /\ a = "volume" => \/ ProxyEvent(q, a, v)[a] = v
                            \/ ProxyEvent(q, a, v)[a] = q[a] /\ ~Differ(v, q[a])
<1>1. CASE c = Player
  <2>1. /\ DOMAIN q = {"playing", "volume", "playable-uri"} /\ a \in PlayerAspects
        /\ AspectsOf[c] = {"playing", "volume", "playable-uri"}
    BY <1>1, AspectParts DEF PlayerAspects
  <2>2. ProxyEvent(q, a, v) = PlayerEvent(q, a, v)
    BY <2>1 DEF ProxyEvent
  <2>3. QED  BY <2>1, <2>2 DEF PlayerEvent, MirrorVolume, Mirror
<1>2. CASE c = Transcript
  <2>1. /\ DOMAIN q = {"available-locales", "current-text", "locale"}
        /\ AspectsOf[c] = {"available-locales", "current-text", "locale"}
        /\ a \in TranscriptAspects /\ a \notin PlayerAspects
    BY <1>2, AspectParts DEF TranscriptAspects, PlayerAspects
  <2>2. ProxyEvent(q, a, v) = [q EXCEPT ![a] = v]
    BY <2>1 DEF ProxyEvent, TranscriptEvent, TranscriptMirror
  <2>3. QED  BY <2>1, <2>2
<1>3. QED  BY <1>1, <1>2, AspectParts

\* A new proxy shows the player as it was when it answered.
LEMMA CreatedParts ==
  ASSUME NEW c \in Capabilities, NEW p, PlayerOK(p)
  PROVE  \A a \in AspectsOf[c] : Agrees(a, Created(c, Collect(c, p))[a], Property(p, a))
<1>1. PICK new : new = [a \in AspectsOf[c] |-> Zero(a)]
  OBVIOUS
<1>2. \A properties : \A a \in AspectsOf[c] :
        Created(c, properties)[a] =
          IF a \in DOMAIN properties THEN ProxyEvent(new, a, properties[a])[a] ELSE new[a]
  BY <1>1 DEF Created
<1>3. DOMAIN new = AspectsOf[c] /\ \A a \in AspectsOf[c] : new[a] = Zero(a)
  BY <1>1
<1>4. SUFFICES ASSUME NEW a \in AspectsOf[c]
               PROVE  Agrees(a, Created(c, Collect(c, p))[a], Property(p, a))
  OBVIOUS
<1>5. a = "volume" => Property(p, a) \in Nat
  BY PropertyParts DEF PlayerOK
<1>6. CASE a \in DOMAIN Collect(c, p)
  <2>1. Collect(c, p)[a] = Property(p, a)
    BY <1>6 DEF Collect, CollectPlayer, CollectTranscript
  <2>2. Created(c, Collect(c, p))[a] = ProxyEvent(new, a, Property(p, a))[a]
    BY <1>2, <1>6, <2>1
  <2>3. PICK v : v = Property(p, a)
    OBVIOUS
  <2>4. /\ a # "volume" => ProxyEvent(new, a, v)[a] = v
        /\ a = "volume" => \/ ProxyEvent(new, a, v)[a] = v
                           \/ ProxyEvent(new, a, v)[a] = new[a] /\ ~Differ(v, new[a])
    BY <1>3, ProxyEventParts
  <2>5. Agrees(a, v, v)
    BY <1>5, <2>3, AgreesItself
  <2>6. QED  BY <2>2, <2>3, <2>4, <2>5 DEF Agrees
<1>7. CASE a \notin DOMAIN Collect(c, p)
  <2>1. Created(c, Collect(c, p))[a] = Zero(a)
    BY <1>2, <1>3, <1>7
  <2>2. CASE c = Player
    <3>1. DOMAIN Collect(c, p) =
            {b \in {"playing", "volume", "playable-uri"} : Property(p, b) # NoUri}
      BY <2>2, AspectParts DEF Collect, CollectPlayer
    <3>2. Property(p, "playing") # NoUri /\ Property(p, "volume") # NoUri
      BY PropertyParts, VideoProfileAssumption DEF PlayerOK
    <3>3. a \in {"playing", "volume", "playable-uri"}
      BY <2>2, AspectParts
    <3>4. a = "playable-uri" /\ Property(p, a) = NoUri
      BY <1>7, <3>1, <3>2, <3>3
    <3>5. QED  BY <2>1, <3>4 DEF Zero, Agrees
  <2>3. CASE c = Transcript
    <3>1. /\ c # Player
          /\ DOMAIN Collect(c, p) = {b \in {"available-locales", "current-text", "locale"} :
                                       b = "current-text" => p.text # 0}
      BY <2>3, AspectParts DEF Collect, CollectTranscript
    <3>2. a \in {"available-locales", "current-text", "locale"}
      BY <2>3, AspectParts
    <3>3. a = "current-text" /\ p.text = 0
      BY <1>7, <3>1, <3>2
    <3>4. QED  BY <2>1, <3>3, PropertyParts DEF Zero, Agrees
  <2>4. QED  BY <2>2, <2>3, AspectParts
<1>8. QED  BY <1>6, <1>7

-----------------------------------------------------------------------------
(* What a proxy will show, as messages are sent and taken *)

LEMMA CurrentSilent ==
  ASSUME NEW q, IsQueue(q), NEW m, NEW a, ~Tells(m, a), NEW j, NEW v, NEW value,
         Current(q, j, a, v, value)
  PROVE  Current(Append(q, m), j, a, v, value)
<1>1. PICK n \in Nat :
        /\ DOMAIN q = 1..n /\ DOMAIN Append(q, m) = 1..(n + 1)
        /\ \A k \in 1..n : Append(q, m)[k] = q[k]
        /\ Append(q, m)[n + 1] = m
  BY QueueAdd
<1>2. CASE Told(q, j, a, value)
  <2>1. PICK k \in 1..n : /\ j < k /\ Tells(q[k], a) /\ q[k].value = value
                          /\ \A l \in 1..n : k < l => ~Tells(q[l], a)
    BY <1>1, <1>2 DEF Told
  <2>2. /\ k \in DOMAIN Append(q, m) /\ j < k
        /\ Tells(Append(q, m)[k], a) /\ Append(q, m)[k].value = value
    BY <1>1, <2>1
  <2>3. \A l \in DOMAIN Append(q, m) : k < l => ~Tells(Append(q, m)[l], a)
    BY <1>1, <2>1
  <2>4. Told(Append(q, m), j, a, value)
    BY <2>2, <2>3 DEF Told
  <2>5. QED  BY <2>4 DEF Current
<1>3. CASE Untold(q, j, a) /\ Agrees(a, v, value)
  <2>1. Untold(Append(q, m), j, a)
    BY <1>1, <1>3 DEF Untold
  <2>2. QED  BY <1>3, <2>1 DEF Current
<1>4. QED  BY <1>2, <1>3 DEF Current

LEMMA CurrentTold ==
  ASSUME NEW q, IsQueue(q), NEW m, NEW a, Tells(m, a), NEW v,
         NEW j \in Nat, j = 0 \/ j \in DOMAIN q
  PROVE  Current(Append(q, m), j, a, v, m.value)
<1>1. PICK n \in Nat :
        /\ DOMAIN q = 1..n /\ DOMAIN Append(q, m) = 1..(n + 1)
        /\ \A k \in 1..n : Append(q, m)[k] = q[k]
        /\ Append(q, m)[n + 1] = m
  BY QueueAdd
<1>2. n + 1 \in DOMAIN Append(q, m) /\ j < n + 1
  BY <1>1
<1>3. \A l \in DOMAIN Append(q, m) : n + 1 < l => ~Tells(Append(q, m)[l], a)
  BY <1>1
<1>4. Told(Append(q, m), j, a, m.value)
  BY <1>1, <1>2, <1>3 DEF Told
<1>5. QED  BY <1>4 DEF Current

\* A message before those that count is taken.
LEMMA CurrentLater ==
  ASSUME NEW q, IsQueue(q), q # <<>>, NEW a, NEW v, NEW value, NEW j \in Nat, NEW i \in Nat,
         \/ i = j + 1
         \/ i = 0 /\ j = 0 /\ ~Tells(q[1], a),
         Current(q, i, a, v, value)
  PROVE  Current(Tail(q), j, a, v, value)
<1>1. /\ \A k \in DOMAIN q : k \in Nat /\ k >= 1
      /\ \A k \in DOMAIN q : k # 1 => k - 1 \in DOMAIN Tail(q) /\ Tail(q)[k - 1] = q[k]
      /\ \A k \in DOMAIN Tail(q) :
           k \in Nat /\ k >= 1 /\ k + 1 \in DOMAIN q /\ Tail(q)[k] = q[k + 1]
  BY QueueTake
<1>2. CASE Told(q, i, a, value)
  <2>1. PICK k \in DOMAIN q : /\ i < k /\ Tells(q[k], a) /\ q[k].value = value
                              /\ \A l \in DOMAIN q : k < l => ~Tells(q[l], a)
    BY <1>2 DEF Told
  <2>2. k # 1 /\ k \in Nat
    BY <1>1, <2>1
  <2>3. /\ k - 1 \in DOMAIN Tail(q) /\ j < k - 1
        /\ Tells(Tail(q)[k - 1], a) /\ Tail(q)[k - 1].value = value
    BY <1>1, <2>1, <2>2
  <2>4. \A l \in DOMAIN Tail(q) : k - 1 < l => ~Tells(Tail(q)[l], a)
    BY <1>1, <2>1, <2>2
  <2>5. Told(Tail(q), j, a, value)
    BY <2>3, <2>4 DEF Told
  <2>6. QED  BY <2>5 DEF Current
<1>3. CASE Untold(q, i, a) /\ Agrees(a, v, value)
  <2>1. Untold(Tail(q), j, a)
    BY <1>1, <1>3 DEF Untold
  <2>2. QED  BY <1>3, <2>1 DEF Current
<1>4. QED  BY <1>2, <1>3 DEF Current

\* An event is taken, and the proxy shows w.
LEMMA CurrentHeard ==
  ASSUME NEW q, IsQueue(q), q # <<>>, NEW a, Tells(q[1], a), NEW v, NEW w, NEW value,
         Current(q, 0, a, v, value), q[1].value = value => Agrees(a, w, value)
  PROVE  Current(Tail(q), 0, a, w, value)
<1>1. /\ 1 \in DOMAIN q
      /\ \A k \in DOMAIN q : k \in Nat /\ k >= 1
      /\ \A k \in DOMAIN q : k # 1 => k - 1 \in DOMAIN Tail(q) /\ Tail(q)[k - 1] = q[k]
      /\ \A k \in DOMAIN Tail(q) :
           k \in Nat /\ k >= 1 /\ k + 1 \in DOMAIN q /\ Tail(q)[k] = q[k + 1]
  BY QueueTake
<1>2. ~Untold(q, 0, a)
  BY <1>1 DEF Untold
<1>3. PICK k \in DOMAIN q : /\ Tells(q[k], a) /\ q[k].value = value
                            /\ \A l \in DOMAIN q : k < l => ~Tells(q[l], a)
  BY <1>2 DEF Current, Told
<1>4. CASE k = 1
  <2>1. Untold(Tail(q), 0, a)
    BY <1>1, <1>3, <1>4 DEF Untold
  <2>2. QED  BY <1>3, <1>4, <2>1 DEF Current
<1>5. CASE k # 1
  <2>1. /\ k - 1 \in DOMAIN Tail(q) /\ 0 < k - 1
        /\ Tells(Tail(q)[k - 1], a) /\ Tail(q)[k - 1].value = value
    BY <1>1, <1>3, <1>5
  <2>2. \A l \in DOMAIN Tail(q) : k - 1 < l => ~Tells(Tail(q)[l], a)
    BY <1>1, <1>3, <1>5
  <2>3. Told(Tail(q), 0, a, value)
    BY <2>1, <2>2 DEF Told
  <2>4. QED  BY <2>3 DEF Current
<1>6. QED  BY <1>4, <1>5

-----------------------------------------------------------------------------
(* Numbered, as messages are sent and taken *)

LEMMA NumberedKept ==
  ASSUME NEW c, NEW out, NEW in, NEW w, NEW shown, NEW n, Numbered(c, out, in, w, shown, n),
         NEW x \in SUBSET w, NEW s, s = NoProxy \/ shown # NoProxy,
         n \in Nat, NEW u \in Nat, n <= u,
         \A k \in DOMAIN out : Asks(out[k], c) => out[k].id \in Nat,
         \A j \in DOMAIN in : Answers(in[j], c) => in[j].id \in Nat
  PROVE  Numbered(c, out, in, x, s, u)
  BY DEF Numbered

\* What is known of the messages of a link.
LEMMA MessageParts ==
  /\ \A m, c : Request(m) /\ Asks(m, c) => c \in Capabilities /\ m.id \in Nat
  /\ \A m, c : Notice(m) /\ Answers(m, c) => c \in Capabilities /\ m.id \in Nat
  /\ \A m, a : Notice(m) /\ Tells(m, a) => a \in Aspects /\ ~\E c : Answers(m, c)
  /\ \A m : Notice(m) /\ CarriesText(m) => TextOf(m) \in Nat
  BY DEF Request, Notice, Asks, Answers, Tells

LEMMA QueuedIds ==
  ASSUME NEW out, NEW in, NEW w, Queued(out, in, w), NEW c
  PROVE  /\ \A k \in DOMAIN out : k \in Nat /\ (Asks(out[k], c) => out[k].id \in Nat)
         /\ \A j \in DOMAIN in : j \in Nat /\ (Answers(in[j], c) => in[j].id \in Nat)
<1>1. /\ \A k \in DOMAIN out : k \in Nat /\ Request(out[k])
      /\ \A j \in DOMAIN in : j \in Nat /\ Notice(in[j])
  BY QueueParts DEF Queued
<1>2. QED  BY <1>1, MessageParts

\* What a link with a message more, or one less, keeps in its queues.
LEMMA QueuedSteps ==
  ASSUME NEW out, NEW in, NEW w, Queued(out, in, w)
  PROVE  /\ \A m : Request(m) => Queued(Append(out, m), in, w)
         /\ \A m : Notice(m) => Queued(out, Append(in, m), w)
         /\ out # <<>> => Queued(Tail(out), in, w) /\ Request(Head(out)) /\ Head(out) = out[1]
         /\ in # <<>> => Queued(out, Tail(in), w) /\ Notice(Head(in)) /\ Head(in) = in[1]
<1>1. ASSUME NEW m, Request(m)
      PROVE  Queued(Append(out, m), in, w)
  <2>1. PICK n \in Nat :
          /\ DOMAIN out = 1..n /\ DOMAIN Append(out, m) = 1..(n + 1)
          /\ \A k \in 1..n : Append(out, m)[k] = out[k]
          /\ Append(out, m)[n + 1] = m
    BY QueueAdd DEF Queued
  <2>2. IsQueue(Append(out, m))
    BY QueueAdd DEF Queued
  <2>3. \A k \in DOMAIN Append(out, m) : Request(Append(out, m)[k])
    BY <1>1, <2>1 DEF Queued
  <2>4. QED  BY <2>2, <2>3 DEF Queued
<1>2. ASSUME NEW m, Notice(m)
      PROVE  Queued(out, Append(in, m), w)
  <2>1. PICK n \in Nat :
          /\ DOMAIN in = 1..n /\ DOMAIN Append(in, m) = 1..(n + 1)
          /\ \A k \in 1..n : Append(in, m)[k] = in[k]
          /\ Append(in, m)[n + 1] = m
    BY QueueAdd DEF Queued
  <2>2. IsQueue(Append(in, m))
    BY QueueAdd DEF Queued
  <2>3. \A k \in DOMAIN Append(in, m) : Notice(Append(in, m)[k])
    BY <1>2, <2>1 DEF Queued
  <2>4. QED  BY <2>2, <2>3 DEF Queued
<1>3. ASSUME out # <<>>
      PROVE  Queued(Tail(out), in, w) /\ Request(Head(out)) /\ Head(out) = out[1]
  <2>1. /\ IsQueue(Tail(out)) /\ Head(out) = out[1] /\ 1 \in DOMAIN out
        /\ \A k \in DOMAIN Tail(out) : k + 1 \in DOMAIN out /\ Tail(out)[k] = out[k + 1]
    BY <1>3, QueueTake DEF Queued
  <2>2. QED  BY <2>1 DEF Queued
<1>4. ASSUME in # <<>>
      PROVE  Queued(out, Tail(in), w) /\ Notice(Head(in)) /\ Head(in) = in[1]
  <2>1. /\ IsQueue(Tail(in)) /\ Head(in) = in[1] /\ 1 \in DOMAIN in
        /\ \A k \in DOMAIN Tail(in) : k + 1 \in DOMAIN in /\ Tail(in)[k] = in[k + 1]
    BY <1>4, QueueTake DEF Queued
  <2>2. QED  BY <2>1 DEF Queued
<1>5. QED  BY <1>1, <1>2, <1>3, <1>4

\* A message that is no registration is sent.
LEMMA NumberedSent ==
  ASSUME NEW c, NEW out, NEW in, NEW w, NEW shown, NEW n, Numbered(c, out, in, w, shown, n),
         Queued(out, in, w), NEW m, ~Asks(m, c)
  PROVE  Numbered(c, Append(out, m), in, w, shown, n)
<1>1. PICK z \in Nat :
        /\ DOMAIN out = 1..z /\ DOMAIN Append(out, m) = 1..(z + 1)
        /\ \A k \in 1..z : Append(out, m)[k] = out[k]
        /\ Append(out, m)[z + 1] = m
  BY QueueAdd DEF Queued
<1>2. \A k \in DOMAIN Append(out, m) : Asks(Append(out, m)[k], c) =>
        k \in DOMAIN out /\ Append(out, m)[k] = out[k]
  BY <1>1
<1>3. QED  BY <1>2 DEF Numbered

\* A message that is no answer comes.
LEMMA NumberedTold ==
  ASSUME NEW c, NEW out, NEW in, NEW w, NEW shown, NEW n, Numbered(c, out, in, w, shown, n),
         Queued(out, in, w), NEW m, ~Answers(m, c)
  PROVE  Numbered(c, out, Append(in, m), w, shown, n)
<1>1. PICK z \in Nat :
        /\ DOMAIN in = 1..z /\ DOMAIN Append(in, m) = 1..(z + 1)
        /\ \A k \in 1..z : Append(in, m)[k] = in[k]
        /\ Append(in, m)[z + 1] = m
  BY QueueAdd DEF Queued
<1>2. \A k \in DOMAIN Append(in, m) : Answers(Append(in, m)[k], c) =>
        k \in DOMAIN in /\ Append(in, m)[k] = in[k]
  BY <1>1
<1>3. QED  BY <1>2 DEF Numbered

LEMMA NumberedTaken ==
  ASSUME NEW c, NEW out, NEW in, NEW w, NEW shown, NEW n, Numbered(c, out, in, w, shown, n),
         Queued(out, in, w)
  PROVE  /\ out # <<>> => Numbered(c, Tail(out), in, w, shown, n)
         /\ in # <<>> => Numbered(c, out, Tail(in), w, shown, n)
<1>1. ASSUME out # <<>>
      PROVE  Numbered(c, Tail(out), in, w, shown, n)
  <2>1. \A k \in DOMAIN Tail(out) :
          k \in Nat /\ k + 1 \in DOMAIN out /\ Tail(out)[k] = out[k + 1]
    BY <1>1, QueueTake DEF Queued
  <2>2. \A k, j \in DOMAIN Tail(out) : j < k => j + 1 < k + 1
    BY <2>1
  <2>3. QED  BY <2>1, <2>2 DEF Numbered
<1>2. ASSUME in # <<>>
      PROVE  Numbered(c, out, Tail(in), w, shown, n)
  <2>1. \A k \in DOMAIN Tail(in) : k + 1 \in DOMAIN in /\ Tail(in)[k] = in[k + 1]
    BY <1>2, QueueTake DEF Queued
  <2>2. QED  BY <2>1 DEF Numbered
<1>3. QED  BY <1>1, <1>2

\* The registration at the head of the queue is answered.
LEMMA NumberedAnswered ==
  ASSUME NEW c, NEW out, NEW in, NEW w, NEW shown, NEW n, Numbered(c, out, in, w, shown, n),
         Queued(out, in, w), out # <<>>, Asks(Head(out), c),
         NEW m, m.id = Head(out).id
  PROVE  Numbered(c, Tail(out), Append(in, m), w, shown, n)
<1>1. /\ Head(out) = out[1] /\ 1 \in DOMAIN out
      /\ \A k \in DOMAIN Tail(out) :
           k \in Nat /\ k >= 1 /\ k + 1 \in DOMAIN out /\ Tail(out)[k] = out[k + 1]
  BY QueueTake DEF Queued
<1>2. PICK z \in Nat :
        /\ DOMAIN in = 1..z /\ DOMAIN Append(in, m) = 1..(z + 1)
        /\ \A k \in 1..z : Append(in, m)[k] = in[k]
        /\ Append(in, m)[z + 1] = m
  BY QueueAdd DEF Queued
<1>3. Numbered(c, Tail(out), in, w, shown, n)
  BY NumberedTaken
<1>4. m.id < n /\ \A k \in DOMAIN Tail(out) : Asks(Tail(out)[k], c) => m.id < Tail(out)[k].id
  <2>1. Asks(out[1], c) /\ m.id = out[1].id
    BY <1>1
  <2>2. out[1].id < n
    BY <1>1, <2>1 DEF Numbered
  <2>3. ASSUME NEW k \in DOMAIN Tail(out), Asks(Tail(out)[k], c)
        PROVE  out[1].id < Tail(out)[k].id
    <3>1. k + 1 \in DOMAIN out /\ Asks(out[k + 1], c) /\ 1 < k + 1 /\ Tail(out)[k] = out[k + 1]
      BY <1>1, <2>3
    <3>2. QED  BY <1>1, <2>1, <3>1 DEF Numbered
  <2>4. QED  BY <2>1, <2>2, <2>3
<1>5. \A j \in DOMAIN Append(in, m) :
        \/ j \in DOMAIN in /\ Append(in, m)[j] = in[j]
        \/ Append(in, m)[j] = m
  BY <1>2
<1>6. QED  BY <1>3, <1>4, <1>5 DEF Numbered

\* A registration is made, of one that waits for none.
LEMMA NumberedAsked ==
  ASSUME NEW c, NEW out, NEW in, NEW w, NEW n \in Nat, Numbered(c, out, in, {}, NoProxy, n),
         Queued(out, in, {}), NEW m, Asks(m, c), m.id = n,
         \A i \in Nat : <<i, c>> \in w => i = n
  PROVE  Numbered(c, Append(out, m), in, w, NoProxy, n + 1)
<1>1. PICK z, next :
        /\ z \in Nat /\ next = Append(out, m)
        /\ DOMAIN out = 1..z /\ DOMAIN next = 1..(z + 1)
        /\ \A k \in 1..z : next[k] = out[k]
        /\ next[z + 1] = m
  <2>1. \E z \in Nat :
          /\ DOMAIN out = 1..z /\ DOMAIN Append(out, m) = 1..(z + 1)
          /\ \A k \in 1..z : Append(out, m)[k] = out[k]
          /\ Append(out, m)[z + 1] = m
    BY QueueAdd DEF Queued
  <2>2. QED  BY <2>1
<1>2. /\ \A k \in DOMAIN out : Asks(out[k], c) => out[k].id \in Nat
      /\ \A j \in DOMAIN in : Answers(in[j], c) => in[j].id \in Nat
  BY QueuedIds
<1>3. \A j \in DOMAIN in : Answers(in[j], c) => in[j].id < n
  BY DEF Numbered
<1>4. \A k \in DOMAIN out : Asks(out[k], c) =>
        /\ out[k].id < n
        /\ \A j \in DOMAIN out : j < k /\ Asks(out[j], c) => out[j].id < out[k].id
        /\ \A j \in DOMAIN in : Answers(in[j], c) => in[j].id < out[k].id
  BY DEF Numbered
<1>5. ASSUME NEW k \in 1..(z + 1), Asks(next[k], c)
      PROVE  /\ next[k].id < n + 1
             /\ \A j \in 1..(z + 1) : j < k /\ Asks(next[j], c) =>
                  next[j].id < next[k].id
             /\ \A j \in DOMAIN in : Answers(in[j], c) => in[j].id < next[k].id
             /\ \A i \in Nat : <<i, c>> \in w => next[k].id <= i
  <2>1. CASE k \in 1..z
    <3>1. k \in DOMAIN out /\ next[k] = out[k] /\ Asks(out[k], c)
      BY <1>1, <1>5, <2>1
    <3>2. \A j \in 1..(z + 1) : j < k => j \in DOMAIN out /\ next[j] = out[j]
      BY <1>1, <2>1
    <3>3. out[k].id \in Nat /\ out[k].id < n
      BY <1>2, <1>4, <3>1
    <3>4. QED  BY <1>4, <3>1, <3>2, <3>3
  <2>2. CASE k = z + 1
    <3>1. next[k].id = n
      BY <1>1, <2>2
    <3>2. ASSUME NEW j \in 1..(z + 1), j < k, Asks(next[j], c)
          PROVE  next[j].id < n
      <4>1. j \in DOMAIN out /\ next[j] = out[j]
        BY <1>1, <2>2, <3>2
      <4>2. QED  BY <1>4, <3>2, <4>1
    <3>3. QED  BY <1>3, <3>1, <3>2
  <2>3. QED  BY <1>1, <2>1, <2>2
<1>6. QED  BY <1>1, <1>2, <1>3, <1>5 DEF Numbered

\* The answer that is waited for makes a proxy.
LEMMA NumberedCreated ==
  ASSUME NEW c, NEW out, NEW in, NEW w, NEW shown, NEW n, Numbered(c, out, in, w, shown, n),
         Queued(out, in, w), in # <<>>, Brings(Head(in), c, w), NEW s
  PROVE  Numbered(c, out, Tail(in), w \ {<<Head(in).id, c>>}, s, n)
<1>1. /\ Head(in) = in[1] /\ 1 \in DOMAIN in
      /\ \A k \in DOMAIN Tail(in) : k + 1 \in DOMAIN in /\ Tail(in)[k] = in[k + 1]
  BY QueueTake DEF Queued
<1>2. PICK i \in Nat : i = Head(in).id /\ <<i, c>> \in w /\ Answers(in[1], c) /\ in[1].id = i
  BY <1>1, QueuedIds DEF Brings
<1>3. \A k \in DOMAIN out : ~Asks(out[k], c)
  <2>1. ASSUME NEW k \in DOMAIN out, Asks(out[k], c)
        PROVE  FALSE
    <3>1. out[k].id \in Nat
      BY <2>1, QueuedIds
    <3>2. i < out[k].id /\ out[k].id <= i
      BY <1>1, <1>2, <2>1 DEF Numbered
    <3>3. QED  BY <3>1, <3>2
  <2>2. QED  BY <2>1
<1>4. \A h \in Nat : <<h, c>> \notin w \ {<<i, c>>}
  BY <1>2 DEF Numbered
<1>5. \A j \in DOMAIN Tail(in) : Answers(Tail(in)[j], c) => Tail(in)[j].id < n
  BY <1>1 DEF Numbered
<1>6. QED  BY <1>2, <1>3, <1>4, <1>5 DEF Numbered

-----------------------------------------------------------------------------
(* Forward, as messages come and are taken *)

\* The player goes on, a message comes that has its subtitle, if any.
LEMMA ForwardTold ==
  ASSUME NEW in, NEW shown, NEW p, Forward(in, shown, p), NEW p2,
         p.text \in Nat, p2.text \in Nat, p.text <= p2.text,
         IsQueue(in), \A k \in DOMAIN in : Notice(in[k]),
         NEW m, CarriesText(m) => TextOf(m) = p2.text
  PROVE  Forward(Append(in, m), shown, p2)
<1>1. PICK z \in Nat :
        /\ DOMAIN in = 1..z /\ DOMAIN Append(in, m) = 1..(z + 1)
        /\ \A k \in 1..z : Append(in, m)[k] = in[k]
        /\ Append(in, m)[z + 1] = m
  BY QueueAdd
<1>2. \A k \in DOMAIN in : CarriesText(in[k]) =>
        /\ TextOf(in[k]) \in Nat /\ TextOf(in[k]) <= p.text
        /\ shown # NoProxy => shown["current-text"] <= TextOf(in[k])
        /\ \A j \in DOMAIN in : j < k /\ CarriesText(in[j]) => TextOf(in[j]) <= TextOf(in[k])
  BY MessageParts DEF Forward
<1>3. shown # NoProxy => shown["current-text"] \in Nat /\ shown["current-text"] <= p.text
  BY DEF Forward
<1>4. ASSUME NEW k \in DOMAIN Append(in, m), CarriesText(Append(in, m)[k])
      PROVE  /\ TextOf(Append(in, m)[k]) <= p2.text
             /\ shown # NoProxy => shown["current-text"] <= TextOf(Append(in, m)[k])
             /\ \A j \in DOMAIN Append(in, m) : j < k /\ CarriesText(Append(in, m)[j]) =>
                  TextOf(Append(in, m)[j]) <= TextOf(Append(in, m)[k])
  <2>1. \A j \in DOMAIN Append(in, m) : j < k => j \in DOMAIN in /\ Append(in, m)[j] = in[j]
    BY <1>1
  <2>2. CASE k \in 1..z
    <3>1. k \in DOMAIN in /\ Append(in, m)[k] = in[k]
      BY <1>1, <2>2
    <3>2. TextOf(in[k]) \in Nat /\ TextOf(in[k]) <= p.text
      BY <1>2, <1>4, <3>1
    <3>3. QED  BY <1>2, <1>4, <2>1, <3>1, <3>2
  <2>3. CASE k = z + 1
    <3>1. TextOf(Append(in, m)[k]) = p2.text
      BY <1>1, <1>4, <2>3
    <3>2. ASSUME NEW j \in DOMAIN Append(in, m), j < k, CarriesText(Append(in, m)[j])
          PROVE  TextOf(Append(in, m)[j]) <= p2.text
      <4>1. TextOf(in[j]) \in Nat /\ TextOf(in[j]) <= p.text /\ Append(in, m)[j] = in[j]
        BY <1>2, <2>1, <3>2
      <4>2. QED  BY <4>1
    <3>3. QED  BY <1>3, <3>1, <3>2
  <2>4. QED  BY <1>1, <2>2, <2>3
<1>5. shown # NoProxy => shown["current-text"] \in Nat /\ shown["current-text"] <= p2.text
  BY <1>3
<1>6. QED  BY <1>4, <1>5 DEF Forward

\* The player goes on, and nothing comes.
LEMMA ForwardKept ==
  ASSUME NEW in, NEW shown, NEW p, Forward(in, shown, p), NEW p2,
         p.text \in Nat, p2.text \in Nat, p.text <= p2.text,
         \A k \in DOMAIN in : Notice(in[k]),
         NEW s, s = NoProxy \/ s = shown
  PROVE  Forward(in, s, p2)
<1>1. \A k \in DOMAIN in : CarriesText(in[k]) =>
        TextOf(in[k]) \in Nat /\ TextOf(in[k]) <= p2.text
  <2>1. \A k \in DOMAIN in : CarriesText(in[k]) =>
          TextOf(in[k]) \in Nat /\ TextOf(in[k]) <= p.text
    BY MessageParts DEF Forward
  <2>2. QED  BY <2>1
<1>2. shown # NoProxy => shown["current-text"] \in Nat /\ shown["current-text"] <= p2.text
  BY DEF Forward
<1>3. QED  BY <1>1, <1>2 DEF Forward

\* A message is taken; what the proxy shows then is what it showed, or what the
\* message has.
LEMMA ForwardTaken ==
  ASSUME NEW in, NEW shown, NEW p, Forward(in, shown, p), IsQueue(in), in # <<>>,
         \A k \in DOMAIN in : Notice(in[k]), NEW s,
         \/ s = NoProxy \/ (shown # NoProxy /\ s["current-text"] = shown["current-text"])
         \/ CarriesText(Head(in)) /\ s["current-text"] = TextOf(Head(in))
  PROVE  Forward(Tail(in), s, p)
<1>1. /\ Head(in) = in[1] /\ 1 \in DOMAIN in
      /\ \A k \in DOMAIN Tail(in) :
           k \in Nat /\ k >= 1 /\ k + 1 \in DOMAIN in /\ Tail(in)[k] = in[k + 1]
  BY QueueTake
<1>2. \A k \in DOMAIN Tail(in) : CarriesText(Tail(in)[k]) =>
        /\ TextOf(Tail(in)[k]) <= p.text
        /\ shown # NoProxy => shown["current-text"] <= TextOf(Tail(in)[k])
        /\ CarriesText(in[1]) => TextOf(in[1]) <= TextOf(Tail(in)[k])
        /\ \A j \in DOMAIN Tail(in) : j < k /\ CarriesText(Tail(in)[j]) =>
             TextOf(Tail(in)[j]) <= TextOf(Tail(in)[k])
  <2>1. \A k \in DOMAIN Tail(in) : 1 < k + 1 /\ \A j \in DOMAIN Tail(in) : j < k => j + 1 < k + 1
    BY <1>1
  <2>2. QED  BY <1>1, <2>1 DEF Forward
<1>3. CarriesText(in[1]) => TextOf(in[1]) \in Nat /\ TextOf(in[1]) <= p.text
  BY <1>1, MessageParts DEF Forward
<1>4. shown # NoProxy => shown["current-text"] \in Nat /\ shown["current-text"] <= p.text
  BY DEF Forward
<1>5. \A k \in DOMAIN Tail(in) : CarriesText(Tail(in)[k]) /\ s # NoProxy =>
        s["current-text"] <= TextOf(Tail(in)[k])
  BY <1>1, <1>2
<1>6. s # NoProxy => s["current-text"] \in Nat /\ s["current-text"] <= p.text
  BY <1>1, <1>3, <1>4
<1>7. QED  BY <1>2, <1>5, <1>6 DEF Forward

-----------------------------------------------------------------------------
(* Faithful, as messages come and are taken *)

\* The same player, or one whose other properties are the same.
LEMMA FaithfulKept ==
  ASSUME NEW c \in Capabilities, NEW in, NEW w, NEW shown, NEW p, Faithful(c, in, w, shown, p),
         NEW x \in SUBSET w, NEW s, s = NoProxy \/ s = shown,
         NEW p2, \A a \in AspectsOf[c] : Property(p2, a) = Property(p, a)
  PROVE  Faithful(c, in, x, s, p2)
<1>1. \A j, q : CurrentProxy(c, in, j, q, p) => CurrentProxy(c, in, j, q, p2)
  BY DEF CurrentProxy
<1>2. QED  BY <1>1 DEF Faithful, Brings

\* A message comes that brings no proxy: no event of a property of c, or one of
\* the only property that has changed.
LEMMA FaithfulTold ==
  ASSUME NEW c \in Capabilities, NEW in, NEW w, NEW shown, NEW p, Faithful(c, in, w, shown, p),
         IsQueue(in), NEW m, NEW p2, ~Brings(m, c, w),
         \A a \in AspectsOf[c] :
           \/ Tells(m, a) /\ m.value = Property(p2, a)
           \/ ~Tells(m, a) /\ Property(p2, a) = Property(p, a)
  PROVE  Faithful(c, Append(in, m), w, shown, p2)
<1>1. PICK z \in Nat :
        /\ DOMAIN in = 1..z /\ DOMAIN Append(in, m) = 1..(z + 1)
        /\ \A k \in 1..z : Append(in, m)[k] = in[k]
        /\ Append(in, m)[z + 1] = m
  BY QueueAdd
<1>2. ASSUME NEW j \in Nat, j = 0 \/ j \in DOMAIN in, NEW q, CurrentProxy(c, in, j, q, p)
      PROVE  CurrentProxy(c, Append(in, m), j, q, p2)
  <2>1. ASSUME NEW a \in AspectsOf[c]
        PROVE  Current(Append(in, m), j, a, q[a], Property(p2, a))
    <3>1. Current(in, j, a, q[a], Property(p, a))
      BY <1>2 DEF CurrentProxy
    <3>2. CASE Tells(m, a) /\ m.value = Property(p2, a)
      <4>1. Current(Append(in, m), j, a, q[a], m.value)
        BY <1>2, <3>2, CurrentTold
      <4>2. QED  BY <3>2, <4>1
    <3>3. CASE ~Tells(m, a) /\ Property(p2, a) = Property(p, a)
      <4>1. PICK v, value : v = q[a] /\ value = Property(p, a)
        OBVIOUS
      <4>2. Current(in, j, a, v, value)
        BY <3>1, <4>1
      <4>3. Current(Append(in, m), j, a, v, value)
        BY <3>3, <4>2, CurrentSilent
      <4>4. QED  BY <3>3, <4>1, <4>3
    <3>4. QED  BY <3>2, <3>3
  <2>2. QED  BY <2>1 DEF CurrentProxy
<1>3. shown # NoProxy => CurrentProxy(c, Append(in, m), 0, shown, p2)
  BY <1>2 DEF Faithful
<1>4. ASSUME NEW j \in DOMAIN Append(in, m), Brings(Append(in, m)[j], c, w)
      PROVE  CurrentProxy(c, Append(in, m), j, Created(c, Append(in, m)[j].value), p2)
  <2>1. j \in DOMAIN in /\ j \in Nat /\ Append(in, m)[j] = in[j]
    BY <1>1, <1>4
  <2>2. CurrentProxy(c, in, j, Created(c, in[j].value), p)
    BY <1>4, <2>1 DEF Faithful
  <2>3. QED  BY <1>2, <2>1, <2>2
<1>5. QED  BY <1>3, <1>4 DEF Faithful

\* An answer comes with all that there is to be shown, to one that has no proxy
\* and was sent no answer it waits for.
LEMMA FaithfulAnswered ==
  ASSUME NEW c \in Capabilities, NEW in, NEW w, IsQueue(in),
         \A j \in DOMAIN in : ~Brings(in[j], c, w),
         NEW p, PlayerOK(p), NEW m, m.type = "properties", m.value = Collect(c, p)
  PROVE  Faithful(c, Append(in, m), w, NoProxy, p)
<1>1. PICK z \in Nat :
        /\ DOMAIN in = 1..z /\ DOMAIN Append(in, m) = 1..(z + 1)
        /\ \A k \in 1..z : Append(in, m)[k] = in[k]
        /\ Append(in, m)[z + 1] = m
  BY QueueAdd
<1>2. ASSUME NEW j \in DOMAIN Append(in, m), Brings(Append(in, m)[j], c, w)
      PROVE  CurrentProxy(c, Append(in, m), j, Created(c, Append(in, m)[j].value), p)
  <2>1. j = z + 1 /\ Append(in, m)[j] = m
    BY <1>1, <1>2
  <2>2. ASSUME NEW a \in AspectsOf[c]
        PROVE  Current(Append(in, m), j, a, Created(c, m.value)[a], Property(p, a))
    <3>1. Agrees(a, Created(c, m.value)[a], Property(p, a))
      BY CreatedParts
    <3>2. Untold(Append(in, m), j, a)
      BY <1>1, <2>1 DEF Untold
    <3>3. QED  BY <3>1, <3>2 DEF Current
  <2>3. QED  BY <2>1, <2>2 DEF CurrentProxy
<1>3. QED  BY <1>2 DEF Faithful

\* What is left to tell the proxies that are still to be made.
LEMMA FaithfulRest ==
  ASSUME NEW c \in Capabilities, NEW in, NEW w, NEW shown, NEW p, Faithful(c, in, w, shown, p),
         IsQueue(in), in # <<>>, NEW x \in SUBSET w
  PROVE  \A j \in DOMAIN Tail(in) : Brings(Tail(in)[j], c, x) =>
           CurrentProxy(c, Tail(in), j, Created(c, Tail(in)[j].value), p)
<1>1. SUFFICES ASSUME NEW j \in DOMAIN Tail(in), Brings(Tail(in)[j], c, x)
               PROVE  CurrentProxy(c, Tail(in), j, Created(c, Tail(in)[j].value), p)
  OBVIOUS
<1>2. j \in Nat /\ j + 1 \in Nat /\ j + 1 \in DOMAIN in /\ Tail(in)[j] = in[j + 1]
  BY QueueTake
<1>3. PICK q : q = Created(c, Tail(in)[j].value)
  OBVIOUS
<1>4. CurrentProxy(c, in, j + 1, q, p)
  <2>1. Brings(in[j + 1], c, w)
    BY <1>1, <1>2 DEF Brings
  <2>2. QED  BY <1>2, <1>3, <2>1 DEF Faithful
<1>5. ASSUME NEW a \in AspectsOf[c]
      PROVE  Current(Tail(in), j, a, q[a], Property(p, a))
  <2>1. PICK v, value, i : v = q[a] /\ value = Property(p, a) /\ i \in Nat /\ i = j + 1
    BY <1>2
  <2>2. Current(in, i, a, v, value)
    BY <1>4, <2>1 DEF CurrentProxy
  <2>3. Current(Tail(in), j, a, v, value)
    BY <1>2, <2>1, <2>2, CurrentLater
  <2>4. QED  BY <2>1, <2>3
<1>6. QED  BY <1>3, <1>5 DEF CurrentProxy

\* A message is taken that a proxy does not hear.
LEMMA FaithfulIgnored ==
  ASSUME NEW c \in Capabilities, NEW in, NEW w, NEW shown, NEW p, Faithful(c, in, w, shown, p),
         IsQueue(in), in # <<>>,
         shown # NoProxy => \A a \in AspectsOf[c] : ~Tells(Head(in), a)
  PROVE  Faithful(c, Tail(in), w, shown, p)
<1>1. Head(in) = in[1]
  BY QueueTake
<1>2. ASSUME shown # NoProxy
      PROVE  CurrentProxy(c, Tail(in), 0, shown, p)
  <2>1. ASSUME NEW a \in AspectsOf[c]
        PROVE  Current(Tail(in), 0, a, shown[a], Property(p, a))
    <3>1. PICK v, value : v = shown[a] /\ value = Property(p, a)
      OBVIOUS
    <3>2. Current(in, 0, a, v, value)
      BY <1>2, <3>1 DEF Faithful, CurrentProxy
    <3>3. ~Tells(in[1], a)
      BY <1>1, <1>2
    <3>4. Current(Tail(in), 0, a, v, value)
      BY <3>2, <3>3, CurrentLater
    <3>5. QED  BY <3>1, <3>4
  <2>2. QED  BY <2>1 DEF CurrentProxy
<1>3. QED  BY <1>2, FaithfulRest DEF Faithful

\* An event is heard.
LEMMA FaithfulHeard ==
  ASSUME NEW c \in Capabilities, NEW in, NEW w, NEW shown, NEW p, Faithful(c, in, w, shown, p),
         IsQueue(in), in # <<>>, PlayerOK(p), shown # NoProxy, DOMAIN shown = AspectsOf[c],
         NEW a \in AspectsOf[c], Tells(Head(in), a)
  PROVE  Faithful(c, Tail(in), w, ProxyEvent(shown, a, Head(in).value), p)
<1>1. Head(in) = in[1]
  BY QueueTake
<1>2. PICK x, s : x = Head(in).value /\ s = ProxyEvent(shown, a, x)
  OBVIOUS
<1>3. /\ \A b \in AspectsOf[c] \ {a} : s[b] = shown[b]
      /\ a # "volume" => s[a] = x
      /\ a = "volume" => s[a] = x \/ (s[a] = shown[a] /\ ~Differ(x, shown[a]))
  BY <1>2, ProxyEventParts
<1>4. ASSUME NEW b \in AspectsOf[c]
      PROVE  Current(Tail(in), 0, b, s[b], Property(p, b))
  <2>1. PICK v, u, value : v = shown[b] /\ u = s[b] /\ value = Property(p, b)
    OBVIOUS
  <2>2. Current(in, 0, b, v, value)
    BY <2>1 DEF Faithful, CurrentProxy
  <2>3. CASE b = a
    <3>1. x = value => Agrees(b, u, value)
      <4>1. b = "volume" => value \in Nat
        BY <2>1, PropertyParts DEF PlayerOK
      <4>2. Agrees(b, value, value)
        BY <4>1, AgreesItself
      <4>3. QED  BY <1>3, <2>1, <2>3, <4>2 DEF Agrees
    <3>2. Tells(in[1], b) /\ in[1].value = x
      BY <1>1, <1>2, <2>3
    <3>3. in[1].value = value => Agrees(b, u, value)
      BY <3>1, <3>2
    <3>4. Current(Tail(in), 0, b, u, value)
      BY <2>2, <3>2, <3>3, CurrentHeard
    <3>5. QED  BY <2>1, <3>4
  <2>4. CASE b # a
    <3>1. ~Tells(in[1], b)
      BY <1>1, <2>4 DEF Tells
    <3>2. Current(Tail(in), 0, b, v, value)
      BY <2>2, <3>1, CurrentLater
    <3>3. QED  BY <1>3, <2>1, <2>4, <3>2
  <2>5. QED  BY <2>3, <2>4
<1>5. CurrentProxy(c, Tail(in), 0, s, p)
  BY <1>4 DEF CurrentProxy
<1>6. QED  BY <1>2, <1>5, FaithfulRest DEF Faithful

\* A proxy is made.
LEMMA FaithfulCreated ==
  ASSUME NEW c \in Capabilities, NEW in, NEW w, NEW shown, NEW p, Faithful(c, in, w, shown, p),
         IsQueue(in), in # <<>>, Brings(Head(in), c, w), NEW x \in SUBSET w
  PROVE  Faithful(c, Tail(in), x, Created(c, Head(in).value), p)
<1>1. Head(in) = in[1] /\ 1 \in DOMAIN in
  BY QueueTake
<1>2. PICK s : s = Created(c, Head(in).value)
  OBVIOUS
<1>3. CurrentProxy(c, in, 1, s, p)
  BY <1>1, <1>2 DEF Faithful
<1>4. ASSUME NEW a \in AspectsOf[c]
      PROVE  Current(Tail(in), 0, a, s[a], Property(p, a))
  <2>1. PICK v, value, i : v = s[a] /\ value = Property(p, a) /\ i = 1 /\ i \in Nat /\ i = 0 + 1
    OBVIOUS
  <2>2. Current(in, i, a, v, value)
    BY <1>3, <2>1 DEF CurrentProxy
  <2>3. Current(Tail(in), 0, a, v, value)
    BY <2>1, <2>2, CurrentLater
  <2>4. QED  BY <2>1, <2>3
<1>5. CurrentProxy(c, Tail(in), 0, s, p)
  BY <1>4 DEF CurrentProxy
<1>6. QED  BY <1>2, <1>5, FaithfulRest DEF Faithful

-----------------------------------------------------------------------------
(* Links *)

\* Nothing is sent or taken, no property changes.
LEMMA LinkKept ==
  ASSUME NEW p, NEW joined, NEW out, NEW in, NEW w, NEW shown, NEW n \in Nat,
         LinkInv(p, joined, out, in, w, shown, n),
         NEW p2, PlayerOK(p), PlayerOK(p2), \A a \in Aspects : Property(p2, a) = Property(p, a),
         NEW joined2 \in SUBSET joined, NEW u \in Nat, n <= u
  PROVE  LinkInv(p2, joined2, out, in, w, shown, u)
<1>1. Queued(out, in, w)
  BY DEF LinkInv
<1>2. ASSUME NEW c \in Capabilities
      PROVE  /\ Numbered(c, out, in, w, shown[c], u)
             /\ c \in joined2 => Faithful(c, in, w, shown[c], p2)
  <2>1. PICK s : s = shown[c] /\ Numbered(c, out, in, w, s, n)
                 /\ (c \in joined => Faithful(c, in, w, s, p))
    BY DEF LinkInv
  <2>2. Numbered(c, out, in, w, s, u)
    <3>1. /\ \A k \in DOMAIN out : Asks(out[k], c) => out[k].id \in Nat
          /\ \A j \in DOMAIN in : Answers(in[j], c) => in[j].id \in Nat
      BY <1>1, QueuedIds
    <3>2. w \in SUBSET w /\ (s = NoProxy \/ s # NoProxy)
      OBVIOUS
    <3>3. QED  BY <2>1, <3>1, <3>2, NumberedKept
  <2>3. c \in joined2 => Faithful(c, in, w, s, p2)
    <3>1. \A a \in AspectsOf[c] : Property(p2, a) = Property(p, a)
      BY AspectParts
    <3>2. w \in SUBSET w
      OBVIOUS
    <3>3. QED  BY <2>1, <3>1, <3>2, FaithfulKept
  <2>4. QED  BY <2>1, <2>2, <2>3
<1>3. Forward(in, shown[Transcript], p2)
  <2>1. /\ p.text \in Nat /\ p2.text \in Nat /\ p.text <= p2.text
        /\ \A k \in DOMAIN in : Notice(in[k])
    <3>1. p2.text = p.text
      BY PropertyParts DEF Aspects, TranscriptAspects
    <3>2. QED  BY <1>1, <3>1 DEF PlayerOK, Queued
  <2>2. PICK s : s = shown[Transcript]
    OBVIOUS
  <2>3. Forward(in, s, p)
    BY <2>2 DEF LinkInv
  <2>4. Forward(in, s, p2)
    BY <2>1, <2>3, ForwardKept
  <2>5. QED  BY <2>2, <2>4
<1>4. QED  BY <1>1, <1>2, <1>3 DEF LinkInv

\* A remote control that waits for nothing and has no proxy, whatever the player
\* does.
LEMMA LinkAway ==
  ASSUME NEW p, NEW joined, NEW out, NEW in, NEW w, NEW shown, NEW n \in Nat,
         LinkInv(p, joined, out, in, w, shown, n),
         NEW p2, PlayerOK(p), PlayerOK(p2), p.text <= p2.text,
         NEW joined2, NEW s, \A c \in Capabilities : s[c] = NoProxy, NEW u \in Nat, n <= u,
         NEW rest, rest = in \/ rest = <<>>
  PROVE  LinkInv(p2, joined2, out, rest, {}, s, u)
<1>1. Queued(out, in, w)
  BY DEF LinkInv
<1>2. Queued(out, rest, {}) /\ \A j \in DOMAIN rest : j \in DOMAIN in /\ rest[j] = in[j]
  BY <1>1, QueueEmpty DEF Queued
<1>3. ASSUME NEW c \in Capabilities
      PROVE  Numbered(c, out, rest, {}, NoProxy, u)
  <2>1. PICK q : Numbered(c, out, in, w, q, n)
    BY DEF LinkInv
  <2>2. Numbered(c, out, in, {}, NoProxy, u)
    <3>1. /\ \A k \in DOMAIN out : Asks(out[k], c) => out[k].id \in Nat
          /\ \A j \in DOMAIN in : Answers(in[j], c) => in[j].id \in Nat
      BY <1>1, QueuedIds
    <3>2. {} \in SUBSET w
      OBVIOUS
    <3>3. QED  BY <2>1, <3>1, <3>2, NumberedKept
  <2>3. QED  BY <1>2, <2>2 DEF Numbered
<1>4. \A c \in Capabilities : Faithful(c, rest, {}, s[c], p2)
  BY DEF Faithful, Brings
<1>5. Forward(rest, NoProxy, p2)
  <2>1. /\ p.text \in Nat /\ p2.text \in Nat
        /\ \A k \in DOMAIN in : Notice(in[k])
    BY <1>1 DEF PlayerOK, Queued
  <2>2. PICK q : Forward(in, q, p)
    BY DEF LinkInv
  <2>3. Forward(in, NoProxy, p2)
    BY <2>1, <2>2, ForwardKept
  <2>4. QED  BY <1>2, <2>3 DEF Forward
<1>6. s[Transcript] = NoProxy
  BY AspectParts
<1>7. QED  BY <1>2, <1>3, <1>4, <1>5, <1>6 DEF LinkInv

\* A property is notified, and the remote control registered for it is told.
LEMMA LinkTold ==
  ASSUME NEW p, NEW joined, NEW out, NEW in, NEW w, NEW shown, NEW n,
         LinkInv(p, joined, out, in, w, shown, n),
         NEW p2, PlayerOK(p), PlayerOK(p2), p.text <= p2.text,
         NEW a \in Aspects, \A b \in Aspects \ {a} : Property(p2, b) = Property(p, b)
  PROVE  LinkInv(p2, joined, out, Append(in, Event(p2, a)), w, shown, n)
<1>1. Queued(out, in, w) /\ IsQueue(in) /\ \A k \in DOMAIN in : Notice(in[k])
  BY DEF LinkInv, Queued
<1>2. PICK m : m = Event(p2, a)
  OBVIOUS
<1>3. /\ m.type = "event" /\ m.aspect = a /\ m.value = Property(p2, a)
      /\ \A c : ~Answers(m, c)
      /\ \A b : Tells(m, b) <=> b = a
  BY <1>2 DEF Event, Answers, Tells
<1>4. p.text \in Nat /\ p2.text \in Nat
  BY DEF PlayerOK
<1>5. CarriesText(m) => TextOf(m) = p2.text
  BY <1>3, PropertyParts DEF CarriesText, TextOf
<1>6. Queued(out, Append(in, m), w)
  <2>1. Notice(m)
    BY <1>3, <1>4, <1>5 DEF Notice
  <2>2. QED  BY <1>1, <2>1, QueuedSteps
<1>7. ASSUME NEW c \in Capabilities
      PROVE  /\ Numbered(c, out, Append(in, m), w, shown[c], n)
             /\ c \in joined => Faithful(c, Append(in, m), w, shown[c], p2)
  <2>1. PICK s : s = shown[c] /\ Numbered(c, out, in, w, s, n)
                 /\ (c \in joined => Faithful(c, in, w, s, p))
    BY DEF LinkInv
  <2>2. Numbered(c, out, Append(in, m), w, s, n)
    <3>1. ~Answers(m, c)
      BY <1>3
    <3>2. QED  BY <1>1, <2>1, <3>1, NumberedTold
  <2>3. c \in joined => Faithful(c, Append(in, m), w, s, p2)
    <3>1. ~Brings(m, c, w)
      BY <1>3 DEF Brings
    <3>2. \A b \in AspectsOf[c] : \/ Tells(m, b) /\ m.value = Property(p2, b)
                                  \/ ~Tells(m, b) /\ Property(p2, b) = Property(p, b)
      BY <1>3, AspectParts
    <3>3. QED  BY <1>1, <2>1, <3>1, <3>2, FaithfulTold
  <2>4. QED  BY <2>1, <2>2, <2>3
<1>8. Forward(Append(in, m), shown[Transcript], p2)
  <2>1. PICK s : s = shown[Transcript]
    OBVIOUS
  <2>2. Forward(in, s, p)
    BY <2>1 DEF LinkInv
  <2>3. Forward(Append(in, m), s, p2)
    BY <1>1, <1>4, <1>5, <2>2, ForwardTold
  <2>4. QED  BY <2>1, <2>3
<1>9. QED  BY <1>2, <1>6, <1>7, <1>8 DEF LinkInv

\* A property is notified that the remote control is not registered for.
LEMMA LinkUntold ==
  ASSUME NEW p, NEW joined, NEW out, NEW in, NEW w, NEW shown, NEW n,
         LinkInv(p, joined, out, in, w, shown, n),
         NEW p2, PlayerOK(p), PlayerOK(p2), p.text <= p2.text,
         NEW a \in Aspects, \A b \in Aspects \ {a} : Property(p2, b) = Property(p, b),
         CapabilityOf(a) \notin joined
  PROVE  LinkInv(p2, joined, out, in, w, shown, n)
<1>1. ASSUME NEW c \in joined, c \in Capabilities
      PROVE  Faithful(c, in, w, shown[c], p2)
  <2>1. PICK s : s = shown[c] /\ Faithful(c, in, w, s, p)
    BY <1>1 DEF LinkInv
  <2>2. \A b \in AspectsOf[c] : Property(p2, b) = Property(p, b)
    BY <1>1, AspectParts
  <2>3. w \in SUBSET w
    OBVIOUS
  <2>4. Faithful(c, in, w, s, p2)
    BY <1>1, <2>1, <2>2, <2>3, FaithfulKept
  <2>5. QED  BY <2>1, <2>4
<1>2. Forward(in, shown[Transcript], p2)
  <2>1. p.text \in Nat /\ p2.text \in Nat /\ \A k \in DOMAIN in : Notice(in[k])
    BY DEF PlayerOK, LinkInv, Queued
  <2>2. PICK s : s = shown[Transcript]
    OBVIOUS
  <2>3. Forward(in, s, p)
    BY <2>2 DEF LinkInv
  <2>4. Forward(in, s, p2)
    BY <2>1, <2>3, ForwardKept
  <2>5. QED  BY <2>2, <2>4
<1>3. QED  BY <1>1, <1>2 DEF LinkInv

\* A message comes that is neither event nor properties.
LEMMA LinkAnswered ==
  ASSUME NEW p, NEW joined, NEW out, NEW in, NEW w, NEW shown, NEW n,
         LinkInv(p, joined, out, in, w, shown, n), PlayerOK(p),
         NEW m, m.type = "answer"
  PROVE  LinkInv(p, joined, out, Append(in, m), w, shown, n)
<1>1. Queued(out, in, w) /\ IsQueue(in) /\ \A k \in DOMAIN in : Notice(in[k])
  BY DEF LinkInv, Queued
<1>2. Notice(m) /\ ~CarriesText(m) /\ \A c : ~Answers(m, c) /\ ~Brings(m, c, w) /\ ~Tells(m, c)
  BY DEF Notice, CarriesText, Answers, Brings, Tells
<1>3. Queued(out, Append(in, m), w)
  BY <1>1, <1>2, QueuedSteps
<1>4. ASSUME NEW c \in Capabilities
      PROVE  /\ Numbered(c, out, Append(in, m), w, shown[c], n)
             /\ c \in joined => Faithful(c, Append(in, m), w, shown[c], p)
  <2>1. PICK s : s = shown[c] /\ Numbered(c, out, in, w, s, n)
                 /\ (c \in joined => Faithful(c, in, w, s, p))
    BY DEF LinkInv
  <2>2. ~Answers(m, c) /\ ~Brings(m, c, w)
        /\ \A b \in AspectsOf[c] : \/ Tells(m, b) /\ m.value = Property(p, b)
                                   \/ ~Tells(m, b) /\ Property(p, b) = Property(p, b)
    BY <1>2
  <2>3. Numbered(c, out, Append(in, m), w, s, n)
    BY <1>1, <2>1, <2>2, NumberedTold
  <2>4. c \in joined => Faithful(c, Append(in, m), w, s, p)
    BY <1>1, <2>1, <2>2, FaithfulTold
  <2>5. QED  BY <2>1, <2>3, <2>4
<1>5. Forward(Append(in, m), shown[Transcript], p)
  <2>1. PICK s : s = shown[Transcript]
    OBVIOUS
  <2>2. Forward(in, s, p) /\ p.text \in Nat /\ p.text <= p.text
    BY <2>1 DEF LinkInv, PlayerOK
  <2>3. Forward(Append(in, m), s, p)
    BY <1>1, <1>2, <2>2, ForwardTold
  <2>4. QED  BY <2>1, <2>3
<1>6. QED  BY <1>3, <1>4, <1>5 DEF LinkInv

\* An invocation is sent to the player.
LEMMA LinkSent ==
  ASSUME NEW p, NEW joined, NEW out, NEW in, NEW w, NEW shown, NEW n,
         LinkInv(p, joined, out, in, w, shown, n),
         NEW m, Request(m), m.type = "invoke"
  PROVE  LinkInv(p, joined, Append(out, m), in, w, shown, n)
<1>1. Queued(out, in, w)
  BY DEF LinkInv
<1>2. Queued(Append(out, m), in, w)
  BY <1>1, QueuedSteps
<1>3. ASSUME NEW c \in Capabilities
      PROVE  Numbered(c, Append(out, m), in, w, shown[c], n)
  <2>1. PICK s : s = shown[c] /\ Numbered(c, out, in, w, s, n)
    BY DEF LinkInv
  <2>2. ~Asks(m, c)
    BY DEF Asks
  <2>3. Numbered(c, Append(out, m), in, w, s, n)
    BY <1>1, <2>1, <2>2, NumberedSent
  <2>4. QED  BY <2>1, <2>3
<1>4. QED  BY <1>2, <1>3 DEF LinkInv

\* The player's client takes a message.
LEMMA LinkTaken ==
  ASSUME NEW p, NEW joined, NEW out, NEW in, NEW w, NEW shown, NEW n,
         LinkInv(p, joined, out, in, w, shown, n), out # <<>>
  PROVE  /\ LinkInv(p, joined, Tail(out), in, w, shown, n)
         /\ Request(Head(out)) /\ Head(out) = out[1]
<1>1. Queued(out, in, w)
  BY DEF LinkInv
<1>2. Queued(Tail(out), in, w) /\ Request(Head(out)) /\ Head(out) = out[1]
  BY <1>1, QueuedSteps
<1>3. ASSUME NEW c \in Capabilities
      PROVE  Numbered(c, Tail(out), in, w, shown[c], n)
  <2>1. PICK s : s = shown[c] /\ Numbered(c, out, in, w, s, n)
    BY DEF LinkInv
  <2>2. Numbered(c, Tail(out), in, w, s, n)
    BY <1>1, <2>1, NumberedTaken
  <2>3. QED  BY <2>1, <2>2
<1>4. QED  BY <1>2, <1>3 DEF LinkInv

\* The subtitle in an answer is the player's, and that of the proxy it makes.
LEMMA SubtitleParts ==
  /\ \A p, m : PlayerOK(p) /\ m.type = "properties" /\ m.value = Collect(Transcript, p) =>
       TextOf(m) = p.text
  /\ \A m : m.type = "properties" =>
       Created(Transcript, m.value)["current-text"] = TextOf(m)
  /\ \A c \in Capabilities : \A v : DOMAIN Created(c, v) = AspectsOf[c]
<1>1. ASSUME NEW p, NEW m, PlayerOK(p), m.type = "properties", m.value = Collect(Transcript, p)
      PROVE  TextOf(m) = p.text
  <2>1. m.value = [a \in {b \in AspectsOf[Transcript] : b = "current-text" => p.text # 0} |->
                     Property(p, a)]
    BY <1>1, AspectParts DEF Collect, CollectTranscript
  <2>2. "current-text" \in DOMAIN m.value <=> p.text # 0
    BY <2>1, AspectParts
  <2>3. p.text # 0 => m.value["current-text"] = p.text
    BY <2>1, AspectParts, PropertyParts
  <2>4. QED  BY <1>1, <2>2, <2>3 DEF TextOf
<1>2. ASSUME NEW m, m.type = "properties"
      PROVE  Created(Transcript, m.value)["current-text"] = TextOf(m)
  <2>1. PICK new : new = [a \in AspectsOf[Transcript] |-> Zero(a)]
    OBVIOUS
  <2>2. /\ DOMAIN new = AspectsOf[Transcript] /\ Transcript \in Capabilities
        /\ "current-text" \in AspectsOf[Transcript] /\ new["current-text"] = 0
    BY <2>1, AspectParts DEF Zero
  <2>3. \A v : ProxyEvent(new, "current-text", v)["current-text"] = v
    BY <2>2, ProxyEventParts
  <2>4. Created(Transcript, m.value)["current-text"] =
          IF "current-text" \in DOMAIN m.value
          THEN ProxyEvent(new, "current-text", m.value["current-text"])["current-text"]
          ELSE new["current-text"]
    BY <2>1, <2>2 DEF Created
  <2>5. QED  BY <1>2, <2>2, <2>3, <2>4 DEF TextOf
<1>3. \A c \in Capabilities : \A v : DOMAIN Created(c, v) = AspectsOf[c]
  BY DEF Created
<1>4. QED  BY <1>1, <1>2, <1>3

\* A registration is answered.
LEMMA LinkRegistered ==
  ASSUME NEW p, NEW joined, NEW out, NEW in, NEW w, NEW shown, NEW n,
         LinkInv(p, joined, out, in, w, shown, n), PlayerOK(p), out # <<>>,
         NEW c \in Capabilities, Asks(Head(out), c),
         NEW m, m.type = "properties", m.id = Head(out).id, m.capability = c,
         m.value = Collect(c, p)
  PROVE  LinkInv(p, joined \cup {c}, Tail(out), Append(in, m), w, shown, n)
<1>1. /\ Queued(out, in, w) /\ IsQueue(in) /\ \A k \in DOMAIN in : Notice(in[k])
      /\ Queued(Tail(out), in, w) /\ Request(Head(out)) /\ Head(out) = out[1]
  <2>1. Queued(out, in, w)
    BY DEF LinkInv
  <2>2. QED  BY <2>1, QueuedSteps DEF Queued
<1>2. 1 \in DOMAIN out /\ Head(out).id \in Nat
  BY <1>1, QueueTake, MessageParts DEF Queued
<1>3. \A d : (Answers(m, d) <=> d = c) /\ ~Tells(m, d)
  BY DEF Answers, Tells
<1>4. CarriesText(m) => TextOf(m) = p.text
  BY <1>3, SubtitleParts DEF CarriesText
<1>5. Queued(Tail(out), Append(in, m), w)
  <2>1. Notice(m)
    BY <1>2, <1>3, <1>4 DEF Notice, PlayerOK
  <2>2. QED  BY <1>1, <2>1, QueuedSteps
<1>6. ASSUME NEW d \in Capabilities
      PROVE  /\ Numbered(d, Tail(out), Append(in, m), w, shown[d], n)
             /\ d \in joined \cup {c} => Faithful(d, Append(in, m), w, shown[d], p)
  <2>1. PICK s : s = shown[d] /\ Numbered(d, out, in, w, s, n)
                 /\ (d \in joined => Faithful(d, in, w, s, p))
    BY DEF LinkInv
  <2>2. CASE d = c
    <3>1. Numbered(d, Tail(out), Append(in, m), w, s, n)
      BY <1>1, <2>1, <2>2, NumberedAnswered
    <3>2. s = NoProxy /\ \A j \in DOMAIN in : ~Brings(in[j], d, w)
      <4>1. /\ s = NoProxy
            /\ \A j \in DOMAIN in : Answers(in[j], d) => in[j].id < out[1].id
            /\ \A i \in Nat : <<i, d>> \in w => out[1].id <= i
        BY <1>1, <1>2, <2>1, <2>2 DEF Numbered
      <4>2. ASSUME NEW j \in DOMAIN in, Brings(in[j], d, w)
            PROVE  FALSE
        <5>1. in[j].id \in Nat /\ out[1].id \in Nat
          BY <1>1, <1>2, <4>2, QueuedIds DEF Brings
        <5>2. in[j].id < out[1].id /\ out[1].id <= in[j].id
          BY <4>1, <4>2, <5>1 DEF Brings
        <5>3. QED  BY <5>1, <5>2
      <4>3. QED  BY <4>1, <4>2
    <3>3. Faithful(d, Append(in, m), w, NoProxy, p)
      BY <1>1, <2>2, <3>2, FaithfulAnswered
    <3>4. QED  BY <2>1, <3>1, <3>2, <3>3
  <2>3. CASE d # c
    <3>1. ~Answers(m, d) /\ ~Brings(m, d, w)
      BY <1>3, <2>3 DEF Brings
    <3>2. \A b \in AspectsOf[d] : \/ Tells(m, b) /\ m.value = Property(p, b)
                                  \/ ~Tells(m, b) /\ Property(p, b) = Property(p, b)
      BY <1>3
    <3>3. Numbered(d, Tail(out), in, w, s, n)
      BY <1>1, <2>1, NumberedTaken
    <3>4. Numbered(d, Tail(out), Append(in, m), w, s, n)
      BY <1>1, <3>1, <3>3, NumberedTold
    <3>5. d \in joined => Faithful(d, Append(in, m), w, s, p)
      BY <1>1, <2>1, <3>1, <3>2, FaithfulTold
    <3>6. QED  BY <2>1, <2>3, <3>4, <3>5
  <2>4. QED  BY <2>2, <2>3
<1>7. Forward(Append(in, m), shown[Transcript], p)
  <2>1. PICK s : s = shown[Transcript]
    OBVIOUS
  <2>2. Forward(in, s, p) /\ p.text \in Nat /\ p.text <= p.text
    BY <2>1 DEF LinkInv, PlayerOK
  <2>3. Forward(Append(in, m), s, p)
    BY <1>1, <1>4, <2>2, ForwardTold
  <2>4. QED  BY <2>1, <2>3
<1>8. QED  BY <1>5, <1>6, <1>7 DEF LinkInv

\* The service of the player turns up, and a proxy of each capability is asked
\* for.
LEMMA LinkAsked ==
  ASSUME NEW p, NEW joined, NEW out, NEW in, NEW shown, NEW n \in Nat,
         LinkInv(p, joined, out, in, {}, shown, n),
         \A c \in Capabilities : shown[c] = NoProxy,
         NEW m, Asks(m, Player), m.id = n, NEW h, Asks(h, Transcript), h.id = n
  PROVE  LinkInv(p, joined, out \o <<m, h>>, in, {<<n, c>> : c \in Capabilities}, shown, n + 1)
<1>1. PICK w : w = {<<n, c>> : c \in Capabilities}
  OBVIOUS
<1>2. /\ w \in SUBSET (Nat \X Capabilities) /\ n + 1 \in Nat /\ n <= n + 1
      /\ \A i, c : <<i, c>> \in w => i = n
      /\ {} \in SUBSET w /\ w \in SUBSET w
  BY <1>1
<1>3. Queued(out, in, {}) /\ IsQueue(out) /\ Request(m) /\ Request(h)
  BY AspectParts DEF LinkInv, Queued, Request
<1>4. Queued(Append(out, m), in, {})
  BY <1>3, QueuedSteps
<1>5. out \o <<m, h>> = Append(Append(out, m), h)
  BY <1>3, QueueAddTwo
<1>6. Queued(Append(Append(out, m), h), in, w)
  <2>1. Queued(Append(Append(out, m), h), in, {})
    BY <1>3, <1>4, QueuedSteps
  <2>2. QED  BY <1>2, <2>1 DEF Queued
<1>7. ~Asks(m, Transcript) /\ ~Asks(h, Player)
  BY AspectParts DEF Asks
<1>8. Numbered(Player, Append(Append(out, m), h), in, w, NoProxy, n + 1)
  <2>1. Numbered(Player, out, in, {}, NoProxy, n)
    BY AspectParts DEF LinkInv
  <2>2. Numbered(Player, Append(out, m), in, w, NoProxy, n + 1)
    BY <1>2, <1>3, <2>1, NumberedAsked
  <2>3. Queued(Append(out, m), in, w)
    BY <1>2, <1>4 DEF Queued
  <2>4. QED  BY <1>7, <2>2, <2>3, NumberedSent
<1>9. Numbered(Transcript, Append(Append(out, m), h), in, w, NoProxy, n + 1)
  <2>1. Numbered(Transcript, out, in, {}, NoProxy, n)
    BY AspectParts DEF LinkInv
  <2>2. Numbered(Transcript, Append(out, m), in, {}, NoProxy, n)
    BY <1>3, <1>7, <2>1, NumberedSent
  <2>3. QED  BY <1>2, <1>4, <2>2, NumberedAsked
<1>10. \A c \in Capabilities : Numbered(c, Append(Append(out, m), h), in, w, shown[c], n + 1)
  BY <1>8, <1>9, AspectParts
<1>11. ASSUME NEW c \in Capabilities, c \in joined
       PROVE  Faithful(c, in, w, shown[c], p)
  <2>1. \A j \in DOMAIN in : Answers(in[j], c) => in[j].id < n /\ in[j].id \in Nat
    BY <1>3, QueuedIds DEF LinkInv, Numbered
  <2>2. \A j \in DOMAIN in : ~Brings(in[j], c, w)
    BY <1>2, <2>1 DEF Brings
  <2>3. QED  BY <2>2 DEF Faithful
<1>12. QED  BY <1>1, <1>5, <1>6, <1>10, <1>11 DEF LinkInv

\* The answer that is waited for arrives and makes a proxy.
LEMMA LinkCreated ==
  ASSUME NEW p, NEW joined, NEW out, NEW in, NEW w, NEW shown, NEW n,
         LinkInv(p, joined, out, in, w, shown, n), in # <<>>,
         NEW c \in Capabilities, Brings(Head(in), c, w),
         NEW s, s[c] = Created(c, Head(in).value),
         \A d \in Capabilities \ {c} : s[d] = shown[d]
  PROVE  LinkInv(p, joined, out, Tail(in), w \ {<<Head(in).id, c>>}, s, n)
<1>1. PICK x : x = w \ {<<Head(in).id, c>>} /\ x \in SUBSET w
  OBVIOUS
<1>2. /\ Queued(out, in, w) /\ Queued(out, Tail(in), w) /\ Notice(Head(in))
      /\ Head(in) = in[1] /\ IsQueue(in) /\ \A k \in DOMAIN in : Notice(in[k])
  <2>1. Queued(out, in, w)
    BY DEF LinkInv
  <2>2. QED  BY <2>1, QueuedSteps DEF Queued
<1>3. Head(in).type = "properties" /\ Answers(Head(in), c) /\ \A a : ~Tells(Head(in), a)
  BY DEF Brings, Answers, Tells
<1>4. Queued(out, Tail(in), x)
  BY <1>1, <1>2 DEF Queued
<1>5. ASSUME NEW d \in Capabilities
      PROVE  /\ s[d] # NoProxy => DOMAIN s[d] = AspectsOf[d]
             /\ Numbered(d, out, Tail(in), x, s[d], n)
             /\ d \in joined => Faithful(d, Tail(in), x, s[d], p)
  <2>1. PICK q : q = shown[d] /\ Numbered(d, out, in, w, q, n)
                 /\ (d \in joined => Faithful(d, in, w, q, p))
                 /\ (q # NoProxy => DOMAIN q = AspectsOf[d])
    BY DEF LinkInv
  <2>2. CASE d = c
    <3>1. PICK z : z = s[d]
      OBVIOUS
    <3>2. Numbered(d, out, Tail(in), x, z, n)
      <4>1. Numbered(d, out, Tail(in), w \ {<<Head(in).id, d>>}, z, n)
        BY <1>2, <2>1, <2>2, NumberedCreated
      <4>2. QED  BY <1>1, <2>2, <4>1
    <3>3. d \in joined => Faithful(d, Tail(in), x, Created(d, Head(in).value), p)
      BY <1>1, <1>2, <2>1, <2>2, FaithfulCreated
    <3>4. QED  BY <2>2, <3>1, <3>2, <3>3, SubtitleParts
  <2>3. CASE d # c
    <3>1. Numbered(d, out, Tail(in), x, q, n)
      <4>1. Numbered(d, out, Tail(in), w, q, n)
        BY <1>2, <2>1, NumberedTaken
      <4>2. QED  BY <1>1, <4>1 DEF Numbered
    <3>2. d \in joined => Faithful(d, Tail(in), x, q, p)
      <4>1. d \in joined => Faithful(d, Tail(in), w, q, p)
        BY <1>2, <1>3, <2>1, FaithfulIgnored
      <4>2. QED  BY <1>1, <4>1 DEF Faithful, Brings
    <3>3. QED  BY <2>1, <2>3, <3>1, <3>2
  <2>4. QED  BY <2>2, <2>3
<1>6. Forward(Tail(in), s[Transcript], p)
  <2>1. PICK q, z : q = shown[Transcript] /\ z = s[Transcript]
    OBVIOUS
  <2>2. Forward(in, q, p)
    BY <2>1 DEF LinkInv
  <2>3. \/ z = NoProxy \/ (q # NoProxy /\ z["current-text"] = q["current-text"])
        \/ CarriesText(Head(in)) /\ z["current-text"] = TextOf(Head(in))
    BY <1>3, <2>1, AspectParts, SubtitleParts DEF CarriesText
  <2>4. Forward(Tail(in), z, p)
    BY <1>2, <2>2, <2>3, ForwardTaken
  <2>5. QED  BY <2>1, <2>4
<1>7. QED  BY <1>1, <1>4, <1>5, <1>6 DEF LinkInv

\* An event arrives at a proxy.
LEMMA LinkHeard ==
  ASSUME NEW p, NEW joined, NEW out, NEW in, NEW w, NEW shown, NEW n,
         LinkInv(p, joined, out, in, w, shown, n), PlayerOK(p), in # <<>>,
         NEW c \in Capabilities, NEW a \in AspectsOf[c], Tells(Head(in), a), shown[c] # NoProxy,
         NEW s, s[c] = ProxyEvent(shown[c], a, Head(in).value),
         \A d \in Capabilities \ {c} : s[d] = shown[d]
  PROVE  LinkInv(p, joined, out, Tail(in), w, s, n)
<1>1. /\ Queued(out, in, w) /\ Queued(out, Tail(in), w) /\ Notice(Head(in))
      /\ Head(in) = in[1] /\ IsQueue(in) /\ \A k \in DOMAIN in : Notice(in[k])
  <2>1. Queued(out, in, w)
    BY DEF LinkInv
  <2>2. QED  BY <2>1, QueuedSteps DEF Queued
<1>2. /\ \A b : Tells(Head(in), b) <=> b = a
      /\ \A d \in Capabilities : d # c => \A b \in AspectsOf[d] : ~Tells(Head(in), b)
  <2>1. \A b : Tells(Head(in), b) <=> b = a
    BY DEF Tells
  <2>2. \A d \in Capabilities : d # c => a \notin AspectsOf[d]
    BY AspectParts
  <2>3. QED  BY <2>1, <2>2
<1>3. PICK q : q = shown[c] /\ DOMAIN q = AspectsOf[c] /\ q # NoProxy
  BY DEF LinkInv
<1>4. PICK v, z : v = Head(in).value /\ z = ProxyEvent(q, a, v) /\ z = s[c]
  BY <1>3
<1>5. /\ DOMAIN z = AspectsOf[c]
      /\ \A b \in AspectsOf[c] \ {a} : z[b] = q[b]
      /\ a # "volume" => z[a] = v
  BY <1>3, <1>4, ProxyEventParts
<1>6. ASSUME NEW d \in Capabilities
      PROVE  /\ s[d] # NoProxy => DOMAIN s[d] = AspectsOf[d]
             /\ Numbered(d, out, Tail(in), w, s[d], n)
             /\ d \in joined => Faithful(d, Tail(in), w, s[d], p)
  <2>1. PICK x : x = shown[d] /\ Numbered(d, out, in, w, x, n)
                 /\ (d \in joined => Faithful(d, in, w, x, p))
                 /\ (x # NoProxy => DOMAIN x = AspectsOf[d])
    BY DEF LinkInv
  <2>2. Numbered(d, out, Tail(in), w, x, n)
    BY <1>1, <2>1, NumberedTaken
  <2>3. CASE d = c
    <3>1. x = q /\ s[d] = z
      BY <1>3, <1>4, <2>1, <2>3
    <3>2. Numbered(d, out, Tail(in), w, z, n)
      BY <1>3, <2>2, <3>1 DEF Numbered
    <3>3. d \in joined => Faithful(d, Tail(in), w, ProxyEvent(q, a, Head(in).value), p)
      <4>1. ASSUME c \in joined
            PROVE  Faithful(c, Tail(in), w, ProxyEvent(q, a, Head(in).value), p)
        <5>1. Faithful(c, in, w, q, p)
          BY <2>1, <2>3, <3>1, <4>1
        <5>2. QED  BY <1>1, <1>3, <5>1, FaithfulHeard
      <4>2. QED  BY <2>3, <4>1
    <3>4. QED  BY <1>4, <1>5, <2>3, <3>1, <3>2, <3>3
  <2>4. CASE d # c
    <3>1. d \in joined => Faithful(d, Tail(in), w, x, p)
      BY <1>1, <1>2, <2>1, <2>4, FaithfulIgnored
    <3>2. QED  BY <2>1, <2>2, <2>4, <3>1
  <2>5. QED  BY <2>3, <2>4
<1>7. Forward(Tail(in), s[Transcript], p)
  <2>1. PICK x, y : x = shown[Transcript] /\ y = s[Transcript]
    OBVIOUS
  <2>2. Forward(in, x, p)
    BY <2>1 DEF LinkInv
  <2>3. \/ y = NoProxy \/ (x # NoProxy /\ y["current-text"] = x["current-text"])
        \/ CarriesText(Head(in)) /\ y["current-text"] = TextOf(Head(in))
    <3>1. CASE c # Transcript
      BY <2>1, <3>1, AspectParts
    <3>2. CASE c = Transcript /\ a # "current-text"
      <4>1. "current-text" \in AspectsOf[c] \ {a}
        BY <3>2, AspectParts
      <4>2. QED  BY <1>3, <1>4, <1>5, <2>1, <3>2, <4>1
    <3>3. CASE c = Transcript /\ a = "current-text"
      <4>1. y["current-text"] = v
        BY <1>4, <1>5, <2>1, <3>3
      <4>2. CarriesText(Head(in)) /\ TextOf(Head(in)) = v
        BY <1>4, <3>3 DEF CarriesText, TextOf, Tells
      <4>3. QED  BY <4>1, <4>2
    <3>4. QED  BY <3>1, <3>2, <3>3
  <2>4. Forward(Tail(in), y, p)
    BY <1>1, <2>2, <2>3, ForwardTaken
  <2>5. QED  BY <2>1, <2>4
<1>8. QED  BY <1>1, <1>6, <1>7 DEF LinkInv

\* A message arrives that is for no proxy, and no answer that is waited for.
LEMMA LinkIgnored ==
  ASSUME NEW p, NEW joined, NEW out, NEW in, NEW w, NEW shown, NEW n,
         LinkInv(p, joined, out, in, w, shown, n), in # <<>>,
         \A c \in Capabilities : shown[c] # NoProxy =>
           \A a \in AspectsOf[c] : ~Tells(Head(in), a)
  PROVE  LinkInv(p, joined, out, Tail(in), w, shown, n)
<1>1. /\ Queued(out, in, w) /\ Queued(out, Tail(in), w)
      /\ IsQueue(in) /\ \A k \in DOMAIN in : Notice(in[k])
  <2>1. Queued(out, in, w)
    BY DEF LinkInv
  <2>2. QED  BY <2>1, QueuedSteps DEF Queued
<1>2. ASSUME NEW c \in Capabilities
      PROVE  /\ Numbered(c, out, Tail(in), w, shown[c], n)
             /\ c \in joined => Faithful(c, Tail(in), w, shown[c], p)
  <2>1. PICK s : s = shown[c] /\ Numbered(c, out, in, w, s, n)
                 /\ (c \in joined => Faithful(c, in, w, s, p))
    BY DEF LinkInv
  <2>2. Numbered(c, out, Tail(in), w, s, n)
    BY <1>1, <2>1, NumberedTaken
  <2>3. c \in joined => Faithful(c, Tail(in), w, s, p)
    BY <1>1, <2>1, FaithfulIgnored
  <2>4. QED  BY <2>1, <2>2, <2>3
<1>3. Forward(Tail(in), shown[Transcript], p)
  <2>1. PICK s : s = shown[Transcript]
    OBVIOUS
  <2>2. Forward(in, s, p)
    BY <2>1 DEF LinkInv
  <2>3. s = NoProxy \/ (s # NoProxy /\ s["current-text"] = s["current-text"])
    OBVIOUS
  <2>4. Forward(Tail(in), s, p)
    BY <1>1, <2>2, <2>3, ForwardTaken
  <2>5. QED  BY <2>1, <2>4
<1>4. QED  BY <1>1, <1>2, <1>3 DEF LinkInv

-----------------------------------------------------------------------------
(* The player *)

\* What its operations make of it: a player, with one property changed.
LEMMA PlayerParts ==
  ASSUME NEW p, PlayerOK(p)
  PROVE  /\ \A b \in BOOLEAN :
              /\ PlayerOK(SetPlaying(p, b)) /\ SetPlaying(p, b).text = p.text
              /\ \A a \in Aspects \ {"playing"} : Property(SetPlaying(p, b), a) = Property(p, a)
         /\ \A v \in Nat :
              /\ PlayerOK(SetVolume(p, v)) /\ SetVolume(p, v).text = p.text
              /\ \A a \in Aspects \ {"volume"} : Property(SetVolume(p, v), a) = Property(p, a)
         /\ \A u \in Uris :
              /\ PlayerOK(SetUri(p, u)) /\ SetUri(p, u).text = p.text
              /\ \A a \in Aspects \ {"playable-uri"} : Property(SetUri(p, u), a) = Property(p, a)
         /\ \A l :
              /\ PlayerOK(SetLocale(p, l)) /\ SetLocale(p, l).text = p.text
              /\ \A a \in Aspects \ {"locale"} : Property(SetLocale(p, l), a) = Property(p, a)
         /\ \A m :
              /\ PlayerOK(Skipped(p, m)) /\ Skipped(p, m).text = p.text
              /\ \A a \in Aspects : Property(Skipped(p, m), a) = Property(p, a)
<1>1. ASSUME NEW b \in BOOLEAN
      PROVE  /\ PlayerOK(SetPlaying(p, b)) /\ SetPlaying(p, b).text = p.text
             /\ \A a \in Aspects \ {"playing"} : Property(SetPlaying(p, b), a) = Property(p, a)
  <2>1. PICK q : q = SetPlaying(p, b)
    OBVIOUS
  <2>2. PlayerOK(q)
    <3>1. CASE b = p.playing
      BY <2>1, <3>1 DEF SetPlaying
    <3>2. CASE b # p.playing
      <4>1. q = [p EXCEPT !.playing = b, !.timers = IF b THEN p.timers + 1 ELSE p.timers]
        BY <2>1, <3>2 DEF SetPlaying
      <4>2. PICK t \in Nat : t = (IF b THEN p.timers + 1 ELSE p.timers) /\ (b => t > 0)
        <5>1. p.timers \in Nat
          BY DEF PlayerOK
        <5>2. QED  BY <5>1
      <4>3. q = [p EXCEPT !.playing = b, !.timers = t]
        BY <4>1, <4>2
      <4>4. QED  BY <4>2, <4>3 DEF PlayerOK
    <3>3. QED  BY <3>1, <3>2
  <2>3. /\ q.volume = p.volume /\ q.uri = p.uri /\ q.text = p.text /\ q.locale = p.locale
    BY <2>1 DEF SetPlaying, PlayerOK
  <2>4. \A a \in Aspects \ {"playing"} : Property(q, a) = Property(p, a)
    BY <2>3, PropertyParts DEF Aspects, PlayerAspects, TranscriptAspects
  <2>5. QED  BY <2>1, <2>2, <2>3, <2>4
<1>2. ASSUME NEW v \in Nat
      PROVE  /\ PlayerOK(SetVolume(p, v)) /\ SetVolume(p, v).text = p.text
             /\ \A a \in Aspects \ {"volume"} : Property(SetVolume(p, v), a) = Property(p, a)
  <2>1. PICK q : q = SetVolume(p, v)
    OBVIOUS
  <2>2. PlayerOK(q)
    BY <2>1 DEF SetVolume, PlayerOK
  <2>3. /\ q.playing = p.playing /\ q.uri = p.uri /\ q.text = p.text /\ q.locale = p.locale
    BY <2>1 DEF SetVolume, PlayerOK
  <2>4. \A a \in Aspects \ {"volume"} : Property(q, a) = Property(p, a)
    BY <2>3, PropertyParts DEF Aspects, PlayerAspects, TranscriptAspects
  <2>5. QED  BY <2>1, <2>2, <2>3, <2>4
<1>3. ASSUME NEW u \in Uris
      PROVE  /\ PlayerOK(SetUri(p, u)) /\ SetUri(p, u).text = p.text
             /\ \A a \in Aspects \ {"playable-uri"} : Property(SetUri(p, u), a) = Property(p, a)
  <2>1. PICK q : q = SetUri(p, u)
    OBVIOUS
  <2>2. PlayerOK(q)
    BY <2>1 DEF SetUri, PlayerOK
  <2>3. /\ q.playing = p.playing /\ q.volume = p.volume /\ q.text = p.text /\ q.locale = p.locale
    BY <2>1 DEF SetUri, PlayerOK
  <2>4. \A a \in Aspects \ {"playable-uri"} : Property(q, a) = Property(p, a)
    BY <2>3, PropertyParts DEF Aspects, PlayerAspects, TranscriptAspects
  <2>5. QED  BY <2>1, <2>2, <2>3, <2>4
<1>4. ASSUME NEW l
      PROVE  /\ PlayerOK(SetLocale(p, l)) /\ SetLocale(p, l).text = p.text
             /\ \A a \in Aspects \ {"locale"} : Property(SetLocale(p, l), a) = Property(p, a)
  <2>1. PICK q : q = SetLocale(p, l)
    OBVIOUS
  <2>2. \/ q = p
        \/ \E i \in DOMAIN Locales : q = [p EXCEPT !.locale = i]
    BY <2>1 DEF SetLocale
  <2>3. \A i \in DOMAIN Locales : i \in Nat
    BY LenProperties, VideoProfileAssumption
  <2>4. PlayerOK(q)
    BY <2>2, <2>3 DEF PlayerOK
  <2>5. /\ q.playing = p.playing /\ q.volume = p.volume /\ q.text = p.text /\ q.uri = p.uri
    BY <2>2 DEF PlayerOK
  <2>6. \A a \in Aspects \ {"locale"} : Property(q, a) = Property(p, a)
    BY <2>5, PropertyParts DEF Aspects, PlayerAspects, TranscriptAspects
  <2>7. QED  BY <2>1, <2>4, <2>5, <2>6
<1>5. ASSUME NEW m
      PROVE  /\ PlayerOK(Skipped(p, m)) /\ Skipped(p, m).text = p.text
             /\ \A a \in Aspects : Property(Skipped(p, m), a) = Property(p, a)
  <2>1. PICK q : q = Skipped(p, m)
    OBVIOUS
  <2>2. q = p \/ \E t \in Nat : t < Tracks /\ q = [p EXCEPT !.current = t]
    <3>1. p.current \in Nat /\ p.current < Tracks /\ Tracks \in Nat
      BY VideoProfileAssumption DEF PlayerOK
    <3>2. /\ p.current + 1 < Tracks => p.current + 1 \in Nat
          /\ p.current > 0 => p.current - 1 \in Nat /\ p.current - 1 < Tracks
      BY <3>1
    <3>3. QED  BY <2>1, <3>1, <3>2 DEF Skipped, NextTrack, PrevTrack
  <2>3. PlayerOK(q)
    BY <2>2 DEF PlayerOK
  <2>4. /\ q.playing = p.playing /\ q.volume = p.volume /\ q.uri = p.uri /\ q.text = p.text
        /\ q.locale = p.locale
    BY <2>2 DEF PlayerOK
  <2>5. \A a \in Aspects : Property(q, a) = Property(p, a)
    BY <2>4, PropertyParts DEF Aspects, PlayerAspects, TranscriptAspects
  <2>6. QED  BY <2>1, <2>3, <2>4, <2>5
<1>6. QED  BY <1>1, <1>2, <1>3, <1>4, <1>5

-----------------------------------------------------------------------------
(* What holds at first *)

LEMMA VideoInitInv == Init => VideoInv
<1>1. SUFFICES ASSUME Init PROVE VideoInv
  OBVIOUS
<1>2. PlayerOK(player)
  <2>1. 1 \in DOMAIN Locales
    <3>1. Locales \in Seq(STRING) /\ Locales # <<>>
      BY VideoProfileAssumption
    <3>2. Len(Locales) \in Nat \ {0} /\ DOMAIN Locales = 1..Len(Locales)
      BY <3>1, EmptySeq, LenProperties
    <3>3. QED  BY <3>2
  <2>2. player = [current |-> 0, playing |-> FALSE, timers |-> 0, volume |-> 0, uri |-> NoUri,
                  text |-> 0, locale |-> 1]
    BY <1>1 DEF Init, NewPlayer
  <2>3. QED  BY <2>1, <2>2, VideoProfileAssumption DEF PlayerOK
<1>3. Tables
  BY <1>1 DEF Init, Tables
<1>4. Standing
  BY <1>1 DEF Init, Standing
<1>5. ASSUME NEW r \in Remotes PROVE Link(r)
  <2>1. /\ to_player[r] = <<>> /\ to_remote[r] = <<>> /\ pending[r] = {}
        /\ \A c \in Capabilities : proxies[r][c] = NoProxy
    BY <1>1 DEF Init
  <2>2. IsQueue(<<>>) /\ DOMAIN <<>> = {}
    BY QueueEmpty
  <2>3. Queued(<<>>, <<>>, {})
    BY <2>2 DEF Queued
  <2>4. ASSUME NEW c \in Capabilities
        PROVE  Numbered(c, <<>>, <<>>, {}, NoProxy, uses) /\ Faithful(c, <<>>, {}, NoProxy, player)
    BY <2>2 DEF Numbered, Faithful
  <2>5. Forward(<<>>, NoProxy, player)
    BY <2>2 DEF Forward
  <2>6. QED  BY <2>1, <2>3, <2>4, <2>5, AspectParts DEF Link, LinkInv
<1>6. QED  BY <1>2, <1>3, <1>4, <1>5 DEF VideoInv

-----------------------------------------------------------------------------
(* The steps *)

\* A link nothing happens to.
LEMMA OthersKept ==
  ASSUME VideoInv, PlayerOK(player'),
         \A a \in Aspects : Property(player', a) = Property(player, a),
         uses' \in Nat, uses <= uses',
         NEW x \in Remotes, \A c \in Capabilities : x \in registered'[c] => x \in registered[c],
         to_player'[x] = to_player[x], to_remote'[x] = to_remote[x],
         pending'[x] = pending[x], proxies'[x] = proxies[x]
  PROVE  Link(x)'
<1>1. PICK p, joined, out, in, w, s, n :
        /\ p = player /\ joined = Joined(x) /\ out = to_player[x] /\ in = to_remote[x]
        /\ w = pending[x] /\ s = proxies[x] /\ n = uses /\ n \in Nat
        /\ LinkInv(p, joined, out, in, w, s, n) /\ PlayerOK(p)
  BY DEF VideoInv, Link, Standing
<1>2. PICK p2, joined2, u :
        /\ p2 = player' /\ joined2 = Joined(x)' /\ u = uses' /\ u \in Nat /\ n <= u
        /\ PlayerOK(p2) /\ joined2 \in SUBSET joined
        /\ \A a \in Aspects : Property(p2, a) = Property(p, a)
  BY <1>1 DEF Joined
<1>3. LinkInv(p2, joined2, out, in, w, s, u)
  BY <1>1, <1>2, LinkKept
<1>4. QED  BY <1>1, <1>2, <1>3 DEF Link

\* One who does not run has nothing: what it is sent is for nobody.
LEMMA AwayParts ==
  ASSUME VideoInv, NEW r \in Remotes, r \notin running \/ r \notin present
  PROVE  pending[r] = {} /\ \A c \in Capabilities : proxies[r][c] = NoProxy
  BY DEF VideoInv, Standing

\* A property is notified, after a message was taken or none.
LEMMA AnnouncedInv ==
  ASSUME VideoInv, PlayerOK(player'), player.text <= player'.text, NEW a \in Aspects,
         \A b \in Aspects \ {a} : Property(player', b) = Property(player, b),
         Announce(player', a), DOMAIN to_player' = Remotes,
         \A x \in Remotes :
           LinkInv(player, Joined(x), to_player'[x], to_remote[x], pending[x], proxies[x], uses),
         UNCHANGED <<known, registered, process_vars, service_vars, uses>>
  PROVE  VideoInv'
<1>1. /\ DOMAIN to_remote' = Remotes
      /\ \A x \in Remotes : to_remote'[x] =
           IF x \in registered[CapabilityOf(a)] /\ x \in running
           THEN Append(to_remote[x], Event(player', a)) ELSE to_remote[x]
  BY DEF Announce, Deliver, Aspects, PlayerAspects, TranscriptAspects,
         FollowedPlayer, FollowedTranscript
<1>2. CapabilityOf(a) \in Capabilities
  BY AspectParts
<1>3. ASSUME NEW x \in Remotes PROVE Link(x)'
  <2>1. PICK p, joined, out, in, w, s, n :
          /\ p = player /\ joined = Joined(x) /\ out = to_player'[x] /\ in = to_remote[x]
          /\ w = pending[x] /\ s = proxies[x] /\ n = uses /\ n \in Nat
          /\ LinkInv(p, joined, out, in, w, s, n) /\ PlayerOK(p)
    BY DEF VideoInv, Standing
  <2>2. PICK p2 : /\ p2 = player' /\ PlayerOK(p2) /\ p.text <= p2.text
                  /\ \A b \in Aspects \ {a} : Property(p2, b) = Property(p, b)
    BY <2>1
  <2>3. /\ Joined(x)' = joined /\ to_player'[x] = out /\ pending'[x] = w /\ proxies'[x] = s
        /\ uses' = n /\ (CapabilityOf(a) \in joined <=> x \in registered[CapabilityOf(a)])
    BY <1>2, <2>1 DEF Joined, service_vars
  <2>4. CASE CapabilityOf(a) \in joined /\ x \in running
    <3>1. LinkInv(p2, joined, out, Append(in, Event(p2, a)), w, s, n)
      BY <2>1, <2>2, LinkTold
    <3>2. to_remote'[x] = Append(in, Event(p2, a))
      BY <1>1, <2>1, <2>2, <2>3, <2>4
    <3>3. QED  BY <2>2, <2>3, <3>1, <3>2 DEF Link
  <2>5. CASE CapabilityOf(a) \in joined /\ x \notin running
    <3>1. w = {} /\ \A c \in Capabilities : s[c] = NoProxy
      BY <2>1, <2>5, AwayParts
    <3>2. n <= n /\ (in = in \/ in = <<>>)
      BY <2>1
    <3>3. LinkInv(p2, joined, out, in, {}, s, n)
      BY <2>1, <2>2, <3>1, <3>2, LinkAway
    <3>4. to_remote'[x] = in
      BY <1>1, <2>1, <2>5
    <3>5. QED  BY <2>2, <2>3, <3>1, <3>3, <3>4 DEF Link
  <2>6. CASE CapabilityOf(a) \notin joined
    <3>1. LinkInv(p2, joined, out, in, w, s, n)
      BY <2>1, <2>2, <2>6, LinkUntold
    <3>2. to_remote'[x] = in
      BY <1>1, <2>1, <2>3, <2>6
    <3>3. QED  BY <2>2, <2>3, <3>1, <3>2 DEF Link
  <2>7. QED  BY <2>4, <2>5, <2>6
<1>4. Tables'
  BY <1>1 DEF VideoInv, Tables, process_vars, service_vars
<1>5. Standing'
  BY DEF VideoInv, Standing, process_vars, service_vars
<1>6. QED  BY <1>3, <1>4, <1>5 DEF VideoInv

LEMMA TimerInv ==
  ASSUME VideoInv, TimerFires
  PROVE  VideoInv'
<1>1. /\ UNCHANGED <<known, registered, process_vars, service_vars, to_player, uses>>
      /\ player.timers > 0 /\ PlayerOK(player) /\ uses \in Nat
  BY DEF TimerFires, VideoInv, Standing
<1>2. CASE player.playing
  <2>1. /\ player.text < MaxTexts /\ player' = [player EXCEPT !.text = @ + 1]
        /\ Announce(player', "current-text")
    BY <1>2 DEF TimerFires
  <2>2. PlayerOK(player') /\ player'.text = player.text + 1 /\ player.text \in Nat
    <3>1. player.text \in Nat
      BY <1>1 DEF PlayerOK
    <3>2. PICK t \in Nat : t = player.text + 1 /\ t <= MaxTexts
      BY <2>1, <3>1, VideoProfileAssumption
    <3>3. player' = [player EXCEPT !.text = t]
      BY <2>1, <3>2
    <3>4. PlayerOK(player') /\ player'.text = t
      BY <1>1, <3>2, <3>3 DEF PlayerOK
    <3>5. QED  BY <3>1, <3>2, <3>4
  <2>3. /\ player'.playing = player.playing /\ player'.volume = player.volume
        /\ player'.uri = player.uri /\ player'.locale = player.locale
    BY <1>1, <2>1 DEF PlayerOK
  <2>4. \A b \in Aspects \ {"current-text"} : Property(player', b) = Property(player, b)
    BY <2>3, PropertyParts DEF Aspects, PlayerAspects, TranscriptAspects
  <2>5. player.text <= player'.text /\ "current-text" \in Aspects
    BY <2>2 DEF Aspects, TranscriptAspects
  <2>6. /\ DOMAIN to_player' = Remotes
        /\ \A x \in Remotes :
             LinkInv(player, Joined(x), to_player'[x], to_remote[x], pending[x], proxies[x], uses)
    BY <1>1 DEF VideoInv, Tables, Link
  <2>7. UNCHANGED <<known, registered, process_vars, service_vars, uses>>
    BY <1>1
  <2>8. QED  BY <2>1, <2>2, <2>4, <2>5, <2>6, <2>7, AnnouncedInv
<1>3. CASE ~player.playing
  <2>1. player' = [player EXCEPT !.timers = @ - 1] /\ UNCHANGED to_remote
    BY <1>3 DEF TimerFires
  <2>2. PlayerOK(player')
    BY <1>1, <1>3, <2>1 DEF PlayerOK
  <2>3. /\ player'.playing = player.playing /\ player'.volume = player.volume
        /\ player'.uri = player.uri /\ player'.locale = player.locale /\ player'.text = player.text
    BY <1>1, <2>1 DEF PlayerOK
  <2>4. \A b \in Aspects : Property(player', b) = Property(player, b)
    BY <2>3, PropertyParts DEF Aspects, PlayerAspects, TranscriptAspects
  <2>5. uses' \in Nat /\ uses <= uses'
    BY <1>1
  <2>6. ASSUME NEW x \in Remotes PROVE Link(x)'
    BY <1>1, <2>1, <2>2, <2>4, <2>5, OthersKept DEF service_vars
  <2>7. Tables' /\ Standing'
    BY <1>1, <2>1 DEF VideoInv, Tables, Standing, process_vars, service_vars
  <2>8. QED  BY <2>2, <2>6, <2>7 DEF VideoInv
<1>4. QED  BY <1>2, <1>3

\* The player is left as it is, and so are the links but that of one.
LEMMA OneLink ==
  ASSUME VideoInv, PlayerOK(player'),
         \A a \in Aspects : Property(player', a) = Property(player, a),
         uses' \in Nat, uses <= uses',
         NEW r \in Remotes,
         \A x \in Remotes \ {r} :
           /\ \A c \in Capabilities : x \in registered'[c] => x \in registered[c]
           /\ to_player'[x] = to_player[x] /\ to_remote'[x] = to_remote[x]
           /\ pending'[x] = pending[x] /\ proxies'[x] = proxies[x],
         Link(r)', Tables', Standing'
  PROVE  VideoInv'
<1>1. ASSUME NEW x \in Remotes PROVE Link(x)'
  <2>1. CASE x = r
    BY <2>1
  <2>2. CASE x # r
    BY <2>2, OthersKept
  <2>3. QED  BY <2>1, <2>2
<1>2. QED  BY <1>1 DEF VideoInv

LEMMA LinkParts ==
  ASSUME VideoInv, NEW r \in Remotes
  PROVE  /\ PlayerOK(player) /\ uses \in Nat /\ uses <= uses
         /\ \A a \in Aspects : Property(player, a) = Property(player, a)
         /\ LinkInv(player, Joined(r), to_player[r], to_remote[r], pending[r], proxies[r], uses)
         /\ Queued(to_player[r], to_remote[r], pending[r])
  BY DEF VideoInv, Link, LinkInv, Standing

LEMMA RemoteFoundInv ==
  ASSUME VideoInv, NEW r \in Remotes, RemoteFound(r)
  PROVE  VideoInv'
<1>1. /\ r \in running \ known /\ known' = known \cup {r}
      /\ UNCHANGED <<player, registered, process_vars, service_vars, to_player, to_remote, uses>>
  BY DEF RemoteFound
<1>2. Tables' /\ Standing'
  BY <1>1 DEF VideoInv, Tables, Standing, process_vars, service_vars
<1>3. PlayerOK(player') /\ \A x \in Remotes : Link(x)'
  BY <1>1, LinkParts, OthersKept DEF service_vars, VideoInv
<1>4. QED  BY <1>2, <1>3 DEF VideoInv

LEMMA RemoteLostInv ==
  ASSUME VideoInv, NEW r \in Remotes, RemoteLost(r)
  PROVE  VideoInv'
<1>1. /\ r \in known /\ known' = known \ {r} /\ uses' = uses + 1
      /\ registered' = [c \in Capabilities |-> registered[c] \ {r}]
      /\ UNCHANGED <<player, process_vars, service_vars, to_player, to_remote>>
  BY DEF RemoteLost, Use
<1>2. uses' \in Nat /\ uses <= uses'
  BY <1>1, LinkParts
<1>3. Tables'
  BY <1>1 DEF VideoInv, Tables, process_vars, service_vars
<1>4. Standing'
  BY <1>1, <1>2 DEF VideoInv, Standing, process_vars, service_vars
<1>5. PlayerOK(player') /\ \A a \in Aspects : Property(player', a) = Property(player, a)
  BY <1>1 DEF VideoInv
<1>6. \A x \in Remotes :
        /\ \A c \in Capabilities : x \in registered'[c] => x \in registered[c]
        /\ to_player'[x] = to_player[x] /\ to_remote'[x] = to_remote[x]
        /\ pending'[x] = pending[x] /\ proxies'[x] = proxies[x]
  BY <1>1 DEF service_vars
<1>7. \A x \in Remotes : Link(x)'
  BY <1>2, <1>5, <1>6, OthersKept
<1>8. QED  BY <1>3, <1>4, <1>5, <1>7 DEF VideoInv

LEMMA StartInv ==
  ASSUME VideoInv, NEW r \in Remotes, NEW k, Start(r, k)
  PROVE  VideoInv'
<1>1. /\ r \notin running /\ running' = running \cup {r} /\ k \in Commands[r]
      /\ command' = [command EXCEPT ![r] = k] /\ uses' = uses + 1
      /\ UNCHANGED <<server_vars, service_vars, to_player, to_remote>>
  BY DEF Start, Use
<1>2. uses' \in Nat /\ uses <= uses'
  BY <1>1, LinkParts
<1>3. Tables'
  BY <1>1 DEF VideoInv, Tables, server_vars, service_vars
<1>4. Standing'
  BY <1>1, <1>2 DEF VideoInv, Standing, Tables, server_vars, service_vars
<1>5. PlayerOK(player') /\ \A a \in Aspects : Property(player', a) = Property(player, a)
  BY <1>1 DEF VideoInv, server_vars
<1>6. \A x \in Remotes :
        /\ \A c \in Capabilities : x \in registered'[c] => x \in registered[c]
        /\ to_player'[x] = to_player[x] /\ to_remote'[x] = to_remote[x]
        /\ pending'[x] = pending[x] /\ proxies'[x] = proxies[x]
  BY <1>1 DEF server_vars, service_vars
<1>7. \A x \in Remotes : Link(x)'
  BY <1>2, <1>5, <1>6, OthersKept
<1>8. QED  BY <1>3, <1>4, <1>5, <1>7 DEF VideoInv

\* A message to the player is taken.
LEMMA TakeParts ==
  ASSUME VideoInv, NEW r \in Remotes, NEW m, Take(r, m)
  PROVE  /\ to_player[r] # <<>> /\ m = Head(to_player[r]) /\ Request(m)
         /\ DOMAIN to_player' = Remotes /\ to_player'[r] = Tail(to_player[r])
         /\ \A x \in Remotes \ {r} : to_player'[x] = to_player[x]
         /\ \A x \in Remotes : LinkInv(player, Joined(x), to_player'[x], to_remote[x],
                                       pending[x], proxies[x], uses)
<1>1. /\ to_player[r] # <<>> /\ m = Head(to_player[r])
      /\ DOMAIN to_player' = Remotes /\ to_player'[r] = Tail(to_player[r])
      /\ \A x \in Remotes \ {r} : to_player'[x] = to_player[x]
  BY DEF Take, VideoInv, Tables
<1>2. PICK p, joined, out, in, w, s, n :
        /\ p = player /\ joined = Joined(r) /\ out = to_player[r] /\ in = to_remote[r]
        /\ w = pending[r] /\ s = proxies[r] /\ n = uses
        /\ LinkInv(p, joined, out, in, w, s, n)
  BY LinkParts
<1>3. LinkInv(p, joined, Tail(out), in, w, s, n) /\ Request(Head(out))
  BY <1>1, <1>2, LinkTaken
<1>4. ASSUME NEW x \in Remotes
      PROVE  LinkInv(player, Joined(x), to_player'[x], to_remote[x], pending[x], proxies[x], uses)
  <2>1. CASE x = r
    BY <1>1, <1>2, <1>3, <2>1
  <2>2. CASE x # r
    BY <1>1, <2>2, LinkParts
  <2>3. QED  BY <2>1, <2>2
<1>5. QED  BY <1>1, <1>2, <1>3, <1>4

LEMMA DroppedInv ==
  ASSUME VideoInv, NEW r \in Remotes, NEW m, Dropped(r, m)
  PROVE  VideoInv'
<1>1. /\ Take(r, m)
      /\ UNCHANGED <<server_vars, process_vars, service_vars, to_remote, uses>>
  BY DEF Dropped
<1>2. /\ DOMAIN to_player' = Remotes
      /\ \A x \in Remotes : LinkInv(player, Joined(x), to_player'[x], to_remote[x],
                                    pending[x], proxies[x], uses)
  BY <1>1, TakeParts
<1>3. ASSUME NEW x \in Remotes PROVE Link(x)'
  <2>1. Joined(x)' = Joined(x)
    BY <1>1 DEF Joined, server_vars
  <2>2. QED  BY <1>1, <1>2, <2>1 DEF Link, server_vars, service_vars
<1>4. Tables' /\ Standing' /\ PlayerOK(player')
  BY <1>1, <1>2 DEF VideoInv, Tables, Standing, server_vars, process_vars, service_vars
<1>5. QED  BY <1>3, <1>4 DEF VideoInv

LEMMA RegisteredInv ==
  ASSUME VideoInv, NEW r \in Remotes, NEW m, Registered(r, m)
  PROVE  VideoInv'
<1>1. PICK reply :
        /\ Take(r, m) /\ r \in known /\ m.type = "register"
        /\ registered' = [registered EXCEPT ![m.capability] = @ \cup {r}]
        /\ reply = [type |-> "properties", id |-> m.id, capability |-> m.capability,
                    value |-> Collect(m.capability, player)]
        /\ to_remote' = [to_remote EXCEPT ![r] = Deliver(r, reply)]
        /\ UNCHANGED <<player, known, process_vars, service_vars, uses>>
  BY DEF Registered
<1>2. /\ to_player[r] # <<>> /\ m = Head(to_player[r]) /\ Request(m)
      /\ DOMAIN to_player' = Remotes /\ to_player'[r] = Tail(to_player[r])
      /\ \A x \in Remotes \ {r} : to_player'[x] = to_player[x]
  BY <1>1, TakeParts
<1>3. PICK c \in Capabilities : Asks(m, c)
  BY <1>1, <1>2 DEF Request
<1>4. m.capability = c
  BY <1>3 DEF Asks
<1>5. /\ DOMAIN to_remote' = Remotes /\ to_remote'[r] = Deliver(r, reply)
      /\ \A x \in Remotes \ {r} : to_remote'[x] = to_remote[x]
      /\ registered' = [registered EXCEPT ![c] = @ \cup {r}]
  BY <1>1, <1>4 DEF VideoInv, Tables
<1>6. Joined(r)' = Joined(r) \cup {c}
  BY <1>3, <1>5 DEF Joined, VideoInv, Tables
<1>7. \A x \in Remotes \ {r} : \A d \in Capabilities : x \in registered'[d] => x \in registered[d]
  BY <1>5 DEF VideoInv, Tables
<1>8. PICK p, joined, out, in, w, s, n :
        /\ p = player /\ joined = Joined(r) /\ out = to_player[r] /\ in = to_remote[r]
        /\ w = pending[r] /\ s = proxies[r] /\ n = uses /\ n \in Nat
        /\ LinkInv(p, joined, out, in, w, s, n) /\ PlayerOK(p)
  BY LinkParts
<1>9. /\ player' = p /\ Joined(r)' = joined \cup {c} /\ to_player'[r] = Tail(out)
      /\ pending'[r] = w /\ proxies'[r] = s /\ uses' = n
  BY <1>1, <1>2, <1>6, <1>8 DEF service_vars
<1>10. Link(r)'
  <2>1. CASE r \in running
    <3>1. LinkInv(p, joined \cup {c}, Tail(out), Append(in, reply), w, s, n)
      <4>1. out # <<>> /\ Asks(Head(out), c)
        BY <1>2, <1>3, <1>8
      <4>2. /\ reply.type = "properties" /\ reply.id = Head(out).id /\ reply.capability = c
            /\ reply.value = Collect(c, p)
        BY <1>1, <1>2, <1>4, <1>8
      <4>3. QED  BY <1>8, <4>1, <4>2, LinkRegistered
    <3>2. to_remote'[r] = Append(in, reply)
      BY <1>5, <1>8, <2>1 DEF Deliver
    <3>3. QED  BY <1>9, <3>1, <3>2 DEF Link
  <2>2. CASE r \notin running
    <3>1. w = {} /\ \A d \in Capabilities : s[d] = NoProxy
      BY <1>8, <2>2, AwayParts
    <3>2. LinkInv(p, joined, Tail(out), in, w, s, n)
      BY <1>2, <1>8, LinkTaken
    <3>3. PICK joined2, rest : joined2 = joined \cup {c} /\ rest = Tail(out)
      OBVIOUS
    <3>4. n <= n /\ p.text <= p.text /\ (in = in \/ in = <<>>)
      BY <1>8 DEF PlayerOK
    <3>5. LinkInv(p, joined2, rest, in, {}, s, n)
      BY <1>8, <3>1, <3>2, <3>3, <3>4, LinkAway
    <3>6. to_remote'[r] = in
      BY <1>5, <1>8, <2>2 DEF Deliver
    <3>7. QED  BY <1>9, <3>1, <3>3, <3>5, <3>6 DEF Link
  <2>3. QED  BY <2>1, <2>2
<1>11. Tables'
  BY <1>1, <1>2, <1>5 DEF VideoInv, Tables, process_vars, service_vars
<1>12. Standing'
  BY <1>1, <1>5 DEF VideoInv, Standing, Tables, process_vars, service_vars
<1>13. /\ PlayerOK(player') /\ \A a \in Aspects : Property(player', a) = Property(player, a)
       /\ uses' \in Nat /\ uses <= uses'
  BY <1>1, LinkParts
<1>14. \A x \in Remotes \ {r} :
         /\ \A d \in Capabilities : x \in registered'[d] => x \in registered[d]
         /\ to_player'[x] = to_player[x] /\ to_remote'[x] = to_remote[x]
         /\ pending'[x] = pending[x] /\ proxies'[x] = proxies[x]
  BY <1>1, <1>2, <1>5, <1>7 DEF service_vars
<1>15. QED  BY <1>10, <1>11, <1>12, <1>13, <1>14, OneLink

LEMMA PlayerSetInv ==
  ASSUME VideoInv, NEW r \in Remotes, NEW m, PlayerSet(r, m)
  PROVE  VideoInv'
<1>1. /\ Take(r, m) /\ m.type = "invoke" /\ m.aspect \notin {"next", "prev", "locale"}
      /\ player' = PlayerInvoked(player, m) /\ Announce(player', NotifiedBy(m))
      /\ UNCHANGED <<known, registered, process_vars, service_vars, uses>>
  BY DEF PlayerSet
<1>2. /\ Request(m) /\ DOMAIN to_player' = Remotes
      /\ \A x \in Remotes : LinkInv(player, Joined(x), to_player'[x], to_remote[x],
                                    pending[x], proxies[x], uses)
  BY <1>1, TakeParts
<1>3. \/ m.aspect \in {"play", "pause"}
      \/ m.aspect = "playing" /\ m.value \in BOOLEAN
      \/ m.aspect = "volume" /\ m.value \in Nat
      \/ m.aspect = "playable-uri" /\ m.value \in Uris
  BY <1>1, <1>2 DEF Request, Asks
<1>4. /\ PlayerOK(player') /\ player'.text = player.text /\ NotifiedBy(m) \in Aspects
      /\ \A b \in Aspects \ {NotifiedBy(m)} : Property(player', b) = Property(player, b)
  <2>1. CASE m.aspect \in {"play", "pause"}
    <3>1. PICK b \in BOOLEAN : player' = SetPlaying(player, b)
      BY <1>1, <2>1 DEF PlayerInvoked, Play, Pause
    <3>2. NotifiedBy(m) = "playing" /\ "playing" \in Aspects
      BY <2>1 DEF NotifiedBy, Aspects, PlayerAspects
    <3>3. QED  BY <3>1, <3>2, LinkParts, PlayerParts
  <2>2. CASE m.aspect = "playing" /\ m.value \in BOOLEAN
    <3>1. player' = SetPlaying(player, m.value)
      BY <1>1, <2>2 DEF PlayerInvoked
    <3>2. NotifiedBy(m) = "playing" /\ "playing" \in Aspects
      BY <2>2 DEF NotifiedBy, Aspects, PlayerAspects
    <3>3. QED  BY <2>2, <3>1, <3>2, LinkParts, PlayerParts
  <2>3. CASE m.aspect = "volume" /\ m.value \in Nat
    <3>1. player' = SetVolume(player, m.value)
      BY <1>1, <2>3 DEF PlayerInvoked
    <3>2. NotifiedBy(m) = "volume" /\ "volume" \in Aspects
      BY <2>3 DEF NotifiedBy, Aspects, PlayerAspects
    <3>3. QED  BY <2>3, <3>1, <3>2, LinkParts, PlayerParts
  <2>4. CASE m.aspect = "playable-uri" /\ m.value \in Uris
    <3>1. player' = SetUri(player, m.value)
      BY <1>1, <2>4 DEF PlayerInvoked
    <3>2. NotifiedBy(m) = "playable-uri" /\ "playable-uri" \in Aspects
      BY <2>4 DEF NotifiedBy, Aspects, PlayerAspects
    <3>3. QED  BY <2>4, <3>1, <3>2, LinkParts, PlayerParts
  <2>5. QED  BY <1>3, <2>1, <2>2, <2>3, <2>4
<1>5. player.text <= player'.text
  BY <1>4, LinkParts DEF PlayerOK
<1>6. QED  BY <1>1, <1>2, <1>4, <1>5, AnnouncedInv

LEMMA TranscriptSetInv ==
  ASSUME VideoInv, NEW r \in Remotes, NEW m, TranscriptSet(r, m)
  PROVE  VideoInv'
<1>1. /\ Take(r, m) /\ player' = SetLocale(player, m.value) /\ Announce(player', "locale")
      /\ UNCHANGED <<known, registered, process_vars, service_vars, uses>>
  BY DEF TranscriptSet
<1>2. /\ DOMAIN to_player' = Remotes
      /\ \A x \in Remotes : LinkInv(player, Joined(x), to_player'[x], to_remote[x],
                                    pending[x], proxies[x], uses)
  BY <1>1, TakeParts
<1>3. /\ PlayerOK(player') /\ player'.text = player.text /\ "locale" \in Aspects
      /\ \A b \in Aspects \ {"locale"} : Property(player', b) = Property(player, b)
  BY <1>1, LinkParts, PlayerParts DEF Aspects, TranscriptAspects
<1>4. player.text <= player'.text
  BY <1>3, LinkParts DEF PlayerOK
<1>5. QED  BY <1>1, <1>2, <1>3, <1>4, AnnouncedInv

LEMMA TrackSkippedInv ==
  ASSUME VideoInv, NEW r \in Remotes, NEW m, TrackSkipped(r, m)
  PROVE  VideoInv'
<1>1. PICK reply :
        /\ Take(r, m) /\ player' = Skipped(player, m) /\ reply = Answer(player, m)
        /\ to_remote' = [to_remote EXCEPT ![r] = Deliver(r, reply)]
        /\ UNCHANGED <<known, registered, process_vars, service_vars, uses>>
  BY DEF TrackSkipped
<1>2. /\ DOMAIN to_player' = Remotes
      /\ \A x \in Remotes \ {r} : to_player'[x] = to_player[x]
      /\ LinkInv(player, Joined(r), to_player'[r], to_remote[r], pending[r], proxies[r], uses)
  BY <1>1, TakeParts
<1>3. /\ PlayerOK(player')
      /\ \A a \in Aspects : Property(player', a) = Property(player, a)
  BY <1>1, LinkParts, PlayerParts
<1>4. /\ DOMAIN to_remote' = Remotes /\ to_remote'[r] = Deliver(r, reply)
      /\ \A x \in Remotes \ {r} : to_remote'[x] = to_remote[x]
  BY <1>1 DEF VideoInv, Tables
<1>5. PICK p, joined, out, in, w, s, n :
        /\ p = player /\ joined = Joined(r) /\ out = to_player'[r] /\ in = to_remote[r]
        /\ w = pending[r] /\ s = proxies[r] /\ n = uses /\ n \in Nat
        /\ LinkInv(p, joined, out, in, w, s, n) /\ PlayerOK(p)
  BY <1>2, LinkParts
<1>6. Link(r)'
  <2>1. PICK p2 : /\ p2 = player' /\ PlayerOK(p2)
                  /\ \A a \in Aspects : Property(p2, a) = Property(p, a)
    BY <1>3, <1>5
  <2>2. LinkInv(p, joined, out, to_remote'[r], w, s, n)
    <3>1. reply.type = "answer"
      BY <1>1 DEF Answer
    <3>2. CASE r \in running
      BY <1>4, <1>5, <3>1, <3>2, LinkAnswered DEF Deliver
    <3>3. CASE r \notin running
      BY <1>4, <1>5, <3>3 DEF Deliver
    <3>4. QED  BY <3>2, <3>3
  <2>3. joined \in SUBSET joined /\ n <= n
    BY <1>5
  <2>4. PICK rest : rest = to_remote'[r]
    OBVIOUS
  <2>5. LinkInv(p2, joined, out, rest, w, s, n)
    BY <1>5, <2>1, <2>2, <2>3, <2>4, LinkKept
  <2>6. Joined(r)' = joined
    BY <1>1, <1>5 DEF Joined
  <2>7. QED  BY <1>1, <1>5, <2>1, <2>4, <2>5, <2>6 DEF Link, service_vars
<1>7. Tables' /\ Standing'
  BY <1>1, <1>2, <1>4 DEF VideoInv, Tables, Standing, process_vars, service_vars
<1>8. uses' \in Nat /\ uses <= uses'
  BY <1>1, LinkParts
<1>9. \A x \in Remotes \ {r} :
        /\ \A c \in Capabilities : x \in registered'[c] => x \in registered[c]
        /\ to_player'[x] = to_player[x] /\ to_remote'[x] = to_remote[x]
        /\ pending'[x] = pending[x] /\ proxies'[x] = proxies[x]
  BY <1>1, <1>2, <1>4 DEF service_vars
<1>10. QED  BY <1>3, <1>6, <1>7, <1>8, <1>9, OneLink

\* A remote control gives up its proxies and its registrations.
LEMMA GivenUp ==
  ASSUME VideoInv, NEW r \in Remotes,
         UNCHANGED <<server_vars, command, to_player, uses>>,
         running' \subseteq running, \A x \in running \ {r} : x \in running',
         present' = present \ {r}, \A x \in present' : x \in running',
         pending' = [pending EXCEPT ![r] = {}],
         proxies' = [proxies EXCEPT ![r] = [c \in Capabilities |-> NoProxy]],
         DOMAIN to_remote' = Remotes,
         to_remote'[r] = to_remote[r] \/ to_remote'[r] = <<>>,
         \A x \in Remotes \ {r} : to_remote'[x] = to_remote[x]
  PROVE  VideoInv'
<1>1. /\ pending'[r] = {} /\ DOMAIN pending' = Remotes
      /\ \A x \in Remotes \ {r} : pending'[x] = pending[x]
  BY DEF VideoInv, Tables
<1>2. /\ proxies'[r] = [c \in Capabilities |-> NoProxy] /\ DOMAIN proxies' = Remotes
      /\ \A x \in Remotes \ {r} : proxies'[x] = proxies[x]
  BY DEF VideoInv, Tables
<1>3. Link(r)'
  <2>1. PICK p, joined, out, in, w, s, n :
          /\ p = player /\ joined = Joined(r) /\ out = to_player[r] /\ in = to_remote[r]
          /\ w = pending[r] /\ s = proxies[r] /\ n = uses /\ n \in Nat
          /\ LinkInv(p, joined, out, in, w, s, n) /\ PlayerOK(p)
    BY LinkParts
  <2>2. PICK rest, t : /\ rest = to_remote'[r] /\ (rest = in \/ rest = <<>>)
                       /\ t = proxies'[r] /\ \A c \in Capabilities : t[c] = NoProxy
    BY <1>2, <2>1
  <2>3. n <= n /\ p.text <= p.text
    BY <2>1 DEF PlayerOK
  <2>4. LinkInv(p, joined, out, rest, {}, t, n)
    BY <2>1, <2>2, <2>3, LinkAway
  <2>5. Joined(r)' = joined
    BY <2>1 DEF Joined, server_vars
  <2>6. QED  BY <1>1, <2>1, <2>2, <2>4, <2>5 DEF Link, server_vars
<1>4. Tables'
  BY <1>1, <1>2 DEF VideoInv, Tables, server_vars
<1>5. Standing'
  <2>1. /\ uses' \in Nat /\ running' \subseteq Remotes /\ known' \subseteq Remotes
        /\ \A c \in Capabilities : registered'[c] \subseteq known'
        /\ present' \subseteq running'
        /\ \A x \in running' : command'[x] \in Commands[x]
    BY DEF VideoInv, Standing, server_vars
  <2>2. ASSUME NEW x \in Remotes \ present'
        PROVE  pending'[x] = {} /\ \A c \in Capabilities : proxies'[x][c] = NoProxy
    <3>1. CASE x = r
      BY <1>1, <1>2, <3>1
    <3>2. CASE x # r
      BY <1>1, <1>2, <3>2, AwayParts
    <3>3. QED  BY <3>1, <3>2
  <2>3. QED  BY <2>1, <2>2 DEF Standing
<1>6. PlayerOK(player') /\ \A a \in Aspects : Property(player', a) = Property(player, a)
  BY DEF VideoInv, server_vars
<1>7. uses' \in Nat /\ uses <= uses'
  BY LinkParts
<1>8. \A x \in Remotes \ {r} :
        /\ \A c \in Capabilities : x \in registered'[c] => x \in registered[c]
        /\ to_player'[x] = to_player[x] /\ to_remote'[x] = to_remote[x]
        /\ pending'[x] = pending[x] /\ proxies'[x] = proxies[x]
  BY <1>1, <1>2 DEF server_vars
<1>9. QED  BY <1>3, <1>4, <1>5, <1>6, <1>7, <1>8, OneLink

LEMMA StopInv ==
  ASSUME VideoInv, NEW r \in Remotes, Stop(r)
  PROVE  VideoInv'
<1>1. /\ r \in running /\ running' = running \ {r} /\ present' = present \ {r}
      /\ pending' = [pending EXCEPT ![r] = {}]
      /\ proxies' = [proxies EXCEPT ![r] = [c \in Capabilities |-> NoProxy]]
      /\ to_remote' = [to_remote EXCEPT ![r] = <<>>]
      /\ UNCHANGED <<server_vars, command, to_player, uses>>
  BY DEF Stop
<1>2. running' \subseteq running /\ \A x \in running \ {r} : x \in running'
  BY <1>1
<1>3. \A x \in present' : x \in running'
  BY <1>1 DEF VideoInv, Standing
<1>4. /\ DOMAIN to_remote' = Remotes /\ to_remote'[r] = <<>>
      /\ \A x \in Remotes \ {r} : to_remote'[x] = to_remote[x]
  BY <1>1 DEF VideoInv, Tables
<1>5. QED  BY <1>1, <1>2, <1>3, <1>4, GivenUp

LEMMA ServiceRemovedInv ==
  ASSUME VideoInv, NEW r \in Remotes, ServiceRemoved(r)
  PROVE  VideoInv'
<1>1. /\ present' = present \ {r} /\ pending' = [pending EXCEPT ![r] = {}]
      /\ proxies' = [proxies EXCEPT ![r] = [c \in Capabilities |-> NoProxy]]
      /\ UNCHANGED <<server_vars, process_vars, to_player, to_remote, uses>>
  BY DEF ServiceRemoved
<1>2. UNCHANGED <<server_vars, command, to_player, uses>> /\ running' = running
  BY <1>1 DEF process_vars
<1>3. running' \subseteq running /\ \A x \in running \ {r} : x \in running'
  BY <1>2
<1>4. \A x \in present' : x \in running'
  BY <1>1, <1>2 DEF VideoInv, Standing
<1>5. DOMAIN to_remote' = Remotes /\ \A x \in Remotes : to_remote'[x] = to_remote[x]
  BY <1>1 DEF VideoInv, Tables
<1>6. QED  BY <1>1, <1>2, <1>3, <1>4, <1>5, GivenUp

LEMMA ServiceAddedInv ==
  ASSUME VideoInv, NEW r \in Remotes, ServiceAdded(r)
  PROVE  VideoInv'
<1>1. PICK m, h :
        /\ r \in running \ present /\ present' = present \cup {r} /\ uses' = uses + 1
        /\ pending' = [pending EXCEPT ![r] = {<<uses, c>> : c \in Capabilities}]
        /\ m = [type |-> "register", id |-> uses, capability |-> Player]
        /\ h = [type |-> "register", id |-> uses, capability |-> Transcript]
        /\ to_player' = [to_player EXCEPT ![r] = @ \o <<m, h>>]
        /\ UNCHANGED <<server_vars, process_vars, proxies, to_remote>>
  BY DEF ServiceAdded, Use
<1>2. /\ pending'[r] = {<<uses, c>> : c \in Capabilities} /\ DOMAIN pending' = Remotes
      /\ \A x \in Remotes \ {r} : pending'[x] = pending[x]
      /\ to_player'[r] = to_player[r] \o <<m, h>> /\ DOMAIN to_player' = Remotes
      /\ \A x \in Remotes \ {r} : to_player'[x] = to_player[x]
  BY <1>1 DEF VideoInv, Tables
<1>3. uses' \in Nat /\ uses <= uses'
  BY <1>1, LinkParts
<1>4. Link(r)'
  <2>1. PICK p, joined, out, in, s, n :
          /\ p = player /\ joined = Joined(r) /\ out = to_player[r] /\ in = to_remote[r]
          /\ s = proxies[r] /\ n = uses /\ n \in Nat
          /\ LinkInv(p, joined, out, in, {}, s, n)
          /\ \A c \in Capabilities : s[c] = NoProxy
    <3>1. r \notin present
      BY <1>1
    <3>2. pending[r] = {} /\ \A c \in Capabilities : proxies[r][c] = NoProxy
      BY <3>1, AwayParts
    <3>3. /\ uses \in Nat
          /\ LinkInv(player, Joined(r), to_player[r], to_remote[r], {}, proxies[r], uses)
      BY <3>2, LinkParts
    <3>4. QED  BY <3>2, <3>3
  <2>2. Asks(m, Player) /\ m.id = n /\ Asks(h, Transcript) /\ h.id = n
    BY <1>1, <2>1 DEF Asks
  <2>3. LinkInv(p, joined, out \o <<m, h>>, in, {<<n, c>> : c \in Capabilities}, s, n + 1)
    BY <2>1, <2>2, LinkAsked
  <2>4. Joined(r)' = joined
    BY <1>1, <2>1 DEF Joined, server_vars
  <2>5. QED  BY <1>1, <1>2, <2>1, <2>3, <2>4 DEF Link, server_vars
<1>5. Tables'
  BY <1>1, <1>2 DEF VideoInv, Tables, server_vars, process_vars
<1>6. Standing'
  BY <1>1, <1>2, <1>3 DEF VideoInv, Standing, server_vars, process_vars
<1>7. PlayerOK(player') /\ \A a \in Aspects : Property(player', a) = Property(player, a)
  BY <1>1 DEF VideoInv, server_vars
<1>8. \A x \in Remotes \ {r} :
        /\ \A c \in Capabilities : x \in registered'[c] => x \in registered[c]
        /\ to_player'[x] = to_player[x] /\ to_remote'[x] = to_remote[x]
        /\ pending'[x] = pending[x] /\ proxies'[x] = proxies[x]
  BY <1>1, <1>2 DEF server_vars
<1>9. QED  BY <1>3, <1>4, <1>5, <1>6, <1>7, <1>8, OneLink

\* What a remote control does with its own link.
LEMMA OwnLink ==
  ASSUME VideoInv, NEW r \in Remotes,
         UNCHANGED <<server_vars, process_vars, present>>, uses' \in Nat, uses <= uses',
         \/ r \in present
         \/ pending'[r] = pending[r] /\ proxies'[r] = proxies[r],
         DOMAIN to_player' = Remotes, DOMAIN to_remote' = Remotes,
         DOMAIN pending' = Remotes, DOMAIN proxies' = Remotes, DOMAIN proxies'[r] = Capabilities,
         \A x \in Remotes \ {r} :
           /\ to_player'[x] = to_player[x] /\ to_remote'[x] = to_remote[x]
           /\ pending'[x] = pending[x] /\ proxies'[x] = proxies[x],
         LinkInv(player, Joined(r), to_player'[r], to_remote'[r], pending'[r], proxies'[r], uses')
  PROVE  VideoInv'
<1>1. Joined(r)' = Joined(r) /\ player' = player
  BY DEF Joined, server_vars
<1>2. Link(r)'
  BY <1>1 DEF Link
<1>3. Tables'
  <2>1. ASSUME NEW x \in Remotes PROVE DOMAIN proxies'[x] = Capabilities
    BY DEF VideoInv, Tables
  <2>2. QED  BY <2>1 DEF VideoInv, Tables, server_vars, process_vars
<1>4. Standing'
  <2>1. /\ running' \subseteq Remotes /\ known' \subseteq Remotes
        /\ \A c \in Capabilities : registered'[c] \subseteq known'
        /\ present' \subseteq running'
        /\ \A x \in running' : command'[x] \in Commands[x]
    BY DEF VideoInv, Standing, server_vars, process_vars
  <2>2. ASSUME NEW x \in Remotes \ present'
        PROVE  pending'[x] = {} /\ \A c \in Capabilities : proxies'[x][c] = NoProxy
    <3>1. pending[x] = {} /\ \A c \in Capabilities : proxies[x][c] = NoProxy
      BY AwayParts
    <3>2. pending'[x] = pending[x] /\ proxies'[x] = proxies[x]
      OBVIOUS
    <3>3. QED  BY <3>1, <3>2
  <2>3. QED  BY <2>1, <2>2 DEF Standing
<1>5. PlayerOK(player') /\ \A a \in Aspects : Property(player', a) = Property(player, a)
  BY <1>1, LinkParts
<1>6. \A x \in Remotes \ {r} : \A c \in Capabilities : x \in registered'[c] => x \in registered[c]
  BY DEF server_vars
<1>7. QED  BY <1>2, <1>3, <1>4, <1>5, <1>6, OneLink

\* A message to a remote control is taken.
LEMMA ReceiveParts ==
  ASSUME VideoInv, NEW r \in Remotes, NEW m, Receive(r, m)
  PROVE  /\ to_remote[r] # <<>> /\ m = Head(to_remote[r]) /\ Notice(m)
         /\ DOMAIN to_remote' = Remotes /\ to_remote'[r] = Tail(to_remote[r])
         /\ \A x \in Remotes \ {r} : to_remote'[x] = to_remote[x]
<1>1. /\ to_remote[r] # <<>> /\ m = Head(to_remote[r])
      /\ DOMAIN to_remote' = Remotes /\ to_remote'[r] = Tail(to_remote[r])
      /\ \A x \in Remotes \ {r} : to_remote'[x] = to_remote[x]
  BY DEF Receive, VideoInv, Tables
<1>2. PICK out, in, w : /\ out = to_player[r] /\ in = to_remote[r] /\ w = pending[r]
                        /\ Queued(out, in, w)
  BY LinkParts
<1>3. Notice(Head(in))
  BY <1>1, <1>2, QueuedSteps
<1>4. QED  BY <1>1, <1>2, <1>3

\* What remote controls ask of the player is something it can do.
LEMMA CommandParts ==
  ASSUME NEW r \in Remotes, NEW k \in Commands[r], NEW q, ProxySets(q, k) \/ ProxyCalls(k)
  PROVE  Request(Invocation(k.name, k.value))
<1>1. \/ k.name \in {"play", "pause", "next", "prev"}
      \/ k.name = "playing" /\ k.value \in BOOLEAN
      \/ k.name = "volume" /\ k.value \in Nat
      \/ k.name = "playable-uri" /\ k.value \in Uris
  BY VideoProfileAssumption DEF ProxySets, ProxyCalls
<1>2. PICK m : m = Invocation(k.name, k.value)
  OBVIOUS
<1>3. m.type = "invoke" /\ m.aspect = k.name /\ m.value = k.value
  BY <1>2 DEF Invocation
<1>4. QED  BY <1>1, <1>2, <1>3 DEF Request

\* The player's proxy is used, or is found to show what was asked for.
LEMMA UseParts ==
  ASSUME VideoInv, NEW r \in Remotes, NEW k \in Commands[r], NEW q, UsePlayer(r, q, k),
         NEW joined, NEW in, NEW w, NEW s, NEW n,
         LinkInv(player, joined, to_player[r], in, w, s, n)
  PROVE  /\ LinkInv(player, joined, to_player'[r], in, w, s, n)
         /\ DOMAIN to_player' = Remotes
         /\ \A x \in Remotes \ {r} : to_player'[x] = to_player[x]
<1>1. PICK p, out, m : p = player /\ out = to_player[r] /\ m = Invocation(k.name, k.value)
  OBVIOUS
<1>2. CASE ProxySets(q, k) \/ ProxyCalls(k)
  <2>1. Request(m) /\ m.type = "invoke"
    BY <1>1, <1>2, CommandParts DEF Invocation
  <2>2. LinkInv(p, joined, Append(out, m), in, w, s, n)
    BY <1>1, <2>1, LinkSent
  <2>3. to_player' = [to_player EXCEPT ![r] = Append(@, m)]
    BY <1>1, <1>2 DEF UsePlayer
  <2>4. QED  BY <1>1, <2>2, <2>3 DEF VideoInv, Tables
<1>3. CASE ~(ProxySets(q, k) \/ ProxyCalls(k))
  BY <1>3 DEF UsePlayer, VideoInv, Tables
<1>4. QED  BY <1>2, <1>3

\* A proxy is made, of the player or of the transcript.
LEMMA MadeParts ==
  ASSUME VideoInv, NEW r \in Remotes, NEW m, Receive(r, m), NEW c \in Capabilities,
         m.type = "properties", m.capability = c, <<m.id, c>> \in pending[r],
         pending' = [pending EXCEPT ![r] = @ \ {<<m.id, c>>}],
         proxies' = [proxies EXCEPT ![r][c] = Created(c, m.value)]
  PROVE  /\ r \in present
         /\ LinkInv(player, Joined(r), to_player[r], to_remote'[r], pending'[r], proxies'[r], uses)
         /\ DOMAIN pending' = Remotes /\ DOMAIN proxies' = Remotes
         /\ DOMAIN proxies'[r] = Capabilities
         /\ \A x \in Remotes \ {r} : pending'[x] = pending[x] /\ proxies'[x] = proxies[x]
<1>1. r \in present
  BY AwayParts
<1>2. /\ DOMAIN pending' = Remotes /\ DOMAIN proxies' = Remotes
      /\ DOMAIN proxies'[r] = Capabilities
      /\ \A x \in Remotes \ {r} : pending'[x] = pending[x] /\ proxies'[x] = proxies[x]
      /\ pending'[r] = pending[r] \ {<<m.id, c>>}
      /\ proxies'[r][c] = Created(c, m.value)
      /\ \A d \in Capabilities \ {c} : proxies'[r][d] = proxies[r][d]
  BY DEF VideoInv, Tables
<1>3. PICK p, joined, out, in, w, s, n :
        /\ p = player /\ joined = Joined(r) /\ out = to_player[r] /\ in = to_remote[r]
        /\ w = pending[r] /\ s = proxies[r] /\ n = uses
        /\ LinkInv(p, joined, out, in, w, s, n)
  BY LinkParts
<1>4. in # <<>> /\ Head(in) = m /\ to_remote'[r] = Tail(in)
  BY <1>3, ReceiveParts
<1>5. Brings(Head(in), c, w)
  BY <1>3, <1>4 DEF Brings, Answers
<1>6. PICK t : t = proxies'[r]
  OBVIOUS
<1>7. t[c] = Created(c, Head(in).value) /\ \A d \in Capabilities \ {c} : t[d] = s[d]
  BY <1>2, <1>3, <1>4, <1>6
<1>8. LinkInv(p, joined, out, Tail(in), w \ {<<Head(in).id, c>>}, t, n)
  <2>1. in # <<>> /\ LinkInv(p, joined, out, in, w, s, n)
    BY <1>3, <1>4
  <2>2. QED  BY <1>5, <1>7, <2>1, LinkCreated
<1>9. QED  BY <1>1, <1>2, <1>3, <1>4, <1>6, <1>8

LEMMA PlayerCreatedInv ==
  ASSUME VideoInv, NEW r \in Remotes, NEW m, PlayerCreated(r, m)
  PROVE  VideoInv'
<1>1. /\ Receive(r, m) /\ m.type = "properties" /\ m.capability = Player
      /\ <<m.id, Player>> \in pending[r]
      /\ pending' = [pending EXCEPT ![r] = @ \ {<<m.id, Player>>}]
      /\ proxies' = [proxies EXCEPT ![r][Player] = Created(Player, m.value)]
      /\ UsePlayer(r, proxies'[r][Player], command[r])
      /\ UNCHANGED <<server_vars, process_vars, present, uses>>
  BY DEF PlayerCreated
<1>2. /\ r \in present
      /\ LinkInv(player, Joined(r), to_player[r], to_remote'[r], pending'[r], proxies'[r], uses)
      /\ DOMAIN pending' = Remotes /\ DOMAIN proxies' = Remotes
      /\ DOMAIN proxies'[r] = Capabilities
      /\ \A x \in Remotes \ {r} : pending'[x] = pending[x] /\ proxies'[x] = proxies[x]
  BY <1>1, AspectParts, MadeParts
<1>3. DOMAIN to_remote' = Remotes /\ \A x \in Remotes \ {r} : to_remote'[x] = to_remote[x]
  BY <1>1, ReceiveParts
<1>4. PICK k \in Commands[r] : k = command[r]
  BY <1>2 DEF VideoInv, Standing
<1>5. PICK q, joined, in, w, s, n :
        /\ q = proxies'[r][Player] /\ joined = Joined(r) /\ in = to_remote'[r]
        /\ w = pending'[r] /\ s = proxies'[r] /\ n = uses
  OBVIOUS
<1>6. UsePlayer(r, q, k) /\ LinkInv(player, joined, to_player[r], in, w, s, n)
  BY <1>1, <1>2, <1>4, <1>5
<1>7. /\ LinkInv(player, joined, to_player'[r], in, w, s, n)
      /\ DOMAIN to_player' = Remotes /\ \A x \in Remotes \ {r} : to_player'[x] = to_player[x]
  BY <1>6, UseParts
<1>8. uses' = uses /\ uses' \in Nat /\ uses <= uses'
  BY <1>1, LinkParts
<1>9. LinkInv(player, Joined(r), to_player'[r], to_remote'[r], pending'[r], proxies'[r], uses')
  BY <1>5, <1>7, <1>8
<1>10. UNCHANGED <<server_vars, process_vars, present>>
  BY <1>1
<1>11. QED  BY <1>2, <1>3, <1>7, <1>8, <1>9, <1>10, OwnLink

LEMMA TranscriptCreatedInv ==
  ASSUME VideoInv, NEW r \in Remotes, NEW m, TranscriptCreated(r, m)
  PROVE  VideoInv'
<1>1. /\ Receive(r, m) /\ m.type = "properties" /\ m.capability = Transcript
      /\ <<m.id, Transcript>> \in pending[r]
      /\ pending' = [pending EXCEPT ![r] = @ \ {<<m.id, Transcript>>}]
      /\ proxies' = [proxies EXCEPT ![r][Transcript] = Created(Transcript, m.value)]
      /\ UNCHANGED <<server_vars, process_vars, present>> /\ UNCHANGED <<to_player, uses>>
  BY DEF TranscriptCreated
<1>2. /\ r \in present
      /\ LinkInv(player, Joined(r), to_player[r], to_remote'[r], pending'[r], proxies'[r], uses)
      /\ DOMAIN pending' = Remotes /\ DOMAIN proxies' = Remotes
      /\ DOMAIN proxies'[r] = Capabilities
      /\ \A x \in Remotes \ {r} : pending'[x] = pending[x] /\ proxies'[x] = proxies[x]
  BY <1>1, AspectParts, MadeParts
<1>3. DOMAIN to_remote' = Remotes /\ \A x \in Remotes \ {r} : to_remote'[x] = to_remote[x]
  BY <1>1, ReceiveParts
<1>4. DOMAIN to_player' = Remotes /\ to_player' = to_player
  BY <1>1 DEF VideoInv, Tables
<1>5. uses' = uses /\ uses' \in Nat /\ uses <= uses'
  BY <1>1, LinkParts
<1>6. LinkInv(player, Joined(r), to_player'[r], to_remote'[r], pending'[r], proxies'[r], uses')
  BY <1>2, <1>4, <1>5
<1>7. QED  BY <1>1, <1>2, <1>3, <1>4, <1>5, <1>6, OwnLink

LEMMA EventHeardInv ==
  ASSUME VideoInv, NEW r \in Remotes, NEW m, EventHeard(r, m)
  PROVE  VideoInv'
<1>1. PICK c : c = CapabilityOf(m.aspect)
  OBVIOUS
<1>2. /\ Receive(r, m) /\ m.type = "event" /\ proxies[r][c] # NoProxy
      /\ proxies' = [proxies EXCEPT ![r][c] = ProxyEvent(@, m.aspect, m.value)]
      /\ UNCHANGED <<server_vars, process_vars, present>>
      /\ UNCHANGED <<pending, to_player, uses>>
  BY <1>1 DEF EventHeard
<1>3. /\ to_remote[r] # <<>> /\ m = Head(to_remote[r]) /\ Notice(m)
      /\ DOMAIN to_remote' = Remotes /\ to_remote'[r] = Tail(to_remote[r])
      /\ \A x \in Remotes \ {r} : to_remote'[x] = to_remote[x]
  BY <1>2, ReceiveParts
<1>4. PICK a \in Aspects : Tells(m, a)
  BY <1>2, <1>3 DEF Notice, Answers
<1>5. m.aspect = a /\ c \in Capabilities /\ a \in AspectsOf[c]
  BY <1>1, <1>4, AspectParts DEF Tells
<1>6. /\ DOMAIN proxies' = Remotes /\ DOMAIN proxies'[r] = Capabilities
      /\ \A x \in Remotes \ {r} : proxies'[x] = proxies[x]
      /\ proxies'[r][c] = ProxyEvent(proxies[r][c], a, m.value)
      /\ \A d \in Capabilities \ {c} : proxies'[r][d] = proxies[r][d]
  BY <1>2, <1>5 DEF VideoInv, Tables
<1>7. PICK p, joined, out, in, w, s, n :
        /\ p = player /\ joined = Joined(r) /\ out = to_player[r] /\ in = to_remote[r]
        /\ w = pending[r] /\ s = proxies[r] /\ n = uses
        /\ LinkInv(p, joined, out, in, w, s, n) /\ PlayerOK(p)
  BY LinkParts
<1>8. PICK t : t = proxies'[r]
  OBVIOUS
<1>9. /\ in # <<>> /\ Tells(Head(in), a) /\ s[c] # NoProxy
      /\ t[c] = ProxyEvent(s[c], a, Head(in).value)
      /\ \A d \in Capabilities \ {c} : t[d] = s[d]
  BY <1>2, <1>3, <1>4, <1>6, <1>7, <1>8
<1>10. LinkInv(p, joined, out, Tail(in), w, t, n)
  BY <1>5, <1>7, <1>9, LinkHeard
<1>11. /\ DOMAIN to_player' = Remotes /\ DOMAIN pending' = Remotes
       /\ to_player' = to_player /\ pending' = pending /\ uses' = uses
       /\ uses' \in Nat /\ uses <= uses'
  BY <1>2, LinkParts DEF VideoInv, Tables
<1>12. LinkInv(player, Joined(r), to_player'[r], to_remote'[r], pending'[r], proxies'[r], uses')
  BY <1>3, <1>7, <1>8, <1>10, <1>11
<1>13. r \in present
  BY <1>2, <1>5, AwayParts
<1>14. QED  BY <1>2, <1>3, <1>6, <1>11, <1>12, <1>13, OwnLink

LEMMA OtherHeardInv ==
  ASSUME VideoInv, NEW r \in Remotes, NEW m, OtherHeard(r, m)
  PROVE  VideoInv'
<1>1. /\ Receive(r, m)
      /\ \/ m.type = "answer" \/ m.type = "properties"
         \/ m.type = "event" /\ proxies[r][CapabilityOf(m.aspect)] = NoProxy
      /\ UNCHANGED <<server_vars, process_vars, present>>
      /\ UNCHANGED <<pending, proxies, to_player, uses>>
  BY DEF OtherHeard, service_vars
<1>2. /\ to_remote[r] # <<>> /\ m = Head(to_remote[r])
      /\ DOMAIN to_remote' = Remotes /\ to_remote'[r] = Tail(to_remote[r])
      /\ \A x \in Remotes \ {r} : to_remote'[x] = to_remote[x]
  BY <1>1, ReceiveParts
<1>3. PICK p, joined, out, in, w, s, n :
        /\ p = player /\ joined = Joined(r) /\ out = to_player[r] /\ in = to_remote[r]
        /\ w = pending[r] /\ s = proxies[r] /\ n = uses
        /\ LinkInv(p, joined, out, in, w, s, n)
  BY LinkParts
<1>4. in # <<>> /\ Head(in) = m /\ to_remote'[r] = Tail(in)
  BY <1>2, <1>3
<1>5. \A c \in Capabilities : s[c] # NoProxy => \A a \in AspectsOf[c] : ~Tells(Head(in), a)
  <2>1. SUFFICES ASSUME NEW c \in Capabilities, NEW a \in AspectsOf[c], Tells(m, a)
                 PROVE  s[c] = NoProxy
    BY <1>4
  <2>2. m.type = "event" /\ m.aspect = a
    BY <2>1 DEF Tells
  <2>3. CapabilityOf(a) = c
    BY AspectParts
  <2>4. QED  BY <1>1, <1>3, <2>2, <2>3
<1>6. LinkInv(p, joined, out, Tail(in), w, s, n)
  BY <1>3, <1>4, <1>5, LinkIgnored
<1>7. /\ to_player' = to_player /\ pending' = pending /\ proxies' = proxies /\ uses' = uses
      /\ uses' \in Nat /\ uses <= uses'
  BY <1>1, LinkParts
<1>8. LinkInv(player, Joined(r), to_player'[r], to_remote'[r], pending'[r], proxies'[r], uses')
  BY <1>3, <1>4, <1>6, <1>7
<1>9. /\ DOMAIN to_player' = Remotes /\ DOMAIN pending' = Remotes
      /\ DOMAIN proxies' = Remotes /\ DOMAIN proxies'[r] = Capabilities
  BY <1>7 DEF VideoInv, Tables
<1>10. QED  BY <1>1, <1>2, <1>7, <1>8, <1>9, OwnLink

\* A use more is counted.
LEMMA Counted ==
  ASSUME VideoInv, NEW joined, NEW out, NEW in, NEW w, NEW s,
         LinkInv(player, joined, out, in, w, s, uses), Use
  PROVE  LinkInv(player, joined, out, in, w, s, uses') /\ uses' \in Nat /\ uses <= uses'
<1>1. PICK p, n, u : /\ p = player /\ n = uses /\ u = uses' /\ n \in Nat /\ u = n + 1
                     /\ PlayerOK(p) /\ \A a \in Aspects : Property(p, a) = Property(p, a)
  BY DEF VideoInv, Standing, Use
<1>2. LinkInv(p, joined, out, in, w, s, n) /\ u \in Nat /\ n <= u /\ joined \in SUBSET joined
  BY <1>1
<1>3. LinkInv(p, joined, out, in, w, s, u)
  BY <1>1, <1>2, LinkKept
<1>4. QED  BY <1>1, <1>2, <1>3

LEMMA RunCommandInv ==
  ASSUME VideoInv, NEW r \in Remotes, NEW k, RunCommand(r, k)
  PROVE  VideoInv'
<1>1. /\ k \in Commands[r] /\ Use /\ UsePlayer(r, proxies[r][Player], k)
      /\ UNCHANGED <<server_vars, process_vars, present>>
      /\ UNCHANGED <<pending, proxies, to_remote>>
  BY DEF RunCommand, service_vars
<1>2. PICK q, joined, in, w, s, n :
        /\ q = proxies[r][Player] /\ joined = Joined(r) /\ in = to_remote[r]
        /\ w = pending[r] /\ s = proxies[r] /\ n = uses
        /\ LinkInv(player, joined, to_player[r], in, w, s, n)
  BY LinkParts
<1>3. UsePlayer(r, q, k)
  BY <1>1, <1>2
<1>4. /\ LinkInv(player, joined, to_player'[r], in, w, s, n)
      /\ DOMAIN to_player' = Remotes /\ \A x \in Remotes \ {r} : to_player'[x] = to_player[x]
  BY <1>1, <1>2, <1>3, UseParts
<1>5. PICK out : out = to_player'[r] /\ LinkInv(player, joined, out, in, w, s, uses)
  BY <1>2, <1>4
<1>6. LinkInv(player, joined, out, in, w, s, uses') /\ uses' \in Nat /\ uses <= uses'
  BY <1>1, <1>5, Counted
<1>7. LinkInv(player, Joined(r), to_player'[r], to_remote'[r], pending'[r], proxies'[r], uses')
  BY <1>1, <1>2, <1>5, <1>6
<1>8. /\ DOMAIN to_remote' = Remotes /\ DOMAIN pending' = Remotes
      /\ DOMAIN proxies' = Remotes /\ DOMAIN proxies'[r] = Capabilities
  BY <1>1 DEF VideoInv, Tables
<1>9. QED  BY <1>1, <1>4, <1>6, <1>7, <1>8, OwnLink

LEMMA SetProxyLocaleInv ==
  ASSUME VideoInv, NEW r \in Remotes, NEW l, SetProxyLocale(r, l)
  PROVE  VideoInv'
<1>1. PICK m : /\ m = Invocation("locale", l) /\ Use
               /\ to_player' = [to_player EXCEPT ![r] = Append(@, m)]
               /\ UNCHANGED <<server_vars, process_vars, present>>
               /\ UNCHANGED <<pending, proxies, to_remote>>
  BY DEF SetProxyLocale, service_vars
<1>2. /\ DOMAIN to_player' = Remotes /\ to_player'[r] = Append(to_player[r], m)
      /\ \A x \in Remotes \ {r} : to_player'[x] = to_player[x]
  BY <1>1 DEF VideoInv, Tables
<1>3. PICK p, joined, out, in, w, s, n :
        /\ p = player /\ joined = Joined(r) /\ out = to_player[r] /\ in = to_remote[r]
        /\ w = pending[r] /\ s = proxies[r] /\ n = uses
        /\ LinkInv(p, joined, out, in, w, s, n)
  BY LinkParts
<1>4. Request(m) /\ m.type = "invoke"
  BY <1>1 DEF Invocation, Request
<1>5. LinkInv(p, joined, Append(out, m), in, w, s, n)
  BY <1>3, <1>4, LinkSent
<1>6. PICK sent : sent = to_player'[r] /\ LinkInv(player, joined, sent, in, w, s, uses)
  BY <1>2, <1>3, <1>5
<1>7. LinkInv(player, joined, sent, in, w, s, uses') /\ uses' \in Nat /\ uses <= uses'
  BY <1>1, <1>6, Counted
<1>8. LinkInv(player, Joined(r), to_player'[r], to_remote'[r], pending'[r], proxies'[r], uses')
  BY <1>1, <1>3, <1>6, <1>7
<1>9. /\ DOMAIN to_remote' = Remotes /\ DOMAIN pending' = Remotes
      /\ DOMAIN proxies' = Remotes /\ DOMAIN proxies'[r] = Capabilities
  BY <1>1 DEF VideoInv, Tables
<1>10. QED  BY <1>1, <1>2, <1>7, <1>8, <1>9, OwnLink

LEMMA VideoStepInv == VideoInv /\ [Next]_vars => VideoInv'
<1>1. SUFFICES ASSUME VideoInv, [Next]_vars PROVE VideoInv'
  OBVIOUS
<1>2. ASSUME NEW r \in Remotes, PlayerReceives(r) PROVE VideoInv'
  <2>1. PICK m : \/ Dropped(r, m) \/ Registered(r, m)
                 \/ PlayerSet(r, m) \/ TrackSkipped(r, m) \/ TranscriptSet(r, m)
    BY <1>2 DEF PlayerReceives
  <2>2. CASE Dropped(r, m)
    BY <1>1, <2>2, DroppedInv
  <2>3. CASE Registered(r, m)
    BY <1>1, <2>3, RegisteredInv
  <2>4. CASE PlayerSet(r, m)
    BY <1>1, <2>4, PlayerSetInv
  <2>5. CASE TrackSkipped(r, m)
    BY <1>1, <2>5, TrackSkippedInv
  <2>6. CASE TranscriptSet(r, m)
    BY <1>1, <2>6, TranscriptSetInv
  <2>7. QED  BY <2>1, <2>2, <2>3, <2>4, <2>5, <2>6
<1>3. ASSUME NEW r \in Remotes, RemoteReceives(r) PROVE VideoInv'
  <2>1. PICK m : \/ PlayerCreated(r, m) \/ TranscriptCreated(r, m)
                 \/ EventHeard(r, m) \/ OtherHeard(r, m)
    BY <1>3 DEF RemoteReceives
  <2>2. CASE PlayerCreated(r, m)
    BY <1>1, <2>2, PlayerCreatedInv
  <2>3. CASE TranscriptCreated(r, m)
    BY <1>1, <2>3, TranscriptCreatedInv
  <2>4. CASE EventHeard(r, m)
    BY <1>1, <2>4, EventHeardInv
  <2>5. CASE OtherHeard(r, m)
    BY <1>1, <2>5, OtherHeardInv
  <2>6. QED  BY <2>1, <2>2, <2>3, <2>4, <2>5
<1>4. CASE TimerFires
  BY <1>1, <1>4, TimerInv
<1>5. ASSUME NEW r \in Remotes, RemoteFound(r) PROVE VideoInv'
  BY <1>1, <1>5, RemoteFoundInv
<1>6. ASSUME NEW r \in Remotes, RemoteLost(r) PROVE VideoInv'
  BY <1>1, <1>6, RemoteLostInv
<1>7. ASSUME NEW r \in Remotes, NEW k, Start(r, k) PROVE VideoInv'
  BY <1>1, <1>7, StartInv
<1>8. ASSUME NEW r \in Remotes, NEW k, RunCommand(r, k) PROVE VideoInv'
  BY <1>1, <1>8, RunCommandInv
<1>9. ASSUME NEW r \in Remotes, Stop(r) PROVE VideoInv'
  BY <1>1, <1>9, StopInv
<1>10. ASSUME NEW r \in Remotes, ServiceAdded(r) PROVE VideoInv'
  BY <1>1, <1>10, ServiceAddedInv
<1>11. ASSUME NEW r \in Remotes, ServiceRemoved(r) PROVE VideoInv'
  BY <1>1, <1>11, ServiceRemovedInv
<1>12. ASSUME NEW r \in Remotes, NEW l, SetProxyLocale(r, l) PROVE VideoInv'
  BY <1>1, <1>12, SetProxyLocaleInv
<1>13. CASE UNCHANGED vars
  <2>1. /\ PlayerOK(player') /\ Tables' /\ Standing'
        /\ \A a \in Aspects : Property(player', a) = Property(player, a)
    BY <1>1, <1>13 DEF VideoInv, Tables, Standing, vars, server_vars, process_vars, service_vars
  <2>2. \A x \in Remotes : Joined(x)' = Joined(x)
    BY <1>13 DEF Joined, vars, server_vars
  <2>3. \A x \in Remotes : Link(x)'
    BY <1>1, <1>13, <2>2 DEF VideoInv, Link, vars, server_vars, process_vars, service_vars
  <2>4. QED  BY <2>1, <2>3 DEF VideoInv
<1>14. QED
  BY <1>1, <1>2, <1>3, <1>4, <1>5, <1>6, <1>7, <1>8, <1>9, <1>10, <1>11, <1>12, <1>13 DEF Next

-----------------------------------------------------------------------------
(* The theorems *)

\* Whatever remote controls come and go, lose the player and are lost to it, what
\* is between each of them and the player is in order.
THEOREM VideoInvariant == Spec => []VideoInv
<1>1. QED  BY VideoInitInv, VideoStepInv, PTL DEF Spec

\* The playlist is never left, no registration outlives what the player's client
\* knows, and no proxy the player's service.
THEOREM VideoTypeCorrect == Spec => []VideoTypeOK
<1>1. VideoInv => VideoTypeOK
  <2>1. SUFFICES ASSUME VideoInv PROVE VideoTypeOK
    OBVIOUS
  <2>2. /\ player.current \in Nat /\ player.current < Tracks /\ player.text \in Nat
        /\ player.text <= MaxTexts /\ player.timers \in Nat /\ player.locale \in DOMAIN Locales
    BY <2>1 DEF VideoInv, PlayerOK
  <2>3. player.current \in 0..Tracks - 1 /\ player.text \in 0..MaxTexts
    BY <2>2, VideoProfileAssumption
  <2>4. \A c \in Capabilities : registered[c] \subseteq known
    BY <2>1 DEF VideoInv, Standing
  <2>5. \A r \in Remotes : r \notin present =>
          pending[r] = {} /\ \A c \in Capabilities : proxies[r][c] = NoProxy
    BY <2>1, AwayParts
  <2>6. QED  BY <2>2, <2>3, <2>4, <2>5 DEF VideoTypeOK
<1>2. QED  BY <1>1, VideoInvariant, PTL

\* A player that plays has a timer, whatever is played and paused between ticks.
THEOREM SubtitlesKeepRunning == Spec => []SubtitlesRun
<1>1. VideoInv => SubtitlesRun
  BY DEF VideoInv, PlayerOK, SubtitlesRun
<1>2. QED  BY <1>1, VideoInvariant, PTL

\* A registered proxy with nothing on its way to it shows the player as it is.
THEOREM MirrorsAgreed == Spec => []MirrorsAgree
<1>1. VideoInv => MirrorsAgree
  <2>1. SUFFICES ASSUME VideoInv, NEW r \in Remotes, NEW c \in Capabilities,
                        r \in registered[c], Quiet(r), proxies[r][c] # NoProxy
                 PROVE  Shows(r, c)
    BY DEF MirrorsAgree
  <2>2. CurrentProxy(c, to_remote[r], 0, proxies[r][c], player)
    <3>1. Faithful(c, to_remote[r], pending[r], proxies[r][c], player)
      BY <2>1, LinkParts DEF LinkInv, Joined
    <3>2. QED  BY <2>1, <3>1 DEF Faithful
  <2>3. ASSUME NEW a \in AspectsOf[c]
        PROVE  Agrees(a, proxies[r][c][a], Property(player, a))
    <3>1. Current(to_remote[r], 0, a, proxies[r][c][a], Property(player, a))
      BY <2>2 DEF CurrentProxy
    <3>2. ~Told(to_remote[r], 0, a, Property(player, a))
      BY <2>1 DEF Quiet, Told, Tells
    <3>3. QED  BY <3>1, <3>2 DEF Current
  <2>4. \A a \in AspectsOf[c] : a = "volume" => Property(player, a) = player.volume
    BY PropertyParts
  <2>5. QED  BY <2>3, <2>4 DEF Shows, Agrees
<1>2. QED  BY <1>1, VideoInvariant, PTL

\* What a proxy of the transcript shows, in a step that leaves it one.
LEMMA TextSteps ==
  ASSUME VideoInv, [Next]_vars, NEW r \in Remotes,
         proxies[r][Transcript] # NoProxy, proxies'[r][Transcript] # NoProxy
  PROVE  proxies'[r][Transcript]["current-text"] >= proxies[r][Transcript]["current-text"]
<1>1. PICK in, s, p : /\ in = to_remote[r] /\ s = proxies[r][Transcript] /\ p = player
                      /\ Forward(in, s, p) /\ IsQueue(in) /\ s # NoProxy
                      /\ DOMAIN s = AspectsOf[Transcript]
                      /\ Numbered(Transcript, to_player[r], in, pending[r], s, uses)
                      /\ pending[r] \subseteq Nat \X Capabilities
  BY AspectParts, LinkParts DEF LinkInv, Queued
<1>2. s["current-text"] \in Nat
  BY <1>1 DEF Forward
<1>3. CASE proxies'[r][Transcript] = s
  BY <1>1, <1>2, <1>3
<1>4. CASE proxies'[r][Transcript] # s
  <2>1. ASSUME NEW x \in Remotes, Stop(x) \/ ServiceRemoved(x) PROVE FALSE
    <3>1. proxies' = [proxies EXCEPT ![x] = [c \in Capabilities |-> NoProxy]]
      BY <2>1 DEF Stop, ServiceRemoved
    <3>2. proxies'[r] = proxies[r] \/ proxies'[r] = [c \in Capabilities |-> NoProxy]
      BY <3>1 DEF VideoInv, Tables
    <3>3. QED  BY <1>1, <1>4, <3>2, AspectParts
  <2>2. ASSUME NEW x \in Remotes, NEW m, PlayerCreated(x, m) PROVE FALSE
    <3>1. proxies' = [proxies EXCEPT ![x][Player] = Created(Player, m.value)]
      BY <2>2 DEF PlayerCreated
    <3>2. proxies'[r][Transcript] = proxies[r][Transcript]
      BY <3>1, AspectParts DEF VideoInv, Tables
    <3>3. QED  BY <1>1, <1>4, <3>2
  <2>3. ASSUME NEW x \in Remotes, NEW m, TranscriptCreated(x, m) PROVE FALSE
    <3>1. /\ proxies' = [proxies EXCEPT ![x][Transcript] = Created(Transcript, m.value)]
          /\ <<m.id, Transcript>> \in pending[x]
      BY <2>3 DEF TranscriptCreated
    <3>2. x = r
      BY <1>1, <1>4, <3>1 DEF VideoInv, Tables
    <3>3. m.id \in Nat
      BY <1>1, <3>1, <3>2
    <3>4. QED  BY <1>1, <3>1, <3>2, <3>3 DEF Numbered
  <2>4. PICK x, m : x \in Remotes /\ EventHeard(x, m)
    <3>1. proxies' # proxies
      BY <1>1, <1>4
    <3>2. PICK x \in Remotes : RemoteReceives(x)
      BY <2>1, <3>1 DEF Next, vars, service_vars, TimerFires, RemoteFound, RemoteLost, Start,
         RunCommand, ServiceAdded, SetProxyLocale, PlayerReceives, Dropped, Registered,
         PlayerSet, TrackSkipped, TranscriptSet
    <3>3. PICK m : \/ PlayerCreated(x, m) \/ TranscriptCreated(x, m)
                   \/ EventHeard(x, m) \/ OtherHeard(x, m)
      BY <3>2 DEF RemoteReceives
    <3>4. ~OtherHeard(x, m)
      BY <3>1 DEF OtherHeard, service_vars
    <3>5. QED  BY <2>2, <2>3, <3>3, <3>4
  <2>5. PICK c : /\ c = CapabilityOf(m.aspect) /\ Receive(x, m) /\ m.type = "event"
                 /\ proxies' = [proxies EXCEPT ![x][c] = ProxyEvent(@, m.aspect, m.value)]
    BY <2>4 DEF EventHeard
  <2>6. to_remote[x] # <<>> /\ m = Head(to_remote[x]) /\ Notice(m)
    BY <2>4, <2>5, ReceiveParts
  <2>7. PICK a \in Aspects : Tells(m, a)
    BY <2>5, <2>6 DEF Notice, Answers
  <2>8. m.aspect = a /\ c \in Capabilities /\ a \in AspectsOf[c]
    BY <2>5, <2>7, AspectParts DEF Tells
  <2>9. x = r /\ c = Transcript /\ proxies'[r][Transcript] = ProxyEvent(s, a, m.value)
    BY <1>1, <1>4, <2>5, <2>8, AspectParts DEF VideoInv, Tables
  <2>10. CASE a = "current-text"
    <3>1. ProxyEvent(s, a, m.value)[a] = m.value
      BY <1>1, <2>8, <2>9, <2>10, ProxyEventParts
    <3>2. CarriesText(m) /\ TextOf(m) = m.value
      BY <2>5, <2>7, <2>10 DEF CarriesText, TextOf
    <3>3. in # <<>> /\ m = in[1] /\ 1 \in DOMAIN in
      BY <1>1, <2>6, <2>9, QueueTake
    <3>4. s["current-text"] <= m.value
      BY <1>1, <3>2, <3>3 DEF Forward
    <3>5. m.value \in Nat
      BY <2>6, <3>2 DEF Notice
    <3>6. QED  BY <1>1, <1>2, <2>9, <2>10, <3>1, <3>4, <3>5
  <2>11. CASE a # "current-text"
    <3>1. DOMAIN s = AspectsOf[c] /\ "current-text" \in AspectsOf[c] \ {a}
      BY <1>1, <2>9, <2>11, AspectParts
    <3>2. ProxyEvent(s, a, m.value)["current-text"] = s["current-text"]
      BY <2>8, <3>1, ProxyEventParts
    <3>3. QED  BY <1>1, <1>2, <2>9, <3>2
  <2>12. QED  BY <2>10, <2>11
<1>5. QED  BY <1>3, <1>4

\* No proxy of the transcript goes back to a subtitle it is past.
THEOREM TextGoesForward == Spec => TextForward
<1>1. VideoInv /\ [Next]_vars =>
        [\A r \in Remotes :
           proxies[r][Transcript] # NoProxy /\ proxies'[r][Transcript] # NoProxy =>
           proxies'[r][Transcript]["current-text"] >= proxies[r][Transcript]["current-text"]]_vars
  BY TextSteps
<1>2. QED  BY <1>1, VideoInvariant, PTL DEF Spec, TextForward
=============================================================================
