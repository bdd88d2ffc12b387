# Verification of meshbot

meshbot is a bot for Meshtastic radio meshes, written in Go.  It keeps a
connection to one or more Meshtastic devices (over TCP, or over the serial
port), learns about the nodes of the mesh from what the devices report, answers
text commands (`/ping`, `/sygnal`, `/sciezka`, ...), and posts announcements on
channels at regular intervals.

This directory holds TLA+ specifications of it, configurations to model-check
them with TLC on small instances, and proofs about eight of them that TLAPS
checks for every value of the constants.  Paths like `main.go:392` are relative
to `src/`; `PROJECT.json` maps every definition to the lines it models.

    tlc -workers 2 -config MCOutgoing_private.cfg MCOutgoing.tla
    tlapm OutgoingProofs.tla

## 1. Inventory: the program

### Goroutines

Almost everything that can go wrong in this program goes wrong between
goroutines.  There are no long-lived workers except the readers and announcers:

| goroutine | started by | lives |
|---|---|---|
| `main` | the process | reads `config.json`, subscribes, connects every device, then sleeps |
| reader, `readMessages` (connected_node.go:170) | `Connect` | until EOF on its stream |
| event handler: `incoming`, `traceroute`, `connected`, `disconnected` ... | `publish` (pubsub.go:44), one per event and subscriber, in no order | until the handler returns |
| sender, the body of `Send` and `SendReliably` (outgoing_message.go:72, 90) | a handler or an announcer | until somebody receives its result - for ever, if nobody does |
| timer of an acknowledgement (outgoing_message.go:128-138) | `send` | `Timeout` |
| timer of a traceroute request (main.go:359-376) | `rememberTraceroute` | a minute, or until the response |
| announcer (main.go:169-183) | the first `connected` | for ever |

They share `ConnectedNode.Acks` (a map, no lock), `NodeList.nodes` (a map, no
lock), the nodes themselves (pointers, no lock), the stream (no lock),
`announcersRunning` (no lock), the subscriptions (maps, no lock),
`pendingTraceroutes` (a map with a lock) and `localityCache` (a map with a lock).

### Components

**Sending and acknowledgements** (`meshwrapper/outgoing_message.go`,
`acknowledgement.go`, the routing branch at `incoming_message.go:145-160`).
*State:* per message its part and attempt; `Acks`, from packet ids to
acknowledgements; in each of these the flag `waiting` and two channels,
`delivered` and `repeated`, with room for one value.  *Operations:* `Send`,
`SendReliably`, `send`, `receive`, `timeout`, `negative`, `close`, `delivered`.
*Interaction:* called by handlers and announcers; writes to the stream; the
reader resolves acknowledgements when routing packets arrive.  *Hard:* sender,
timer and reader meet at one acknowledgement without a lock; answers are lost,
repeated, late, or belong to an older attempt.  *Correct if:* TRUE is reported
only when every part was confirmed and FALSE only when a part has failed;
attempts do not compete; everybody reports in the end; `Acks` is emptied; the
reader never gets stuck; nothing panics.

**The command /sciezka** (`main.go:134-145, 354-400, 484-498, 581-590`,
`SendTraceroute` in `connected_node.go:115`).  *State:* `pendingTraceroutes.requests`, in each
request the channel `done`.  *Operations:* `traceroute`, `rememberTraceroute`,
`takeTraceroute`, the timer.  *Hard:* the response races the timer, the
handler that has not yet remembered the request, and other responses; ids are
random.  *Correct if:* one answer per command, a route only when the traced node
was heard, no channel closed twice, no request left in the map.

**Connection lifecycle** (`main.go:44-114, 147-208`, `connected_node.go:55-86,
170-217`).  *State:* the stream and the flag `Connected` - in each *copy* of the
`ConnectedNode`, because events carry it by value; `announcersRunning`.
*Operations:* `Connect`, `Close`, `readMessages`, the handlers `connected` and
`disconnected` with its backoff, the announcers.  *Hard:* which copy knows what;
Connect failing half-way; restarts of the device at any time.  *Correct if:* one
live stream at most; somebody is always in charge of the connection and nobody
else; a lost connection is made again; announcements go on.

**Stream framing** (`meshwrapper/stream_interface.go`).  *State:* the bytes on
the stream, the parser's `state` and `length`.  *Operations:* `writeMessage` (two
`Write`s), `readMessage`, `wakeDevice`.  *Hard:* debug text between frames,
header bytes within them, sizes at the limits, errors and EOF in the middle,
several writers.  *Correct if:* the packets come out that went in, in order.

**Breaking long messages** (`meshwrapper/helpers/language.go:103-179`).  A pure
loop over offsets into bytes.  *Correct if:* nothing is lost but single
separators at a cut, no UTF-8 character is cut, every message fits into 200
bytes with its number, the loop ends.

**Node registry** (`meshwrapper/node_list.go`, `node.go`, `neighbor.go`, the
parsing in `connected_node.go:186-274` and `incoming_message.go:58-178`).
*State:* `NodeList.nodes`, from numbers to pointers; each node's `Id`,
`HopsAway`, `LastHeard`.  *Operations:* `NewNode`, `MyInfo`, `ingestNodeInfo`,
`parseMeshPacket`, `Neighbours`, `findNode`.  *Hard:* the object of the bot
itself changes its number; `HopsAway` is an unsigned difference; messages hold
pointers while they are answered.  *Correct if:* the list of neighbours is the
nodes last heard without a relay.

**Command dispatch** (`main.go:210-251, 402-563`, `Reply`, `ReplyTo` and
`ReplyReliably` in `incoming_message.go:180-201`).  *State:* none of its own.  *Operations:*
`incoming` and one function per command.  *Hard:* two tables of the same
commands, channels and private messages, disabled commands, answers that leave
through pointers while the reader goes on.  *Correct if:* a command of `manual.md` is
answered once, by any of its names, unless it is disabled; on the channel it came on, or to
whoever sent it; and an ordinary message never.

**Publish/subscribe** (`meshwrapper/pubsub.go`) **and start** (`main.go:34-114,
147-184`, `config/config.go`).  *State:* the configuration; a map of handlers per
topic, without a lock; `announcersRunning`; the goroutines that announce.
*Operations:* `InitConfig`, `Subscribe`, `publish`, the loop over the devices,
`connected`.  *Hard:* the reader of the first device publishes while `main` is still
connecting the second; an event without a subscriber is dropped silently; several
devices complete their configuration at once; `log.Fatal` for one ends all.
*Correct if:* no event is lost; each announcement has one announcer, and one if
its channel exists.

**Weather and places** (`weather/open_meteo.go`, `main.go:253-273, 453-474,
499-558`).  *State:* `localityCache` under its lock; positions of nodes, which the
reader replaces at any time.  *Operations:* `FetchLocality`, `FetchWeather`, `FetchForecast`
and the commands `/hopy`, `/test`, `/pogoda`, `/prognoza` that choose a position for them.
*Hard:* a name is asked for between two uses of the lock; services fail, hang, or answer
with arrays of different lengths; a position is read twice.  *Correct if:* the name
is that of the place the bot was at, weather is shown for whom its label says, no
lock is kept, and every command is answered.

**Text helpers, channels and positions** (`helpers/assertions.go`, `channel.go`,
`position.go`).  How a channel is found is in `Startup`, when a position
counts as unset in `Weather`; the rest is formatting.  **Packaging** is not modelled.

### How they interact

    device --bytes--> reader (Framing) --packets--> registry (Registry)
                        |                              ^ pointers
                        +--publish--> incoming (Commands) --Reply--> sender (Outgoing) --> device
                        |               +--/sciezka--> pending map (Traceroute) --> device
                        +--publish--> traceroute (Traceroute)
                        +--routing packets--> Acks (Outgoing)
                        +--EOF--> Close --publish--> disconnected (Connection) --> new reader
                        +--ConfigComplete--> connected (Connection, Startup) --> announcers
    incoming --/hopy /test--> cache of names --> Nominatim      (Weather)
             --/pogoda /prognoza--> Open-Meteo                  (Weather)
    main --config.json--> Subscribe, then Connect of each device (Startup)

## 2. The modules

| module | models | kind |
|---|---|---|
| `Delivery` | what sending promises a caller | abstract specification |
| `Outgoing` | senders, timers and the reader at `Acks` and its channels | detailed; implements `Delivery` |
| `RouteService` | what `/sciezka` promises | abstract specification |
| `Traceroute` | handlers, timers and packet goroutines at `pendingTraceroutes` | detailed; implements `RouteService` |
| `Link` | what a connection to a device promises | abstract specification |
| `Connection` | copies of a `ConnectedNode`, streams, readers, reconnection, announcers | detailed; implements `Link` |
| `Framing` | writers, bytes, the parser | detailed |
| `Break` | the loop that cuts texts | algorithm |
| `Registry` | the nodes the bot knows | state and operations, used by `Commands` |
| `Commands` | `incoming`, the commands and their replies, over `Registry` | composition (EXTENDS `Registry`) |
| `Weather` | the commands that ask services, the cache of names and its lock | detailed |
| `Startup` | `main`, subscriptions, several devices, `connected` | detailed |
| `OutgoingProofs`, `TracerouteProofs`, `BreakProofs`, `ConnectionProofs`, `CommandsProofs`, `FramingProofs`, `WeatherProofs`, `StartupProofs` | | theorems |
| `MCOutgoing`, `MCTraceroute`, ... | | instances for TLC |

A definition has the name of what it models where that is possible (`Receive`,
`Negative`, `SendTraceroute`, `ReadEof`).  A definition with an underscore and a
comment that begins "Mutant:" is a plausible error in the code; putting it in the
place of the definition named before the underscore makes TLC report the
property that guards against it.

**Outgoing.**  One step is one operation on shared state: a channel operation, a
load or store of `waiting`, an access to `Acks`.  `spc` is where each sender is
(`send` → `register` → `wait` → ... → `report`), `wpc` where each timer and the
reader are (`sleep`, `lookup`, `receive`, `negative`, `delivered`, `repeated`,
`store`, `closeDelivered`, `closeRepeated`, `delete`: the lines of
`acknowledgement.go` in order).  A channel is a buffer of one place and a mark
that it is closed.  A routing packet is an acknowledgement by the recipient
(`ack`), a packet of a relay (`repeat`) or a routing error (`error`); any may
arrive, any number of times, for any packet that was ever transmitted.  Fatal
errors are steps too: `SendOnClosed`, `CloseOfClosed` and `MapRace`, Go's fatal
error for overlapping accesses to a map, which the runtime *may* notice.

**Traceroute.**  `hpc` is the handler of each command, `tpc` its timer.
`SendTraceroute` and `RememberTraceroute` are separate because a response can be
handled between them.  The map is under a lock, so `Take` and `Expire` are whole
critical sections; the reply comes in a step of its own, after the lock.  `TimerFires`
stays enabled when `done` is closed: Go's `select` may pick either.

**Connection.**  Copy 0 is `main`'s `ConnectedNode`; copy *s* is the one that
`Close` publishes when stream *s* ends.  `stream`, `up` (the field `Connected`)
and `cpc` (the goroutine in `Connect`) are per copy; `status`, `reader` and `copy`
(which copy the reader works on) per stream.  `Publish` makes a copy, `CloseStream`
closes whatever stream the copy holds by then, as `Close` does.  A stream may end
(`Ends`) by EOF or with another error, at any time.  The history variable `calm` says
that so far they ended by EOF only, none while `Connect` was at work on it, and that
`Connect` never failed with its stream open: what holds only then is stated with `calm`
as its condition, and is false without it (section 7).

**Framing.**  Bytes are numbers below `Base`; a frame is the header and the
packet, in two steps, and between the two another goroutine may write.  On the
wire a byte carries the number of its frame and its place in it, which nobody reads;
with them `torn` (frames written into one another), `spoiled` (struck by an error) and
what was received are told apart.  `Start`, `Second`, `High`, `Low` are the cases of the
parser's switch, `Part` and `Whole` are `io.ReadFull`.  `ReadFails` is any error
but EOF, after which `readMessages` simply calls `readMessage` again, in the
middle of a frame perhaps.

**Break.**  A text is a sequence of four kinds of bytes: `letter` (any byte that
begins a character), `cont` (one that continues it), `space` and `line`.  Offsets
count from zero as in the code.  One action for each way a round of the loop ends.

**Registry and Commands.**  A node is an object, apart from its number, because
messages hold pointers and the object of the bot (`Self`) is renumbered by
`MyInfo`; a number that leads to it (`Had`) is that of the device or of one before it.
`HopsAway` is modelled with its wrap-around.  A NeighborInfo that is not about its sender
ends the process (`PacketPanics`, `ReaderPanics`).  A text is its first word: any alias of any
command, or one of two words that are no command.  `EnabledAliases` are the lists `incoming`
compares it with, `DisabledAliases` those of `disabledCommandMatches`; they are two tables, as in
the code, and that they say the same is checked and proved, not assumed.  `Manual` is the list
of `manual.md`, which the properties compare the answers with.  A message holds a copy of its
channel, whose id is zero if the device told of it without its settings (`bare`).  `Incoming` is
the whole of `incoming`; the answer leaves in `Transmit`, the first time the sender goroutine
follows the pointer, with any number of steps of the reader in between.

**Weather.**  `hpc` is where each handler is: `bot` and `toNode`, `sender` and `fallback`
are the reads of a position, one step each, between which `Move` may replace it;
`place`, `look`, `ask`, `named` and `store` are `FetchLocality` with its lock, `fetch` the
wait for the weather.  A name is the key it was asked for, so that one given for
another place can be told from the right one; a forecast is how many days and how many
values the service sent.

**Startup.**  `mpc` is `main`, `hpc` each handler `connected`.  A device publishes (`Publish`,
`Complete`) as soon as its stream is open, and so between any two steps of `main`.
`Announcer` is one round of the loop over the announcements, `AllStarted` the
assignment of `announcersRunning` behind it.  What happens to a stream afterwards is in
`Connection`.

### Abstract specifications

`Delivery`: the parts of a message go out in order; the sender moves past a part
only when it is confirmed, reports TRUE only when all are, and reports once.  The
mapping is `outcome <- result`, `progress <- part - 1`, `confirmed <-` the parts for
which a confirming packet was heard.

`RouteService`: each command is answered once; with a route only if a traceroute
packet from the traced node arrived.  The mapping is `seen <-` the senders in
`heard`.

`Link`: a device has one connection after another; each is opened only after the one
before was lost, and the bot gives up only if it gets none at all.  `phase <- Phase` is
read off the goroutines: `over` once `main` has ended, `seeking` while a copy is in
`Connect` without a stream or in the backoff, `settling` while it writes to a new one, `held`
while there is a live stream, else `lost`; `opened <-` the number of streams opened.  The
steps are those of `Link` as long as all is `calm`, and without that they are not
(section 7).  This refinement is proved, not run: `OneLink` and `OneInCharge` are what
the runs check of it.

## 3. The runs

Times are with two workers.  `pass` means TLC visits every reachable state.

| run | instance | distinct states | checks |
|---|---|---|---|
| `outgoing_private` | one reliable private message, 2 parts, 2 attempts each, 2 packet ids | 2.3 M (90 s) | `TypeOK`, `YesIsConfirmed`, `NoIsJustified`, `OneInFlight`, `ImplementsDelivery` |
| `outgoing_liveness` | a private and a channel message that compete for one id | 31 k (23 s) | `SendersReport`, `AcksEmptied`, `ReaderFree` |
| `outgoing_acked` | one message, one part, one id | - | `AckedIsDelivered`, **violated** |
| `outgoing_panic` | the same | - | `ChannelsNeverPanic`, **violated** |
| `traceroute_answers` | 3 commands of 2 nodes, 2 ids and zero, which may collide, packets without an id | 162 k (110 s) | `TypeOK`, `AtMostOneReply`, `PendingIsOpen`, `ImplementsRouteService`, `EveryoneAnswered`, `RequestsEmptied` |
| `connection_reconnect` | 3 streams in a row that end or break at any time, announcers | 69 k (90 s) | `TypeOK`, `OneLink`, `OneInCharge`, `Reconnects`, `DropsAreAnswered` |
| `connection_cycle` | 2 streams, announcers | - | `AnnouncementsCycle`, **violated** |
| `framing` | 2 writers, 3 frames, a byte of debug text, a read error, a close anywhere | 1.9 M (150 s) | `TypeOK`, `PacketsInOrder`, `ClosedIsNoticed` |
| `break_text` | texts of every repeating pattern of 6 bytes, 16 sizes | 31 k (15 s) | `TypeOK`, `NothingLost`, `WholeChars`, `MessagesFit`, `LinesStayWhole`, `EveryRoundAdvances` |
| `commands` | one text of any kind, 2 numbers, both devices in turn, 2 channels, 3 hop limits, wrap-around at 16 | 661 k (80-110 s) | `TypeOK`, `NeighboursAsHeard`, `AnsweredAsPromised`, `RepliesReachSender`, `RouteStaysPrivate` |
| `weather` | 3 commands, 2 places of the bot with one key, one of the sender | 172 k (60-90 s) | `TypeOK`, `LocalityIsRight`, `LabelIsTrue`, `HandlersAnswer` |
| `startup` | 17 files on 3 devices, 3 `ConnectedEvent`s | 52 k (50 s) | `NothingLost`, `AnnouncersOnce`, `AnnouncementsStart` |

### What they show, and why the bounds are enough

* `outgoing_private`.  Two ids are one transmission per part, or two attempts at
  one part; after that `Transmit` has no id left and only `TransmitFails` can
  happen, so a run of the model covers: both parts confirmed, the first lost and
  retried, an answer to the first attempt that arrives during the second.  With
  three ids TLC needs far longer; the theorems of section 5 cover any number.
  `IdSymmetry` is used here (no liveness is checked) and sound because ids are
  only compared.
* `outgoing_liveness` uses one id for two messages: either message may get it,
  the other fails to transmit.  The properties are about the goroutines around one
  acknowledgement (sender, timer, reader), and no acknowledgement touches another.
  All three allow the process to have died (`crashed`).
* `traceroute_answers`: `c1` and `c2` come from one node and `c3` from another, so a
  packet without an id has a choice of two requests and one it must not take;
  `n1` sends traceroutes of its own, which carry no id.  Ids are drawn from two and
  zero, so any two requests may collide, and all three must if none is zero.  A
  request that another overwrites in the map is lost; therefore
  `AtMostOneReply` and `EveryoneAnswered` say so of states in which ids are
  `Distinct`, and `ImplementsRouteService` of those in which they are `Telling`
  (distinct and not zero), while `PendingIsOpen` and `RequestsEmptied` hold
  whatever the ids.
* `connection_reconnect` takes three streams: copy 1 is made from `main`'s, copy 2
  from copy 1, and the third stream shows that copy 2 works as copy 1 did; the
  theorems of section 5 cover any number.  Streams end in every way;
  `OneLink`, `OneInCharge` and `Reconnects` are about `calm` states, because
  otherwise they are false (section 7), and `DropsAreAnswered` about all.
* `framing`: 256 is reduced to 4, so that a length takes both of its bytes and START1 and
  START2 can be bytes of a length or of a packet; `MAX_SIZE` is 5, and the
  packets are empty, 2 long (the low byte of the size is START1 and START2 follows it, so
  a parser that searches this header finds another), 3 long, exactly 5 long with a header
  inside, and 7 long, which is too big.
  Three frames are what it takes for two to be written into one another and the
  next to be found, or for an error to strike one of them.
* `break_text`: limit 10, 4 bytes per part with room for the 6 of a number,
  characters of at most 3 bytes; the patterns give every arrangement of
  separators and characters around a cut, and the sizes go from no cut to more parts
  than are allowed (12 here).
* `commands`: one text, because handlers share nothing but the registry, which the reader
  changes with or without texts.  `MCNext` bounds when it does: before the text is read, nodes, hop counts and
  devices change freely; while it is being answered, only what a handler can see of that changes,
  which numbers there are and which object each leads to (no handler's step depends on hop counts), and
  channels; after that, nothing.  Both numbers may be the device's, one after the other, so a text may
  come from the device or a former one, and its sender's object may change its number before the answer
  leaves.  Two channels, each known or `bare`; `Wrap` 16 stands for 2^32, and limits 0, 1, 2 give a
  missing hop start, equal, smaller and larger limits (the last wraps).  The text is one of
  27 words: all 25 aliases of the nine commands, and two others.  One command is disabled, `hopy`,
  which differs from `pogoda` in nothing the model has, so that each of the other eight is answered.
  `NumSymmetry` is sound as numbers are only compared and no liveness is checked.
* `weather`: `/test` on a channel, `/hopy` in private and one of `/pogoda` and `/prognoza` share
  the cache; two places have one key and one of them lies on the equator, so a name
  is found that another handler asked for, and asked for by both; forecasts have
  up to two days and two values.
* `startup`: devices with a hostname, a device, both, or none, of kinds that are allowed
  or not; three announcements, two of them on one channel and one on a channel only the
  second device has; three `ConnectedEvent`s, so two handlers overlap and a
  third comes later.

Deadlock is not checked where the program, or the model at its bound, may stop:
all messages sent and all timers done; all streams used; the reader gone after EOF; the
process dead.  In `break_text` it is checked, `Returned` being the end.

## 4. Fairness

Liveness needs that goroutines run; every fairness condition is one of these:

* *A goroutine that can run does.*  Weak fairness of `SenderStep` (once started),
  `ReaderStep`, `ResolveStep`, `RememberTraceroute`, `ReplyRoute`, `ConnectStep`,
  `ReaderStep` and `AnnounceStep` of Connection, `ReadByte`, `ReadEof`, `Own` of
  Weather, `Handler` of Startup.  Go's
  scheduler is fair to runnable goroutines, and a blocked channel operation that
  becomes possible is done.
* *Sleeps end.*  Weak fairness of `Timeout` and `TimerStep`: `time.Sleep` and
  `time.After` return.
* *A request for a name ends.*  Weak fairness of `Own` covers `Named` and `Unnamed`: its
  client has a timeout of ten seconds (open_meteo.go:154).  The weather services owe
  nothing, since `http.Get` has none: `Service` is not fair, and `HandlersAnswer`
  ends at the wait for them.
* *A panic is not put off for ever.*  Weak fairness of `SendOnClosed` and
  `CloseOfClosed`: a goroutine at such an operation runs like any other.
  `MapRace` is not fair; the runtime need not notice.  Nor is `Main` of Startup: connecting
  may take for ever.
* *A device that is tried again and again accepts some time.*  Strong fairness of
  `Acquire`, for `Reconnects` only.

Nothing is assumed of the mesh (no packet ever has to arrive), of users, of
callers, or of a device's staying up.  `WaitDelivered` and `WaitRepeated` are under one
condition with the rest of a sender, so no choice of `select` is assumed.

## 5. What is proved

TLAPS checks these for every value of the constants, under the named `ASSUME` of
the module (`OutgoingAssumption`, `TracerouteAssumption`, ...) and nothing else
unless it is said; TLC evaluates each of them in its runs.

**OutgoingProofs** - any number of messages, parts, attempts and ids.

* `TypeCorrect`: `TypeOK`, with `attempt <= Attempts`.  Needs `Located`: only the
  reader is ever at `lookup`, `receive` or `relay`, and a timer's program counter
  stays within its own locations.
* `Invariance`: the inductive invariant `IInv`.  `YesIsConfirmed` is not inductive:
  that `result` is TRUE comes from a value in a channel, which comes from a worker
  past its test of `waiting`, which comes from a packet.  `IInv` follows that chain
  backwards:
  - `PacketInv`: which packet a sender waits for and what packets belong to; the
    reader holds a packet that was heard, and resolves only for an error or an
    answer of the recipient;
  - `ChannelInv`: a value in a channel is backed by what was heard, or by the timer;
  - `FilledInv`: while its sender waits, an acknowledgement's channel is not
    closed, and no worker is past sending on it, unless the value is still there.
    Without it a sender could read FALSE from a closed and empty channel that
    once held TRUE;
  - `SenderInv`: what a sender knows about the parts it is through with.

  It holds in spite of the race on `waiting`: that two workers resolve one
  acknowledgement makes the process panic, but never makes it say something false.
* `YesCorrect`, `NoCorrect`, `StopAndWait`: the three safety properties.
* `Refinement`: `Spec => ImplementsDelivery`.  Each step maps to one of `Delivery` or
  to a stutter; `Monotone` and `ConfirmedGrow` say that what was heard and
  transmitted only grows.
* `WaitInvariance`: `WaitInv`, beside `IInv`, is what liveness rests on:
  - `OwedInv`: a sender that was told nothing has `waiting` set and a timer before its send;
  - `FullInv`: a full and open channel is about to be closed by whoever filled it -
    unless the TRUE of a relay fills it;
  - `EntryInv`: an entry in `Acks` has a timer that is not done;
  - `RelayedInv`: after a relay the reader removes the entry and never finds it again,
    so it cannot get stuck on the value of the relay.
* `SendersOwed`, `ReaderFreed`, `EntriesOwned`: the safety sides of `SendersReport`,
  `ReaderFree` and `AcksEmptied`.  Whoever waits, waits for a goroutine that can go on, and the
  timer and the reader never for each other; with fairness that is all these properties
  need, and it is proved for any number of senders and ids.
* `TimersFreed`: the one way in which a timer is stuck for good (section 7).

**TracerouteProofs** - any number of commands, nodes and ids.

* `TypeCorrect`, and `NeverClosedTwice`: `PendingIsOpen`, from `PendingInv` - a
  request in the map is entered under its own id and nobody has told its timer -
  even if ids collide.
* `SingleReply`: `AtMostOneReply`.  `ReplyInv` says that, as long as ids are distinct, at most
  one of the handler, the map, the timer and the packet goroutine owns the right to
  answer; ids that collide go on colliding (`DistinctBefore`), so the invariant need not
  be restored.
* `Refinement`: `Spec => ImplementsRouteService`, as long as ids are distinct and not zero.
  A zero id would let a packet meant for nobody answer a request of another node.
* `PendingTimed`: each request in the map has a timer that has yet to expire, even if ids
  collide; `AnswersOwed`: as long as ids are distinct, a command that was handled and not
  answered is in the map, or held by its timer or a packet goroutine.  They are the
  safety sides of `RequestsEmptied` and `EveryoneAnswered`.

**BreakProofs** - any texts of any length, any limits, any widest character.

* `Invariance`: `IInv` is `TypeOK`, `StartInv` (a round begins at a character, after
  a separator or where the last part ended) and `PartInv` for every part.  The heart
  is `CutKeepsInvariant`: every round that makes a "good cut" keeps the invariant;
  `LineGoodCut`, `SpaceGoodCut`, `CharGoodCut`, `RestGoodCut` show that each does.
  `EndAdvances` shows that moving the end off the middle of a character
  stops within the widest character, so it never reaches the start.
* `TypeCorrect`, `LosesNothing`, `CutsNoChar`, `EmptyIsExplained`, `LoopAdvances`.
* `CutsNoLine`: `LinesStayWhole`.  That the last new line within reach is at least as far
  as the line that is to stay whole needs a greatest and a least element of a finite
  set of numbers; `Least` and `Greatest` get them from the well-foundedness of
  strict inclusion of finite sets, without an induction over an operator.
* `AllFit`: `MessagesFit`, if `MaxLength + 6 <= Limit`, as language.go:105 has it.
  Six bytes are enough for " [999]" because from the tenth part on the total is left out.

**ConnectionProofs** - any number of streams.

* `TypeCorrect`, without conditions.
* `Invariance`: `Chain(n)`, while all is calm.  `OneInCharge` is not inductive: it counts, but
  a reader that has published could close the wrong stream, and a copy find its
  flag set by another reader.  `Chain` says who made what: stream *s* was opened by copy
  *s - 1*, everything before the latest is over, nothing behind it has begun, and
  the latest is `Settling` (Connect works on it), `Settled` (it is read) or being replaced
  (`Replacing`).  `WhoConnects` and `WhoReads` read off that only the end of the chain is active.
* `OneLinkWhileCalm`, `OneInChargeWhileCalm`: `OneLink` and `OneInCharge`.  As the names say, both are
  about calm states only: streams that ended by EOF, and no `Connect` that failed half-way.
* `Refinement`: `Spec => ImplementsLink`.  `PhaseIs` turns `Phase`, a question about all
  goroutines, into one about the last link of the chain (`PhaseOf`); `LinkConnect` and
  `LinkReader` then follow each step along it.

**CommandsProofs** - any numbers, devices in turn, channels, texts, words, hop limits and disabled
commands.

* `Invariance`: `RegInv` is about the registry (only devices that were connected lead to the bot's
  own object; a hop count is what was told last, `HopsAwayIsCount` being the arithmetic
  of the wrap-around), `MessageInv` about the pointers a message holds (they lead to
  its sender and to the bot or to everyone, because only the number of the bot's own
  object ever changes), `AnswerInv` and `DoneInv` about what is owed and what was sent.
  `HadGrows`: a number that led to the bot's own object always will, so who may be taken for
  whom (`Reached`) is still true when the answer leaves.  `Dispatch` sums up `incoming`: nothing, a
  traceroute, or one answer.
* `TablesAgree`: the two tables of the code have the same words for each command, and no word is
  in two entries; `ManualAgrees` and `AsListed` relate them to the list of the manual.
* `TypeCorrect`, `NeighboursHeard` (`NeighboursAsHeard`), `RepliesReach`, `AnswersPromised`, `RoutePrivate`.

**FramingProofs** - any packets, bytes, sizes, writers, debug text, errors.

* `TypeCorrect`: whatever is on the stream, packets that are returned are neither empty nor
  too big.
* `InOrder`: `PacketsInOrder`, the longest of the proofs.  The property speaks of what was
  received; the next packet depends on what is still on the wire, on where the parser
  is, and on how writers were interrupted.  The inductive invariant `IInv` has three parts:
  - `WireInv` takes the wire apart.  Every byte is debug text without a START1, or of a frame at its
    place (`CellInv`); header and packet are each in one piece (`NextInv`), and the whole
    frame is if it is not torn (`PrevInv`, `RestInv`); frames come in their order
    (`StartInv`, `OrderInv`); a writer between its two writes has its header at the
    end of the wire or is torn (`BusyInv`, `TogetherInv`);
  - `ParserInv` says where the parser is: in a header it is where the header is
    (`HeaderInv`); what it takes for the packet of a frame is that one, or, if the frame
    is torn, bytes of torn frames only, as many as the torn ones have left (`BodyInv`); and in
    a frame that it need not search it is where the frame is (`HeadInv`);
  - `PastInv`: what was received is before all that is on the wire or being written.

  The last two hold while all is `Undisturbed`; `WireInv` holds always.  The reason no byte of a
  sound frame is lost to torn ones is in `Rest`: a torn frame announces as many bytes as it
  puts on the wire, and whatever stands in between is of frames that are torn as well.

**WeatherProofs** - any messages, places and rounding.  `Invariance`: who is inside the lock,
that a name in the cache is the one for its key, and what the work of a handler says at
each of its steps.  `TypeCorrect`, `NamesPlace` (`LocalityIsRight`) and `LabelsWeather`
(`LabelIsTrue`) follow.  `NobodyHeldUp` is the safety side of `HandlersAnswer`: the lock is only
held by a handler about to release it, and a panic is the fault of a forecast (`LimitWithin`:
never of the limit of two days).

**StartupProofs** - any files, devices, channels and numbers of events.  `LosesNothing`
(`NothingLost`) from `SubscribedInv`; `AnnouncesOnce` (`AnnouncersOnce`) from `AloneInv`: until two
handlers overlap, one starts all announcers and nothing is on the air before.  That a
handler is new when it starts is `FreshHandler`, by counting those that have begun.
`ReturnedStarted` is the safety side of `AnnouncementsStart`, even when handlers overlap: none
returns before one is through with all announcements its device has channels for (`AiredInv`).

Every safety property of the passing runs is proved.  Liveness under fairness, and anything with ENABLED, is beyond TLAPS's provers and is
model-checked only: `SendersReport`, `AcksEmptied`, `ReaderFree`,
`EveryoneAnswered`, `RequestsEmptied`, `Reconnects`, `DropsAreAnswered`,
`AnnouncementsCycle`, `ClosedIsNoticed`, `HandlersAnswer`, `AnnouncementsStart`.  So is what
would take induction over data or a RECURSIVE operator; no module declares one.  What is
missing from the proofs to `SendersReport`, `AcksEmptied`, `ReaderFree`, `EveryoneAnswered`,
`RequestsEmptied`, `HandlersAnswer` and `AnnouncementsStart` is only that goroutines which
can run do: that nobody waits for what will not come is proved.

## 6. Findings

Three runs show the program to break what the repository says of it.

1. **An acknowledged message is reported as lost** (`outgoing_acked`).
   outgoing_message.go:154 says that a private message is delivered when it
   reaches the recipient.  But the acknowledgement is entered in `Acks` only after the
   packet was written (131), so an answer that is read before is dropped; and any
   routing packet for the id, a relay's included, removes it from `Acks`
   (incoming_message.go:157), so an answer after a relay's is dropped too.  `SendReliably`
   then sends the part again.
2. **An acknowledgement that races its timer brings the process down**
   (`outgoing_panic`).  `negative` and `receive` test `waiting` and act on it
   later (acknowledgement.go:68); both go on to send on the same channels
   and to close them.  README.md:16 wants the bot to run stably.
3. **Announcements end with the first connection** (`connection_cycle`).  An announcer
   keeps `&node` of the first `connected` (main.go:177), and with it a stream that is
   closed after a reconnection; `announcersRunning` keeps new ones from
   starting.  README.md:25 promises cyclic announcements.

## 7. Known deviations without a run of their own

Met while modelling; the models contain them, and where a property excludes one,
its comment or its run says so.

* `Acks` and `NodeList.nodes` are accessed by several goroutines without a lock
  (outgoing_message.go:131, node_list.go:52).  `MapRace` in Outgoing and Commands.
* A sender whose caller drops the result channel - `Reply`, `ReplyTo`, the
  announcers - blocks for ever on it (outgoing_message.go:72).  `Awaited` in
  Outgoing; `SendersReport` counts it as reported.
* The timer of a message that a relay repeated and that then times out blocks for ever on
  `repeated` (acknowledgement.go:73): the TRUE of the relay fills its one place, and a private
  sender never receives from it, nor does a sender on a channel that already took the FALSE from
  `delivered`.  `waiting` stays set and the channels open; the entry is gone from `Acks` by
  then, so no sender or reader is held up.  `TimersFreed` proves that a timer gets
  stuck in no other way.
* A traceroute response that is handled before the request is remembered is dropped
  and the user told of a timeout (main.go:491).  `Drop` in Traceroute.
* A traceroute packet without a request id answers any pending request of its
  sender, also when it is a request of that node's own (main.go:392).
  `Candidates` in Traceroute; `RouteService` only asks for the right sender.
* If `Connect` fails after its stream is open, the stream and its reader stay
  (connected_node.go:67): two live streams, two loops later.  `WriteFails`
  in Connection, which ends `calm`; the reason why `OneLink` and `OneInCharge` are about `calm` states.
* A read error other than EOF is retried at once, for ever, on the same stream
  (connected_node.go:179), so a connection that breaks that way is never made
  again.  `Ends(s, "broken")` in Connection, `ReadFails` in Framing.
* A frame is written with two calls (stream_interface.go:48-53): frames of two
  goroutines can mix, and both are lost.  `torn` in Framing; `PacketsInOrder` says that the next frame is
  found again.  It excludes frames that hold a START1, in their size or in their packet, and
  are searched for a header because they are too big, mixed, or were struck by an error.  Debug text that ends in START1 swallows the next START1 (state 1 does not
  look for START1 again), which `FramingAssumption` excludes.
* After a change of device `MyInfo` renumbers the one object of the bot
  (connected_node.go:187), while the old number still leads to it.  What the former
  device sends is then answered to the present one, or, if it sent before the change, the answer
  leaves for the wrong number afterwards; and it is missing from the neighbours.  `RepliesReachSender`
  and `RouteStaysPrivate` let numbers the bot has `Had` be taken for one another (`Reached`), and
  `NeighboursAsHeard` does not ask for them to be listed.
* A NeighborInfo whose NodeId is not its sender fails an assertion in the reader
  (incoming_message.go:137), and the panic ends the process.  `ReaderPanics` in Commands.
* A channel the device tells of without settings has the id zero (channel.go:16), whatever its index, so a
  command that comes on it is answered on the primary channel.  `ChannelId` in Commands;
  `RepliesReachSender` says so.
* Packets of old firmware, and NodeInfo without a hop count, count as direct, or
  leave the count as it was; a node first heard of that way is a neighbour with count zero.
  `NeighboursAsHeard` says `"silent"` for what is not known.
* manual.md:66 says that commands other than those listed are ignored; the
  code answers an unknown private command with a hint (main.go:560-562, under a comment that says
  it does not), and `/neighbors`, which the manual does not list, like `/neighbours`.
  `HandleOther` and `EnabledAliases` in Commands; `AnsweredAsPromised` leaves both out: it is about
  commands that are listed, ordinary messages, and unknown commands on a channel.
* When no new line follows, `nextLineEnd` is the length of the whole text and not
  of the rest (language.go:161), so a last line, or the one before a line that is too
  long, may be cut at a space although it would fit: "ll \nl" with a limit of 4.
  `NextLineEnd` in Break; `LinesStayWhole` is about lines that are followed by another new line
  beyond the reach of the message.
* `BreakMessageAt` assumes valid UTF-8; for other texts it may move the end below
  the start and panic.  `WellFormed` is the assumption.
* The first device to complete sets `announcersRunning` even if it lacks a channel
  (main.go:169-184): announcements on channels only another device has are then never
  made.  `AllStarted` in Startup; `AnnouncementsStart` speaks of the first device.
* Two handlers `connected` that overlap both start all announcers (main.go:165).
  `overlapped` in Startup, which `AnnouncersOnce` excludes.
* `log.Fatal` over one device ends the process with all others, and no deferred `Close`
  runs (main.go:71-108).  `Ended` in Startup.
* On a channel `/pogoda` and `/prognoza` never fall back to the bot's position, because `ToNode`
  is then the broadcast node (main.go:507).  `ToNodePosition` in Weather.
* A position on the equator or the prime meridian counts as unknown for them (main.go:506).
  `Unusable` in Weather.
* A `display_name` that begins with a comma gives an empty name, which is cached for good
  (open_meteo.go:182-188): the place is then called unknown although it is known.
  `blanked` in Weather.
* A forecast whose arrays are longer than its `time` is a panic that ends the process
  (open_meteo.go:373-411).  `FetchForecast` in Weather; `HandlersAnswer` excuses it.
* A wind direction of exactly 360 degrees has no arrow, and a negative `delayMinutes`
  announces without pause; both are data that no module holds.

## 8. What is not modelled, and why

* **Names, units, translations and plurals** of the weather and of nodes: formatting.  Which node a
  name stands for is a choice among all of them (`FindNode`).
* **Logging and the rest of the configuration**: settings are constants (`Disabled`,
  `Announcing`, `Retries`) or outcomes (`TransmitFails`, `SendFails`: transmitting may
  be disabled).
* **Telemetry, the log of received messages, events nobody subscribes to**
  (`PositionEvent` and others): nothing depends on them.
* **Several connections at once** are in `Startup` only, as far as what they share is
  written there (subscriptions, `announcersRunning`); one instance of each other module
  stands for one connection.  The registry they share is not composed.
* **Packaging**.
* The clock.  A timer may fire at any time after it was started, so every
  order of a timeout and an answer is covered, and no property depends on lengths of
  time.
* Reading a pointer (`GetPosition`) is one load, and a node of a message is never nil.
* Data races on words (a torn read of `Connected` or `HopsAway`; `waiting` is atomic): loads and
  stores are atomic in the models; the platforms of the Dockerfile give that.

## 9. Plan

Done, in this order: `Outgoing` with `Delivery`, `Traceroute` with `RouteService`,
`Connection`, `Break`, `Framing`, `Registry` and `Commands`, `Weather`, `Startup`, each
with its proofs.  What is left, most important first:

1. `Commands` composed with `Outgoing`'s interface `Delivery` and with
   `RouteService`: an answer per command up to the user, and the number of stuck
   sender goroutines.
2. Two connections that share the registry: which of their bot objects a number leads to.
