------------------------------- MODULE Commands -------------------------------
(***************************************************************************)
(* What the bot answers (main.go), over the nodes it knows (Registry).      *)
(*                                                                          *)
(* Every text message that is read is given to a goroutine `incoming' of    *)
(* its own, and each answer to another one, Send.  They read the registry   *)
(* through the pointers of the message while the reader goes on changing    *)
(* it.  How a message is sent is in Outgoing, and what becomes of the       *)
(* traceroute of /sciezka in Traceroute.                                    *)
(*                                                                          *)
(* Abstracted: a text is its first word in upper case; the wording of       *)
(* answers; the weather and the name of a place, whose every outcome is     *)
(* answered with one message; of a channel, all but its id.                 *)
(***************************************************************************)
EXTENDS Registry

CONSTANTS Texts,     \* the text messages that arrive, by name
          Words,     \* the first words they may have
          Disabled,  \* the commands config.json disables
          Indexes    \* the channels packets arrive on

MaxHopLimit == 7

\* The table that `incoming' makes of its calls of enabledCommandMatches; (pl)
\* is the spelling with Polish letters.
EnabledAliases == [
    ping     |-> {"/PING"},
    pomoc    |-> {"/POMOC", "/HELP", "/O", "/ABOUT"},
    sygnal   |-> {"/SYGNAL", "/SYGNAL (pl)", "/SIGNAL"},
    sasiedzi |-> {"/SASIEDZI", "/SASIEDZI (pl)", "/NEIGHBOURS", "/NEIGHBORS"},
    hopy     |-> {"/HOPY", "/HOPS"},
    test     |-> {"/TEST", "TEST"},
    sciezka  |-> {"/SCIEZKA", "/SCIEZKA (pl)", "/TRASA", "/TRACE", "/TRACEROUTE"},
    pogoda   |-> {"/POGODA", "/WEATHER"},
    prognoza |-> {"/PROGNOZA", "/FORECAST"}]

Names == DOMAIN EnabledAliases

\* Mutant: the English name is missing from one of the two tables.
DisabledAliases_NoHops == [EnabledAliases EXCEPT !.hopy = @ \ {"/HOPS"}]

\* The table of disabledCommandMatches, which takes the first entry with the
\* word; none has two.
DisabledAliases == [
    ping     |-> {"/PING"},
    pomoc    |-> {"/POMOC", "/HELP", "/O", "/ABOUT"},
    sygnal   |-> {"/SYGNAL", "/SYGNAL (pl)", "/SIGNAL"},
    sasiedzi |-> {"/SASIEDZI", "/SASIEDZI (pl)", "/NEIGHBOURS", "/NEIGHBORS"},
    hopy     |-> {"/HOPY", "/HOPS"},
    test     |-> {"/TEST", "TEST"},
    sciezka  |-> {"/SCIEZKA", "/SCIEZKA (pl)", "/TRASA", "/TRACE", "/TRACEROUTE"},
    pogoda   |-> {"/POGODA", "/WEATHER"},
    prognoza |-> {"/PROGNOZA", "/FORECAST"}]

\* The words without a slash; all others have one.
Plain == {"TEST", "HELLO"}

ASSUME CommandsAssumption ==
    /\ Disabled \subseteq Names
    /\ Indexes \subseteq Nat

VARIABLES
    hpc,      \* where the goroutine of each message is
    message,  \* the message itself
    sent,     \* history: the answers that were sent to it
    traced,   \* history: the nodes a traceroute was sent to for it
    dead,     \* whether a panic or the runtime has ended the process
    bare      \* the channels the device told of without their settings

commandVars == <<hpc, message, sent, traced, dead, bare>>
vars == <<registryVars, commandVars>>

NoMessage == [from |-> None, to |-> None, hops |-> 0, word |-> None, channel |-> 0,
              origin |-> None, public |-> FALSE, on |-> 0, bare |-> FALSE,
              answer |-> None]

Init ==
    /\ RegistryInit
    /\ hpc = [t \in Texts |-> "unsent"]
    /\ message = [t \in Texts |-> NoMessage]
    /\ sent = [t \in Texts |-> {}]
    /\ traced = [t \in Texts |-> {}]
    /\ dead = FALSE
    /\ bare = {}

\* commandMatches, for the word of t and any of the aliases
Matches(t, aliases) == message[t].word \in aliases

\* IsPrivateMessage
IsPrivate(t) == Id(message[t].to) # Broadcast

Goto(t, l) == hpc' = [hpc EXCEPT ![t] = l]

-----------------------------------------------------------------------------
(* The reader                                                               *)

\* The id of a channel: NewChannel leaves it zero if there are no settings, and
\* parseMeshPacket takes the index for one that was not told of.
ChannelId(i) == IF i \in bare THEN 0 ELSE i

\* The device tells of a channel.
ChannelInfo(i) ==
    /\ bare' \in {bare \union {i}, bare \ {i}}
    /\ UNCHANGED <<registryVars, hpc, message, sent, traced, dead>>

\* A text message for the bot, or for everyone on a channel.  It has a copy of
\* the channel; origin, public, on and bare are history.
TextArrives(t, from, to, i, start, limit) ==
    /\ hpc[t] = "unsent"
    /\ Packet(from, {to}, start, limit)
    /\ \E word \in Words :
         message' = [message EXCEPT ![t] =
             [from |-> Sender(from), to |-> nodes'[to], hops |-> HopsAway(start, limit),
              word |-> word, channel |-> ChannelId(i), origin |-> from, public |-> to = Broadcast,
              on |-> i, bare |-> i \in bare, answer |-> None]]
    /\ Goto(t, "incoming")
    /\ UNCHANGED <<sent, traced, dead, bare>>

\* The hop limits a packet may start and arrive with; what the device tells of
\* itself has not been relayed.
HopLimits(n) == {h \in Limits \X Limits : n = own => h[1] = h[2]}
HopCounts(n) == {None} \union IF n = own THEN {0} ELSE Limits

\* Whatever else is read.
Read ==
    \/ \E d \in Devices : MyInfo(d)
    \/ \E n \in Nums : \E h \in HopCounts(n) : NodeInfo(n, h)
    \/ \E from \in Nums, others \in SUBSET Nums : \E h \in HopLimits(from) :
         Packet(from, others, h[1], h[2])

\* The reader panics over a NeighborInfo, and the process ends.
ReaderPanics ==
    /\ \E from \in Nums, to \in Nums \union {Broadcast} : PacketPanics(from, to)
    /\ dead' = TRUE
    /\ UNCHANGED <<hpc, message, sent, traced, bare>>

-----------------------------------------------------------------------------
(* incoming                                                                 *)

\* Mutant: the channel is looked up again.
MessageChannel_Looked(t) == ChannelId(message[t].on)

\* IncomingMessage.Channel
MessageChannel(t) == message[t].channel

\* The answer is on its way to the goroutine that sends it, with a pointer to
\* its recipient, and the channel of the message if it is for all.
Answer(t, style) ==
    /\ message' = [message EXCEPT ![t].answer =
           [to |-> IF IsPrivate(t) THEN message[t].from ELSE Broadcast,
            channel |-> IF IsPrivate(t) THEN None ELSE MessageChannel(t),
            hops |-> IF message[t].hops + 2 < MaxHopLimit THEN message[t].hops + 2 ELSE MaxHopLimit,
            style |-> style]]
    /\ Goto(t, "send")

Silent(t) == Goto(t, "done") /\ UNCHANGED message

\* disabledCommandMatches
IsDisabled(t) == \E c \in Disabled : Matches(t, DisabledAliases[c])

\* enabledCommandMatches
Is(t, c) == Matches(t, EnabledAliases[c]) /\ c \notin Disabled

HandleDisabled(t) ==
    /\ IsDisabled(t)
    /\ Silent(t)
    /\ UNCHANGED <<sent, traced, dead, bare, registryVars>>

\* An answer that is marked as one to the message, or a plain one.
Quoting(t, c) == Is(t, c) /\ Answer(t, "quote") /\ UNCHANGED <<sent, traced, dead, bare, registryVars>>
Plainly(t, c) == Is(t, c) /\ Answer(t, "plain") /\ UNCHANGED <<sent, traced, dead, bare, registryVars>>

HandlePing(t) == Quoting(t, "ping")
HandleTest(t) == Quoting(t, "test")
HandlePomoc(t) == Plainly(t, "pomoc")
HandleSasiedzi(t) == Plainly(t, "sasiedzi")
HandleHopy(t) == Plainly(t, "hopy")

\* The weather, that there is none, or that nobody's position is known.
HandlePogoda(t) == Plainly(t, "pogoda")
HandlePrognoza(t) == Plainly(t, "prognoza")

\* /sygnal: on the sender, or on the node that is named, if any is.
HandleSygnal(t) ==
    /\ Is(t, "sygnal")
    /\ \E subject \in {message[t].from} \union FindNode :
         Answer(t, IF subject = None THEN "unknown" ELSE "plain")
    /\ UNCHANGED <<sent, traced, dead, bare, registryVars>>

\* Mutant: it is not asked for in private.
Asked_Anywhere(t) == TRUE

Asked(t) == IsPrivate(t)

\* /sciezka: SendTraceroute, whose answer is up to Traceroute, or an error.
HandleSciezka(t) ==
    /\ Is(t, "sciezka")
    /\ IF Asked(t)
       THEN \/ /\ traced' = [traced EXCEPT ![t] = @ \union {Id(message[t].from)}]
               /\ Silent(t)
            \/ Answer(t, "quote") /\ UNCHANGED traced
       ELSE Silent(t) /\ UNCHANGED traced
    /\ UNCHANGED <<sent, dead, bare, registryVars>>

\* Ordinary messages and unknown commands.
HandleOther(t) ==
    /\ \A c \in Names : ~Is(t, c)
    /\ IF IsPrivate(t) /\ message[t].word \notin Plain THEN Answer(t, "reliable") ELSE Silent(t)
    /\ UNCHANGED <<sent, traced, dead, bare, registryVars>>

\* Neighbours and findNode iterate over the map while the reader may be adding
\* to it: the runtime may end the process.
MapRace(t) ==
    /\ Is(t, "sasiedzi") \/ Is(t, "sygnal")
    /\ \E n \in Nums : nodes[n] = None
    /\ dead' = TRUE
    /\ UNCHANGED <<hpc, message, sent, traced, bare, registryVars>>

Incoming(t) ==
    /\ hpc[t] = "incoming"
    /\ \/ HandleDisabled(t)
       \/ /\ ~IsDisabled(t)
          /\ \/ HandlePing(t) \/ HandlePomoc(t) \/ HandleSygnal(t) \/ HandleSasiedzi(t)
             \/ HandleHopy(t) \/ HandleTest(t) \/ HandleSciezka(t) \/ HandlePogoda(t)
             \/ HandlePrognoza(t) \/ HandleOther(t) \/ MapRace(t)

\* SendMessage follows the pointer.
Transmit(t) ==
    /\ hpc[t] = "send"
    /\ LET a == message[t].answer
           to == Id(a.to)
       IN  sent' = [sent EXCEPT ![t] = @ \union
               {[to |-> to, channel |-> IF to = Broadcast THEN a.channel ELSE 0,
                 hops |-> a.hops, style |-> a.style]}]
    /\ Goto(t, "done")
    /\ UNCHANGED <<message, traced, dead, bare, registryVars>>

-----------------------------------------------------------------------------
Arrives ==
    \E t \in Texts, from \in Nums, to \in Devices \union {Broadcast}, i \in Indexes :
        \E h \in HopLimits(from) : TextArrives(t, from, to, i, h[1], h[2])

Registers == (Read \/ \E o \in Objects : Ages(o)) /\ UNCHANGED commandVars

Next ==
    /\ ~dead
    /\ \/ Arrives \/ Registers \/ ReaderPanics
       \/ \E i \in Indexes : ChannelInfo(i)
       \/ \E t \in Texts : Incoming(t) \/ Transmit(t)

Spec == Init /\ [][Next]_vars

-----------------------------------------------------------------------------
(* Properties                                                               *)

\* The shape of the state; nobody holds a pointer to a node that was never made.
TypeOK ==
    /\ RegistryTypeOK
    /\ hpc \in [Texts -> {"unsent", "incoming", "send", "done"}]
    /\ \A t \in Texts : hpc[t] # "unsent" =>
         /\ {message[t].from, message[t].to} \subseteq Objects
         /\ message[t].hops \in Counts
         /\ message[t].channel \in Indexes \union {0}
    /\ dead \in BOOLEAN
    /\ bare \subseteq Indexes

Private(t) == ~message[t].public

\* The commands of manual.md:16-44, by all the names it gives them.
Manual == [
    ping     |-> {"/PING"},
    pomoc    |-> {"/POMOC", "/HELP", "/O", "/ABOUT"},
    sygnal   |-> {"/SYGNAL", "/SYGNAL (pl)", "/SIGNAL"},
    sasiedzi |-> {"/SASIEDZI", "/SASIEDZI (pl)", "/NEIGHBOURS"},
    hopy     |-> {"/HOPY", "/HOPS"},
    test     |-> {"/TEST", "TEST"},
    sciezka  |-> {"/SCIEZKA", "/SCIEZKA (pl)", "/TRASA", "/TRACE", "/TRACEROUTE"},
    pogoda   |-> {"/POGODA", "/WEATHER"},
    prognoza |-> {"/PROGNOZA", "/FORECAST"}]

Listed(t) == {c \in Names : message[t].word \in Manual[c]}

\* It is a command, but not one to be answered here.
Refused(t) ==
    \/ Listed(t) \intersect Disabled # {}
    \/ Listed(t) = {"sciezka"} /\ ~Private(t)

\* It is no command, and would not be taken for one either.
Ordinary(t) ==
    /\ Listed(t) = {} /\ message[t].word # "/NEIGHBORS"
    /\ ~Private(t) \/ message[t].word \in Plain

\* manual.md:3-9, 16-44, 62-64: a command that is listed there is answered once
\* if it is enabled, /sciezka only in private, and never if it is disabled,
\* whichever of its names is used.  Ordinary messages are never answered, nor
\* unknown commands on a channel.  (Unknown commands in private, and the name
\* /NEIGHBORS, are left out: they are answered, against manual.md:66.)
AnsweredAsPromised ==
    \A t \in Texts : hpc[t] = "done" =>
        LET answers == Cardinality(sent[t]) + Cardinality(traced[t])
        IN  /\ Listed(t) # {} => answers = IF Refused(t) THEN 0 ELSE 1
            /\ Ordinary(t) => answers = 0

\* A number the answer to t may go to: its sender's, or, if that is one the bot
\* has had itself, another one of these (connected_node.go:187).
Reached(t, n) == n = message[t].origin \/ {message[t].origin, n} \subseteq Had

\* manual.md:30-31, answers go "to the channel the command was sent on, or as a
\* DM back to you", whatever was learned about nodes, channels and devices in
\* between; on the primary channel if the settings of the other were not known
\* when the command arrived (channel.go:16).  And they may travel as far as the
\* command did.
RepliesReachSender ==
    \A t \in Texts : \A a \in sent[t] :
        /\ Private(t) => Reached(t, a.to)
        /\ ~Private(t) => a.to = Broadcast /\ a.channel = IF message[t].bare THEN 0 ELSE message[t].on
        /\ a.hops >= message[t].hops \/ a.hops = MaxHopLimit

\* manual.md:99-101, /sciezka "works in private only, because it reveals the
\* route": nobody else is traced, and nothing is said about it on a channel.
RouteStaysPrivate ==
    \A t \in Texts : Listed(t) = {"sciezka"} =>
        /\ \A n \in traced[t] : Reached(t, n)
        /\ ~Private(t) => sent[t] = {} /\ traced[t] = {}
=============================================================================
