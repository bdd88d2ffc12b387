--------------------------- MODULE CommandsProofs ---------------------------
(***************************************************************************)
(* Proofs about Registry and Commands, for any numbers of nodes, devices,  *)
(* hop limits, texts, and any disabled commands.                           *)
(***************************************************************************)
EXTENDS Commands, FiniteSetTheorems, TLAPS

USE RegistryAssumption, CommandsAssumption

-----------------------------------------------------------------------------
(* The registry                                                             *)

LEMMA HopsAwayIsCount ==
    ASSUME NEW start \in Limits, NEW limit \in Limits
    PROVE  /\ HopsAway(start, limit) \in Counts
           /\ start = limit => HopsAway(start, limit) = 0
           /\ start # 0 /\ start # limit => HopsAway(start, limit) # 0
<1>1. Wrap \in Nat \ {0} /\ start \in 0..(Wrap - 1) /\ limit \in 0..(Wrap - 1)
  OBVIOUS
<1> DEFINE x == start - limit
           r == x % Wrap
           q == x \div Wrap
<1>2. x \in Int /\ -Wrap < x /\ x < Wrap /\ (x = 0 <=> start = limit)
  BY <1>1
<1>3. r \in 0..(Wrap - 1) /\ q \in Int /\ x = Wrap * q + r
  BY <1>1, <1>2
<1>4. x = 0 => r = 0
  BY <1>1, <1>2, <1>3
<1>5. r = 0 => x = 0
  <2> SUFFICES ASSUME r = 0, x # 0 PROVE FALSE
    OBVIOUS
  <2>1. x = Wrap * q
    BY <1>3
  <2>2. q # 0
    BY <1>1, <2>1
  <2>3. CASE q >= 1
    BY <1>1, <1>2, <1>3, <2>1, <2>3
  <2>4. CASE q <= -1
    BY <1>1, <1>2, <1>3, <2>1, <2>4
  <2> QED BY <1>3, <2>2, <2>3, <2>4
<1> QED BY <1>1, <1>2, <1>3, <1>4, <1>5 DEF HopsAway, Counts

\* What NewNode leaves alone and what it makes.
LEMMA WithMakes ==
    ASSUME RegistryTypeOK, NEW numbers \in SUBSET Keys
    PROVE  /\ With(numbers) \in [Keys -> Objects \union {None}]
           /\ \A k \in Keys : With(numbers)[k] \in {None, k, Self}
           /\ \A k \in Keys : nodes[k] # None => With(numbers)[k] = nodes[k]
           /\ \A k \in Keys : With(numbers)[k] = Self => nodes[k] = Self
           /\ \A k \in numbers : With(numbers)[k] # None
           /\ \A k \in Keys : With(numbers)[k] = None => nodes[k] = None
  BY DEF With, RegistryTypeOK, Objects

\* Only devices that were connected lead to the bot's own object, and the one
\* that is does.
DeviceInv ==
    /\ \A k \in Keys : nodes[k] = Self => k \in Devices /\ own \in Devices
    /\ nodes[Broadcast] = Broadcast
    /\ own \in Devices => nodes[own] = Self

\* The count of a node that is not the bot's own is what was told of it.
HeardInv ==
    /\ \A n \in Nums : nodes[n] # Self =>
        /\ told[n] = "direct" => hops[n] = 0
        /\ told[n] = "relayed" => hops[n] # 0
    /\ \A n \in Nums : n \in recent => nodes[n] # None

RegInv == RegistryTypeOK /\ DeviceInv /\ HeardInv

LEMMA RegInit == RegistryInit => RegInv
  BY DEF RegistryInit, RegInv, RegistryTypeOK, DeviceInv, HeardInv, Objects, Keys, Counts

LEMMA RegMyInfo == ASSUME RegInv, NEW d \in Devices, MyInfo(d) PROVE RegInv'
<1> USE DEF RegInv, MyInfo
<1>1. d \in Keys /\ d # Broadcast /\ Self \in Objects
  BY DEF Keys, Objects
<1>2. RegistryTypeOK'
  BY <1>1 DEF RegistryTypeOK
<1>3. DeviceInv'
  BY <1>1 DEF DeviceInv, RegistryTypeOK
<1>4. HeardInv'
  BY <1>1 DEF HeardInv, RegistryTypeOK, Keys, Objects
<1> QED BY <1>2, <1>3, <1>4

\* What the reader does with what it is told of the way to n.
LEMMA RegTold ==
    ASSUME RegInv, NEW n \in Nums, NEW numbers \in SUBSET Keys, n \in numbers,
           nodes' = With(numbers), UNCHANGED own,
           NEW c \in Counts, NEW word \in {"silent", "direct", "relayed"},
           hops' = [hops EXCEPT ![nodes'[n]] = c],
           Heard(nodes'[n]),
           told' = [told EXCEPT ![n] = word],
           nodes'[n] # Self => (word = "direct" => c = 0) /\ (word = "relayed" => c # 0)
    PROVE  RegInv'
<1> DEFINE o == nodes'[n]
<1>1. /\ nodes' \in [Keys -> Objects \union {None}]
      /\ \A k \in Keys : nodes'[k] \in {None, k, Self}
      /\ \A k \in Keys : nodes[k] # None => nodes'[k] = nodes[k]
      /\ \A k \in Keys : nodes'[k] = Self => nodes[k] = Self
      /\ \A k \in numbers : nodes'[k] # None
      /\ \A k \in Keys : nodes'[k] = None => nodes[k] = None
  BY WithMakes DEF RegInv
<1>2. n \in Keys /\ n \in Objects /\ Self \in Objects /\ n # Self /\ o \in {n, Self}
  BY <1>1 DEF Keys, Objects
<1>3. recent' \in {recent \union {o}, recent \ {o}}
  BY DEF Heard
<1>4. RegistryTypeOK'
  <2>1. hops' \in [Objects -> Counts]
    BY <1>2 DEF RegInv, RegistryTypeOK
  <2>2. recent' \subseteq Objects
    BY <1>2, <1>3 DEF RegInv, RegistryTypeOK
  <2>3. told' \in [Nums -> {"silent", "direct", "relayed"}]
    BY DEF RegInv, RegistryTypeOK
  <2> QED BY <1>1, <2>1, <2>2, <2>3 DEF RegInv, RegistryTypeOK
<1>5. DeviceInv'
  <2>1. Broadcast \in Keys /\ Broadcast # None /\ \A d \in Devices : d \in Keys
    BY DEF Keys, Objects
  <2>2. nodes'[Broadcast] = Broadcast
    BY <1>1, <2>1 DEF RegInv, DeviceInv
  <2>3. own \in Devices => nodes'[own] = Self
    BY <1>1, <2>1 DEF RegInv, DeviceInv, Objects
  <2> QED BY <1>1, <2>2, <2>3 DEF RegInv, DeviceInv
<1>6. HeardInv'
  <2> SUFFICES ASSUME NEW m \in Nums
               PROVE  /\ nodes'[m] # Self => /\ told'[m] = "direct" => hops'[m] = 0
                                             /\ told'[m] = "relayed" => hops'[m] # 0
                      /\ m \in recent' => nodes'[m] # None
    BY DEF HeardInv
  <2>1. m \in Keys /\ m \in Objects /\ m # Self
    BY DEF Keys, Objects
  <2>2. m \in recent' => nodes'[m] # None
    BY <1>1, <1>2, <1>3, <2>1 DEF RegInv, HeardInv
  <2>3. ASSUME nodes'[m] # Self
        PROVE  (told'[m] = "direct" => hops'[m] = 0) /\ (told'[m] = "relayed" => hops'[m] # 0)
    <3>1. CASE m = n
      BY <1>2, <2>3, <3>1 DEF RegInv, RegistryTypeOK
    <3>2. CASE m # n
      <4>1. nodes[m] # Self
        BY <1>1, <2>1, <2>3 DEF Objects
      <4>2. told'[m] = told[m] /\ hops'[m] = hops[m]
        BY <1>2, <2>1, <3>2 DEF RegInv, RegistryTypeOK
      <4> QED BY <4>1, <4>2 DEF RegInv, HeardInv
    <3> QED BY <3>1, <3>2
  <2> QED BY <2>2, <2>3
<1> QED BY <1>4, <1>5, <1>6 DEF RegInv

\* New nodes of which nothing is known.
LEMMA RegMakes ==
    ASSUME RegInv, NEW numbers \in SUBSET Keys, nodes' = With(numbers),
           UNCHANGED <<own, hops, recent, told>>
    PROVE  RegInv'
<1>1. /\ nodes' \in [Keys -> Objects \union {None}]
      /\ \A k \in Keys : nodes'[k] \in {None, k, Self}
      /\ \A k \in Keys : nodes[k] # None => nodes'[k] = nodes[k]
      /\ \A k \in Keys : nodes'[k] = Self => nodes[k] = Self
      /\ \A k \in Keys : nodes'[k] = None => nodes[k] = None
  BY WithMakes DEF RegInv
<1>2. Broadcast \in Keys /\ Broadcast # None /\ Self # None /\ Devices \subseteq Keys /\ Nums \subseteq Keys
  BY DEF Keys, Objects
<1>3. RegistryTypeOK'
  BY <1>1 DEF RegInv, RegistryTypeOK
<1>4. DeviceInv'
  BY <1>1, <1>2 DEF RegInv, DeviceInv
<1>5. HeardInv'
  BY <1>1, <1>2 DEF RegInv, HeardInv
<1> QED BY <1>3, <1>4, <1>5 DEF RegInv

LEMMA RegNodeInfo ==
    ASSUME RegInv, NEW n \in Nums, NEW h \in HopCounts(n), NodeInfo(n, h)
    PROVE  RegInv'
<1> DEFINE o == nodes'[n]
           c == Count(o, h)
           word == IF h = 0 THEN "direct" ELSE IF h = None THEN told[n] ELSE "relayed"
<1>1. {n} \in SUBSET Keys /\ n \in Objects /\ Self \in Objects /\ n # Self
  BY DEF Keys, Objects
<1>2. nodes' = With({n}) /\ UNCHANGED own
  BY DEF NodeInfo
<1>3. CASE Id(o) # n
  BY <1>1, <1>2, <1>3, RegMakes DEF NodeInfo
<1>4. CASE Id(o) = n
  <2>1. o \in {n, Self}
    BY <1>1, <1>2, WithMakes DEF RegInv
  <2>2. h = None \/ h \in Counts
    BY DEF HopCounts, Counts
  <2>3. c \in Counts
    BY <1>1, <2>1, <2>2 DEF Count, RegInv, RegistryTypeOK
  <2>4. told[n] \in {"silent", "direct", "relayed"}
    BY DEF RegInv, RegistryTypeOK
  <2>5. word \in {"silent", "direct", "relayed"}
    BY <2>4
  <2>6. 0 # None
    BY DEF Counts
  <2>7. o # Self => (word = "direct" => c = 0) /\ (word = "relayed" => c # 0)
    <3> SUFFICES ASSUME o = n PROVE (word = "direct" => c = 0) /\ (word = "relayed" => c # 0)
      BY <2>1
    <3>1. CASE h = None
      <4>1. nodes[n] # Self
        BY <1>1, <1>2 DEF With
      <4> QED BY <2>6, <3>1, <4>1 DEF Count, RegInv, HeardInv
    <3>2. CASE h # None
      BY <3>2 DEF Count
    <3> QED BY <3>1, <3>2
  <2>8. hops' = [hops EXCEPT ![o] = c] /\ Heard(o) /\ told' = [told EXCEPT ![n] = word]
    BY <1>2, <1>4 DEF NodeInfo, Tell
  <2> QED BY <1>1, <1>2, <2>3, <2>5, <2>7, <2>8, RegTold
<1> QED BY <1>3, <1>4

LEMMA RegPacket ==
    ASSUME RegInv, NEW from \in Nums, NEW others \in SUBSET Keys,
           NEW start \in Limits, NEW limit \in Limits, Packet(from, others, start, limit)
    PROVE  RegInv'
<1> DEFINE numbers == {from} \union others
           word == IF start = 0 THEN "silent" ELSE IF start = limit THEN "direct" ELSE "relayed"
           c == HopsAway(start, limit)
<1>1. numbers \in SUBSET Keys /\ from \in numbers
  BY DEF Keys
<1>2. nodes' = With(numbers) /\ UNCHANGED own
  BY DEF Packet
<1>3. nodes'[from] = Sender(from)
  BY <1>1, <1>2 DEF Sender, With
<1>4. c \in Counts /\ (word = "direct" => c = 0) /\ (word = "relayed" => c # 0)
  BY HopsAwayIsCount
<1>5. word \in {"silent", "direct", "relayed"}
  OBVIOUS
<1>6. hops' = [hops EXCEPT ![nodes'[from]] = c] /\ Heard(nodes'[from]) /\ told' = [told EXCEPT ![from] = word]
  BY <1>3 DEF Packet, Tell
<1> QED BY <1>1, <1>2, <1>4, <1>5, <1>6, RegTold

LEMMA RegAges == ASSUME RegInv, NEW o \in Objects, Ages(o) PROVE RegInv'
  BY DEF RegInv, RegistryTypeOK, DeviceInv, HeardInv, Ages

LEMMA RegPanics ==
    ASSUME RegInv, NEW from \in Nums, NEW to \in Nums \union {Broadcast}, PacketPanics(from, to)
    PROVE  RegInv'
<1>1. {from, to} \in SUBSET Keys
  BY DEF Keys
<1> QED BY <1>1, RegMakes DEF PacketPanics

LEMMA RegRead == ASSUME RegInv, Read PROVE RegInv'
<1>1. CASE \E d \in Devices : MyInfo(d)
  BY <1>1, RegMyInfo
<1>2. CASE \E n \in Nums : \E h \in HopCounts(n) : NodeInfo(n, h)
  BY <1>2, RegNodeInfo
<1>3. CASE \E from \in Nums, others \in SUBSET Nums : \E h \in HopLimits(from) :
               Packet(from, others, h[1], h[2])
  <2>1. PICK from \in Nums, others \in SUBSET Nums, h \in Limits \X Limits :
            Packet(from, others, h[1], h[2])
    BY <1>3 DEF HopLimits
  <2>2. others \in SUBSET Keys /\ h[1] \in Limits /\ h[2] \in Limits
    BY DEF Keys
  <2> QED BY <2>1, <2>2, RegPacket
<1> QED BY <1>1, <1>2, <1>3 DEF Read

\* Numbers that lead to the bot's own object go on doing so.
LEMMA HadGrows ==
    ASSUME RegInv, \/ \E d \in Devices : MyInfo(d)
                   \/ \E n \in Nums, h \in Counts \union {None} : NodeInfo(n, h)
                   \/ \E from \in Nums, others \in SUBSET Keys, start, limit \in Limits :
                        Packet(from, others, start, limit)
                   \/ \E from \in Nums, to \in Nums \union {Broadcast} : PacketPanics(from, to)
                   \/ UNCHANGED nodes
    PROVE  Had \subseteq Had'
<1>1. Nums \subseteq Keys /\ Devices \subseteq Keys /\ Self # None
  BY DEF Keys, Objects
<1>2. ASSUME NEW numbers, nodes' = With(numbers) PROVE Had \subseteq Had'
  BY <1>1, <1>2 DEF Had, With
<1>3. CASE \E d \in Devices : MyInfo(d)
  BY <1>1, <1>3 DEF MyInfo, Had, RegInv, RegistryTypeOK
<1> QED BY <1>2, <1>3 DEF NodeInfo, Packet, PacketPanics, Had

LEMMA ReadGrows == ASSUME RegInv, Read PROVE Had \subseteq Had'
<1>1. CASE \E d \in Devices : MyInfo(d)
  BY <1>1, HadGrows
<1>2. CASE \E n \in Nums : \E h \in HopCounts(n) : NodeInfo(n, h)
  <2>1. \A n \in Nums : HopCounts(n) \subseteq Counts \union {None}
    BY DEF HopCounts, Counts
  <2> QED BY <1>2, <2>1, HadGrows
<1>3. CASE \E from \in Nums, others \in SUBSET Nums : \E h \in HopLimits(from) :
               Packet(from, others, h[1], h[2])
  <2>1. PICK from \in Nums, others \in SUBSET Nums, h \in Limits \X Limits :
            Packet(from, others, h[1], h[2])
    BY <1>3 DEF HopLimits
  <2>2. others \in SUBSET Keys /\ h[1] \in Limits /\ h[2] \in Limits
    BY DEF Keys
  <2> QED BY <2>1, <2>2, HadGrows
<1> QED BY <1>1, <1>2, <1>3 DEF Read

-----------------------------------------------------------------------------
(* The messages                                                             *)

\* The command that the word of t is for, if any, by the tables of the code.
Ours(t) == {c \in Names : message[t].word \in EnabledAliases[c]}

\* How many answers the code has for t.
Expected(t) ==
    IF \/ Ours(t) \intersect Disabled # {}
       \/ Ours(t) = {"sciezka"} /\ ~Private(t)
       \/ Ours(t) = {} /\ (~Private(t) \/ message[t].word \in Plain)
    THEN 0 ELSE 1

\* A message keeps pointing at who sent it, and to the bot or to everyone; the
\* bot's own object stands for all numbers the bot has had.
MessageInv(t) ==
    hpc[t] # "unsent" =>
        /\ message[t].origin \in Nums
        /\ \/ message[t].from = message[t].origin
           \/ message[t].from = Self /\ message[t].origin \in Had
        /\ message[t].to \in Objects
        /\ message[t].hops \in Counts
        /\ message[t].public \in BOOLEAN
        /\ message[t].on \in Indexes
        /\ message[t].channel = IF message[t].bare THEN 0 ELSE message[t].on
        /\ IF message[t].public THEN message[t].to = Broadcast
                                ELSE message[t].to \in Devices \union {Self}

\* An answer goes where it should, and as far.
Right(t, a) ==
    /\ Private(t) => Reached(t, a.to)
    /\ ~Private(t) => a.to = Broadcast /\ a.channel = message[t].channel
    /\ a.hops >= message[t].hops \/ a.hops = MaxHopLimit

\* An answer on its way goes to the sender of the message, or to its channel,
\* and is owed; nothing was sent before.
AnswerInv(t) ==
    /\ hpc[t] \in {"unsent", "incoming", "send"} => sent[t] = {} /\ traced[t] = {}
    /\ hpc[t] = "send" =>
        /\ message[t].answer.to = IF Private(t) THEN message[t].from ELSE Broadcast
        /\ ~Private(t) => message[t].answer.channel = message[t].channel
        /\ message[t].answer.hops >= message[t].hops \/ message[t].answer.hops = MaxHopLimit
        /\ Expected(t) = 1

\* What was sent when the goroutine of the message is done.
DoneInv(t) ==
    hpc[t] = "done" =>
        /\ \A a \in sent[t] : Right(t, a)
        /\ \A n \in traced[t] : Reached(t, n)
        /\ Cardinality(sent[t]) + Cardinality(traced[t]) = Expected(t)
        /\ Expected(t) = 0 => sent[t] = {} /\ traced[t] = {}

HistoryInv(t) == MessageInv(t) /\ AnswerInv(t) /\ DoneInv(t)

\* What a message is.
Answers == [to : Objects, channel : Indexes \union {0, None}, hops : Int,
            style : {"quote", "plain", "unknown", "reliable"}]

Messages == [from : Objects \union {None}, to : Objects \union {None}, hops : Counts,
             word : Words \union {None}, channel : Indexes \union {0}, origin : Nums \union {None},
             public : BOOLEAN, on : Indexes \union {0}, bare : BOOLEAN, answer : Answers \union {None}]

\* Messages and what was sent, as functions.
ShapeInv ==
    /\ hpc \in [Texts -> {"unsent", "incoming", "send", "done"}]
    /\ sent = [t \in Texts |-> sent[t]] /\ traced = [t \in Texts |-> traced[t]]
    /\ message \in [Texts -> Messages]
    /\ dead \in BOOLEAN
    /\ bare \subseteq Indexes

MsgInv == RegInv /\ ShapeInv /\ \A t \in Texts : HistoryInv(t)

LEMMA HistoryOthers ==
    ASSUME NEW g \in Texts, HistoryInv(g), hpc'[g] = hpc[g], message'[g] = message[g],
           sent'[g] = sent[g], traced'[g] = traced[g], Had \subseteq Had'
    PROVE  HistoryInv(g)'
<1> USE DEF Private, Ours, Expected, Right, Reached
<1>1. MessageInv(g)'
  BY DEF HistoryInv, MessageInv
<1>2. AnswerInv(g)'
  BY DEF HistoryInv, AnswerInv
<1>3. DoneInv(g)'
  BY DEF HistoryInv, DoneInv
<1> QED BY <1>1, <1>2, <1>3 DEF HistoryInv

LEMMA MsgInit == Init => MsgInv
<1> SUFFICES ASSUME Init PROVE MsgInv
  OBVIOUS
<1>1. NoMessage \in Messages
  BY DEF NoMessage, Messages, Counts
<1>2. ShapeInv
  BY <1>1 DEF Init, ShapeInv
<1>3. \A t \in Texts : HistoryInv(t)
  BY DEF Init, HistoryInv, MessageInv, AnswerInv, DoneInv
<1> QED BY <1>2, <1>3, RegInit DEF Init, MsgInv

\* A step of one message.
LEMMA MessageStep ==
    ASSUME MsgInv, NEW t \in Texts, NEW l \in {"incoming", "send", "done"},
           NEW m \in Messages, NEW s, NEW r,
           hpc' = [hpc EXCEPT ![t] = l], message' = [message EXCEPT ![t] = m],
           sent' = [sent EXCEPT ![t] = s], traced' = [traced EXCEPT ![t] = r],
           UNCHANGED <<dead, bare>>, Had \subseteq Had', RegInv', HistoryInv(t)'
    PROVE  MsgInv'
<1>1. ShapeInv'
  BY DEF MsgInv, ShapeInv
<1>2. ASSUME NEW g \in Texts PROVE HistoryInv(g)'
  <2>1. CASE g # t
    <3>1. hpc'[g] = hpc[g] /\ message'[g] = message[g] /\ sent'[g] = sent[g] /\ traced'[g] = traced[g]
      BY <2>1 DEF MsgInv, ShapeInv
    <3> QED BY <3>1, HistoryOthers DEF MsgInv
  <2> QED BY <2>1
<1> QED BY <1>1, <1>2 DEF MsgInv

\* Changes of the registry alone.
LEMMA RegistryStep ==
    ASSUME MsgInv, UNCHANGED <<hpc, message, sent, traced>>, dead' \in BOOLEAN,
           bare' \subseteq Indexes, Had \subseteq Had', RegInv'
    PROVE  MsgInv'
<1>1. ShapeInv'
  BY DEF MsgInv, ShapeInv
<1>2. \A g \in Texts : HistoryInv(g)'
  BY HistoryOthers DEF MsgInv
<1> QED BY <1>1, <1>2 DEF MsgInv

\* The registry changes nothing for a handler: the pointers of a message stay
\* pointers to its sender and its recipient.
LEMMA PointersStay ==
    ASSUME MsgInv, NEW t \in Texts, hpc[t] # "unsent"
    PROVE  /\ Reached(t, Id(message[t].from)) /\ Id(message[t].from) # Broadcast
           /\ message[t].from \in Objects
           /\ IsPrivate(t) <=> Private(t)
<1>1. /\ message[t].origin \in Nums
      /\ message[t].from = message[t].origin \/ (message[t].from = Self /\ message[t].origin \in Had)
      /\ IF message[t].public THEN message[t].to = Broadcast
                              ELSE message[t].to \in Devices \union {Self}
  BY DEF MsgInv, HistoryInv, MessageInv
<1>2. own \in Devices \union {Unknown}
  BY DEF MsgInv, RegInv, RegistryTypeOK
<1>3. Self # Broadcast /\ Nums \subseteq Keys /\ \A n \in Nums : n # Self /\ n # Broadcast
  BY DEF Keys
<1>4. message[t].origin \in Had => own \in Had
  BY <1>3 DEF Had, MsgInv, RegInv, DeviceInv
<1>5. IsPrivate(t) <=> Private(t)
  BY <1>1, <1>2, <1>3 DEF Id, IsPrivate, Private
<1>6. CASE message[t].from = message[t].origin
  BY <1>1, <1>3, <1>5, <1>6 DEF Id, Reached, Objects
<1>7. CASE message[t].from = Self /\ message[t].origin \in Had
  BY <1>3, <1>4, <1>5, <1>7 DEF Id, Reached, Objects, Had
<1> QED BY <1>1, <1>6, <1>7

LEMMA NamesAre ==
    Names = {"ping", "pomoc", "sygnal", "sasiedzi", "hopy", "test", "sciezka", "pogoda", "prognoza"}
  BY DEF EnabledAliases, Names

\* The two tables of the code say the same of every command.
LEMMA TablesAgree == ASSUME NEW c \in Names PROVE DisabledAliases[c] = EnabledAliases[c]
  BY NamesAre DEF DisabledAliases, EnabledAliases

\* The command /sciezka has no name of another command.
LEMMA SciezkaAlone ==
    ASSUME NEW c \in Names, NEW word \in EnabledAliases["sciezka"], word \in EnabledAliases[c]
    PROVE  c = "sciezka"
<1>1. word \in {"/SCIEZKA", "/SCIEZKA (pl)", "/TRASA", "/TRACE", "/TRACEROUTE"}
  BY DEF EnabledAliases
<1>2. word \notin EnabledAliases["ping"] /\ word \notin EnabledAliases["pomoc"]
  BY <1>1 DEF EnabledAliases
<1>3. word \notin EnabledAliases["sygnal"] /\ word \notin EnabledAliases["sasiedzi"]
  BY <1>1 DEF EnabledAliases
<1>4. word \notin EnabledAliases["hopy"] /\ word \notin EnabledAliases["test"]
  BY <1>1 DEF EnabledAliases
<1>5. word \notin EnabledAliases["pogoda"] /\ word \notin EnabledAliases["prognoza"]
  BY <1>1 DEF EnabledAliases
<1> QED BY <1>2, <1>3, <1>4, <1>5, NamesAre

\* The manual gives every command the names that the code knows, but one.
LEMMA ManualAgrees ==
    ASSUME NEW c \in Names
    PROVE  /\ Manual[c] \subseteq EnabledAliases[c]
           /\ EnabledAliases[c] \subseteq Manual[c] \union {"/NEIGHBORS"}
           /\ "/NEIGHBORS" \notin Manual[c]
<1>1. CASE c = "sasiedzi"
  BY <1>1 DEF Manual, EnabledAliases
<1>2. CASE c \in {"ping", "pomoc", "sygnal"}
  <2>1. CASE c = "ping"
    BY <2>1 DEF Manual, EnabledAliases
  <2>2. CASE c = "pomoc"
    BY <2>2 DEF Manual, EnabledAliases
  <2>3. CASE c = "sygnal"
    BY <2>3 DEF Manual, EnabledAliases
  <2> QED BY <1>2, <2>1, <2>2, <2>3
<1>3. CASE c \in {"hopy", "test", "sciezka"}
  <2>1. CASE c = "hopy"
    BY <2>1 DEF Manual, EnabledAliases
  <2>2. CASE c = "test"
    BY <2>2 DEF Manual, EnabledAliases
  <2>3. CASE c = "sciezka"
    BY <2>3 DEF Manual, EnabledAliases
  <2> QED BY <1>3, <2>1, <2>2, <2>3
<1>4. CASE c \in {"pogoda", "prognoza"}
  <2>1. CASE c = "pogoda"
    BY <2>1 DEF Manual, EnabledAliases
  <2>2. CASE c = "prognoza"
    BY <2>2 DEF Manual, EnabledAliases
  <2> QED BY <1>4, <2>1, <2>2
<1> QED BY <1>1, <1>2, <1>3, <1>4, NamesAre

\* Which command a message is for.
LEMMA WhichCommand ==
    ASSUME NEW t
    PROVE  /\ IsDisabled(t) <=> Ours(t) \intersect Disabled # {}
           /\ \A c \in Names : ~IsDisabled(t) /\ Is(t, c) =>
               /\ c # "sciezka" => Expected(t) = 1
               /\ c = "sciezka" => Expected(t) = IF Private(t) THEN 1 ELSE 0
           /\ ~IsDisabled(t) /\ (\A c \in Names : ~Is(t, c)) =>
               Expected(t) = IF Private(t) /\ message[t].word \notin Plain THEN 1 ELSE 0
<1>1. IsDisabled(t) <=> Ours(t) \intersect Disabled # {}
  BY TablesAgree DEF IsDisabled, Ours, Matches
<1>2. ASSUME NEW c \in Names, ~IsDisabled(t), Is(t, c)
      PROVE  c \in Ours(t) /\ Ours(t) \intersect Disabled = {}
  BY <1>1, <1>2 DEF Is, Ours, Matches
<1>3. ASSUME "sciezka" \in Ours(t) PROVE Ours(t) = {"sciezka"}
  BY <1>3, SciezkaAlone DEF Ours
<1>4. ~IsDisabled(t) /\ (\A c \in Names : ~Is(t, c)) => Ours(t) = {}
  BY <1>1 DEF Is, Matches, Ours
<1> QED BY <1>1, <1>2, <1>3, <1>4 DEF Expected

\* What the code has for a text is what the manual promises of it.
LEMMA AsListed ==
    ASSUME NEW t
    PROVE  /\ Listed(t) # {} => Expected(t) = IF Refused(t) THEN 0 ELSE 1
           /\ Ordinary(t) => Expected(t) = 0
<1>1. CASE message[t].word = "/NEIGHBORS"
  BY <1>1, ManualAgrees DEF Listed, Ordinary
<1>2. CASE message[t].word # "/NEIGHBORS"
  <2>1. Listed(t) = Ours(t)
    BY <1>2, ManualAgrees DEF Listed, Ours
  <2> QED BY <2>1 DEF Expected, Refused, Ordinary
<1> QED BY <1>1, <1>2

\* What `incoming' comes to: nothing, a traceroute to the sender, or an answer,
\* and which of them.
LEMMA Dispatch ==
    ASSUME MsgInv, NEW t \in Texts, Incoming(t), ~(~IsDisabled(t) /\ MapRace(t))
    PROVE  /\ UNCHANGED <<sent, dead, bare, registryVars>>
           /\ \/ Silent(t) /\ UNCHANGED traced /\ Expected(t) = 0
              \/ /\ Silent(t) /\ Expected(t) = 1
                 /\ traced' = [traced EXCEPT ![t] = @ \union {Id(message[t].from)}]
              \/ /\ \E style \in {"quote", "plain", "unknown", "reliable"} : Answer(t, style)
                 /\ UNCHANGED traced /\ Expected(t) = 1
<1>1. IsPrivate(t) <=> Private(t)
  BY PointersStay DEF Incoming
<1>2. CASE HandleDisabled(t)
  BY <1>2, WhichCommand DEF HandleDisabled, Expected
<1>3. CASE ~IsDisabled(t) /\ \E c \in Names \ {"sciezka"} : Quoting(t, c) \/ Plainly(t, c)
  BY <1>3, WhichCommand DEF Quoting, Plainly
<1>4. CASE ~IsDisabled(t) /\ HandleSygnal(t)
  BY <1>4, WhichCommand, NamesAre DEF HandleSygnal
<1>5. CASE ~IsDisabled(t) /\ HandleSciezka(t)
  BY <1>1, <1>5, WhichCommand, NamesAre DEF HandleSciezka, Asked
<1>6. CASE ~IsDisabled(t) /\ HandleOther(t)
  BY <1>1, <1>6, WhichCommand DEF HandleOther
<1> QED BY <1>2, <1>3, <1>4, <1>5, <1>6, NamesAre DEF Incoming, HandlePing, HandleTest,
           HandlePomoc, HandleSasiedzi, HandleHopy, HandlePogoda, HandlePrognoza

LEMMA ArriveKeeps ==
    ASSUME MsgInv, NEW t \in Texts, NEW from \in Nums, NEW to \in Devices \union {Broadcast},
           NEW i \in Indexes, NEW start \in Limits, NEW limit \in Limits,
           TextArrives(t, from, to, i, start, limit)
    PROVE  MsgInv'
<1>1. PICK word \in Words :
          message' = [message EXCEPT ![t] =
             [from |-> Sender(from), to |-> nodes'[to], hops |-> HopsAway(start, limit),
              word |-> word, channel |-> ChannelId(i), origin |-> from, public |-> to = Broadcast,
              on |-> i, bare |-> i \in bare, answer |-> None]]
  BY DEF TextArrives
<1> DEFINE m == [from |-> Sender(from), to |-> nodes'[to], hops |-> HopsAway(start, limit),
                 word |-> word, channel |-> ChannelId(i), origin |-> from, public |-> to = Broadcast,
                 on |-> i, bare |-> i \in bare, answer |-> None]
<1>2. /\ hpc[t] = "unsent" /\ hpc' = [hpc EXCEPT ![t] = "incoming"]
      /\ Packet(from, {to}, start, limit) /\ UNCHANGED <<sent, traced, dead, bare>>
  BY DEF TextArrives, Goto
<1>3. from \in Keys /\ to \in Keys /\ {to} \in SUBSET Keys /\ {from} \in SUBSET Keys
  BY DEF Keys
<1>4. RegInv' /\ Had \subseteq Had'
  BY <1>2, <1>3, RegPacket, HadGrows DEF MsgInv
<1>5. Sender(from) = from \/ (Sender(from) = Self /\ from \in Had')
  <2>1. Sender(from) \in {from, Self} /\ (Sender(from) = Self => nodes[from] = Self)
    BY <1>3, WithMakes DEF Sender, MsgInv, RegInv
  <2> QED BY <1>4, <2>1 DEF Had
<1>6. nodes'[to] \in {to, Self} /\ (to = Broadcast => nodes'[to] = to)
  BY <1>2, <1>3, <1>4, WithMakes DEF Packet, MsgInv, RegInv, DeviceInv
<1>7. HopsAway(start, limit) \in Counts
  BY HopsAwayIsCount
<1>8. Sender(from) \in Objects /\ nodes'[to] \in Objects
  BY <1>3, <1>5, <1>6 DEF Objects
<1>9. ChannelId(i) \in Indexes \union {0} /\ ChannelId(i) = IF i \in bare THEN 0 ELSE i
  BY DEF ChannelId
<1>10. (to = Broadcast) \in BOOLEAN /\ (i \in bare) \in BOOLEAN
  OBVIOUS
<1>11. m \in Messages
  BY <1>7, <1>8, <1>9, <1>10 DEF Messages
<1>12. message'[t] = m /\ hpc'[t] = "incoming"
  BY <1>1, <1>2 DEF MsgInv, ShapeInv
<1>13. MessageInv(t)'
  <2>1. /\ message'[t].origin = from /\ message'[t].from = Sender(from) /\ message'[t].to = nodes'[to]
        /\ message'[t].hops = HopsAway(start, limit) /\ message'[t].public = (to = Broadcast)
        /\ message'[t].on = i /\ message'[t].bare = (i \in bare) /\ message'[t].channel = ChannelId(i)
    BY <1>12
  <2> QED BY <1>5, <1>6, <1>7, <1>8, <1>9, <1>10, <2>1 DEF MessageInv
<1>14. AnswerInv(t)' /\ DoneInv(t)'
  BY <1>2, <1>12 DEF AnswerInv, DoneInv, MsgInv, HistoryInv
<1>15. sent' = [sent EXCEPT ![t] = sent[t]] /\ traced' = [traced EXCEPT ![t] = traced[t]]
  BY <1>2 DEF MsgInv, ShapeInv
<1>16. HistoryInv(t)'
  BY <1>13, <1>14 DEF HistoryInv
<1>17. message' = [message EXCEPT ![t] = m] /\ UNCHANGED <<dead, bare>>
  BY <1>1, <1>2
<1> HIDE DEF m
<1> QED BY <1>2, <1>4, <1>11, <1>15, <1>16, <1>17, MessageStep

LEMMA IncomingKeeps ==
    ASSUME MsgInv, NEW t \in Texts, Incoming(t)
    PROVE  MsgInv'
<1> USE DEF Silent, Goto
<1>1. CASE ~IsDisabled(t) /\ MapRace(t)
  <2>1. UNCHANGED <<hpc, message, sent, traced, bare, registryVars>> /\ dead' = TRUE
    BY <1>1 DEF MapRace
  <2>2. RegInv' /\ bare' \subseteq Indexes /\ Had \subseteq Had'
    BY <2>1 DEF MsgInv, ShapeInv, RegInv, RegistryTypeOK, DeviceInv, HeardInv, registryVars, Had
  <2> QED BY <2>1, <2>2, RegistryStep
<1>2. CASE ~(~IsDisabled(t) /\ MapRace(t))
  <2>1. /\ hpc[t] = "incoming" /\ UNCHANGED <<sent, dead, bare, registryVars>>
        /\ message[t] \in Messages /\ HistoryInv(t)
    BY <1>2, Dispatch DEF Incoming, MsgInv, ShapeInv
  <2>2. RegInv' /\ Had' = Had
    BY <2>1 DEF MsgInv, RegInv, RegistryTypeOK, DeviceInv, HeardInv, registryVars, Had
  <2>3. sent' = [sent EXCEPT ![t] = sent[t]]
    BY <2>1 DEF MsgInv, ShapeInv
  <2>4. sent[t] = {} /\ traced[t] = {}
    BY <2>1 DEF HistoryInv, AnswerInv
  <2>5. Cardinality({}) = 0 /\ Cardinality({Id(message[t].from)}) = 1
    BY FS_EmptySet, FS_Singleton
  <2>6. CASE Silent(t) /\ UNCHANGED traced /\ Expected(t) = 0
    <3>1. message' = [message EXCEPT ![t] = message[t]] /\ traced' = [traced EXCEPT ![t] = traced[t]]
      BY <2>6 DEF MsgInv, ShapeInv
    <3>2. message'[t] = message[t] /\ hpc'[t] = "done"
      BY <2>6 DEF MsgInv, ShapeInv
    <3>3. MessageInv(t)' /\ AnswerInv(t)'
      BY <2>1, <2>2, <3>2 DEF HistoryInv, MessageInv, AnswerInv
    <3>4. DoneInv(t)'
      BY <2>1, <2>4, <2>5, <2>6, <3>2 DEF DoneInv, Expected, Ours, Private
    <3> QED BY <2>1, <2>2, <2>3, <2>6, <3>1, <3>3, <3>4, MessageStep DEF HistoryInv
  <2>7. CASE /\ Silent(t) /\ Expected(t) = 1
             /\ traced' = [traced EXCEPT ![t] = @ \union {Id(message[t].from)}]
    <3>1. message' = [message EXCEPT ![t] = message[t]]
      BY <2>7 DEF MsgInv, ShapeInv
    <3>2. message'[t] = message[t] /\ hpc'[t] = "done" /\ traced'[t] = {Id(message[t].from)}
      BY <2>4, <2>7 DEF MsgInv, ShapeInv
    <3>3. MessageInv(t)' /\ AnswerInv(t)'
      BY <2>1, <2>2, <3>2 DEF HistoryInv, MessageInv, AnswerInv
    <3>4. Reached(t, Id(message[t].from))'
      BY <2>1, <2>2, <3>2, PointersStay DEF Reached, Id, registryVars
    <3>5. Expected(t)' = 1 /\ sent'[t] = {}
      BY <2>1, <2>4, <2>7, <3>2 DEF Expected, Ours, Private
    <3>6. \A n \in traced'[t] : Reached(t, n)'
      BY <2>1, <3>2, <3>4 DEF Id, registryVars
    <3>7. DoneInv(t)'
      BY <2>5, <3>2, <3>5, <3>6 DEF DoneInv
    <3> QED BY <2>1, <2>2, <2>3, <2>7, <3>1, <3>3, <3>7, MessageStep DEF HistoryInv
  <2>8. CASE /\ \E style \in {"quote", "plain", "unknown", "reliable"} : Answer(t, style)
             /\ UNCHANGED traced /\ Expected(t) = 1
    <3>1. PICK style \in {"quote", "plain", "unknown", "reliable"} : Answer(t, style)
      BY <2>8
    <3> DEFINE to == IF IsPrivate(t) THEN message[t].from ELSE Broadcast
               channel == IF IsPrivate(t) THEN None ELSE message[t].channel
               far == IF message[t].hops + 2 < MaxHopLimit THEN message[t].hops + 2 ELSE MaxHopLimit
               a == [to |-> to, channel |-> channel, hops |-> far, style |-> style]
               m == [message[t] EXCEPT !.answer = a]
    <3>2. message' = [message EXCEPT ![t] = m] /\ hpc' = [hpc EXCEPT ![t] = "send"]
      BY <3>1 DEF Answer, MessageChannel, MsgInv, ShapeInv
    <3>3. message[t].hops \in Nat /\ to \in Objects /\ channel \in Indexes \union {0, None}
      BY <2>1, PointersStay DEF Messages, Counts, Objects, Keys
    <3>4. far \in Int /\ (far >= message[t].hops \/ far = MaxHopLimit)
      BY <3>3 DEF MaxHopLimit
    <3>5. a \in Answers
      BY <3>3, <3>4 DEF Answers
    <3>6. m \in Messages
      BY <2>1, <3>5 DEF Messages
    <3>7. /\ message'[t] = m /\ hpc'[t] = "send"
          /\ \A f \in {"from", "to", "hops", "word", "channel", "origin", "public", "on", "bare"} : m[f] = message[t][f]
      BY <2>1, <3>2 DEF MsgInv, ShapeInv, Messages
    <3>8. /\ m.from = message[t].from /\ m.to = message[t].to /\ m.hops = message[t].hops
          /\ m.word = message[t].word /\ m.origin = message[t].origin
          /\ m.public = message[t].public /\ m.answer = a /\ m.channel = message[t].channel
          /\ m.on = message[t].on /\ m.bare = message[t].bare
      BY <2>1 DEF Messages
    <3>9. IsPrivate(t) <=> Private(t)
      BY <2>1, PointersStay
    <3>10. MessageInv(t)' /\ DoneInv(t)'
      BY <2>1, <2>2, <3>7, <3>8 DEF HistoryInv, MessageInv, DoneInv
    <3>11. Expected(t)' = Expected(t) /\ (Private(t)' <=> Private(t))
      BY <3>7, <3>8 DEF Expected, Ours, Private
    <3>12. AnswerInv(t)'
      BY <2>1, <2>4, <2>8, <3>4, <3>7, <3>8, <3>9, <3>11 DEF AnswerInv
    <3>13. traced' = [traced EXCEPT ![t] = traced[t]]
      BY <2>8 DEF MsgInv, ShapeInv
    <3> QED BY <2>1, <2>2, <2>3, <3>2, <3>6, <3>10, <3>12, <3>13, MessageStep DEF HistoryInv
  <2> QED BY <1>2, <2>6, <2>7, <2>8, Dispatch
<1> QED BY <1>1, <1>2

LEMMA TransmitKeeps ==
    ASSUME MsgInv, NEW t \in Texts, Transmit(t)
    PROVE  MsgInv'
<1> DEFINE a == message[t].answer
           to == Id(a.to)
           s == [to |-> to, channel |-> IF to = Broadcast THEN a.channel ELSE 0,
                 hops |-> a.hops, style |-> a.style]
<1>1. /\ hpc[t] = "send" /\ hpc' = [hpc EXCEPT ![t] = "done"]
      /\ sent' = [sent EXCEPT ![t] = @ \union {s}]
      /\ UNCHANGED <<message, traced, dead, bare, registryVars>>
  BY DEF Transmit, Goto
<1>2. message[t] \in Messages /\ HistoryInv(t)
  BY DEF MsgInv, ShapeInv
<1>3. RegInv' /\ Had' = Had
  BY <1>1 DEF MsgInv, RegInv, RegistryTypeOK, DeviceInv, HeardInv, registryVars, Had
<1>4. Right(t, s)
  <2>1. a.hops >= message[t].hops \/ a.hops = MaxHopLimit
    BY <1>1, <1>2 DEF HistoryInv, AnswerInv
  <2>2. CASE Private(t)
    BY <1>1, <1>2, <2>1, <2>2, PointersStay DEF HistoryInv, AnswerInv, Right
  <2>3. CASE ~Private(t)
    <3>1. Broadcast # Self
      BY DEF Keys
    <3> QED BY <1>1, <1>2, <2>1, <2>3, <3>1 DEF HistoryInv, AnswerInv, Right, Id
  <2> QED BY <2>2, <2>3
<1>5. sent[t] = {} /\ traced[t] = {} /\ Expected(t) = 1
  BY <1>1, <1>2 DEF HistoryInv, AnswerInv
<1>6. message'[t] = message[t] /\ hpc'[t] = "done" /\ sent'[t] = {s} /\ traced'[t] = {}
  BY <1>1, <1>5 DEF MsgInv, ShapeInv
<1>7. MessageInv(t)' /\ AnswerInv(t)'
  BY <1>1, <1>2, <1>3, <1>6 DEF HistoryInv, MessageInv, AnswerInv
<1>8. Cardinality({}) = 0 /\ Cardinality({s}) = 1
  BY FS_EmptySet, FS_Singleton
<1>9. Expected(t)' = 1
  BY <1>5, <1>6 DEF Expected, Ours, Private
<1> HIDE DEF s
<1>10. \A x \in sent'[t] : Right(t, x)'
  BY <1>3, <1>4, <1>6 DEF Right, Reached, Private
<1>11. DoneInv(t)'
  BY <1>6, <1>8, <1>9, <1>10 DEF DoneInv
<1>12. /\ message' = [message EXCEPT ![t] = message[t]] /\ traced' = [traced EXCEPT ![t] = traced[t]]
       /\ sent' = [sent EXCEPT ![t] = {s}]
  BY <1>1, <1>5 DEF MsgInv, ShapeInv
<1> QED BY <1>1, <1>2, <1>3, <1>7, <1>11, <1>12, MessageStep DEF HistoryInv

LEMMA MsgNext == MsgInv /\ [Next]_vars => MsgInv'
<1> SUFFICES ASSUME MsgInv, [Next]_vars PROVE MsgInv'
  OBVIOUS
<1>1. CASE UNCHANGED vars
  <2>1. UNCHANGED <<registryVars, hpc, message, sent, traced, dead, bare>>
    BY <1>1 DEF vars, commandVars
  <2>2. RegInv' /\ dead' \in BOOLEAN /\ bare' \subseteq Indexes /\ Had \subseteq Had'
    BY <2>1 DEF MsgInv, ShapeInv, RegInv, RegistryTypeOK, DeviceInv, HeardInv, registryVars, Had
  <2> QED BY <2>1, <2>2, RegistryStep
<1>2. CASE Arrives
  <2>1. PICK t \in Texts, from \in Nums, to \in Devices \union {Broadcast}, i \in Indexes,
            h \in Limits \X Limits : TextArrives(t, from, to, i, h[1], h[2])
    BY <1>2 DEF Arrives, HopLimits
  <2> QED BY <2>1, ArriveKeeps
<1>3. CASE Registers
  <2>1. RegInv' /\ Had \subseteq Had'
    BY <1>3, RegRead, RegAges, ReadGrows, HadGrows DEF Registers, MsgInv, Ages
  <2>2. UNCHANGED <<hpc, message, sent, traced, dead, bare>>
    BY <1>3 DEF Registers, commandVars
  <2> QED BY <2>1, <2>2, RegistryStep DEF MsgInv, ShapeInv
<1>4. CASE ReaderPanics
  <2>1. RegInv' /\ Had \subseteq Had'
    BY <1>4, RegPanics, HadGrows DEF ReaderPanics, MsgInv
  <2>2. UNCHANGED <<hpc, message, sent, traced, bare>> /\ dead' = TRUE
    BY <1>4 DEF ReaderPanics
  <2> QED BY <2>1, <2>2, RegistryStep DEF MsgInv, ShapeInv
<1>5. CASE \E i \in Indexes : ChannelInfo(i)
  <2>1. UNCHANGED <<registryVars, hpc, message, sent, traced, dead>> /\ bare' \subseteq Indexes
    BY <1>5 DEF ChannelInfo, MsgInv, ShapeInv
  <2>2. RegInv' /\ Had \subseteq Had'
    BY <2>1 DEF MsgInv, RegInv, RegistryTypeOK, DeviceInv, HeardInv, registryVars, Had
  <2> QED BY <2>1, <2>2, RegistryStep DEF MsgInv, ShapeInv
<1>6. CASE \E t \in Texts : Incoming(t) \/ Transmit(t)
  BY <1>6, IncomingKeeps, TransmitKeeps
<1> QED BY <1>1, <1>2, <1>3, <1>4, <1>5, <1>6 DEF Next

-----------------------------------------------------------------------------
(* Theorems                                                                 *)

\* The inductive invariant: pointers lead where they led when a message was
\* read, and what was sent is what was owed.
THEOREM Invariance == Spec => []MsgInv
  BY MsgInit, MsgNext, PTL DEF Spec

\* Every variable keeps its type; nobody holds a pointer to a node that was
\* never made.
THEOREM TypeCorrect == Spec => []TypeOK
<1>1. MsgInv => TypeOK
  BY DEF MsgInv, RegInv, ShapeInv, HistoryInv, MessageInv, TypeOK, Objects, Keys
<1> QED BY <1>1, Invariance, PTL

\* The list of neighbours is the nodes last heard without a relay that are not
\* the bot and never were, for any devices in turn (Neighbours).
THEOREM NeighboursHeard == Spec => []NeighboursAsHeard
<1>1. MsgInv => NeighboursAsHeard
  <2> SUFFICES ASSUME MsgInv PROVE NeighboursAsHeard
    OBVIOUS
  <2>1. /\ nodes \in [Keys -> Objects \union {None}]
        /\ \A k \in Keys : nodes[k] \in {None, k, Self}
    BY DEF MsgInv, RegInv, RegistryTypeOK
  <2>2. Nums \subseteq Keys /\ Unknown \notin Nums /\ own \in Devices \union {Unknown}
    BY DEF Keys, MsgInv, RegInv, RegistryTypeOK
  <2>3. ASSUME NEW o \in Neighbours PROVE told[o] # "relayed" /\ o # own
    <3>1. o \in Nums /\ nodes[o] = o /\ o # Self /\ hops[o] = 0
      BY <2>1, <2>2 DEF Neighbours
    <3> QED BY <2>2, <3>1 DEF MsgInv, RegInv, DeviceInv, HeardInv
  <2>4. ASSUME NEW n \in Nums \ Had, told[n] = "direct", n \in recent PROVE n \in Neighbours
    <3>1. nodes[n] \in {n, Self} /\ nodes[n] # Self
      BY <2>1, <2>2, <2>4 DEF MsgInv, RegInv, HeardInv, Had
    <3>2. hops[n] = 0 /\ n \notin {None, Self}
      BY <2>4, <3>1 DEF MsgInv, RegInv, HeardInv, Objects, Keys
    <3> QED BY <2>4, <3>1, <3>2 DEF Neighbours
  <2> QED BY <2>3, <2>4 DEF NeighboursAsHeard
<1> QED BY <1>1, Invariance, PTL

\* Answers go to the channel a command came on, as it was described by then, or
\* to the sender, whatever is learned about nodes, channels and devices in
\* between; only those to a number that the bot has had itself may go to another
\* such number (Reply, SendMessage).
THEOREM RepliesReach == Spec => []RepliesReachSender
<1>1. MsgInv => RepliesReachSender
  <2> SUFFICES ASSUME MsgInv, NEW t \in Texts, NEW x \in sent[t]
               PROVE  /\ Private(t) => Reached(t, x.to)
                      /\ ~Private(t) => /\ x.to = Broadcast
                                        /\ x.channel = IF message[t].bare THEN 0 ELSE message[t].on
                      /\ x.hops >= message[t].hops \/ x.hops = MaxHopLimit
    BY DEF RepliesReachSender
  <2>1. hpc[t] = "done" /\ HistoryInv(t)
    BY DEF MsgInv, ShapeInv, HistoryInv, AnswerInv
  <2>2. Right(t, x) /\ message[t].channel = IF message[t].bare THEN 0 ELSE message[t].on
    BY <2>1 DEF HistoryInv, MessageInv, DoneInv
  <2> QED BY <2>2 DEF Right
<1> QED BY <1>1, Invariance, PTL

\* A command that the manual lists is answered once if it is enabled, and never
\* if it is disabled or /sciezka on a channel; ordinary texts never are
\* (incoming, and both tables of commands).  Nothing is said of unknown private
\* commands, which the manual has ignored and the code answers.
THEOREM AnswersPromised == Spec => []AnsweredAsPromised
<1>1. MsgInv => AnsweredAsPromised
  BY AsListed DEF MsgInv, HistoryInv, DoneInv, AnsweredAsPromised
<1> QED BY <1>1, Invariance, PTL

\* A traceroute goes to nobody but who asked for it in private, or to the bot's
\* own device if that was a former device (handleSciezka).
THEOREM RoutePrivate == Spec => []RouteStaysPrivate
<1>1. MsgInv => RouteStaysPrivate
  <2> SUFFICES ASSUME MsgInv, NEW t \in Texts, Listed(t) = {"sciezka"}
               PROVE  /\ \A n \in traced[t] : Reached(t, n)
                      /\ ~Private(t) => sent[t] = {} /\ traced[t] = {}
    BY DEF RouteStaysPrivate
  <2>1. hpc[t] \in {"unsent", "incoming", "send", "done"} /\ HistoryInv(t)
    BY DEF MsgInv, ShapeInv
  <2>2. CASE hpc[t] # "done"
    BY <2>1, <2>2 DEF HistoryInv, AnswerInv
  <2>3. CASE hpc[t] = "done"
    <3>1. ~Private(t) => Expected(t) = 0
      BY AsListed DEF Refused
    <3> QED BY <2>1, <2>3, <3>1 DEF HistoryInv, DoneInv
  <2> QED BY <2>2, <2>3
<1> QED BY <1>1, Invariance, PTL
=============================================================================
