------------------------------- MODULE Registry -------------------------------
(***************************************************************************)
(* The nodes the bot knows (node_list.go, node.go, neighbor.go), as the     *)
(* reader of a connection keeps them (connected_node.go).                   *)
(*                                                                          *)
(* NodeList.nodes maps numbers to pointers, and messages hold such pointers *)
(* for as long as somebody answers them.  Therefore objects are told apart  *)
(* from numbers: the object NewNode makes for a number is named like it (no *)
(* number is ever removed, so there is one at most), and Self is the object *)
(* NewConnectedNode makes, whose Id is set when the device gives its own.   *)
(*                                                                          *)
(* Abstracted: names, positions, telemetry and ReceivedMessages; LastHeard  *)
(* to whether it is less than an hour ago.                                  *)
(***************************************************************************)
EXTENDS Integers, FiniteSets

CONSTANTS Nums,       \* the numbers of mesh nodes
          Devices,    \* those of the devices the bot is connected to in turn
          Broadcast,  \* 0xFFFFFFFF
          Unknown,    \* 0
          Self,       \* ConnectedNode.Node
          None,       \* no node, or no hop count
          Limits,     \* the hop limits a packet starts or arrives with
          Wrap        \* 2^32: HopsAway is unsigned

Keys == Nums \union {Broadcast, Unknown}
Objects == Keys \union {Self}
Counts == 0..(Wrap - 1)

ASSUME RegistryAssumption ==
    /\ Devices \subseteq Nums
    /\ Broadcast # Unknown /\ {Broadcast, Unknown} \intersect Nums = {}
    /\ Self \notin Keys /\ None \notin Objects \union Counts
    /\ Wrap \in Nat /\ Limits \subseteq 0..(Wrap - 1) /\ 0 \in Limits

VARIABLES
    nodes,   \* NodeList.nodes
    own,     \* the Id of Self
    hops,    \* HopsAway of each object
    recent,  \* the objects whose LastHeard is within the last hour
    told     \* history: what was last reported of the way to each number

registryVars == <<nodes, own, hops, recent, told>>

RegistryInit ==
    /\ nodes = [k \in Keys |-> IF k \in {Broadcast, Unknown} THEN k ELSE None]
    /\ own = Unknown
    /\ hops = [o \in Objects |-> 0]
    /\ recent = {}
    /\ told = [n \in Nums |-> "silent"]

Id(o) == IF o = Self THEN own ELSE o

\* The numbers that lead to Self: of the device, and of those before it.
Had == {n \in Nums : nodes[n] = Self}

\* NodeList.nodes once NewNode was called for those of the numbers that it
\* does not have.
With(numbers) ==
    [k \in Keys |-> IF k \in numbers /\ nodes[k] = None THEN k ELSE nodes[k]]

\* LastHeard of object o is set to a time that may be long ago.
Heard(o) == recent' \in {recent \union {o}, recent \ {o}}

\* MyInfo, after every connection.
MyInfo(d) ==
    /\ own' = d
    /\ nodes' = [nodes EXCEPT ![d] = Self]
    /\ UNCHANGED <<hops, recent, told>>

Tell(n, h) == told' = [told EXCEPT ![n] = h]

\* Mutant: a count that is absent is taken for zero.
Count_Zero(o, h) == IF h = None THEN 0 ELSE h

\* HopsAway of object o after a NodeInfo: an absent count leaves it alone.
Count(o, h) == IF h = None THEN hops[o] ELSE h

\* NodeInfo, from the device's own list; ingestNodeInfo ignores one whose
\* number is not that of the object it is filed under.
NodeInfo(n, h) ==
    /\ nodes' = With({n})
    /\ LET o == nodes'[n]
       IN  IF Id(o) = n
           THEN /\ hops' = [hops EXCEPT ![o] = Count(o, h)]
                /\ Heard(o)
                /\ Tell(n, IF h = 0 THEN "direct" ELSE IF h = None THEN told[n] ELSE "relayed")
           ELSE UNCHANGED <<hops, recent, told>>
    /\ UNCHANGED own

\* Mutant: the difference is a signed number.
HopsAway_Signed(start, limit) == IF start = 0 THEN 0 ELSE start - limit

\* IncomingMessage.HopsAway; a packet of old firmware has no HopStart.
HopsAway(start, limit) == IF start = 0 THEN 0 ELSE (start - limit) % Wrap

\* Mutant: the sender of a packet is looked up, not made.
Sender_OnlyKnown(from) == IF nodes[from] = None THEN Unknown ELSE nodes[from]

\* Message.FromNode
Sender(from) == With({from})[from]

\* parseMeshPacket for a packet of any kind: it makes objects for the sender,
\* and for the others, the recipient and the neighbours the packet tells of.
Packet(from, others, start, limit) ==
    /\ nodes' = With({from} \union others)
    /\ LET o == Sender(from)
       IN  hops' = [hops EXCEPT ![o] = HopsAway(start, limit)] /\ Heard(o)
    /\ Tell(from, IF start = 0 THEN "silent" ELSE IF start = limit THEN "direct" ELSE "relayed")
    /\ UNCHANGED own

\* parseMeshPacket for a NeighborInfo that is not about its sender, as far as
\* it gets: helpers.Assert panics in ingestMeshPacket.
PacketPanics(from, to) ==
    /\ nodes' = With({from, to})
    /\ UNCHANGED <<own, hops, recent, told>>

\* An hour passes without a word of o.
Ages(o) ==
    /\ o \in recent
    /\ recent' = recent \ {o}
    /\ UNCHANGED <<nodes, own, hops, told>>

-----------------------------------------------------------------------------
(* What the handlers of commands read                                       *)

\* NodeList.Neighbours
Neighbours ==
    {o \in {nodes[k] : k \in Nums} \ {None, Self} : hops[o] = 0 /\ o \in recent}

\* NodeList.findNode: which node a text stands for, if any, depends on names
\* that are not modelled, and on the order of the map.
FindNode == {nodes[k] : k \in Keys} \union {None}

-----------------------------------------------------------------------------
(* Properties                                                               *)

RegistryTypeOK ==
    /\ nodes \in [Keys -> Objects \union {None}]
    /\ \A k \in Keys : nodes[k] \in {None, k, Self}
    /\ own \in Devices \union {Unknown}
    /\ hops \in [Objects -> Counts]
    /\ recent \subseteq Objects
    /\ told \in [Nums -> {"silent", "direct", "relayed"}]

\* manual.md:20, "the nodes the bot hears over LoRa": what /sasiedzi lists are
\* nodes last heard without a relay, as far as they say so, and never the bot
\* itself once it knows its number; and it lists all of them, but for numbers
\* the bot has had itself, one of a former device for example.
NeighboursAsHeard ==
    /\ \A o \in Neighbours : told[o] # "relayed" /\ o # own
    /\ \A n \in Nums \ Had : told[n] = "direct" /\ n \in recent => n \in Neighbours
=============================================================================
