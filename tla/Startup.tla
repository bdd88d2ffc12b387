------------------------------- MODULE Startup -------------------------------
(****************************************************************************)
(* main(): the configuration, the subscriptions, and the connections to all *)
(* devices, one after the other, and the handler `connected' that starts    *)
(* the announcements (main.go, config.go, pubsub.go).                       *)
(*                                                                          *)
(* Each device has a reader of its own from the moment its stream is open,  *)
(* so the first devices publish events, and have them handled, while main() *)
(* is still busy with the next.  What is lost when a stream ends, and how   *)
(* it is replaced, is in Connection; here it is only seen that a device may *)
(* complete its configuration again.                                        *)
(*                                                                          *)
(* Abstracted: where a device is, and what is announced how often.          *)
(****************************************************************************)
EXTENDS Naturals, FiniteSets, Sequences

CONSTANTS Files,     \* what may be in config.json
          Channels,  \* the names of the channels each device has
          MaxEvents  \* bound: how often ConnectedEvent is published

Devices == DOMAIN Channels
Kinds == {"serial", "tcp"}

\* A connection says whether it has a hostname and a device, an announcement
\* is its channel.
ASSUME StartupAssumption ==
    /\ \A f \in Files :
        /\ DOMAIN f.connections = 1..Len(f.connections)
        /\ DOMAIN f.connections \subseteq Devices
        /\ \A d \in DOMAIN f.connections : f.connections[d] \subseteq {"hostname", "device"}
        /\ f.allowed \subseteq Kinds
        /\ Len(f.announcements) \in Nat
        /\ DOMAIN f.announcements = 1..Len(f.announcements)
    /\ MaxEvents \in Nat

Topics == <<"incoming", "traceroute", "outgoing", "connected", "disconnected">>
Handlers == 1..MaxEvents

VARIABLES
    config,      \* what InitConfig has read
    mpc,         \* where main() is
    subscribed,  \* how many of the topics have their subscriber
    current,     \* the connection main() is at
    opened,      \* the devices whose stream is open and has a reader
    asked,       \* those that were sent want_config
    lost,        \* history: whether an event had no subscriber
    hpc,         \* where each handler `connected' is
    device,      \* the device that completed
    next,        \* the announcement it is at
    running,     \* announcersRunning
    onAir,       \* the goroutines that announce: announcement and handler
    overlapped   \* history: a handler began to start announcers while another did

mainVars == <<config, subscribed, current, opened, asked>>
handlerVars == <<hpc, device, next, running, onAir, overlapped>>
vars == <<mainVars, mpc, lost, handlerVars>>

Empty == [connections |-> <<>>, allowed |-> {}, announcements |-> <<>>]

Init ==
    /\ config = Empty
    /\ mpc = "config"
    /\ subscribed = 0
    /\ current = 1
    /\ opened = {}
    /\ asked = {}
    /\ lost = FALSE
    /\ hpc = [h \in Handlers |-> "none"]
    /\ device = [h \in Handlers |-> 0]
    /\ next = [h \in Handlers |-> 1]
    /\ running = FALSE
    /\ onAir = {}
    /\ overlapped = FALSE

-----------------------------------------------------------------------------
(* main()                                                                   *)

\* log.Fatal, or the runtime, ends the process, with every device.
Ended == mpc \in {"fatal", "crash"}

InitConfig ==
    /\ mpc = "config"
    /\ config' \in Files
    /\ mpc' = "subscribe"
    /\ UNCHANGED <<subscribed, current, opened, asked, lost, handlerVars>>

\* No config.json, or no JSON in it.
InitConfigFails ==
    /\ mpc = "config"
    /\ mpc' = "fatal"
    /\ UNCHANGED <<mainVars, lost, handlerVars>>

\* Mutant: the devices are connected before the last subscription.
Subscribe_Late ==
    /\ mpc = "subscribe"
    /\ subscribed' = subscribed + 1
    /\ mpc' = IF subscribed' = Len(Topics) - 1 THEN "connect" ELSE "subscribe"
    /\ UNCHANGED <<config, current, opened, asked, lost, handlerVars>>

Subscribe ==
    /\ mpc = "subscribe"
    /\ subscribed' = subscribed + 1
    /\ mpc' = IF subscribed' = Len(Topics) THEN "connect" ELSE "subscribe"
    /\ UNCHANGED <<config, current, opened, asked, lost, handlerVars>>

\* What InitConfig makes of a connection: a device goes before a hostname.
ConnectionType(c) ==
    IF "device" \in c THEN "serial" ELSE IF "hostname" \in c THEN "tcp" ELSE "unknown"

Known == current <= Len(config.connections)

\* The connection is of a kind, and of one that is allowed, or all is over.
CheckConnection ==
    /\ mpc = "connect"
    /\ Known
    /\ mpc' = IF ConnectionType(config.connections[current]) \in config.allowed
              THEN "acquire" ELSE "fatal"
    /\ UNCHANGED <<mainVars, lost, handlerVars>>

\* The loop that keeps the process alive
KeepAlive ==
    /\ mpc = "connect"
    /\ ~Known
    /\ mpc' = "alive"
    /\ UNCHANGED <<mainVars, lost, handlerVars>>

\* Connect: the stream is open and its reader started.
Acquire ==
    /\ mpc = "acquire"
    /\ opened' = opened \union {current}
    /\ mpc' = "wake"
    /\ UNCHANGED <<config, subscribed, current, asked, lost, handlerVars>>

Wake ==
    /\ mpc = "wake"
    /\ mpc' = "request"
    /\ UNCHANGED <<mainVars, lost, handlerVars>>

\* want_config is written, and the next connection is up.
Configure ==
    /\ mpc = "request"
    /\ asked' = asked \union {current}
    /\ current' = current + 1
    /\ mpc' = "connect"
    /\ UNCHANGED <<config, subscribed, opened, lost, handlerVars>>

\* Connect returns an error: the devices that are connected go down as well.
ConnectFails ==
    /\ mpc \in {"acquire", "wake", "request"}
    /\ mpc' = "fatal"
    /\ UNCHANGED <<mainVars, lost, handlerVars>>

-----------------------------------------------------------------------------
(* The readers                                                              *)

Subscribed(t) == \E i \in 1..subscribed : Topics[i] = t

\* publish: every subscriber runs in a goroutine of its own.  These are the
\* topics whose handlers are modelled elsewhere.
Publish(t) ==
    /\ opened # {}
    /\ t # "connected"
    /\ lost' = (lost \/ ~Subscribed(t))
    /\ UNCHANGED <<mainVars, mpc, handlerVars>>

\* ConfigComplete
Complete(d) ==
    /\ d \in asked
    /\ \E h \in Handlers :
        /\ h = Cardinality({g \in Handlers : hpc[g] # "none"}) + 1
        /\ hpc' = [hpc EXCEPT ![h] = "check"]
        /\ device' = [device EXCEPT ![h] = d]
    /\ lost' = (lost \/ ~Subscribed("connected"))
    /\ UNCHANGED <<mainVars, mpc, next, running, onAir, overlapped>>

-----------------------------------------------------------------------------
(* connected                                                                *)

At(h, l) == hpc[h] = l
Goto(h, l) == hpc' = [hpc EXCEPT ![h] = l]

\* if !announcersRunning
CheckRunning(h) ==
    /\ At(h, "check")
    /\ Goto(h, IF running THEN "done" ELSE "start")
    /\ overlapped' = (overlapped \/ (~running /\ \E g \in Handlers : At(g, "start")))
    /\ UNCHANGED <<mainVars, mpc, lost, device, next, running, onAir>>

\* FindChannel
HasChannel(d, a) == config.announcements[a] \in Channels[d]

\* Mutant: the handler returns when it does not find a channel.
Announcer_Returns(h) ==
    /\ At(h, "start")
    /\ next[h] <= Len(config.announcements)
    /\ next' = [next EXCEPT ![h] = @ + 1]
    /\ IF HasChannel(device[h], next[h])
       THEN onAir' = onAir \union {<<next[h], h>>} /\ UNCHANGED hpc
       ELSE Goto(h, "done") /\ UNCHANGED onAir
    /\ UNCHANGED <<mainVars, mpc, lost, device, running, overlapped>>

\* A goroutine for the next announcement, if the device has its channel.
Announcer(h) ==
    /\ At(h, "start")
    /\ next[h] <= Len(config.announcements)
    /\ next' = [next EXCEPT ![h] = @ + 1]
    /\ onAir' = IF HasChannel(device[h], next[h]) THEN onAir \union {<<next[h], h>>} ELSE onAir
    /\ UNCHANGED <<mainVars, mpc, lost, hpc, device, running, overlapped>>

\* Mutant: the flag is not set.
AllStarted_NotSet(h) ==
    /\ At(h, "start")
    /\ next[h] > Len(config.announcements)
    /\ Goto(h, "done")
    /\ UNCHANGED <<mainVars, mpc, lost, device, next, running, onAir, overlapped>>

\* The flag is set when all are started, not before.
AllStarted(h) ==
    /\ At(h, "start")
    /\ next[h] > Len(config.announcements)
    /\ running' = TRUE
    /\ Goto(h, "done")
    /\ UNCHANGED <<mainVars, mpc, lost, device, next, onAir, overlapped>>

\* The handler's copy of the node shares the map of channels with the reader,
\* which may write to it while FindChannel goes through it.
MapRace(h) ==
    /\ At(h, "start")
    /\ next[h] <= Len(config.announcements)
    /\ mpc' = "crash"
    /\ UNCHANGED <<mainVars, lost, handlerVars>>

-----------------------------------------------------------------------------
Main ==
    \/ InitConfig \/ InitConfigFails \/ Subscribe
    \/ CheckConnection \/ KeepAlive
    \/ Acquire \/ Wake \/ Configure \/ ConnectFails

Handler(h) == CheckRunning(h) \/ Announcer(h) \/ AllStarted(h)

Running(A) == ~Ended /\ A

Next ==
    \/ Running(Main)
    \/ \E i \in 1..Len(Topics) : Running(Publish(Topics[i]))
    \/ \E d \in Devices : Running(Complete(d))
    \/ \E h \in Handlers : Running(Handler(h)) \/ Running(MapRace(h))

Spec == Init /\ [][Next]_vars

\* Goroutines run.  A device need not answer, and connecting may take for ever.
FairSpec == Spec /\ \A h \in Handlers : WF_vars(Running(Handler(h)))

-----------------------------------------------------------------------------
(* Properties                                                               *)

\* Every event has its subscriber, although a device publishes from the moment
\* its stream is open, and no reader looks into the map of subscriptions while
\* main() writes to it: all subscriptions are made before the first connection
\* (main.go:53-60, pubsub.go:38-46).
NothingLost == ~lost /\ (opened # {} => mpc # "subscribe")

\* However often the devices complete their configuration, one goroutine sends
\* each announcement, and all of them send through one device, unless two
\* handlers found the flag not set because the first had not finished
\* (connected).
AnnouncersOnce ==
    ~overlapped => \A x, y \in onAir : device[x[2]] = device[y[2]] /\ (x[1] = y[1] => x = y)

OnAir(a) == \E h \in Handlers : <<a, h>> \in onAir

Due(a) ==
    \E h \in Handlers :
        \/ At(h, "start") /\ HasChannel(device[h], a)
        \/ At(h, "check") /\ \A d \in Devices : HasChannel(d, a)

\* Once a device that has its channel is the first to complete, an announcement
\* starts, even if the channels of others before it in config.json are missing,
\* and while main() is still connecting the next device; so it does whichever
\* device is the first, if all have its channel (connected).
AnnouncementsStart ==
    \A f \in Files : \A a \in DOMAIN f.announcements :
        (config = f /\ Due(a)) ~> OnAir(a) \/ Ended
=============================================================================
