---------------------------- MODULE StartupProofs ----------------------------
(****************************************************************************)
(* Proofs about Startup, for any configuration files, devices, channels and *)
(* number of events.                                                        *)
(****************************************************************************)
EXTENDS Startup, FiniteSetTheorems, TLAPS

USE StartupAssumption

-----------------------------------------------------------------------------
(* Subscriptions come first                                                 *)

\* main() connects when all topics have their subscriber, and a device is
\* asked for its configuration only once its stream is open.
SubscribedInv ==
    /\ mpc \in {"config", "subscribe", "connect", "acquire", "wake", "request", "alive",
                "fatal", "crash"}
    /\ subscribed \in Nat
    /\ mpc = "subscribe" => opened = {}
    /\ mpc = "config" => opened = {}
    /\ mpc \in {"connect", "acquire", "wake", "request", "alive"} => subscribed = Len(Topics)
    /\ mpc \in {"wake", "request"} => current \in opened
    /\ opened # {} => subscribed = Len(Topics)
    /\ asked \subseteq opened
    /\ ~lost

LEMMA AllSubscribed ==
    ASSUME subscribed = Len(Topics), NEW i \in 1..Len(Topics)
    PROVE  Subscribed(Topics[i])
  BY DEF Subscribed

LEMMA SubscribedInit == Init => SubscribedInv
  BY DEF Init, SubscribedInv

LEMMA SubscribedMain == ASSUME SubscribedInv, Main PROVE SubscribedInv'
<1> USE DEF SubscribedInv
<1>1. CASE InitConfig
  BY <1>1 DEF InitConfig
<1>2. CASE InitConfigFails
  BY <1>2 DEF InitConfigFails, mainVars
<1>3. CASE Subscribe
  BY <1>3 DEF Subscribe, Topics
<1>4. CASE CheckConnection
  BY <1>4 DEF CheckConnection, mainVars
<1>5. CASE KeepAlive
  BY <1>5 DEF KeepAlive, mainVars
<1>6. CASE Acquire
  BY <1>6 DEF Acquire
<1>7. CASE Wake
  BY <1>7 DEF Wake, mainVars
<1>8. CASE Configure
  BY <1>8 DEF Configure
<1>9. CASE ConnectFails
  BY <1>9 DEF ConnectFails, mainVars
<1> QED BY <1>1, <1>2, <1>3, <1>4, <1>5, <1>6, <1>7, <1>8, <1>9 DEF Main

LEMMA SubscribedReader ==
    ASSUME SubscribedInv,
           (\E i \in 1..Len(Topics) : Publish(Topics[i])) \/ (\E d \in Devices : Complete(d))
    PROVE  SubscribedInv'
<1>1. CASE \E i \in 1..Len(Topics) : Publish(Topics[i])
  <2>1. PICK i \in 1..Len(Topics) : Publish(Topics[i])
    BY <1>1
  <2>2. Subscribed(Topics[i])
    BY <2>1, AllSubscribed DEF Publish, SubscribedInv
  <2> QED BY <2>1, <2>2 DEF Publish, SubscribedInv, mainVars
<1>2. CASE \E d \in Devices : Complete(d)
  <2>1. PICK d \in Devices : Complete(d)
    BY <1>2
  <2>2. subscribed = Len(Topics)
    BY <2>1 DEF Complete, SubscribedInv
  <2>3. Topics[4] = "connected" /\ 4 \in 1..Len(Topics)
    BY DEF Topics
  <2>4. Subscribed("connected")
    BY <2>2, <2>3, AllSubscribed
  <2> QED BY <2>1, <2>4 DEF Complete, SubscribedInv, mainVars
<1> QED BY <1>1, <1>2

LEMMA SubscribedHandler ==
    ASSUME SubscribedInv, NEW h \in Handlers, Handler(h) \/ MapRace(h)
    PROVE  SubscribedInv'
<1> USE DEF SubscribedInv, mainVars
<1>1. CASE MapRace(h)
  BY <1>1 DEF MapRace
<1>2. CASE Handler(h)
  BY <1>2 DEF Handler, CheckRunning, Announcer, AllStarted
<1> QED BY <1>1, <1>2

LEMMA SubscribedNext == SubscribedInv /\ [Next]_vars => SubscribedInv'
<1> SUFFICES ASSUME SubscribedInv, [Next]_vars PROVE SubscribedInv'
  OBVIOUS
<1>1. CASE UNCHANGED vars
  BY <1>1 DEF vars, mainVars, SubscribedInv
<1>2. CASE Next
  BY <1>2, SubscribedMain, SubscribedReader, SubscribedHandler DEF Next, Running
<1> QED BY <1>1, <1>2

\* No device publishes an event without a subscriber, whatever the devices do
\* while main() connects the others (main, pubsub.go).
THEOREM LosesNothing == Spec => []NothingLost
<1>1. SubscribedInv => NothingLost
  BY DEF SubscribedInv, NothingLost
<1> QED BY <1>1, SubscribedInit, SubscribedNext, PTL DEF Spec

-----------------------------------------------------------------------------
(* One announcer for each announcement                                      *)

Begun == {g \in Handlers : hpc[g] # "none"}

\* Handlers begin in the order of their numbers.
BegunInv ==
    /\ hpc \in [Handlers -> {"none", "check", "start", "done"}]
    /\ next \in [Handlers -> Nat]
    /\ \E n \in 0..MaxEvents : Begun = 1..n
    /\ onAir \subseteq Nat \X Handlers
    /\ \A x \in onAir : hpc[x[2]] # "none" /\ x[1] < next[x[2]]

\* One handler starts all announcers, and the flag is set only when it is
\* through; nothing is on the air before.
AloneInv ==
    ~overlapped =>
        /\ \A g, h \in Handlers : At(g, "start") /\ At(h, "start") => g = h
        /\ \A g \in Handlers : At(g, "start") => ~running /\ \A x \in onAir : x[2] = g
        /\ ~running /\ (\A g \in Handlers : ~At(g, "start")) => onAir = {}
        /\ \A x, y \in onAir : x[2] = y[2] /\ (x[1] = y[1] => x = y)

AnnounceInv == BegunInv /\ AloneInv

LEMMA AnnounceInit == Init => AnnounceInv
<1> SUFFICES ASSUME Init PROVE AnnounceInv
  OBVIOUS
<1>1. Begun = 1..0
  BY DEF Init, Begun
<1>2. 0 \in 0..MaxEvents
  OBVIOUS
<1> QED BY <1>1, <1>2 DEF Init, AnnounceInv, BegunInv, AloneInv, At

\* A new handler is one that was not used before.
LEMMA FreshHandler ==
    ASSUME BegunInv, NEW d \in Devices, Complete(d)
    PROVE  \E h \in Handlers :
               /\ hpc[h] = "none"
               /\ hpc' = [hpc EXCEPT ![h] = "check"]
               /\ device' = [device EXCEPT ![h] = d]
               /\ \E n \in 0..MaxEvents : Begun' = 1..n
<1>1. PICK n \in 0..MaxEvents : Begun = 1..n
  BY DEF BegunInv
<1>2. Cardinality(Begun) = n
  BY <1>1, FS_Interval
<1>3. PICK h \in Handlers :
          /\ h = Cardinality(Begun) + 1
          /\ hpc' = [hpc EXCEPT ![h] = "check"]
          /\ device' = [device EXCEPT ![h] = d]
  BY DEF Complete, Begun
<1>4. h = n + 1
  BY <1>2, <1>3
<1>5. h \notin Begun
  BY <1>1, <1>4
<1>6. Begun' = Begun \union {h}
  BY <1>3 DEF Begun, BegunInv
<1>7. Begun' = 1..(n + 1) /\ n + 1 \in 0..MaxEvents
  BY <1>1, <1>4, <1>6 DEF Handlers
<1> QED BY <1>3, <1>5, <1>7 DEF Begun

LEMMA AnnounceComplete ==
    ASSUME AnnounceInv, NEW d \in Devices, Complete(d)
    PROVE  AnnounceInv'
<1>1. PICK h \in Handlers :
          /\ hpc[h] = "none"
          /\ hpc' = [hpc EXCEPT ![h] = "check"]
          /\ \E n \in 0..MaxEvents : Begun' = 1..n
  BY FreshHandler DEF AnnounceInv
<1>2. UNCHANGED <<next, running, onAir, overlapped>>
  BY DEF Complete
<1>3. \A g \in Handlers : At(g, "start")' <=> At(g, "start")
  BY <1>1 DEF At, AnnounceInv, BegunInv
<1>4. BegunInv'
  BY <1>1, <1>2 DEF AnnounceInv, BegunInv
<1>5. AloneInv'
  BY <1>2, <1>3 DEF AnnounceInv, AloneInv
<1> QED BY <1>4, <1>5 DEF AnnounceInv

\* Who has begun stays so.
LEMMA BegunStays ==
    ASSUME BegunInv, NEW h \in Handlers, hpc[h] # "none", NEW l \in {"start", "done"},
           hpc' = [hpc EXCEPT ![h] = l]
    PROVE  Begun' = Begun
  BY DEF Begun, BegunInv

LEMMA AnnounceCheck ==
    ASSUME AnnounceInv, NEW h \in Handlers, CheckRunning(h)
    PROVE  AnnounceInv'
<1> USE DEF CheckRunning, At, Goto, AnnounceInv
<1>1. Begun' = Begun
  <2>1. PICK l \in {"start", "done"} : hpc' = [hpc EXCEPT ![h] = l]
    OBVIOUS
  <2> QED BY <2>1, BegunStays
<1>2. BegunInv'
  BY <1>1 DEF BegunInv
<1>3. AloneInv'
  <2> SUFFICES ASSUME ~overlapped' PROVE AloneInv'
    BY DEF AloneInv
  <2>1. CASE running
    BY <2>1 DEF AloneInv, BegunInv
  <2>2. CASE ~running
    <3>1. \A g \in Handlers : ~At(g, "start")
      BY <2>2
    <3>2. onAir = {} /\ onAir' = {} /\ ~running'
      BY <2>2, <3>1 DEF AloneInv
    <3> QED BY <3>1, <3>2 DEF AloneInv, BegunInv
  <2> QED BY <2>1, <2>2
<1> QED BY <1>2, <1>3

LEMMA AnnounceStart ==
    ASSUME AnnounceInv, NEW h \in Handlers, Announcer(h)
    PROVE  AnnounceInv'
<1> USE DEF At
<1>1. next' = [next EXCEPT ![h] = @ + 1] /\ UNCHANGED <<hpc, running, overlapped>>
  BY DEF Announcer
<1>2. onAir' \subseteq onAir \union {<<next[h], h>>} /\ onAir \subseteq onAir'
  BY DEF Announcer
<1>3. Begun' = Begun
  BY <1>1 DEF Begun
<1>4. BegunInv'
  <2>1. next' \in [Handlers -> Nat]
    BY <1>1 DEF AnnounceInv, BegunInv
  <2>2. next[h] \in Nat /\ next'[h] = next[h] + 1 /\ \A g \in Handlers \ {h} : next'[g] = next[g]
    BY <1>1 DEF AnnounceInv, BegunInv
  <2>3. \A x \in onAir : x[1] \in Nat /\ x[2] \in Handlers
    BY DEF AnnounceInv, BegunInv
  <2>4. \A x \in onAir' : hpc'[x[2]] # "none" /\ x[1] < next'[x[2]]
    <3> SUFFICES ASSUME NEW x \in onAir' PROVE hpc[x[2]] # "none" /\ x[1] < next'[x[2]]
      BY <1>1
    <3>1. CASE x \in onAir
      BY <2>2, <2>3, <3>1 DEF AnnounceInv, BegunInv
    <3>2. CASE x = <<next[h], h>>
      BY <2>2, <3>2 DEF Announcer
    <3> QED BY <1>2, <3>1, <3>2
  <2>5. onAir' \subseteq Nat \X Handlers
    BY <1>2, <2>2 DEF AnnounceInv, BegunInv
  <2> QED BY <1>1, <1>3, <2>1, <2>4, <2>5 DEF AnnounceInv, BegunInv
<1>5. AloneInv'
  <2> SUFFICES ASSUME ~overlapped PROVE AloneInv'
    BY <1>1 DEF AloneInv
  <2>1. hpc[h] = "start" /\ ~running /\ \A x \in onAir : x[2] = h /\ x[1] # next[h]
    BY DEF Announcer, AnnounceInv, AloneInv, BegunInv
  <2>2. \A x \in onAir' : x[2] = h
    BY <1>2, <2>1
  <2>3. \A x, y \in onAir' : x[1] = y[1] => x = y
    BY <1>2, <2>1 DEF AnnounceInv, AloneInv
  <2> QED BY <1>1, <2>1, <2>2, <2>3 DEF AnnounceInv, AloneInv
<1> QED BY <1>4, <1>5 DEF AnnounceInv

LEMMA AnnounceDone ==
    ASSUME AnnounceInv, NEW h \in Handlers, AllStarted(h)
    PROVE  AnnounceInv'
<1> USE DEF AllStarted, At, Goto, AnnounceInv
<1>1. Begun' = Begun
  BY BegunStays
<1>2. BegunInv'
  BY <1>1 DEF BegunInv
<1>3. AloneInv'
  BY DEF AloneInv, BegunInv
<1> QED BY <1>2, <1>3

LEMMA AnnounceOthers ==
    ASSUME AnnounceInv, UNCHANGED handlerVars
    PROVE  AnnounceInv'
  BY DEF AnnounceInv, BegunInv, AloneInv, Begun, At, handlerVars

LEMMA AnnounceNext == AnnounceInv /\ [Next]_vars => AnnounceInv'
<1> SUFFICES ASSUME AnnounceInv, [Next]_vars PROVE AnnounceInv'
  OBVIOUS
<1>1. CASE Main \/ (\E i \in 1..Len(Topics) : Publish(Topics[i])) \/ (\E h \in Handlers : MapRace(h))
           \/ UNCHANGED vars
  <2>1. UNCHANGED handlerVars
    BY <1>1 DEF Main, InitConfig, InitConfigFails, Subscribe, CheckConnection, KeepAlive, Acquire,
                Wake, Configure, ConnectFails, Publish, MapRace, vars
  <2> QED BY <2>1, AnnounceOthers
<1>2. CASE \E d \in Devices : Complete(d)
  BY <1>2, AnnounceComplete
<1>3. CASE \E h \in Handlers : Handler(h)
  BY <1>3, AnnounceCheck, AnnounceStart, AnnounceDone DEF Handler
<1> QED BY <1>1, <1>2, <1>3 DEF Next, Running

\* However often and in whatever order devices complete their configuration,
\* no announcement has two announcers, and all use one device, unless two
\* handlers overlapped (connected).
THEOREM AnnouncesOnce == Spec => []AnnouncersOnce
<1>1. AnnounceInv => AnnouncersOnce
  BY DEF AnnounceInv, AloneInv, AnnouncersOnce
<1> QED BY <1>1, AnnounceInit, AnnounceNext, PTL DEF Spec

-----------------------------------------------------------------------------
(* The safety side of AnnouncementsStart                                    *)

Announcements == DOMAIN config.announcements

\* Handler h has started the announcements before n whose channels it found.
Aired(h, n) == \A a \in Announcements : a < n /\ HasChannel(device[h], a) => <<a, h>> \in onAir

ThroughAll(h) == At(h, "done") /\ \A a \in Announcements : HasChannel(device[h], a) => <<a, h>> \in onAir

\* Once a handler returns, some handler has started every announcement for
\* which its device has the channel; none returned early and none was passed
\* over.
ReturnedHaveStarted == \A g \in Handlers : At(g, "done") => \E h \in Handlers : ThroughAll(h)

\* What each handler has started, and that the flag is set by one that is
\* through; the configuration is read before any device can complete.
AiredInv ==
    /\ config \in Files \union {Empty}
    /\ mpc = "config" => \A h \in Handlers : hpc[h] = "none"
    /\ device \in [Handlers -> Devices \union {0}]
    /\ \A h \in Handlers : hpc[h] \in {"none", "check"} => next[h] = 1
    /\ \A h \in Handlers : hpc[h] = "start" => Aired(h, next[h])
    /\ running => \E h \in Handlers : ThroughAll(h)
    /\ \A h \in Handlers : hpc[h] = "done" => running

LEMMA AnnouncementsCounted ==
    ASSUME config \in Files \union {Empty}
    PROVE  Len(config.announcements) \in Nat /\ Announcements = 1..Len(config.announcements)
<1>1. CASE config \in Files
  BY <1>1 DEF Announcements
<1>2. CASE config = Empty
  BY <1>2 DEF Empty, Announcements
<1> QED BY <1>1, <1>2

LEMMA AiredInit == Init => AiredInv
  BY DEF Init, AiredInv

\* What is on the air stays, and so does what a handler was asked to do.
LEMMA ThroughStays ==
    ASSUME NEW h \in Handlers, ThroughAll(h), UNCHANGED config, hpc'[h] = hpc[h],
           device'[h] = device[h], onAir \subseteq onAir'
    PROVE  ThroughAll(h)'
  BY DEF ThroughAll, Announcements, HasChannel, At

LEMMA AiredMain ==
    ASSUME AiredInv, SubscribedInv, Main \/ \E h \in Handlers : MapRace(h)
    PROVE  AiredInv'
<1> USE DEF handlerVars, mainVars
<1>1. CASE InitConfig
  <2>1. config' \in Files /\ mpc' # "config" /\ UNCHANGED handlerVars
    BY <1>1 DEF InitConfig
  <2>2. \A h \in Handlers : hpc'[h] = "none" /\ next'[h] = 1
    BY <1>1, <2>1 DEF InitConfig, AiredInv
  <2>3. ~running'
    BY <2>1, <2>2 DEF AiredInv, ThroughAll, At
  <2> QED BY <2>1, <2>2, <2>3 DEF AiredInv
<1>2. CASE ~InitConfig
  <2>1. UNCHANGED config /\ UNCHANGED handlerVars /\ mpc' # "config"
    BY <1>2 DEF Main, InitConfigFails, Subscribe, CheckConnection, KeepAlive, Acquire, Wake,
                Configure, ConnectFails, MapRace
  <2> QED BY <2>1 DEF AiredInv, Aired, ThroughAll, Announcements, HasChannel, At
<1> QED BY <1>1, <1>2

LEMMA AiredComplete ==
    ASSUME AiredInv, SubscribedInv, BegunInv, NEW d \in Devices, Complete(d)
    PROVE  AiredInv'
<1>1. PICK h \in Handlers :
          /\ hpc[h] = "none"
          /\ hpc' = [hpc EXCEPT ![h] = "check"]
          /\ device' = [device EXCEPT ![h] = d]
  BY FreshHandler
<1>2. UNCHANGED <<config, mpc, next, running, onAir>>
  BY DEF Complete, mainVars
<1>3. mpc # "config"
  BY DEF Complete, SubscribedInv
<1>4. \A g \in Handlers \ {h} : hpc'[g] = hpc[g] /\ device'[g] = device[g]
  BY <1>1 DEF AiredInv, BegunInv
<1>5. hpc'[h] = "check" /\ next'[h] = 1
  BY <1>1, <1>2 DEF AiredInv, BegunInv
<1>6. device' \in [Handlers -> Devices \union {0}]
  BY <1>1 DEF AiredInv
<1>7. \A g \in Handlers : hpc'[g] = "start" => Aired(g, next[g])'
  BY <1>2, <1>4, <1>5 DEF AiredInv, Aired, Announcements, HasChannel
<1>8. running' => \E g \in Handlers : ThroughAll(g)'
  <2> SUFFICES ASSUME running PROVE \E g \in Handlers : ThroughAll(g)'
    BY <1>2
  <2>1. PICK g \in Handlers : ThroughAll(g)
    BY DEF AiredInv
  <2>2. g # h
    BY <1>1, <2>1 DEF ThroughAll, At
  <2>3. ThroughAll(g)'
    BY <1>2, <1>4, <2>1, <2>2, ThroughStays
  <2> QED BY <2>3
<1> QED BY <1>2, <1>3, <1>4, <1>5, <1>6, <1>7, <1>8 DEF AiredInv

LEMMA AiredHandler ==
    ASSUME AiredInv, BegunInv, NEW h \in Handlers, Handler(h)
    PROVE  AiredInv'
<1> USE DEF At, Goto
<1>1. UNCHANGED <<config, mpc, device>> /\ onAir \subseteq onAir' /\ hpc[h] \in {"check", "start"}
  BY DEF Handler, CheckRunning, Announcer, AllStarted, mainVars
<1>2. \A g \in Handlers \ {h} : hpc'[g] = hpc[g] /\ next'[g] = next[g]
  BY DEF Handler, CheckRunning, Announcer, AllStarted, BegunInv
<1>3. mpc' # "config"
  BY <1>1 DEF AiredInv
<1>4. \A g \in Handlers \ {h} : hpc'[g] = "start" => Aired(g, next[g])'
  BY <1>1, <1>2 DEF AiredInv, Aired, Announcements, HasChannel
<1>5. running => \E g \in Handlers : ThroughAll(g)'
  <2> SUFFICES ASSUME running PROVE \E g \in Handlers : ThroughAll(g)'
    OBVIOUS
  <2>1. PICK g \in Handlers : ThroughAll(g)
    BY DEF AiredInv
  <2>2. g # h
    BY <1>1, <2>1 DEF ThroughAll
  <2>3. ThroughAll(g)'
    BY <1>1, <1>2, <2>1, <2>2, ThroughStays
  <2> QED BY <2>3
<1>6. next[h] \in Nat
  BY DEF BegunInv
<1>7. CASE CheckRunning(h)
  <2>1. UNCHANGED <<next, running>> /\ hpc'[h] \in {"done", "start"} /\ next[h] = 1
    BY <1>7 DEF CheckRunning, BegunInv, AiredInv
  <2>2. hpc'[h] = "done" => running'
    BY <1>7, <2>1 DEF CheckRunning, BegunInv
  <2>3. hpc'[h] = "start" => Aired(h, next[h])'
    BY <1>1, <2>1, AnnouncementsCounted DEF AiredInv, Aired, Announcements
  <2> QED BY <1>1, <1>2, <1>3, <1>4, <1>5, <2>1, <2>2, <2>3 DEF AiredInv
<1>8. CASE Announcer(h)
  <2>1. UNCHANGED <<hpc, running>> /\ next'[h] = next[h] + 1 /\ hpc[h] = "start"
    BY <1>8 DEF Announcer, BegunInv
  <2>2. Aired(h, next[h])
    BY <2>1 DEF AiredInv
  <2>3. Aired(h, next[h])'
    <3> SUFFICES ASSUME NEW a \in Announcements, a < next[h] + 1, HasChannel(device[h], a)
                 PROVE  <<a, h>> \in onAir'
      BY <1>1, <2>1 DEF Aired, Announcements, HasChannel
    <3>1. a \in Nat
      BY AnnouncementsCounted DEF AiredInv
    <3>2. CASE a < next[h]
      BY <1>1, <2>2, <3>2 DEF Aired
    <3>3. CASE a = next[h]
      BY <1>8, <3>3 DEF Announcer
    <3> QED BY <1>6, <3>1, <3>2, <3>3
  <2> QED BY <1>1, <1>2, <1>3, <1>4, <1>5, <2>1, <2>3 DEF AiredInv
<1>9. CASE AllStarted(h)
  <2>1. hpc'[h] = "done" /\ running' /\ UNCHANGED next /\ hpc[h] = "start"
    BY <1>9 DEF AllStarted, BegunInv
  <2>2. ThroughAll(h)'
    <3> SUFFICES ASSUME NEW a \in Announcements, HasChannel(device[h], a)
                 PROVE  <<a, h>> \in onAir'
      BY <1>1, <2>1 DEF ThroughAll, Announcements, HasChannel
    <3>1. a < next[h]
      BY <1>6, <1>9, AnnouncementsCounted DEF AiredInv, AllStarted
    <3> QED BY <1>1, <2>1, <3>1 DEF AiredInv, Aired
  <2> QED BY <1>1, <1>2, <1>3, <1>4, <2>1, <2>2 DEF AiredInv
<1> QED BY <1>7, <1>8, <1>9 DEF Handler

LEMMA AiredNext == AiredInv /\ SubscribedInv /\ BegunInv /\ [Next]_vars => AiredInv'
<1> SUFFICES ASSUME AiredInv, SubscribedInv, BegunInv, [Next]_vars PROVE AiredInv'
  OBVIOUS
<1>1. CASE (\E i \in 1..Len(Topics) : Publish(Topics[i])) \/ UNCHANGED vars
  <2>1. UNCHANGED <<config, mpc>> /\ UNCHANGED handlerVars
    BY <1>1 DEF Publish, vars, mainVars
  <2> QED BY <2>1 DEF AiredInv, Aired, ThroughAll, Announcements, HasChannel, At, handlerVars
<1>2. CASE Main \/ \E h \in Handlers : MapRace(h)
  BY <1>2, AiredMain
<1>3. CASE \E d \in Devices : Complete(d)
  BY <1>3, AiredComplete
<1>4. CASE \E h \in Handlers : Handler(h)
  BY <1>4, AiredHandler
<1> QED BY <1>1, <1>2, <1>3, <1>4 DEF Next, Running

\* What AnnouncementsStart rests on, even when handlers overlap, for any
\* configuration files and devices: no handler returns unless one has put
\* everything on the air that its device has a channel for (connected).
THEOREM ReturnedStarted == Spec => []ReturnedHaveStarted
<1>1. AiredInv => ReturnedHaveStarted
  BY DEF AiredInv, ReturnedHaveStarted, At
<1>2. AnnounceInv => BegunInv
  BY DEF AnnounceInv
<1> QED BY <1>1, <1>2, AiredInit, AiredNext, SubscribedInit, SubscribedNext, AnnounceInit,
           AnnounceNext, PTL DEF Spec
=============================================================================
