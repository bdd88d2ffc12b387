----------------------------- MODULE Connection -----------------------------
(***************************************************************************)
(* One configured connection to a Meshtastic device: opening it, reading   *)
(* it, losing it, opening it again (main.go, connected_node.go), and the   *)
(* cyclic announcements that are started when it is up.                    *)
(*                                                                         *)
(* ConnectionEvents hands every subscriber a COPY of the ConnectedNode.    *)
(* The handler `disconnected' reconnects its copy, the reader of the new   *)
(* stream works on that copy, and the announcers keep sending through the  *)
(* copy `connected' was given.  Each copy has its own `stream' and its own *)
(* flag `Connected'.                                                       *)
(*                                                                         *)
(* Abstracted: the traffic (Outgoing.tla models what is sent, and handlers *)
(* of commands), and the length of the backoff.  The device or the network *)
(* may end a stream at any time.                                           *)
(***************************************************************************)
EXTENDS Naturals, FiniteSets

CONSTANT MaxStreams \* bound: how many streams aquireStream ever returns

ASSUME ConnectionAssumption == MaxStreams \in Nat

\* Streams are numbered as they are opened.  Copy 0 is the ConnectedNode that
\* main() made, copy s the one published when the reader of stream s saw EOF.
Streams == 1..MaxStreams
Copies == 0..MaxStreams
Main == 0
None == 0   \* no stream

VARIABLES
    status,     \* of each stream: is it open, and if not, how did it end
    stream,     \* ConnectedNode.stream, in each copy
    up,         \* ConnectedNode.Connected, in each copy
    cpc,        \* where the goroutine that connects each copy is
    reader,     \* where the goroutine that reads each stream is
    copy,       \* the copy it works on
    asked,      \* the streams on which the device owes a ConfigComplete
    calm,       \* history: streams ended by EOF only, and none while Connect
                \* was at work on it, nor did Connect fail with a stream open
    hpc,        \* where the handler `connected' for each stream is
    via,        \* the stream in the copy that handler was given
    running,    \* announcersRunning
    announcers, \* the handlers that started announcers
    aired       \* flips with every announcement that is written

linkVars == <<status, stream, up, cpc, reader, copy, asked, calm>>
announceVars == <<hpc, via, running, announcers, aired>>
vars == <<linkVars, announceVars>>

Connecting == {"test", "acquire", "wake", "config", "backoff"}

Init ==
    /\ status = [s \in Streams |-> "unused"]
    /\ stream = [h \in Copies |-> None]
    /\ up = [h \in Copies |-> FALSE]
    /\ cpc = [h \in Copies |-> IF h = Main THEN "acquire" ELSE "none"]
    /\ reader = [s \in Streams |-> "none"]
    /\ copy = [s \in Streams |-> Main]
    /\ asked = {}
    /\ calm = TRUE
    /\ hpc = [s \in Streams |-> "none"]
    /\ via = [s \in Streams |-> None]
    /\ running = FALSE
    /\ announcers = {}
    /\ aired = FALSE

\* log.Fatal in main() ends the process.
Exited == cpc[Main] = "fatal"

-----------------------------------------------------------------------------
(* Connect, called by main() for its copy and by `disconnected' in a loop   *)

Opened == Cardinality({s \in Streams : status[s] # "unused"})

At(h, l) == cpc[h] = l
Goto(h, l) == cpc' = [cpc EXCEPT ![h] = l]

\* for !node.Connected
Test(h) ==
    /\ At(h, "test")
    /\ Goto(h, IF up[h] THEN "done" ELSE "acquire")
    /\ UNCHANGED <<status, stream, up, reader, copy, asked, calm, announceVars>>

\* Mutant: the new stream is not stored in the node.
Acquire_NotStored(h) ==
    /\ At(h, "acquire")
    /\ \E s \in Streams :
        /\ s = Opened + 1
        /\ status' = [status EXCEPT ![s] = "open"]
        /\ reader' = [reader EXCEPT ![s] = "reading"]
        /\ copy' = [copy EXCEPT ![s] = h]
    /\ Goto(h, "wake")
    /\ UNCHANGED <<stream, up, asked, calm, announceVars>>

\* The stream is open, stored, and its reader started.
Acquire(h) ==
    /\ At(h, "acquire")
    /\ \E s \in Streams :
        /\ s = Opened + 1
        /\ status' = [status EXCEPT ![s] = "open"]
        /\ stream' = [stream EXCEPT ![h] = s]
        /\ reader' = [reader EXCEPT ![s] = "reading"]
        /\ copy' = [copy EXCEPT ![s] = h]
    /\ Goto(h, "wake")
    /\ UNCHANGED <<up, asked, calm, announceVars>>

\* Mutant: the loop gives up after an error.
Failed_GivesUp(h) == Goto(h, IF h = Main THEN "fatal" ELSE "done")

\* Connect returns an error: log.Fatal in main(), another round in the loop.
\* The stream, if there is one, is neither closed nor its reader stopped.
Failed(h) == Goto(h, IF h = Main THEN "fatal" ELSE "backoff")

AcquireFails(h) ==
    /\ At(h, "acquire")
    /\ Failed(h)
    /\ UNCHANGED <<status, stream, up, reader, copy, asked, calm, announceVars>>

\* A peer that ended the stream may still take what is written to it.
Writable(s) == status[s] \in {"open", "eof"}
Wake(h) ==
    /\ At(h, "wake")
    /\ Writable(stream[h])
    /\ Goto(h, "config")
    /\ UNCHANGED <<status, stream, up, reader, copy, asked, calm, announceVars>>

\* Mutant: the loop does not break and waits for Connected instead.
Configure_NoBreak(h) ==
    /\ At(h, "config")
    /\ Writable(stream[h])
    /\ asked' = asked \union {stream[h]}
    /\ Goto(h, IF h = Main THEN "done" ELSE "test")
    /\ UNCHANGED <<status, stream, up, reader, copy, calm, announceVars>>

\* The want_config request is written: Connect returns nil.
Configure(h) ==
    /\ At(h, "config")
    /\ Writable(stream[h])
    /\ asked' = asked \union {stream[h]}
    /\ Goto(h, "done")
    /\ UNCHANGED <<status, stream, up, reader, copy, calm, announceVars>>

WriteFails(h) ==
    /\ At(h, "wake") \/ At(h, "config")
    /\ calm' = FALSE
    /\ Failed(h)
    /\ UNCHANGED <<status, stream, up, reader, copy, asked, announceVars>>

\* time.Sleep(backoff)
Backoff(h) ==
    /\ At(h, "backoff")
    /\ Goto(h, "test")
    /\ UNCHANGED <<status, stream, up, reader, copy, asked, calm, announceVars>>

-----------------------------------------------------------------------------
(* The device and the network                                              *)

Ends(s, how) ==
    /\ status[s] = "open"
    /\ status' = [status EXCEPT ![s] = how]
    /\ calm' = (calm /\ how = "eof" /\ cpc[copy[s]] = "done")
    /\ UNCHANGED <<stream, up, cpc, reader, copy, asked, announceVars>>

-----------------------------------------------------------------------------
(* readMessages.  After an error other than EOF it reads again at once, so  *)
(* the reader of a broken or closed stream stays at "reading".              *)

ConfigComplete(s) ==
    /\ reader[s] = "reading"
    /\ status[s] = "open"
    /\ s \in asked
    /\ asked' = asked \ {s}
    /\ up' = [up EXCEPT ![copy[s]] = TRUE]
    /\ hpc' = [hpc EXCEPT ![s] = "check"]
    /\ via' = [via EXCEPT ![s] = stream[copy[s]]]
    /\ UNCHANGED <<status, stream, cpc, reader, copy, calm, running, announcers, aired>>

\* EOF; Close begins.
ReadEof(s) ==
    /\ reader[s] = "reading"
    /\ status[s] = "eof"
    /\ up' = [up EXCEPT ![copy[s]] = FALSE]
    /\ reader' = [reader EXCEPT ![s] = "publish"]
    /\ UNCHANGED <<status, stream, cpc, copy, asked, calm, announceVars>>

\* Mutant: Close does not publish DisconnectedEvent.
Publish_Forgotten(s) ==
    /\ reader[s] = "publish"
    /\ reader' = [reader EXCEPT ![s] = "close"]
    /\ UNCHANGED <<status, stream, up, cpc, copy, asked, calm, announceVars>>

\* A copy of the copy goes to a new goroutine `disconnected'.
Publish(s) ==
    /\ reader[s] = "publish"
    /\ reader' = [reader EXCEPT ![s] = "close"]
    /\ stream' = [stream EXCEPT ![s] = stream[copy[s]]]
    /\ up' = [up EXCEPT ![s] = up[copy[s]]]
    /\ Goto(s, "test")
    /\ UNCHANGED <<status, copy, asked, calm, announceVars>>

\* n.stream.Close(), whatever stream the copy has by now.
CloseStream(s) ==
    /\ reader[s] = "close"
    /\ status' = [status EXCEPT ![stream[copy[s]]] = "closed"]
    /\ reader' = [reader EXCEPT ![s] = "gone"]
    /\ UNCHANGED <<stream, up, cpc, copy, asked, calm, announceVars>>

-----------------------------------------------------------------------------
(* Announcements                                                           *)

\* if !announcersRunning
CheckRunning(s) ==
    /\ hpc[s] = "check"
    /\ hpc' = [hpc EXCEPT ![s] = IF running THEN "done" ELSE "start"]
    /\ UNCHANGED <<linkVars, via, running, announcers, aired>>

StartAnnouncers(s) ==
    /\ hpc[s] = "start"
    /\ hpc' = [hpc EXCEPT ![s] = "done"]
    /\ announcers' = announcers \union {s}
    /\ running' = TRUE
    /\ UNCHANGED <<linkVars, via, aired>>

\* A round of the loop that gets its message out.
Announce(s) ==
    /\ s \in announcers
    /\ status[via[s]] = "open"
    /\ aired' = ~aired
    /\ UNCHANGED <<linkVars, hpc, via, running, announcers>>

-----------------------------------------------------------------------------
ConnectStep(h) ==
    \/ Test(h) \/ Acquire(h) \/ AcquireFails(h) \/ Wake(h) \/ Configure(h)
    \/ WriteFails(h) \/ Backoff(h)

ReaderStep(s) == ConfigComplete(s) \/ ReadEof(s) \/ Publish(s) \/ CloseStream(s)

AnnounceStep(s) == CheckRunning(s) \/ StartAnnouncers(s) \/ Announce(s)

Running(A) == ~Exited /\ A

Next ==
    \/ \E h \in Copies : Running(ConnectStep(h))
    \/ \E s \in Streams : Running(ReaderStep(s)) \/ Running(AnnounceStep(s))
    \/ \E s \in Streams, how \in {"eof", "broken"} : Running(Ends(s, how))

Spec == Init /\ [][Next]_vars

\* Goroutines run, sleeps end, and the device answers a want_config on a
\* stream that stays open.  It need not accept a connection, and none need end.
Fairness ==
    /\ \A h \in Copies : WF_vars(Running(ConnectStep(h)))
    /\ \A s \in Streams : WF_vars(Running(ReaderStep(s)))
    /\ \A s \in Streams : WF_vars(Running(CheckRunning(s) \/ StartAnnouncers(s)))
    /\ \A s \in Streams : WF_vars(Running(Announce(s)))

FairSpec == Spec /\ Fairness

\* A device that is tried again and again accepts in the end.
AcceptingSpec == FairSpec /\ \A h \in Copies : SF_vars(Running(Acquire(h)))

-----------------------------------------------------------------------------
(* Properties                                                              *)

\* The shape of the state; a node that is written to has a stream.
TypeOK ==
    /\ status \in [Streams -> {"unused", "open", "eof", "broken", "closed"}]
    /\ stream \in [Copies -> Streams \union {None}]
    /\ up \in [Copies -> BOOLEAN]
    /\ cpc \in [Copies -> Connecting \union {"none", "done", "fatal"}]
    /\ \A h \in Copies : At(h, "wake") \/ At(h, "config") => stream[h] # None
    /\ reader \in [Streams -> {"none", "reading", "publish", "close", "gone"}]
    /\ copy \in [Streams -> Copies]
    /\ asked \subseteq Streams
    /\ calm \in BOOLEAN
    /\ hpc \in [Streams -> {"none", "check", "start", "done"}]
    /\ via \in [Streams -> Streams \union {None}]
    /\ running \in BOOLEAN
    /\ announcers \subseteq Streams
    /\ aired \in BOOLEAN

Live(s) == status[s] = "open" /\ reader[s] = "reading"

\* README.md:64, "do not set up other connections to the node while the bot
\* runs": the bot itself never holds two, as long as Connect is not disturbed
\* and streams end by EOF.
OneLink == calm => Cardinality({s \in Streams : Live(s)}) <= 1

\* Goroutines that hold the connection or will bring it back: one that
\* connects, or the reader of a stream that is connected.
InCharge ==
    {<<"connects", h>> : h \in {k \in Copies : cpc[k] \in Connecting}}
        \union {<<"reads", s>> : s \in {r \in Streams :
                     reader[r] \in {"reading", "publish"} /\ cpc[copy[r]] = "done"}}

\* As long as Connect is not disturbed and streams end by EOF, responsibility
\* for the connection is handed over between reader and `disconnected' without
\* ever being lost or doubled.
OneInCharge == calm /\ ~Exited => Cardinality(InCharge) = 1

Dropped(s) == status[s] = "eof" /\ reader[s] = "reading"

\* A device that accepts a connection now and then gets one again after each
\* that it ended, whatever attempts failed in between and whatever the
\* announcers do, as long as Connect is not disturbed (Close, disconnected).
Reconnects ==
    \A s \in Streams : s < MaxStreams =>
        (Dropped(s) ~> Exited \/ ~calm \/ status[s + 1] # "unused")

\* However Connect fails: a connection the device ends is followed by an
\* attempt to reconnect or found to be connected again by another reader.
DropsAreAnswered ==
    \A s \in Streams :
        Dropped(s) ~> Exited \/ \E h \in Copies :
            h # copy[s] /\ (At(h, "acquire") \/ (At(h, "done") /\ up[h]))

\* README.md:25, "cyclic announcements on channels": a bot whose connection
\* stays up, once it has started announcers, announces again and again.
AnnouncementsCycle ==
    <>[](calm /\ running /\ \E s \in Streams : Live(s) /\ up[copy[s]])
        => []<>(aired) /\ []<>(~aired)
=============================================================================
