------------------------------ MODULE Outgoing ------------------------------
(***************************************************************************)
(* Sending text messages and waiting for their acknowledgements            *)
(* (meshwrapper/outgoing_message.go, acknowledgement.go, and the routing   *)
(* branch of incoming_message.go).                                         *)
(*                                                                         *)
(* Three kinds of goroutine meet at an acknowledgement.  A sender, one per *)
(* Send or SendReliably, transmits a part, registers an acknowledgement in *)
(* the map Acks and waits on its channels.  A timer, one per               *)
(* acknowledgement, resolves it negatively once Timeout has passed.  The   *)
(* reader, one per connection, resolves it when a routing packet arrives.  *)
(* Nothing orders the three, so each step below is one operation on shared *)
(* state: a channel operation, a load or store of `waiting', an access to  *)
(* Acks.                                                                   *)
(*                                                                         *)
(* Abstracted: texts (a message is its number of parts), the radio (any    *)
(* routing packet may arrive, any number of times, for anything that was   *)
(* transmitted), and the clock (a timer may fire at any time).  The packet *)
(* ids drawn with rand.Uint32 are taken to be distinct.                    *)
(***************************************************************************)
EXTENDS Naturals

CONSTANTS Messages,   \* the calls of Send and SendReliably
          Private,    \* those addressed to a node, the others to a channel
          Reliable,   \* those made with SendReliably
          Awaited,    \* those whose caller receives from the returned channel
          Parts,      \* the number of parts BreakMessage cuts each text into
          Retries,    \* OutgoingMessage.Retries
          Ids,        \* packet ids, one for every transmission
          Reader,     \* the goroutine running readMessages
          NoId        \* stands for "no packet sent yet"

ASSUME OutgoingAssumption ==
    /\ Private \subseteq Messages
    /\ Reliable \subseteq Messages
    /\ Awaited \subseteq Messages
    /\ Parts \in [Messages -> Nat \ {0}]
    /\ Retries \in Nat \ {0}
    /\ Reader \notin Ids
    /\ NoId \notin Ids

VARIABLES
    spc,        \* where each sender goroutine is
    part,       \* the part it is sending
    attempt,    \* its attempt at that part
    cur,        \* the packet id of its latest transmission
    result,     \* what it has to say to its caller
    owner,      \* the message and part each transmitted packet carries
    acks,       \* the keys of ConnectedNode.Acks
    waiting,    \* the acknowledgements whose `waiting' flag is set
    delivered,  \* the one-place buffer of each acknowledgement's `delivered'
    repeated,   \* the one-place buffer of its `repeated'
    closed,     \* the channels that are closed: <<id, "delivered">>, ...
    wpc,        \* where each timer, and the reader, is
    packet,     \* the routing packet the reader is handling
    heard,      \* history: the routing packets that reached the reader
    prompt,     \* history: the acks from recipients that beat the timer
    crashed     \* the fatal error that ended the process, or "no"

senderVars == <<spc, part, attempt, cur, result, owner>>
ackVars == <<acks, waiting, delivered, repeated, closed>>
historyVars == <<heard, prompt>>
vars == <<senderVars, ackVars, wpc, packet, historyVars, crashed>>

Workers == Ids \union {Reader}
Transmissions == Messages \X Nat
Slot == {"empty", "yes", "no"}

\* What a routing packet can say: the recipient has it, somebody else passed
\* it on, or it could not be routed.
Kinds == {"ack", "repeat", "error"}

Init ==
    /\ spc = [m \in Messages |-> "idle"]
    /\ part = [m \in Messages |-> 1]
    /\ attempt = [m \in Messages |-> 1]
    /\ cur = [m \in Messages |-> NoId]
    /\ result = [m \in Messages |-> "none"]
    /\ owner = [i \in Ids |-> <<>>]
    /\ acks = {}
    /\ waiting = {}
    /\ delivered = [i \in Ids |-> "empty"]
    /\ repeated = [i \in Ids |-> "empty"]
    /\ closed = {}
    /\ wpc = [w \in Workers |-> "idle"]
    /\ packet = [id |-> NoId, kind |-> "error"]
    /\ heard = {}
    /\ prompt = {}
    /\ crashed = "no"

OnAir == {i \in Ids : owner[i] # <<>>}
MessageOf(i) == owner[i][1]

-----------------------------------------------------------------------------
(* Sender goroutines                                                       *)

Attempts(m) == IF m \in Reliable THEN Retries ELSE 1

Start(m) ==
    /\ spc[m] = "idle"
    /\ spc' = [spc EXCEPT ![m] = "send"]
    /\ UNCHANGED <<part, attempt, cur, result, owner, ackVars, wpc, packet, historyVars>>

\* Mutant: the loop over the parts stops one short.
LastPart_OffByOne(m) == part[m] + 1 >= Parts[m]

LastPart(m) == part[m] = Parts[m]

\* Mutant: one attempt more than Retries.
RetriesLeft_OffByOne(m) == attempt[m] <= Attempts(m)

RetriesLeft(m) == attempt[m] < Attempts(m)

\* A part is delivered: send the next one, or report success.
PartDone(m) ==
    IF ~LastPart(m)
    THEN /\ spc' = [spc EXCEPT ![m] = "send"]
         /\ part' = [part EXCEPT ![m] = @ + 1]
         /\ attempt' = [attempt EXCEPT ![m] = 1]
         /\ UNCHANGED result
    ELSE /\ spc' = [spc EXCEPT ![m] = "report"]
         /\ result' = [result EXCEPT ![m] = "yes"]
         /\ UNCHANGED <<part, attempt>>

\* A part is not delivered: try again, or report failure and drop the rest.
AttemptFailed(m) ==
    /\ IF RetriesLeft(m)
       THEN /\ spc' = [spc EXCEPT ![m] = "send"]
            /\ attempt' = [attempt EXCEPT ![m] = @ + 1]
            /\ UNCHANGED result
       ELSE /\ spc' = [spc EXCEPT ![m] = "report"]
            /\ result' = [result EXCEPT ![m] = "no"]
            /\ UNCHANGED attempt
    /\ UNCHANGED part

\* SendMessage returned an error: the fresh acknowledgement, which no other
\* goroutine has seen, is resolved negatively and read back at once.
TransmitFails(m) ==
    /\ spc[m] = "send"
    /\ AttemptFailed(m)
    /\ UNCHANGED <<cur, owner, ackVars, wpc, packet, historyVars>>

\* The packet is written to the radio under a fresh id.
Transmit(m) ==
    /\ spc[m] = "send"
    /\ \E i \in Ids \ OnAir :
        /\ cur' = [cur EXCEPT ![m] = i]
        /\ owner' = [owner EXCEPT ![i] = <<m, part[m]>>]
        /\ waiting' = waiting \union {i}
    /\ spc' = [spc EXCEPT ![m] = "register"]
    /\ UNCHANGED <<part, attempt, result, acks, delivered, repeated, closed,
                   wpc, packet, historyVars>>

\* Only now is the acknowledgement entered in Acks and its timer started.
Register(m) ==
    /\ spc[m] = "register"
    /\ acks' = acks \union {cur[m]}
    /\ wpc' = [wpc EXCEPT ![cur[m]] = "sleep"]
    /\ spc' = [spc EXCEPT ![m] = "wait"]
    /\ UNCHANGED <<part, attempt, cur, result, owner, waiting, delivered,
                   repeated, closed, packet, historyVars>>

\* Mutant: a receive that does not wait for a value.
Ready_NonBlocking(i, ch, buffer) == TRUE

\* A closed and drained channel yields FALSE.
Ready(i, ch, buffer) == buffer[i] # "empty" \/ <<i, ch>> \in closed
Resume(m, value) == IF value = "yes" THEN PartDone(m) ELSE AttemptFailed(m)

WaitDelivered(m) ==
    /\ spc[m] = "wait"
    /\ Ready(cur[m], "delivered", delivered)
    /\ Resume(m, delivered[cur[m]])
    /\ delivered' = [delivered EXCEPT ![cur[m]] = "empty"]
    /\ UNCHANGED <<cur, owner, acks, waiting, repeated, closed, wpc, packet, historyVars>>

\* The select on both channels: only for a channel message.
WaitRepeated(m) ==
    /\ spc[m] = "wait"
    /\ m \notin Private
    /\ Ready(cur[m], "repeated", repeated)
    /\ Resume(m, repeated[cur[m]])
    /\ repeated' = [repeated EXCEPT ![cur[m]] = "empty"]
    /\ UNCHANGED <<cur, owner, acks, waiting, delivered, closed, wpc, packet, historyVars>>

\* The result channel has no buffer: the goroutine ends only when its caller
\* receives.
CallerReceives(m) ==
    /\ spc[m] = "report"
    /\ m \in Awaited
    /\ spc' = [spc EXCEPT ![m] = "done"]
    /\ UNCHANGED <<part, attempt, cur, result, owner, ackVars, wpc, packet, historyVars>>

-----------------------------------------------------------------------------
(* The timers and the reader                                               *)

Goto(w, l) == wpc' = [wpc EXCEPT ![w] = l]

\* The acknowledgement a worker operates on.
Target(w) == IF w = Reader THEN packet.id ELSE w

\* Mutant: the timer deletes the entry without calling ack.timeout.
Timeout_OnlyDeletes(i) ==
    /\ wpc[i] = "sleep"
    /\ Goto(i, "delete")
    /\ UNCHANGED <<senderVars, ackVars, packet, historyVars>>

\* time.Sleep(Timeout) returns.
Timeout(i) ==
    /\ wpc[i] = "sleep"
    /\ Goto(i, "negative")
    /\ UNCHANGED <<senderVars, ackVars, packet, historyVars>>

\* readMessages hands the next routing packet to ingestMeshPacket.
ReadRouting(i, k) ==
    /\ wpc[Reader] = "idle"
    /\ i \in OnAir
    /\ k = "ack" => MessageOf(i) \in Private
    /\ packet' = [id |-> i, kind |-> k]
    /\ heard' = heard \union {<<i, k>>}
    /\ prompt' = IF k = "ack" /\ wpc[i] \in {"idle", "sleep"} THEN prompt \union {i} ELSE prompt
    /\ Goto(Reader, "lookup")
    /\ UNCHANGED <<senderVars, ackVars>>

\* ack, ok := connectedNode.Acks[messageId]
Lookup ==
    /\ wpc[Reader] = "lookup"
    /\ Goto(Reader, IF packet.id \in acks THEN "receive" ELSE "idle")
    /\ UNCHANGED <<senderVars, ackVars, packet, historyVars>>

\* Mutant: whoever is not the recipient counts as a failure.
Received_RelayIsFailure(kind) == IF kind = "ack" THEN "delivered" ELSE "negative"

\* What receive does with a packet for an acknowledgement still waited for.
Received(kind) ==
    [error |-> "negative", ack |-> "delivered", repeat |-> "relay"][kind]

\* The test of `waiting' at the head of receive, and its three-way branch.
Receive ==
    /\ wpc[Reader] = "receive"
    /\ Goto(Reader, IF packet.id \in waiting THEN Received(packet.kind) ELSE "delete")
    /\ UNCHANGED <<senderVars, ackVars, packet, historyVars>>

\* The test of `waiting' at the head of negative.
Negative(w) ==
    /\ wpc[w] = "negative"
    /\ Goto(w, IF Target(w) \in waiting THEN "delivered" ELSE "delete")
    /\ UNCHANGED <<senderVars, ackVars, packet, historyVars>>

\* Mutant: negative sends TRUE.
Verdict_NegativeIsTrue(w) == "yes"

\* What a worker sends on `delivered': TRUE only in receive, for the recipient.
Verdict(w) == IF w = Reader /\ packet.kind = "ack" THEN "yes" ELSE "no"

\* A send blocks while the buffer is full; see SendOnClosed for a closed one.
SendDelivered(w) ==
    /\ wpc[w] = "delivered"
    /\ <<Target(w), "delivered">> \notin closed
    /\ delivered[Target(w)] = "empty"
    /\ delivered' = [delivered EXCEPT ![Target(w)] = Verdict(w)]
    /\ Goto(w, "repeated")
    /\ UNCHANGED <<senderVars, acks, waiting, repeated, closed, packet, historyVars>>

SendRepeated(w) ==
    /\ wpc[w] = "repeated"
    /\ <<Target(w), "repeated">> \notin closed
    /\ repeated[Target(w)] = "empty"
    /\ repeated' = [repeated EXCEPT ![Target(w)] = "no"]
    /\ Goto(w, "store")
    /\ UNCHANGED <<senderVars, acks, waiting, delivered, closed, packet, historyVars>>

\* Another node passed the message on: the acknowledgement keeps waiting.
Relay ==
    /\ wpc[Reader] = "relay"
    /\ <<packet.id, "repeated">> \notin closed
    /\ repeated[packet.id] = "empty"
    /\ repeated' = [repeated EXCEPT ![packet.id] = "yes"]
    /\ Goto(Reader, "delete")
    /\ UNCHANGED <<senderVars, acks, waiting, delivered, closed, packet, historyVars>>

StopWaiting(w) ==
    /\ wpc[w] = "store"
    /\ waiting' = waiting \ {Target(w)}
    /\ Goto(w, "closeDelivered")
    /\ UNCHANGED <<senderVars, acks, delivered, repeated, closed, packet, historyVars>>

CloseDelivered(w) ==
    /\ wpc[w] = "closeDelivered"
    /\ <<Target(w), "delivered">> \notin closed
    /\ closed' = closed \union {<<Target(w), "delivered">>}
    /\ Goto(w, "closeRepeated")
    /\ UNCHANGED <<senderVars, acks, waiting, delivered, repeated, packet, historyVars>>

CloseRepeated(w) ==
    /\ wpc[w] = "closeRepeated"
    /\ <<Target(w), "repeated">> \notin closed
    /\ closed' = closed \union {<<Target(w), "repeated">>}
    /\ Goto(w, "delete")
    /\ UNCHANGED <<senderVars, acks, waiting, delivered, repeated, packet, historyVars>>

\* Mutant: an entry stays in Acks when a packet only relayed the message.
Delete_KeepsRelayed(w) ==
    /\ wpc[w] = "delete"
    /\ acks' = IF w = Reader /\ packet.kind = "repeat" THEN acks ELSE acks \ {Target(w)}
    /\ Goto(w, IF w = Reader THEN "idle" ELSE "done")
    /\ UNCHANGED <<senderVars, waiting, delivered, repeated, closed, packet, historyVars>>

\* Mutant: the timer leaves the entry behind.
Delete_KeepsTimedOut(w) ==
    /\ wpc[w] = "delete"
    /\ acks' = IF w = Reader THEN acks \ {Target(w)} ELSE acks
    /\ Goto(w, IF w = Reader THEN "idle" ELSE "done")
    /\ UNCHANGED <<senderVars, waiting, delivered, repeated, closed, packet, historyVars>>

\* delete(Acks, id), by the reader after every routing packet it looked up
\* and by the timer when it is through.
Delete(w) ==
    /\ wpc[w] = "delete"
    /\ acks' = acks \ {Target(w)}
    /\ Goto(w, IF w = Reader THEN "idle" ELSE "done")
    /\ UNCHANGED <<senderVars, waiting, delivered, repeated, closed, packet, historyVars>>

-----------------------------------------------------------------------------
(* Fatal errors of the Go runtime                                          *)

Crash(why) ==
    /\ crashed' = why
    /\ UNCHANGED <<senderVars, ackVars, wpc, packet, historyVars>>

\* panic: send on closed channel, also for a sender that was blocked on it.
SendOnClosed(w) ==
    /\ \/ wpc[w] = "delivered" /\ <<Target(w), "delivered">> \in closed
       \/ wpc[w] \in {"repeated", "relay"} /\ <<Target(w), "repeated">> \in closed
    /\ Crash("sendOnClosed")

\* panic: close of closed channel
CloseOfClosed(w) ==
    /\ \/ wpc[w] = "closeDelivered" /\ <<Target(w), "delivered">> \in closed
       \/ wpc[w] = "closeRepeated" /\ <<Target(w), "repeated">> \in closed
    /\ Crash("closeOfClosed")

\* Goroutines about to access the unsynchronised map Acks.
Storing == {m \in Messages : spc[m] = "register"}
Deleting == {w \in Workers : wpc[w] = "delete"}

\* fatal error: concurrent map writes (or read and write).  The runtime may
\* notice two overlapping accesses of which one is a write, or let them pass.
MapRace ==
    /\ \/ \E m, n \in Storing : m # n
       \/ \E v, w \in Deleting : v # w
       \/ Storing # {} /\ Deleting # {}
       \/ wpc[Reader] = "lookup" /\ (Storing # {} \/ Deleting # {})
    /\ Crash("mapRace")

-----------------------------------------------------------------------------
SenderStep(m) ==
    \/ Start(m) \/ Transmit(m) \/ TransmitFails(m) \/ Register(m)
    \/ WaitDelivered(m) \/ WaitRepeated(m) \/ CallerReceives(m)

ResolveStep(w) ==
    \/ Negative(w) \/ SendDelivered(w) \/ SendRepeated(w) \/ StopWaiting(w)
    \/ CloseDelivered(w) \/ CloseRepeated(w) \/ Delete(w)

ReaderStep == Lookup \/ Receive \/ Relay

Running(A) == crashed = "no" /\ A /\ UNCHANGED crashed

Panic == \/ \E w \in Workers : SendOnClosed(w) \/ CloseOfClosed(w)
         \/ MapRace

Next ==
    \/ \E m \in Messages : Running(SenderStep(m))
    \/ \E i \in Ids : Running(Timeout(i))
    \/ \E i \in Ids, k \in Kinds : Running(ReadRouting(i, k))
    \/ Running(ReaderStep)
    \/ \E w \in Workers : Running(ResolveStep(w))
    \/ crashed = "no" /\ Panic

Spec == Init /\ [][Next]_vars

\* The Go scheduler runs every goroutine that can run, and sleeps end.  A
\* caller that starts a message and the mesh that answers owe nothing; a
\* goroutine poised at a panic does panic.
Fairness ==
    /\ \A m \in Messages : WF_vars(Running(SenderStep(m) /\ spc[m] # "idle"))
    /\ \A i \in Ids : WF_vars(Running(Timeout(i)))
    /\ WF_vars(Running(ReaderStep))
    /\ \A w \in Workers : WF_vars(Running(ResolveStep(w)))
    /\ \A w \in Workers : WF_vars(crashed = "no" /\ (SendOnClosed(w) \/ CloseOfClosed(w)))

FairSpec == Spec /\ Fairness

-----------------------------------------------------------------------------
(* Properties                                                              *)

WorkerLocations ==
    {"idle", "sleep", "lookup", "receive", "negative", "delivered", "repeated",
     "relay", "store", "closeDelivered", "closeRepeated", "delete", "done"}

CrashReasons ==
    {"no", "sendOnClosed", "closeOfClosed", "mapRace"}

SenderTypes ==
    /\ spc \in [Messages -> {"idle", "send", "register", "wait", "report", "done"}]
    /\ part \in [Messages -> Nat \ {0}]
    /\ attempt \in [Messages -> Nat \ {0}]
    /\ \A m \in Messages : part[m] <= Parts[m] /\ attempt[m] <= Attempts(m)
    /\ result \in [Messages -> {"none", "yes", "no"}]

PacketTypes ==
    /\ cur \in [Messages -> Ids \union {NoId}]
    /\ owner \in [Ids -> Transmissions \union {<<>>}]
    /\ packet \in [id : Ids \union {NoId}, kind : Kinds]
    /\ heard \subseteq Ids \X Kinds
    /\ prompt \subseteq Ids

AckTypes ==
    /\ acks \subseteq Ids
    /\ waiting \subseteq Ids
    /\ delivered \in [Ids -> Slot]
    /\ repeated \in [Ids -> Slot]
    /\ closed \subseteq Ids \X {"delivered", "repeated"}
    /\ wpc \in [Workers -> WorkerLocations]

\* The shape of the state; a part is never attempted more than Retries times.
TypeOK == SenderTypes /\ PacketTypes /\ AckTypes /\ crashed \in CrashReasons

\* The routing packet that makes a transmission count as delivered.
Confirming(m) == IF m \in Private THEN "ack" ELSE "repeat"

Confirms(i) == <<i, Confirming(MessageOf(i))>> \in heard

ConfirmedParts(m) == {p \in 1..Parts[m] : \E i \in Ids : owner[i] = <<m, p>> /\ Confirms(i)}

\* The timer of a transmission ran out, or the mesh reported a routing error.
Failed(i) == wpc[i] \notin {"idle", "sleep"} \/ <<i, "error">> \in heard

\* A caller told TRUE can rely on it: every part was acknowledged by the
\* recipient (private) or heard being repeated (channel), however timers,
\* late packets and retries interleave (OutgoingMessage.Send, SendReliably).
YesIsConfirmed ==
    \A m \in Messages : result[m] = "yes" => ConfirmedParts(m) = 1..Parts[m]

\* A caller told FALSE lost the part it stopped at: each transmission of that
\* part timed out or came back with a routing error.
NoIsJustified ==
    \A m \in Messages : result[m] = "no" =>
        \A i \in Ids : owner[i] = <<m, part[m]>> => Failed(i)

\* Stop and wait: the sender of a message never transmits while an earlier
\* transmission of it is neither confirmed nor failed, so parts arrive in
\* order and a retry never competes with a live attempt.
OneInFlight ==
    \A i \in OnAir :
        LET m == MessageOf(i)
        IN  \/ i = cur[m] /\ spc[m] \in {"register", "wait"}
            \/ Confirms(i)
            \/ Failed(i)

\* Every message started is reported to its caller, and a caller that waits
\* gets the report, unless the process dies (delivered, Send, SendReliably).
SendersReport ==
    \A m \in Messages :
        spc[m] = "send" ~> \/ spc[m] = "report" /\ m \notin Awaited
                           \/ spc[m] = "done"
                           \/ crashed # "no"

\* No entry stays in Acks for ever, so the map does not grow with traffic.
AcksEmptied == \A i \in Ids : i \in acks ~> i \notin acks \/ crashed # "no"

\* The reader, which every packet of the connection goes through, is never
\* blocked for good on the channels of an acknowledgement.
ReaderFree == wpc[Reader] # "idle" ~> wpc[Reader] = "idle" \/ crashed # "no"

\* The abstract promise: parts in order, success only for confirmed parts.
Contract == INSTANCE Delivery WITH
    outcome <- result,
    progress <- [m \in Messages |-> part[m] - 1],
    confirmed <- [m \in Messages |-> ConfirmedParts(m)]

\* Sending implements Delivery.
ImplementsDelivery == Contract!Spec

\* outgoing_message.go:154, "a private message is delivered when it reaches the
\* recipient": a caller is not told FALSE about a part whose recipient
\* acknowledged it while the timer was still running.
AckedIsDelivered ==
    \A m \in Private : result[m] = "no" =>
        ~ \E i \in Ids : i \in prompt /\ owner[i] = <<m, part[m]>>

\* README.md:16, "it should also run stably": an acknowledgement that races its
\* timer does not bring the process down.
ChannelsNeverPanic == crashed \notin {"sendOnClosed", "closeOfClosed"}
=============================================================================
