----------------------------- MODULE Traceroute -----------------------------
(***************************************************************************)
(* The command /sciezka (main.go, connected_node.go).  The handler of the  *)
(* command sends a traceroute to the node the command came from and enters *)
(* a pending request in a map under a lock; a timer goroutine per request  *)
(* gives up after a minute; every traceroute packet that arrives is given  *)
(* to a goroutine of its own that looks for the request it answers, by its *)
(* request id or, when it carries none, by its sender.                     *)
(*                                                                         *)
(* Abstracted: the route itself, and the clock.  A response may arrive at  *)
(* any time after the request went out, any number of times, or never.  A  *)
(* goroutine that takes a packet runs at any time after the packet was     *)
(* read, so reading a packet and taking the lock are one step.             *)
(***************************************************************************)
EXTENDS Naturals

CONSTANTS Commands,     \* the private /sciezka messages the bot handles
          Nodes,        \* the nodes of the mesh
          Target,       \* the node each command came from
          Ids,          \* what rand.Uint32 draws request ids from
          Zero,         \* the request id of a packet that carries none
          Unsolicited,  \* nodes that send the bot traceroutes of their own
          None          \* no request, no id

ASSUME TracerouteAssumption ==
    /\ Target \in [Commands -> Nodes]
    /\ Unsolicited \subseteq Nodes
    /\ None \notin Commands \union Ids \union {Zero}

VARIABLES
    hpc,        \* where the handler of each command is
    id,         \* the request id of each command's traceroute
    requests,   \* pendingTraceroutes.requests
    tpc,        \* where the timer goroutine of each request is
    done,       \* the requests whose channel `done' is closed
    taken,      \* the requests a traceroute goroutine is about to answer
    replies,    \* how many replies each command got
    answer,     \* the latest of them
    heard       \* history: the nodes a traceroute packet arrived from

handlerVars == <<hpc, id>>
vars == <<hpc, id, requests, tpc, done, taken, replies, answer, heard>>

Pending == {i \in Ids : requests[i] # None}

Init ==
    /\ hpc = [c \in Commands |-> "idle"]
    /\ id = [c \in Commands |-> None]
    /\ requests = [i \in Ids |-> None]
    /\ tpc = [c \in Commands |-> "none"]
    /\ done = {}
    /\ taken = {}
    /\ replies = [c \in Commands |-> 0]
    /\ answer = [c \in Commands |-> "none"]
    /\ heard = {}

Reply(c, text) ==
    /\ replies' = [replies EXCEPT ![c] = @ + 1]
    /\ answer' = [answer EXCEPT ![c] = text]

-----------------------------------------------------------------------------
(* The handler of the command                                              *)

\* SendTraceroute writes the packet under a random id, which may be that of
\* another request, or zero.
SendTraceroute(c) ==
    /\ hpc[c] = "idle"
    /\ \E i \in Ids : id' = [id EXCEPT ![c] = i]
    /\ hpc' = [hpc EXCEPT ![c] = "sent"]
    /\ UNCHANGED <<requests, tpc, done, taken, replies, answer, heard>>

\* SendTraceroute returns an error: transmitting is disabled or the write
\* failed.
SendFails(c) ==
    /\ hpc[c] = "idle"
    /\ hpc' = [hpc EXCEPT ![c] = "done"]
    /\ Reply(c, "error")
    /\ UNCHANGED <<id, requests, tpc, done, taken, heard>>

\* Mutant: the timer goroutine is not started.
RememberTraceroute_NoTimer(c) ==
    /\ hpc[c] = "sent"
    /\ requests' = [requests EXCEPT ![id[c]] = c]
    /\ hpc' = [hpc EXCEPT ![c] = "done"]
    /\ UNCHANGED <<id, tpc, done, taken, replies, answer, heard>>

\* The request is entered in the map, over any other with its id, and its
\* timer goroutine started.
RememberTraceroute(c) ==
    /\ hpc[c] = "sent"
    /\ requests' = [requests EXCEPT ![id[c]] = c]
    /\ tpc' = [tpc EXCEPT ![c] = "select"]
    /\ hpc' = [hpc EXCEPT ![c] = "done"]
    /\ UNCHANGED <<id, done, taken, replies, answer, heard>>

-----------------------------------------------------------------------------
(* The timer of a request                                                  *)

\* case <-request.done
TimerCancelled(c) ==
    /\ tpc[c] = "select"
    /\ c \in done
    /\ tpc' = [tpc EXCEPT ![c] = "done"]
    /\ UNCHANGED <<handlerVars, requests, done, taken, replies, answer, heard>>

\* case <-time.After(60 * time.Second), which the select may also pick when
\* done is closed.
TimerFires(c) ==
    /\ tpc[c] = "select"
    /\ tpc' = [tpc EXCEPT ![c] = "expired"]
    /\ UNCHANGED <<handlerVars, requests, done, taken, replies, answer, heard>>

\* Mutant: the timer answers without looking whether the request is pending.
Expire_Unchecked(c) ==
    /\ tpc[c] = "expired"
    /\ requests' = [requests EXCEPT ![id[c]] = None]
    /\ tpc' = [tpc EXCEPT ![c] = "reply"]
    /\ UNCHANGED <<handlerVars, done, taken, replies, answer, heard>>

\* Mutant: the timer leaves the entry in the map.
Expire_KeepsEntry(c) ==
    /\ tpc[c] = "expired"
    /\ tpc' = [tpc EXCEPT ![c] = IF id[c] \in Pending THEN "reply" ELSE "done"]
    /\ UNCHANGED <<handlerVars, requests, done, taken, replies, answer, heard>>

\* Under the lock: whatever request is pending under this id is dropped.
Expire(c) ==
    /\ tpc[c] = "expired"
    /\ requests' = [requests EXCEPT ![id[c]] = None]
    /\ tpc' = [tpc EXCEPT ![c] = IF id[c] \in Pending THEN "reply" ELSE "done"]
    /\ UNCHANGED <<handlerVars, done, taken, replies, answer, heard>>

ReplyTimeout(c) ==
    /\ tpc[c] = "reply"
    /\ tpc' = [tpc EXCEPT ![c] = "done"]
    /\ Reply(c, "timeout")
    /\ UNCHANGED <<handlerVars, requests, done, taken, heard>>

-----------------------------------------------------------------------------
(* Traceroute packets                                                      *)

\* The traceroute packets that can arrive: responses to requests that went
\* out, and the requests other nodes make, which carry no request id.
Arriving ==
    {<<id[c], Target[c]>> : c \in {d \in Commands : id[d] # None}}
        \union {Zero} \X Unsolicited

\* Mutant: a packet without an id may answer any request.
Candidates_AnySender(i, from) ==
    IF i \in Pending THEN {i} ELSE IF i = Zero THEN Pending ELSE {}

\* The requests a packet can answer: the one with its id; else, when it
\* carries none, those made for its sender.
Candidates(i, from) ==
    IF i \in Pending THEN {i}
    ELSE IF i = Zero THEN {j \in Pending : Target[requests[j]] = from}
    ELSE {}

Hear(from) == heard' = heard \union {from}

\* Mutant: a request stays in the map when it is taken.
Take_KeepsEntry(i, from) ==
    /\ Hear(from)
    /\ \E j \in Candidates(i, from) :
        /\ done' = done \union {requests[j]}
        /\ taken' = taken \union {requests[j]}
    /\ UNCHANGED <<handlerVars, requests, tpc, replies, answer>>

\* Mutant: the timer of the request is not told.
Take_NoClose(i, from) ==
    /\ Hear(from)
    /\ \E j \in Candidates(i, from) :
        /\ requests' = [requests EXCEPT ![j] = None]
        /\ taken' = taken \union {requests[j]}
    /\ UNCHANGED <<handlerVars, tpc, done, replies, answer>>

\* takeTraceroute finds a request: it leaves the map and its timer is told.
Take(i, from) ==
    /\ Hear(from)
    /\ \E j \in Candidates(i, from) :
        /\ requests' = [requests EXCEPT ![j] = None]
        /\ done' = done \union {requests[j]}
        /\ taken' = taken \union {requests[j]}
    /\ UNCHANGED <<handlerVars, tpc, replies, answer>>

\* takeTraceroute returns nil: the packet is dropped.
Drop(i, from) ==
    /\ Candidates(i, from) = {}
    /\ Hear(from)
    /\ UNCHANGED <<handlerVars, requests, tpc, done, taken, replies, answer>>

ReplyRoute(c) ==
    /\ c \in taken
    /\ taken' = taken \ {c}
    /\ Reply(c, "route")
    /\ UNCHANGED <<handlerVars, requests, tpc, done, heard>>

-----------------------------------------------------------------------------
CommandStep(c) == SendTraceroute(c) \/ SendFails(c) \/ RememberTraceroute(c)

TimerStep(c) == TimerCancelled(c) \/ TimerFires(c) \/ Expire(c) \/ ReplyTimeout(c)

PacketStep(i, from) == Take(i, from) \/ Drop(i, from)

Next ==
    \/ \E c \in Commands : CommandStep(c) \/ TimerStep(c) \/ ReplyRoute(c)
    \/ \E p \in Arriving : PacketStep(p[1], p[2])

Spec == Init /\ [][Next]_vars

\* Every goroutine that can run does; time.After fires.  Nobody has to send
\* a command and the mesh owes no response.
Fairness ==
    \A c \in Commands :
        /\ WF_vars(RememberTraceroute(c))
        /\ WF_vars(TimerStep(c))
        /\ WF_vars(ReplyRoute(c))

FairSpec == Spec /\ Fairness

-----------------------------------------------------------------------------
(* Properties                                                              *)

Answers == {"none", "route", "timeout", "error"}

\* The shape of the state.
TypeOK ==
    /\ hpc \in [Commands -> {"idle", "sent", "done"}]
    /\ id \in [Commands -> Ids \union {None}]
    /\ requests \in [Ids -> Commands \union {None}]
    /\ tpc \in [Commands -> {"none", "select", "expired", "reply", "done"}]
    /\ done \subseteq Commands
    /\ taken \subseteq done
    /\ replies \in [Commands -> Nat]
    /\ answer \in [Commands -> Answers]
    /\ heard \subseteq Nodes

\* No two requests have the same id.
Distinct == \A c, d \in Commands : id[c] = id[d] /\ id[c] # None => c = d

\* The timer and any number of responses, late or repeated, produce one reply
\* between them (rememberTraceroute, takeTraceroute), as long as no two
\* requests draw the same id.
AtMostOneReply == Distinct => \A c \in Commands : replies[c] <= 1

\* A pending request still has its channel open, so that takeTraceroute never
\* closes it again and the process cannot panic there, even if ids collide.
PendingIsOpen == \A i \in Pending : requests[i] \notin done

\* Every command whose traceroute went out is answered, unless ids collide.
EveryoneAnswered ==
    \A c \in Commands : hpc[c] = "sent" ~> answer[c] # "none" \/ ~Distinct

\* No request stays in the map for ever, even if ids collide.
RequestsEmptied == \A i \in Ids : i \in Pending ~> i \notin Pending

\* One answer each, and a route only from the node that is traced.
Service == INSTANCE RouteService WITH seen <- heard

\* A packet with an id is the response to the one request made under it.
Telling == Distinct /\ \A c \in Commands : id[c] # Zero

\* The bot's /sciezka implements RouteService, as long as no two requests draw
\* the same id and none draws zero.
ImplementsRouteService ==
    Service!Init /\ [][Telling' => Service!Next]_(Service!vars)
=============================================================================
