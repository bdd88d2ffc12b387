-------------------------- MODULE TracerouteProofs --------------------------
(***************************************************************************)
(* Proofs about Traceroute, for any number of commands, nodes and request  *)
(* ids.                                                                    *)
(***************************************************************************)
EXTENDS Traceroute, TLAPS

USE TracerouteAssumption

-----------------------------------------------------------------------------
(* Type correctness and the pending requests, whether or not ids collide   *)

\* A request in the map is entered under its own id by a handler that is
\* through, and nobody has told its timer yet.
PendingInv ==
    /\ \A c \in Commands : hpc[c] = "idle" => id[c] = None
    /\ \A c \in Commands : hpc[c] # "idle" /\ id[c] = None => hpc[c] = "done" /\ tpc[c] = "none"
    /\ \A c \in Commands : tpc[c] # "none" => hpc[c] = "done" /\ id[c] \in Ids
    /\ \A c \in done : hpc[c] = "done"
    /\ \A i \in Ids : requests[i] # None =>
        /\ id[requests[i]] = i
        /\ hpc[requests[i]] = "done"
        /\ requests[i] \notin done

TypeInv == TypeOK /\ PendingInv

LEMMA TypeInit == Init => TypeInv
  BY DEF Init, TypeInv, TypeOK, PendingInv, Answers

LEMMA TypeHandler ==
    ASSUME TypeInv, NEW c \in Commands, CommandStep(c)
    PROVE  TypeInv'
<1> USE DEF TypeInv, TypeOK, PendingInv, handlerVars, Answers
<1>1. CASE SendTraceroute(c)
  BY <1>1 DEF SendTraceroute
<1>2. CASE SendFails(c)
  BY <1>2 DEF SendFails, Reply
<1>3. CASE RememberTraceroute(c)
  BY <1>3 DEF RememberTraceroute
<1> QED BY <1>1, <1>2, <1>3 DEF CommandStep

LEMMA TypeTimer ==
    ASSUME TypeInv, NEW c \in Commands, TimerStep(c) \/ ReplyRoute(c)
    PROVE  TypeInv'
<1> USE DEF TypeInv, TypeOK, PendingInv, handlerVars, Answers
<1>1. CASE TimerCancelled(c)
  BY <1>1 DEF TimerCancelled
<1>2. CASE TimerFires(c)
  BY <1>2 DEF TimerFires
<1>3. CASE Expire(c)
  BY <1>3 DEF Expire
<1>4. CASE ReplyTimeout(c)
  BY <1>4 DEF ReplyTimeout, Reply
<1>5. CASE ReplyRoute(c)
  BY <1>5 DEF ReplyRoute, Reply
<1> QED BY <1>1, <1>2, <1>3, <1>4, <1>5 DEF TimerStep

\* What arrives comes from a node.
LEMMA ArrivingTypes ==
    ASSUME TypeInv, NEW p \in Arriving
    PROVE  p[2] \in Nodes
  BY DEF Arriving, TypeInv, TypeOK

LEMMA CandidatesPending ==
    ASSUME NEW i, NEW from, NEW j \in Candidates(i, from)
    PROVE  j \in Ids /\ requests[j] # None
  BY DEF Candidates, Pending

LEMMA TypePacket ==
    ASSUME TypeInv, NEW p \in Arriving, PacketStep(p[1], p[2])
    PROVE  TypeInv'
<1> USE DEF TypeInv, TypeOK, PendingInv, handlerVars, Hear
<1>1. heard' \subseteq Nodes
  BY ArrivingTypes DEF PacketStep, Take, Drop
<1>2. CASE Take(p[1], p[2])
  <2>1. PICK j \in Candidates(p[1], p[2]) :
            /\ requests' = [requests EXCEPT ![j] = None]
            /\ done' = done \union {requests[j]}
            /\ taken' = taken \union {requests[j]}
    BY <1>2 DEF Take
  <2>2. j \in Ids /\ requests[j] \in Commands
    BY <2>1, CandidatesPending
  <2> QED BY <1>1, <1>2, <2>1, <2>2 DEF Take
<1>3. CASE Drop(p[1], p[2])
  BY <1>1, <1>3 DEF Drop
<1> QED BY <1>2, <1>3 DEF PacketStep

LEMMA TypeNext == TypeInv /\ [Next]_vars => TypeInv'
<1> SUFFICES ASSUME TypeInv, [Next]_vars PROVE TypeInv'
  OBVIOUS
<1>1. CASE UNCHANGED vars
  BY <1>1 DEF vars, TypeInv, TypeOK, PendingInv
<1> QED BY <1>1, TypeHandler, TypeTimer, TypePacket DEF Next

LEMMA TypeInvariance == Spec => []TypeInv
  BY TypeInit, TypeNext, PTL DEF Spec

\* Every variable keeps its type, and only requests whose timer was told are
\* about to be answered with a route (takeTraceroute).
THEOREM TypeCorrect == Spec => []TypeOK
<1>1. TypeInv => TypeOK
  BY DEF TypeInv
<1> QED BY <1>1, TypeInvariance, PTL

\* takeTraceroute never closes a channel twice, even if rand.Uint32 draws one
\* id for several requests.
THEOREM NeverClosedTwice == Spec => []PendingIsOpen
<1>1. TypeInv => PendingIsOpen
  BY DEF TypeInv, PendingInv, PendingIsOpen, Pending
<1> QED BY <1>1, TypeInvariance, PTL

-----------------------------------------------------------------------------
(* One reply each, as long as rand.Uint32 draws no id twice                *)

\* Not yet answered: the handler or the map still holds the request.
Open(c) == hpc[c] # "done" \/ (id[c] \in Ids /\ requests[id[c]] = c)

\* The right to reply lies with the handler and the map, with the timer, with
\* a traceroute goroutine, or is used up.
OneVoice(c) ==
    /\ Open(c) => replies[c] = 0 /\ c \notin taken /\ tpc[c] # "reply"
    /\ c \in taken => replies[c] = 0 /\ tpc[c] # "reply"
    /\ tpc[c] = "reply" => replies[c] = 0
    /\ replies[c] \in {0, 1}
    /\ replies[c] = 0 => answer[c] = "none"

ReplyInv == Distinct => \A c \in Commands : OneVoice(c)

LEMMA ReplyInit == Init => ReplyInv
  BY DEF Init, ReplyInv, OneVoice, Open

\* Ids that collide go on colliding.
LEMMA DistinctBefore == ASSUME TypeInv, [Next]_vars, Distinct' PROVE Distinct
<1>1. \A c \in Commands : id[c] # None => id'[c] = id[c]
  <2>1. ASSUME NEW c \in Commands, CommandStep(c)
        PROVE  \A d \in Commands : id[d] # None => id'[d] = id[d]
    BY <2>1 DEF CommandStep, SendTraceroute, SendFails, RememberTraceroute, TypeInv, TypeOK,
                PendingInv
  <2>2. ASSUME NEW c \in Commands, TimerStep(c) \/ ReplyRoute(c) PROVE id' = id
    BY <2>2 DEF TimerStep, TimerCancelled, TimerFires, Expire, ReplyTimeout, ReplyRoute,
                handlerVars
  <2>3. ASSUME NEW p \in Arriving, PacketStep(p[1], p[2]) PROVE id' = id
    BY <2>3 DEF PacketStep, Take, Drop, handlerVars
  <2>4. CASE UNCHANGED vars
    BY <2>4 DEF vars
  <2> QED BY <2>1, <2>2, <2>3, <2>4 DEF Next
<1> QED BY <1>1 DEF Distinct

LEMMA ReplyHandler ==
    ASSUME Distinct', TypeInv, \A d \in Commands : OneVoice(d), NEW c \in Commands,
           CommandStep(c)
    PROVE  \A d \in Commands : OneVoice(d)'
<1> USE DEF TypeInv, TypeOK, PendingInv, OneVoice, Open
<1>1. CASE SendTraceroute(c)
  <2>1. PICK i \in Ids : id' = [id EXCEPT ![c] = i]
    BY <1>1 DEF SendTraceroute
  <2>2. /\ hpc[c] = "idle" /\ hpc' = [hpc EXCEPT ![c] = "sent"]
        /\ UNCHANGED <<requests, tpc, taken, replies, answer>>
    BY <1>1 DEF SendTraceroute
  <2> QED BY <2>1, <2>2
<1>2. CASE SendFails(c)
  BY <1>2 DEF SendFails, Reply
<1>3. CASE RememberTraceroute(c)
  <2>1. /\ hpc[c] = "sent" /\ hpc' = [hpc EXCEPT ![c] = "done"]
        /\ requests' = [requests EXCEPT ![id[c]] = c]
        /\ tpc' = [tpc EXCEPT ![c] = "select"]
        /\ UNCHANGED <<id, taken, replies, answer>>
    BY <1>3 DEF RememberTraceroute, handlerVars
  <2>2. id[c] \in Ids
    BY <2>1
  <2>3. \A d \in Commands \ {c} : id[d] # id[c]
    BY <2>1, <2>2 DEF Distinct
  <2> QED BY <2>1, <2>2, <2>3
<1> QED BY <1>1, <1>2, <1>3 DEF CommandStep

LEMMA ReplyTimer ==
    ASSUME Distinct, TypeInv, \A d \in Commands : OneVoice(d), NEW c \in Commands,
           TimerStep(c) \/ ReplyRoute(c)
    PROVE  \A d \in Commands : OneVoice(d)'
<1> USE DEF TypeInv, TypeOK, PendingInv, OneVoice, Open, handlerVars
<1>2. CASE TimerCancelled(c)
  BY <1>2 DEF TimerCancelled
<1>3. CASE TimerFires(c)
  BY <1>3 DEF TimerFires
<1>4. CASE Expire(c)
  <2>1. /\ tpc[c] = "expired"
        /\ requests' = [requests EXCEPT ![id[c]] = None]
        /\ tpc' = [tpc EXCEPT ![c] = IF id[c] \in Pending THEN "reply" ELSE "done"]
        /\ UNCHANGED <<hpc, id, taken, replies, answer>>
    BY <1>4 DEF Expire
  <2>2. id[c] \in Ids /\ hpc[c] = "done"
    BY <2>1
  <2>3. id[c] \in Pending => Open(c)
    BY <2>2 DEF Pending, Distinct
  <2>4. ASSUME NEW d \in Commands PROVE OneVoice(d)'
    <3>1. CASE d = c
      BY <2>1, <2>2, <2>3, <3>1
    <3>2. CASE d # c
      <4>1. Open(d)' => Open(d)
        BY <2>1, <2>2, <3>2
      <4> QED BY <2>1, <3>2, <4>1
    <3> QED BY <3>1, <3>2
  <2> QED BY <2>4
<1>5. CASE ReplyTimeout(c)
  BY <1>5 DEF ReplyTimeout, Reply
<1>6. CASE ReplyRoute(c)
  BY <1>6 DEF ReplyRoute, Reply
<1> QED BY <1>2, <1>3, <1>4, <1>5, <1>6 DEF TimerStep

LEMMA ReplyPacket ==
    ASSUME TypeInv, \A d \in Commands : OneVoice(d), NEW p \in Arriving,
           PacketStep(p[1], p[2])
    PROVE  \A d \in Commands : OneVoice(d)'
<1> USE DEF TypeInv, TypeOK, PendingInv, OneVoice, Open, handlerVars
<1>1. CASE Take(p[1], p[2])
  <2>1. PICK j \in Candidates(p[1], p[2]) :
            /\ requests' = [requests EXCEPT ![j] = None]
            /\ taken' = taken \union {requests[j]}
    BY <1>1 DEF Take
  <2>2. /\ j \in Ids /\ requests[j] \in Commands
        /\ id[requests[j]] = j /\ hpc[requests[j]] = "done"
    BY <2>1, CandidatesPending
  <2>3. UNCHANGED <<hpc, id, tpc, replies, answer>>
    BY <1>1 DEF Take
  <2>4. ASSUME NEW d \in Commands PROVE OneVoice(d)'
    <3>1. CASE d = requests[j]
      BY <2>1, <2>2, <2>3, <3>1
    <3>2. CASE d # requests[j]
      <4>1. (Open(d)' => Open(d)) /\ (d \in taken' => d \in taken)
        BY <2>1, <2>2, <2>3, <3>2
      <4> QED BY <2>3, <4>1
    <3> QED BY <3>1, <3>2
  <2> QED BY <2>4
<1>2. CASE Drop(p[1], p[2])
  BY <1>2 DEF Drop
<1> QED BY <1>1, <1>2 DEF PacketStep

LEMMA ReplyNext == TypeInv /\ ReplyInv /\ [Next]_vars => ReplyInv'
<1> SUFFICES ASSUME TypeInv, ReplyInv, [Next]_vars, Distinct'
             PROVE  \A c \in Commands : OneVoice(c)'
  BY DEF ReplyInv
<1>1. Distinct /\ \A c \in Commands : OneVoice(c)
  BY DistinctBefore DEF ReplyInv
<1>2. CASE UNCHANGED vars
  BY <1>1, <1>2 DEF vars, OneVoice, Open
<1> QED BY <1>1, <1>2, ReplyHandler, ReplyTimer, ReplyPacket DEF Next

\* As long as request ids are distinct, the handler, the timer and any number
\* of responses, late or repeated, produce at most one reply to a command.
THEOREM SingleReply == Spec => []AtMostOneReply
<1>1. Init => ReplyInv
  BY ReplyInit
<1>2. TypeInv /\ ReplyInv /\ [Next]_vars => ReplyInv'
  BY ReplyNext
<1>3. ReplyInv => AtMostOneReply
  <2> SUFFICES ASSUME NEW c \in Commands, replies[c] \in {0, 1} PROVE replies[c] <= 1
    BY DEF ReplyInv, OneVoice, AtMostOneReply
  <2>1. CASE replies[c] = 0
    BY <2>1
  <2>2. CASE replies[c] = 1
    BY <2>2
  <2> QED BY <2>1, <2>2
<1> QED BY <1>1, <1>2, <1>3, TypeInvariance, PTL DEF Spec

-----------------------------------------------------------------------------
(* Nobody is forgotten: the safety side of the liveness properties          *)

\* Every request in the map has a timer that has yet to drop it, even if ids
\* collide; RequestsEmptied rests on it (rememberTraceroute).
PendingAreTimed == \A i \in Pending : tpc[requests[i]] \in {"select", "expired"}

LEMMA TimedNext == TypeInv /\ PendingAreTimed /\ [Next]_vars => PendingAreTimed'
<1> SUFFICES ASSUME TypeInv, PendingAreTimed, [Next]_vars,
                    NEW i \in Ids, requests'[i] # None
             PROVE  tpc'[requests'[i]] \in {"select", "expired"}
  BY DEF PendingAreTimed, Pending
<1> USE DEF TypeInv, TypeOK, PendingInv, PendingAreTimed, Pending, handlerVars
<1>1. ASSUME NEW c \in Commands, RememberTraceroute(c)
      PROVE  tpc'[requests'[i]] \in {"select", "expired"}
  BY <1>1 DEF RememberTraceroute
<1>2. ASSUME NEW c \in Commands, TimerStep(c)
      PROVE  tpc'[requests'[i]] \in {"select", "expired"}
  <2>1. CASE TimerCancelled(c)
    BY <2>1 DEF TimerCancelled
  <2>2. CASE TimerFires(c)
    BY <2>2 DEF TimerFires
  <2>3. CASE Expire(c)
    BY <2>3 DEF Expire
  <2>4. CASE ReplyTimeout(c)
    BY <2>4 DEF ReplyTimeout
  <2> QED BY <1>2, <2>1, <2>2, <2>3, <2>4 DEF TimerStep
<1>3. ASSUME NEW p \in Arriving, PacketStep(p[1], p[2])
      PROVE  tpc'[requests'[i]] \in {"select", "expired"}
  <2>1. CASE Take(p[1], p[2])
    <3>1. PICK j \in Candidates(p[1], p[2]) : requests' = [requests EXCEPT ![j] = None]
      BY <2>1 DEF Take
    <3> QED BY <2>1, <3>1 DEF Take
  <2>2. CASE Drop(p[1], p[2])
    BY <2>2 DEF Drop
  <2> QED BY <1>3, <2>1, <2>2 DEF PacketStep
<1>4. ASSUME NEW c \in Commands, SendTraceroute(c) \/ SendFails(c) \/ ReplyRoute(c)
      PROVE  tpc'[requests'[i]] \in {"select", "expired"}
  BY <1>4 DEF SendTraceroute, SendFails, ReplyRoute
<1>5. CASE UNCHANGED vars
  BY <1>5 DEF vars
<1> QED BY <1>1, <1>2, <1>3, <1>4, <1>5 DEF Next, CommandStep

\* No request is in the map without a timer goroutine that will look it up
\* there, however the ids collide (rememberTraceroute, takeTraceroute).
THEOREM PendingTimed == Spec => []PendingAreTimed
<1>1. Init => PendingAreTimed
  BY DEF Init, PendingAreTimed, Pending
<1> QED BY <1>1, TimedNext, TypeInvariance, PTL DEF Spec

\* Who has to answer a command that was handled: a traceroute goroutine, its
\* timer, or the map.  EveryoneAnswered rests on it.
Owed(c) == c \in taken \/ tpc[c] = "reply" \/ (id[c] \in Ids /\ requests[id[c]] = c)

AnswersAreOwed ==
    Distinct => \A c \in Commands : hpc[c] = "done" /\ answer[c] = "none" => Owed(c)

LEMMA OwedNext == TypeInv /\ AnswersAreOwed /\ [Next]_vars => AnswersAreOwed'
<1> SUFFICES ASSUME TypeInv, AnswersAreOwed, [Next]_vars, Distinct',
                    NEW d \in Commands, hpc'[d] = "done", answer'[d] = "none"
             PROVE  Owed(d)'
  BY DEF AnswersAreOwed
<1> USE DEF TypeInv, TypeOK, PendingInv, Owed, handlerVars
<1>1. Distinct /\ (hpc[d] = "done" /\ answer[d] = "none" => Owed(d))
  BY DistinctBefore DEF AnswersAreOwed
<1>2. ASSUME NEW c \in Commands, CommandStep(c) PROVE Owed(d)'
  <2>1. CASE SendTraceroute(c)
    BY <1>1, <2>1 DEF SendTraceroute
  <2>2. CASE SendFails(c)
    BY <1>1, <2>2 DEF SendFails, Reply
  <2>3. CASE RememberTraceroute(c)
    <3>1. id[c] \in Ids /\ \A e \in Commands \ {c} : id[e] # id[c]
      BY <1>1, <2>3 DEF RememberTraceroute, Distinct
    <3> QED BY <1>1, <2>3, <3>1 DEF RememberTraceroute
  <2> QED BY <1>2, <2>1, <2>2, <2>3 DEF CommandStep
<1>3. ASSUME NEW c \in Commands, TimerStep(c) \/ ReplyRoute(c) PROVE Owed(d)'
  <2>1. CASE TimerCancelled(c)
    BY <1>1, <2>1 DEF TimerCancelled
  <2>2. CASE TimerFires(c)
    BY <1>1, <2>2 DEF TimerFires
  <2>3. CASE Expire(c)
    <3>1. id[c] \in Ids /\ \A e \in Commands \ {c} : id[e] # id[c]
      BY <1>1, <2>3 DEF Expire, Distinct
    <3> QED BY <1>1, <2>3, <3>1 DEF Expire, Pending
  <2>4. CASE ReplyTimeout(c)
    BY <1>1, <2>4 DEF ReplyTimeout, Reply
  <2>5. CASE ReplyRoute(c)
    BY <1>1, <2>5 DEF ReplyRoute, Reply
  <2> QED BY <1>3, <2>1, <2>2, <2>3, <2>4, <2>5 DEF TimerStep
<1>4. ASSUME NEW p \in Arriving, PacketStep(p[1], p[2]) PROVE Owed(d)'
  <2>1. CASE Take(p[1], p[2])
    <3>1. PICK j \in Candidates(p[1], p[2]) :
              /\ requests' = [requests EXCEPT ![j] = None]
              /\ taken' = taken \union {requests[j]}
      BY <2>1 DEF Take
    <3> QED BY <1>1, <2>1, <3>1 DEF Take
  <2>2. CASE Drop(p[1], p[2])
    BY <1>1, <2>2 DEF Drop
  <2> QED BY <1>4, <2>1, <2>2 DEF PacketStep
<1>5. CASE UNCHANGED vars
  BY <1>1, <1>5 DEF vars
<1> QED BY <1>2, <1>3, <1>4, <1>5 DEF Next

\* As long as request ids are distinct, a command that was handled is answered
\* or somebody owes it an answer: none is lost between the map, the timer and
\* the traceroute goroutines (takeTraceroute, rememberTraceroute).
THEOREM AnswersOwed == Spec => []AnswersAreOwed
<1>1. Init => AnswersAreOwed
  BY DEF Init, AnswersAreOwed
<1> QED BY <1>1, OwedNext, TypeInvariance, PTL DEF Spec

-----------------------------------------------------------------------------
(* Refinement: Traceroute implements RouteService                          *)

\* Whoever is about to be shown a route was heard.
SeenInv == Telling => \A c \in taken : Target[c] \in heard

\* Once ids fail to tell requests apart they go on failing.
LEMMA TellingBefore == ASSUME TypeInv, [Next]_vars, Telling' PROVE Telling
<1>1. Distinct /\ \A c \in Commands : id'[c] # Zero
  BY DistinctBefore DEF Telling
<1>2. ASSUME NEW c \in Commands, id[c] = Zero PROVE id'[c] = Zero
  <2>1. ASSUME NEW d \in Commands, CommandStep(d) PROVE id'[c] = Zero
    BY <1>2, <2>1 DEF CommandStep, SendTraceroute, SendFails, RememberTraceroute,
               TypeInv, TypeOK, PendingInv
  <2>2. ASSUME NEW d \in Commands, TimerStep(d) \/ ReplyRoute(d) PROVE id' = id
    BY <2>2 DEF TimerStep, TimerCancelled, TimerFires, Expire, ReplyTimeout, ReplyRoute,
                handlerVars
  <2>3. ASSUME NEW p \in Arriving, PacketStep(p[1], p[2]) PROVE id' = id
    BY <2>3 DEF PacketStep, Take, Drop, handlerVars
  <2>4. CASE UNCHANGED vars
    BY <1>2, <2>4 DEF vars
  <2> QED BY <1>2, <2>1, <2>2, <2>3, <2>4 DEF Next
<1> QED BY <1>1, <1>2 DEF Telling

\* The request a packet answers was made for the node it comes from.
LEMMA CandidateTarget ==
    ASSUME Telling, TypeInv, NEW p \in Arriving, NEW j \in Candidates(p[1], p[2])
    PROVE  Target[requests[j]] = p[2]
<1>1. j \in Ids /\ requests[j] \in Commands /\ id[requests[j]] = j /\ j # Zero
  BY CandidatesPending DEF TypeInv, TypeOK, PendingInv, Telling
<1>2. CASE p[1] \in Pending
  <2>1. p[1] = j /\ p[1] \in Ids
    BY <1>2 DEF Candidates, Pending
  <2>2. PICK c \in Commands : id[c] # None /\ p = <<id[c], Target[c]>>
    BY <1>1, <2>1 DEF Arriving
  <2>3. requests[j] = c
    BY <1>1, <2>1, <2>2 DEF Telling, Distinct
  <2> QED BY <2>2, <2>3
<1>3. CASE p[1] \notin Pending
  BY <1>3 DEF Candidates
<1> QED BY <1>2, <1>3

LEMMA ServicePacket ==
    ASSUME Telling, TypeInv, \A c \in taken : Target[c] \in heard, NEW p \in Arriving,
           PacketStep(p[1], p[2])
    PROVE  (\A c \in taken : Target[c] \in heard)' /\ Service!Hear(p[2])
<1>1. heard' = heard \union {p[2]} /\ answer' = answer
  BY DEF PacketStep, Take, Drop, Hear
<1>2. Service!Hear(p[2])
  BY <1>1 DEF Service!Hear
<1>3. CASE Take(p[1], p[2])
  <2>1. PICK j \in Candidates(p[1], p[2]) : taken' = taken \union {requests[j]}
    BY <1>3 DEF Take
  <2>2. Target[requests[j]] = p[2]
    BY CandidateTarget
  <2> QED BY <1>1, <1>2, <2>1, <2>2
<1>4. CASE Drop(p[1], p[2])
  BY <1>1, <1>2, <1>4 DEF Drop
<1> QED BY <1>3, <1>4 DEF PacketStep

LEMMA ServiceCommand ==
    ASSUME TypeInv, \A d \in Commands : OneVoice(d),
           \A d \in taken : Target[d] \in heard, NEW c \in Commands,
           CommandStep(c) \/ TimerStep(c) \/ ReplyRoute(c)
    PROVE  /\ (\A d \in taken : Target[d] \in heard)'
           /\ Service!Next \/ UNCHANGED Service!vars
<1> USE DEF handlerVars, TypeInv, TypeOK
<1>1. heard' = heard /\ taken' \subseteq taken
  BY DEF CommandStep, SendTraceroute, SendFails, RememberTraceroute, TimerStep,
         TimerCancelled, TimerFires, Expire, ReplyTimeout, ReplyRoute
<1>2. (\A d \in taken : Target[d] \in heard)'
  BY <1>1
<1>3. ASSUME NEW text \in {"route", "timeout", "error"}, Reply(c, text),
             replies[c] = 0, text = "route" => c \in taken
      PROVE  Service!Next
  <2>1. Service!Answer(c, text)
    BY <1>1, <1>3 DEF Service!Answer, Reply, OneVoice
  <2> QED BY <2>1 DEF Service!Next
<1>4. CASE SendFails(c)
  BY <1>2, <1>3, <1>4 DEF SendFails, OneVoice, Open
<1>5. CASE ReplyTimeout(c)
  BY <1>2, <1>3, <1>5 DEF ReplyTimeout, OneVoice
<1>6. CASE ReplyRoute(c)
  BY <1>2, <1>3, <1>6 DEF ReplyRoute, OneVoice
<1>7. CASE \/ SendTraceroute(c) \/ RememberTraceroute(c)
           \/ TimerCancelled(c) \/ TimerFires(c) \/ Expire(c)
  BY <1>1, <1>2, <1>7 DEF SendTraceroute, RememberTraceroute, TimerCancelled, TimerFires,
                         Expire, Service!vars
<1> QED BY <1>4, <1>5, <1>6, <1>7 DEF CommandStep, TimerStep

LEMMA ServiceNext ==
    TypeInv /\ ReplyInv /\ SeenInv /\ [Next]_vars =>
        SeenInv' /\ (Telling' => Service!Next \/ UNCHANGED Service!vars)
<1> SUFFICES ASSUME TypeInv, ReplyInv, SeenInv, [Next]_vars, Telling'
             PROVE  /\ (\A d \in taken : Target[d] \in heard)'
                    /\ Service!Next \/ UNCHANGED Service!vars
  BY DEF SeenInv
<1>1. /\ Telling
      /\ \A d \in Commands : OneVoice(d)
      /\ \A d \in taken : Target[d] \in heard
  BY TellingBefore DEF ReplyInv, SeenInv, Telling
<1>2. CASE UNCHANGED vars
  BY <1>1, <1>2 DEF vars, Service!vars
<1>3. ASSUME NEW p \in Arriving, PacketStep(p[1], p[2])
      PROVE  (\A d \in taken : Target[d] \in heard)' /\ Service!Next
  BY <1>1, <1>3, ServicePacket, ArrivingTypes DEF Service!Next
<1> QED BY <1>1, <1>2, <1>3, ServiceCommand DEF Next

\* The pending map, its timers and the matching by id or by sender implement
\* RouteService, as long as request ids are distinct and none of them is zero.
THEOREM Refinement == Spec => ImplementsRouteService
<1>1. Init => ReplyInv /\ SeenInv /\ Service!Init
  BY ReplyInit DEF Init, SeenInv, Service!Init
<1>2. TypeInv /\ ReplyInv /\ SeenInv /\ [Next]_vars =>
        /\ ReplyInv' /\ SeenInv'
        /\ [Telling' => Service!Next]_(Service!vars)
  BY ReplyNext, ServiceNext
<1> QED BY <1>1, <1>2, TypeInvariance, PTL DEF Spec, ImplementsRouteService
=============================================================================
