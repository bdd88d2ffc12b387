--------------------------- MODULE OutgoingProofs ---------------------------
(***************************************************************************)
(* Proofs about Outgoing, for any number of messages, parts, retries and   *)
(* packet ids.                                                             *)
(***************************************************************************)
EXTENDS Outgoing, TLAPS

USE OutgoingAssumption

-----------------------------------------------------------------------------
(* Type correctness                                                        *)

\* A sender that has transmitted knows its packet, and the reader its target.
Located ==
    /\ \A m \in Messages : spc[m] \in {"register", "wait"} => cur[m] \in Ids
    /\ wpc[Reader] # "idle" => packet.id \in Ids

TypeInv == TypeOK /\ Located

LEMMA AttemptsNat == \A m \in Messages : Attempts(m) \in Nat \ {0}
  BY DEF Attempts

LEMMA TypeInit == Init => TypeInv
<1> SUFFICES ASSUME Init PROVE TypeInv
  OBVIOUS
<1>1. SenderTypes
  BY AttemptsNat DEF Init, SenderTypes
<1>2. PacketTypes /\ AckTypes
  BY DEF Init, PacketTypes, AckTypes, Workers, WorkerLocations, Slot, Kinds
<1> QED BY <1>1, <1>2 DEF Init, TypeInv, TypeOK, Located, Workers, CrashReasons

\* What settling a part, one way or the other, does to the sender's variables.
LEMMA TypeSettled ==
    ASSUME SenderTypes, NEW m \in Messages, PartDone(m) \/ AttemptFailed(m)
    PROVE  /\ SenderTypes'
           /\ spc'[m] \in {"send", "report"}
           /\ \A n \in Messages \ {m} : spc'[n] = spc[n]
<1>1. CASE PartDone(m)
  <2>1. CASE ~LastPart(m)
    <3>1. part[m] + 1 <= Parts[m]
      BY <2>1 DEF LastPart, SenderTypes
    <3> QED BY <1>1, <2>1, <3>1, AttemptsNat DEF PartDone, SenderTypes
  <2>2. CASE LastPart(m)
    BY <1>1, <2>2 DEF PartDone, SenderTypes
  <2> QED BY <2>1, <2>2
<1>2. CASE AttemptFailed(m)
  <2>1. CASE RetriesLeft(m)
    <3>1. attempt[m] + 1 <= Attempts(m)
      BY <2>1, AttemptsNat DEF RetriesLeft, SenderTypes
    <3> QED BY <1>2, <2>1, <3>1, AttemptsNat DEF AttemptFailed, SenderTypes
  <2>2. CASE ~RetriesLeft(m)
    BY <1>2, <2>2 DEF AttemptFailed, SenderTypes
  <2> QED BY <2>1, <2>2
<1> QED BY <1>1, <1>2

LEMMA TypeSender ==
    ASSUME TypeInv, NEW m \in Messages, SenderStep(m), UNCHANGED crashed
    PROVE  TypeInv'
<1> USE DEF TypeInv, TypeOK, Located, senderVars, ackVars, historyVars, Workers
<1>1. CASE Start(m)
  BY <1>1 DEF Start, SenderTypes, PacketTypes, AckTypes
<1>2. CASE Transmit(m)
  BY <1>2 DEF Transmit, Transmissions, SenderTypes, PacketTypes, AckTypes
<1>3. CASE TransmitFails(m)
  BY <1>3, TypeSettled DEF TransmitFails, PacketTypes, AckTypes
<1>4. CASE Register(m)
  BY <1>4 DEF Register, WorkerLocations, SenderTypes, PacketTypes, AckTypes
<1>5. CASE WaitDelivered(m)
  <2>1. SenderTypes' /\ Located'
    BY <1>5, TypeSettled DEF WaitDelivered, Resume
  <2> QED BY <1>5, <2>1 DEF WaitDelivered, PacketTypes, AckTypes, Slot
<1>6. CASE WaitRepeated(m)
  <2>1. SenderTypes' /\ Located'
    BY <1>6, TypeSettled DEF WaitRepeated, Resume
  <2> QED BY <1>6, <2>1 DEF WaitRepeated, PacketTypes, AckTypes, Slot
<1>7. CASE CallerReceives(m)
  BY <1>7 DEF CallerReceives, SenderTypes, PacketTypes, AckTypes
<1> QED BY <1>1, <1>2, <1>3, <1>4, <1>5, <1>6, <1>7 DEF SenderStep

LEMMA TypeResolve ==
    ASSUME TypeInv, NEW w \in Workers, ResolveStep(w), UNCHANGED crashed
    PROVE  TypeInv'
<1> USE DEF TypeInv, TypeOK, Located, PacketTypes, AckTypes, senderVars,
            historyVars, Workers, WorkerLocations, Goto
<1>1. UNCHANGED senderVars
  BY DEF ResolveStep, Negative, SendDelivered, SendRepeated, StopWaiting,
         CloseDelivered, CloseRepeated, Delete
<1>2. SenderTypes'
  BY <1>1 DEF SenderTypes
<1>3. wpc[w] # "idle" => Target(w) \in Ids
  BY DEF Target
<1>4. CASE Negative(w)
  <2>1. \E l \in {"delivered", "delete"} : wpc' = [wpc EXCEPT ![w] = l]
    BY <1>4 DEF Negative
  <2> QED BY <1>2, <1>4, <2>1 DEF Negative, ackVars
<1>5. CASE SendDelivered(w)
  BY <1>2, <1>3, <1>5 DEF SendDelivered, Verdict, Slot
<1>6. CASE SendRepeated(w)
  BY <1>2, <1>3, <1>6 DEF SendRepeated, Slot
<1>7. CASE StopWaiting(w)
  BY <1>2, <1>7 DEF StopWaiting
<1>8. CASE CloseDelivered(w)
  BY <1>2, <1>3, <1>8 DEF CloseDelivered
<1>9. CASE CloseRepeated(w)
  BY <1>2, <1>3, <1>9 DEF CloseRepeated
<1>10. CASE Delete(w)
  BY <1>2, <1>10 DEF Delete
<1> QED BY <1>4, <1>5, <1>6, <1>7, <1>8, <1>9, <1>10 DEF ResolveStep

LEMMA TypeReader ==
    ASSUME TypeInv, UNCHANGED crashed,
           \/ ReaderStep
           \/ \E i \in Ids : Timeout(i)
           \/ \E i \in Ids, k \in Kinds : ReadRouting(i, k)
    PROVE  TypeInv'
<1> USE DEF TypeInv, TypeOK, Located, PacketTypes, AckTypes, senderVars, ackVars,
            historyVars, Workers, WorkerLocations, Goto
<1>1. CASE Lookup
  BY <1>1 DEF Lookup, SenderTypes
<1>2. CASE Receive
  BY <1>2 DEF Receive, Received, SenderTypes, Kinds
<1>3. CASE Relay
  BY <1>3 DEF Relay, SenderTypes, Slot
<1>4. ASSUME NEW i \in Ids, Timeout(i) PROVE TypeInv'
  BY <1>4 DEF Timeout, SenderTypes
<1>5. ASSUME NEW i \in Ids, NEW k \in Kinds, ReadRouting(i, k) PROVE TypeInv'
  BY <1>5 DEF ReadRouting, SenderTypes
<1> QED BY <1>1, <1>2, <1>3, <1>4, <1>5 DEF ReaderStep

LEMMA TypePanic ==
    ASSUME TypeInv, Panic
    PROVE  TypeInv' /\ UNCHANGED <<senderVars, ackVars, wpc, packet, historyVars>>
<1>1. /\ crashed' \in CrashReasons
      /\ UNCHANGED <<senderVars, ackVars, wpc, packet, historyVars>>
  BY DEF Panic, SendOnClosed, CloseOfClosed, MapRace, Crash, CrashReasons
<1> QED
  BY <1>1 DEF TypeInv, TypeOK, Located, SenderTypes, PacketTypes, AckTypes,
              senderVars, ackVars, historyVars

\* Every variable keeps its type, and no part is attempted more than Retries
\* times, however the goroutines interleave (SendReliably).
THEOREM TypeCorrect == Spec => []TypeOK
<1>1. TypeInv /\ [Next]_vars => TypeInv'
  <2> SUFFICES ASSUME TypeInv, [Next]_vars PROVE TypeInv'
    OBVIOUS
  <2>1. ASSUME NEW m \in Messages, Running(SenderStep(m)) PROVE TypeInv'
    BY <2>1, TypeSender DEF Running
  <2>2. CASE \/ Running(ReaderStep)
             \/ \E i \in Ids : Running(Timeout(i))
             \/ \E i \in Ids, k \in Kinds : Running(ReadRouting(i, k))
    BY <2>2, TypeReader DEF Running
  <2>3. ASSUME NEW w \in Workers, Running(ResolveStep(w)) PROVE TypeInv'
    BY <2>3, TypeResolve DEF Running
  <2>4. CASE Panic
    BY <2>4, TypePanic
  <2>5. CASE UNCHANGED vars
    BY <2>5 DEF vars, TypeInv, TypeOK, Located, SenderTypes, PacketTypes, AckTypes,
                senderVars, ackVars, historyVars
  <2> QED BY <2>1, <2>2, <2>3, <2>4, <2>5 DEF Next
<1>2. TypeInv => TypeOK
  BY DEF TypeInv
<1> QED BY TypeInit, <1>1, <1>2, PTL DEF Spec

-----------------------------------------------------------------------------
(* The inductive invariant behind the safety properties                    *)

Busy(m) == spc[m] \in {"register", "wait"}
Resolving == {"negative", "delivered", "repeated", "store", "closeDelivered", "closeRepeated"}

\* A sender that waits knows which packet carries its part.
CurInv ==
    \A m \in Messages :
        /\ Busy(m) => cur[m] \in Ids /\ owner[cur[m]] = <<m, part[m]>>
        /\ spc[m] = "register" => wpc[cur[m]] = "idle"

\* Packets carry parts the sender has reached.
OwnerInv ==
    \A i \in Ids : owner[i] # <<>> =>
        \E m \in Messages : \E p \in Nat \ {0} : p <= part[m] /\ owner[i] = <<m, p>>

\* Timers, closed channels and routing packets belong to packets that were
\* sent, and only the recipient of a private message acknowledges it.
AiredInv ==
    /\ \A i \in Ids : wpc[i] # "idle" => owner[i] # <<>>
    /\ \A i \in Ids : <<i, "delivered">> \in closed \/ <<i, "repeated">> \in closed
            => owner[i] # <<>>
    /\ \A i \in Ids, k \in Kinds : <<i, k>> \in heard =>
            owner[i] # <<>> /\ (k = "ack" => MessageOf(i) \in Private)

\* The reader resolves an acknowledgement only for an error or an answer of
\* the recipient.
ReaderInv ==
    /\ wpc[Reader] # "idle" => packet.id \in Ids /\ <<packet.id, packet.kind>> \in heard
    /\ wpc[Reader] = "relay" => packet.kind = "repeat"
    /\ wpc[Reader] \in Resolving => packet.kind # "repeat"

PacketInv == CurInv /\ OwnerInv /\ AiredInv /\ ReaderInv

\* A value in a channel is backed by what the mesh or the timer said.
ChannelInv ==
    \A i \in Ids :
        /\ delivered[i] = "yes" => <<i, "ack">> \in heard
        /\ delivered[i] = "no" => Failed(i)
        /\ repeated[i] = "yes" => <<i, "repeat">> \in heard
        /\ repeated[i] = "no" => Failed(i) \/ <<i, "ack">> \in heard

\* Nobody is past sending on a channel of this acknowledgement, or has closed
\* it, unless the value is still there for the sender to receive.
Filled(i) ==
    /\ <<i, "delivered">> \in closed => delivered[i] # "empty"
    /\ <<i, "repeated">> \in closed => repeated[i] # "empty"
    /\ \A w \in Workers : Target(w) = i =>
        /\ wpc[w] \in {"repeated", "store", "closeDelivered", "closeRepeated"}
               => delivered[i] # "empty"
        /\ wpc[w] \in {"store", "closeDelivered", "closeRepeated"}
               => repeated[i] # "empty"

\* A waiting sender never reads FALSE off a channel that was closed empty.
FilledInv == \A m \in Messages : Busy(m) => Filled(cur[m])

\* What a sender knows of the parts it is through with.
Told(m) ==
    /\ spc[m] \notin {"report", "done"} => result[m] = "none"
    /\ \A p \in 1..(part[m] - 1) : p \in ConfirmedParts(m)
    /\ result[m] = "yes" => ConfirmedParts(m) = 1..Parts[m]
    /\ \A i \in Ids : owner[i] = <<m, part[m]>> =>
        \/ Failed(i)
        \/ result[m] = "yes" /\ Confirms(i)
        \/ Busy(m) /\ cur[m] = i
    /\ \A i \in Ids, p \in 1..(part[m] - 1) :
        owner[i] = <<m, p>> => Failed(i) \/ Confirms(i)

SenderInv == \A m \in Messages : Told(m)

IInv == TypeInv /\ PacketInv /\ ChannelInv /\ FilledInv /\ SenderInv

\* The steps of the system other than a fatal error.
Step ==
    /\ UNCHANGED crashed
    /\ \/ \E m \in Messages : SenderStep(m)
       \/ \E i \in Ids : Timeout(i)
       \/ \E i \in Ids, k \in Kinds : ReadRouting(i, k)
       \/ ReaderStep
       \/ \E w \in Workers : ResolveStep(w)

LEMMA NextCases ==
    [Next]_vars =>
        Step \/ UNCHANGED <<senderVars, ackVars, wpc, packet, historyVars>>
<1> SUFFICES ASSUME [Next]_vars
             PROVE  Step \/ UNCHANGED <<senderVars, ackVars, wpc, packet, historyVars>>
  OBVIOUS
<1>1. CASE Panic
  BY <1>1 DEF Panic, SendOnClosed, CloseOfClosed, MapRace, Crash
<1>2. CASE UNCHANGED vars
  BY <1>2 DEF vars
<1> QED BY <1>1, <1>2 DEF Next, Running, Step

LEMMA TypeStep == TypeInv /\ Step => TypeInv'
  BY TypeSender, TypeReader, TypeResolve DEF Step

\* Nothing that was sent, heard or timed out is ever taken back.
Grows ==
    /\ heard \subseteq heard'
    /\ \A i \in Ids : owner[i] # <<>> => owner'[i] = owner[i]
    /\ \A i \in Ids : wpc[i] \notin {"idle", "sleep"} => wpc'[i] \notin {"idle", "sleep"}

LEMMA Growth == TypeInv /\ PacketInv /\ Step => Grows
<1> SUFFICES ASSUME TypeInv, PacketInv, Step PROVE Grows
  OBVIOUS
<1> USE DEF TypeInv, TypeOK, PacketTypes, AckTypes, senderVars, ackVars, historyVars,
            Workers, Goto, Grows
<1>1. ASSUME NEW m \in Messages, SenderStep(m) PROVE Grows
  <2>1. CASE Transmit(m)
    BY <2>1 DEF Transmit, OnAir
  <2>2. CASE Register(m)
    BY <2>2 DEF Register, PacketInv, CurInv, Busy
  <2> QED
    BY <1>1, <2>1, <2>2
       DEF SenderStep, Start, TransmitFails, WaitDelivered, WaitRepeated, CallerReceives
<1>2. ASSUME NEW i \in Ids, Timeout(i) PROVE Grows
  BY <1>2 DEF Timeout
<1>3. ASSUME NEW i \in Ids, NEW k \in Kinds, ReadRouting(i, k) PROVE Grows
  BY <1>3 DEF ReadRouting
<1>4. CASE ReaderStep
  BY <1>4 DEF ReaderStep, Lookup, Receive, Relay
<1>5. ASSUME NEW w \in Workers, ResolveStep(w) PROVE Grows
  BY <1>5 DEF ResolveStep, Negative, SendDelivered, SendRepeated, StopWaiting,
              CloseDelivered, CloseRepeated, Delete
<1> QED BY <1>1, <1>2, <1>3, <1>4, <1>5 DEF Step

LEMMA Monotone ==
    ASSUME Grows, NEW i \in Ids
    PROVE  /\ Failed(i) => Failed(i)'
           /\ owner[i] # <<>> => MessageOf(i)' = MessageOf(i)
           /\ \A m, p : owner[i] = <<m, p>> /\ Confirms(i) => Confirms(i)'
<1>1. ASSUME NEW m, NEW p, owner[i] = <<m, p>>, Confirms(i) PROVE Confirms(i)'
  <2>1. owner[i] # <<>>
    BY <1>1
  <2>2. owner'[i] = owner[i]
    BY <2>1 DEF Grows
  <2> QED BY <1>1, <2>2 DEF Grows, Confirms, Confirming, MessageOf
<1> QED BY <1>1 DEF Grows, MessageOf, Failed

LEMMA ConfirmedGrow ==
    ASSUME Grows, NEW m \in Messages, NEW p \in ConfirmedParts(m)
    PROVE  p \in ConfirmedParts(m)'
<1>1. PICK i \in Ids : owner[i] = <<m, p>> /\ Confirms(i)
  BY DEF ConfirmedParts
<1>2. owner'[i] = <<m, p>> /\ Confirms(i)'
  BY <1>1, Monotone DEF Grows
<1> QED BY <1>2 DEF ConfirmedParts

-----------------------------------------------------------------------------
(* PacketInv                                                               *)

LEMMA TransmitEffect ==
    ASSUME TypeInv, PacketInv, NEW m \in Messages, Transmit(m)
    PROVE  \E i \in Ids :
              /\ owner[i] = <<>>
              /\ wpc[i] = "idle"
              /\ cur'[m] = i
              /\ owner'[i] = <<m, part[m]>>
              /\ \A n \in Messages \ {m} : cur'[n] = cur[n] /\ spc'[n] = spc[n]
              /\ \A j \in Ids \ {i} : owner'[j] = owner[j]
              /\ spc[m] = "send" /\ spc'[m] = "register"
<1>1. PICK i \in Ids \ OnAir : /\ cur' = [cur EXCEPT ![m] = i]
                              /\ owner' = [owner EXCEPT ![i] = <<m, part[m]>>]
  BY DEF Transmit
<1>2. owner[i] = <<>> /\ wpc[i] = "idle"
  BY <1>1 DEF OnAir, PacketInv, AiredInv
<1>3. cur'[m] = i /\ \A n \in Messages \ {m} : cur'[n] = cur[n]
  BY <1>1 DEF TypeInv, TypeOK, PacketTypes
<1>4. owner'[i] = <<m, part[m]>> /\ \A j \in Ids \ {i} : owner'[j] = owner[j]
  BY <1>1 DEF TypeInv, TypeOK, PacketTypes
<1>5. /\ spc[m] = "send" /\ spc'[m] = "register"
      /\ \A n \in Messages \ {m} : spc'[n] = spc[n]
  BY DEF Transmit, TypeInv, TypeOK, SenderTypes
<1> QED BY <1>1, <1>2, <1>3, <1>4, <1>5

\* A step that settles a part leaves everything about packets alone.
LEMMA SettleEffect ==
    ASSUME TypeInv, NEW m \in Messages,
           TransmitFails(m) \/ WaitDelivered(m) \/ WaitRepeated(m)
    PROVE  /\ UNCHANGED <<cur, owner, acks, waiting, closed, wpc, packet, heard, prompt>>
           /\ spc'[m] \in {"send", "report"}
           /\ part'[m] \in {part[m], part[m] + 1}
           /\ \A n \in Messages \ {m} : spc'[n] = spc[n] /\ part'[n] = part[n]
           /\ \A n \in Messages : part[n] \in Nat \ {0} /\ part[n] <= part'[n]
<1>1. UNCHANGED <<cur, owner, acks, waiting, closed, wpc, packet, heard, prompt>>
  BY DEF TransmitFails, WaitDelivered, WaitRepeated, ackVars, historyVars
<1>2. PartDone(m) \/ AttemptFailed(m)
  BY DEF TransmitFails, WaitDelivered, WaitRepeated, Resume
<1>3. /\ spc'[m] \in {"send", "report"}
      /\ \A n \in Messages \ {m} : spc'[n] = spc[n]
  BY <1>2, TypeSettled DEF TypeInv, TypeOK
<1>4. part' = part \/ part' = [part EXCEPT ![m] = @ + 1]
  BY <1>2 DEF PartDone, AttemptFailed
<1>5. part \in [Messages -> Nat \ {0}]
  BY DEF TypeInv, TypeOK, SenderTypes
<1> QED BY <1>1, <1>3, <1>4, <1>5

LEMMA PacketSender ==
    ASSUME TypeInv, PacketInv, NEW m \in Messages, SenderStep(m)
    PROVE  PacketInv'
<1> USE DEF PacketInv
<1>1. CASE Start(m) \/ CallerReceives(m)
  <2>1. \A n \in Messages : Busy(n)' <=> Busy(n)
    BY <1>1 DEF Start, CallerReceives, TypeInv, TypeOK, SenderTypes, Busy
  <2>2. \A n \in Messages : (spc[n] = "register")' <=> spc[n] = "register"
    BY <1>1 DEF Start, CallerReceives, TypeInv, TypeOK, SenderTypes
  <2>3. UNCHANGED <<part, cur, owner, closed, wpc, packet, heard>>
    BY <1>1 DEF Start, CallerReceives, ackVars, historyVars
  <2> QED BY <2>1, <2>2, <2>3 DEF CurInv, OwnerInv, AiredInv, ReaderInv, MessageOf
<1>2. CASE Transmit(m)
  <2>1. UNCHANGED <<part, wpc, closed, heard, packet>>
    BY <1>2 DEF Transmit, historyVars
  <2>2. PICK i \in Ids :
              /\ owner[i] = <<>>
              /\ wpc[i] = "idle"
              /\ cur'[m] = i
              /\ owner'[i] = <<m, part[m]>>
              /\ \A n \in Messages \ {m} : cur'[n] = cur[n] /\ spc'[n] = spc[n]
              /\ \A j \in Ids \ {i} : owner'[j] = owner[j]
              /\ spc[m] = "send" /\ spc'[m] = "register"
    BY <1>2, TransmitEffect
  <2>3. CurInv'
    <3> SUFFICES ASSUME NEW n \in Messages, Busy(n)'
                 PROVE  /\ cur'[n] \in Ids /\ owner'[cur'[n]] = <<n, part[n]>>
                        /\ spc'[n] = "register" => wpc[cur'[n]] = "idle"
      BY <2>1 DEF CurInv, Busy
    <3>1. CASE n = m
      BY <2>2, <3>1
    <3>2. CASE n # m
      <4>1. cur'[n] = cur[n] /\ spc'[n] = spc[n]
        BY <2>2, <3>2
      <4>2. cur[n] \in Ids /\ owner[cur[n]] = <<n, part[n]>>
        BY <4>1 DEF CurInv, Busy
      <4>3. cur[n] # i
        BY <2>2, <4>2, SMTT(30)
      <4> QED BY <2>2, <4>1, <4>2, <4>3 DEF CurInv
    <3> QED BY <3>1, <3>2
  <2>4. OwnerInv'
    <3>1. part[m] \in Nat \ {0} /\ part[m] <= part[m]
      BY DEF TypeInv, TypeOK, SenderTypes
    <3> QED BY <2>1, <2>2, <3>1 DEF OwnerInv
  <2>5. AiredInv'
    BY <2>1, <2>2 DEF AiredInv, MessageOf
  <2>6. ReaderInv'
    BY <2>1 DEF ReaderInv
  <2> QED BY <2>3, <2>4, <2>5, <2>6
<1>3. CASE TransmitFails(m) \/ WaitDelivered(m) \/ WaitRepeated(m)
  <2>1. CurInv'
    BY <1>3, SettleEffect, SMTT(30) DEF CurInv, Busy
  <2>2. OwnerInv'
    <3> SUFFICES ASSUME NEW i \in Ids, owner[i] # <<>>
                 PROVE  \E n \in Messages : \E p \in Nat \ {0} :
                            p <= part'[n] /\ owner[i] = <<n, p>>
      BY <1>3, SettleEffect DEF OwnerInv
    <3>1. PICK n \in Messages, p \in Nat \ {0} : p <= part[n] /\ owner[i] = <<n, p>>
      BY DEF OwnerInv
    <3>2. part[n] \in Nat /\ part'[n] \in Nat /\ part[n] <= part'[n]
      BY <1>3, SettleEffect
    <3>3. p <= part'[n]
      BY <3>1, <3>2
    <3> QED BY <3>1, <3>3
  <2>3. AiredInv' /\ ReaderInv'
    BY <1>3, SettleEffect DEF AiredInv, ReaderInv, MessageOf
  <2> QED BY <2>1, <2>2, <2>3
<1>4. CASE Register(m)
  <2>1. /\ UNCHANGED <<part, cur, owner, closed, packet, heard>>
        /\ spc' = [spc EXCEPT ![m] = "wait"]
        /\ wpc' = [wpc EXCEPT ![cur[m]] = "sleep"]
        /\ spc[m] = "register"
    BY <1>4 DEF Register, historyVars
  <2>2. cur[m] \in Ids /\ owner[cur[m]] = <<m, part[m]>>
    BY <2>1 DEF CurInv, Busy
  <2>3. /\ wpc'[cur[m]] = "sleep"
        /\ wpc'[Reader] = wpc[Reader]
        /\ \A j \in Ids \ {cur[m]} : wpc'[j] = wpc[j]
    BY <2>1, <2>2 DEF TypeInv, TypeOK, AckTypes, Workers
  <2>4. spc'[m] = "wait" /\ \A n \in Messages \ {m} : spc'[n] = spc[n]
    BY <2>1 DEF TypeInv, TypeOK, SenderTypes
  <2>5. CurInv'
    BY <2>1, <2>2, <2>3, <2>4 DEF CurInv, Busy
  <2>6. OwnerInv' /\ AiredInv' /\ ReaderInv'
    BY <2>1, <2>2, <2>3, SMTT(30) DEF OwnerInv, AiredInv, ReaderInv, MessageOf
  <2> QED BY <2>5, <2>6
<1> QED BY <1>1, <1>2, <1>3, <1>4 DEF SenderStep

\* What a step of a worker that resolves an acknowledgement touches.
LEMMA ResolveEffect ==
    ASSUME TypeInv, PacketInv, NEW w \in Workers, ResolveStep(w)
    PROVE  /\ UNCHANGED <<senderVars, heard, packet>>
           /\ wpc[w] \in Resolving \union {"delete"}
           /\ wpc'[w] \in Resolving => wpc[w] \in Resolving
           /\ wpc'[w] # "relay"
           /\ w # Reader => wpc'[w] \notin {"idle", "sleep"}
           /\ \A v \in Workers \ {w} : wpc'[v] = wpc[v]
           /\ Target(w) \in Ids /\ owner[Target(w)] # <<>>
<1> USE DEF TypeInv, TypeOK, AckTypes, Goto, Resolving
<1>1. UNCHANGED <<senderVars, heard, packet>>
  BY DEF ResolveStep, Negative, SendDelivered, SendRepeated, StopWaiting,
         CloseDelivered, CloseRepeated, Delete, historyVars
<1>2. wpc[w] \in Resolving \union {"delete"}
  BY DEF ResolveStep, Negative, SendDelivered, SendRepeated, StopWaiting,
         CloseDelivered, CloseRepeated, Delete
<1>3. /\ wpc'[w] \in Resolving => wpc[w] \in Resolving
      /\ wpc'[w] # "relay"
      /\ w # Reader => wpc'[w] \notin {"idle", "sleep"}
      /\ \A v \in Workers \ {w} : wpc'[v] = wpc[v]
  <2>1. CASE Negative(w)
    BY <2>1 DEF Negative
  <2>2. CASE Delete(w)
    BY <2>2 DEF Delete
  <2> QED
    BY <2>1, <2>2 DEF ResolveStep, SendDelivered, SendRepeated, StopWaiting,
       CloseDelivered, CloseRepeated
<1>4. Target(w) \in Ids /\ owner[Target(w)] # <<>>
  <2>1. CASE w = Reader
    BY <2>1, <1>2 DEF Target, PacketInv, ReaderInv, AiredInv, PacketTypes
  <2>2. CASE w # Reader
    BY <2>2, <1>2 DEF Target, PacketInv, AiredInv, Workers
  <2> QED BY <2>1, <2>2
<1> QED BY <1>1, <1>2, <1>3, <1>4

LEMMA PacketResolve ==
    ASSUME TypeInv, PacketInv, NEW w \in Workers, ResolveStep(w)
    PROVE  PacketInv'
<1>1. closed' \subseteq closed \union {<<Target(w), "delivered">>, <<Target(w), "repeated">>}
  <2>1. CASE CloseDelivered(w) \/ CloseRepeated(w)
    BY <2>1 DEF CloseDelivered, CloseRepeated
  <2>2. CASE UNCHANGED closed
    BY <2>2
  <2> QED
    BY <2>1, <2>2 DEF ResolveStep, Negative, SendDelivered, SendRepeated, StopWaiting,
       Delete, ackVars
<1>2. CurInv'
  <2> SUFFICES ASSUME NEW n \in Messages, spc[n] = "register"
               PROVE  wpc'[cur[n]] = wpc[cur[n]]
    BY ResolveEffect, ZenonT(40) DEF PacketInv, CurInv, Busy, senderVars
  <2>1. cur[n] \in Ids /\ wpc[cur[n]] = "idle"
    BY DEF PacketInv, CurInv, Busy
  <2> QED BY <2>1, ResolveEffect DEF Workers, Resolving
<1>3. OwnerInv'
  BY ResolveEffect DEF PacketInv, OwnerInv, senderVars
<1>4. AiredInv'
  BY <1>1, ResolveEffect DEF PacketInv, AiredInv, senderVars, MessageOf, Workers, Target, Resolving
<1>5. ReaderInv'
  BY ResolveEffect DEF PacketInv, ReaderInv, Workers, Resolving
<1> QED BY <1>2, <1>3, <1>4, <1>5 DEF PacketInv

LEMMA PacketReader ==
    ASSUME TypeInv, PacketInv,
           \/ ReaderStep
           \/ \E i \in Ids : Timeout(i)
           \/ \E i \in Ids, k \in Kinds : ReadRouting(i, k)
    PROVE  PacketInv'
<1> USE DEF PacketInv, Goto
<1>1. CASE ReaderStep
  <2>1. /\ UNCHANGED <<senderVars, closed, packet, heard>>
        /\ wpc[Reader] # "idle"
    BY <1>1 DEF ReaderStep, Lookup, Receive, Relay, historyVars, ackVars
  <2>2. \A i \in Ids : wpc'[i] = wpc[i]
    BY <1>1 DEF ReaderStep, Lookup, Receive, Relay, TypeInv, TypeOK, AckTypes, Workers
  <2>3. /\ wpc'[Reader] = "relay" => packet.kind = "repeat"
        /\ wpc'[Reader] \in Resolving => packet.kind # "repeat"
    <3>1. packet.kind \in Kinds /\ wpc \in [Workers -> WorkerLocations] /\ Reader \in Workers
      BY DEF TypeInv, TypeOK, AckTypes, PacketTypes, Workers
    <3>2. CASE Lookup
      BY <3>1, <3>2 DEF Lookup, Resolving
    <3>3. CASE Receive
      BY <3>1, <3>3 DEF Receive, Received, Kinds, Resolving
    <3>4. CASE Relay
      BY <3>1, <3>4 DEF Relay, Resolving
    <3> QED BY <1>1, <3>2, <3>3, <3>4 DEF ReaderStep
  <2>4. CurInv' /\ OwnerInv' /\ AiredInv'
    BY <2>1, <2>2 DEF CurInv, OwnerInv, AiredInv, senderVars, Busy, MessageOf
  <2> QED BY <2>1, <2>3, <2>4 DEF ReaderInv
<1>2. ASSUME NEW i \in Ids, Timeout(i) PROVE PacketInv'
  <2>1. UNCHANGED <<senderVars, closed, packet, heard>>
    BY <1>2 DEF Timeout, ackVars, historyVars
  <2>2. wpc[i] = "sleep" /\ \A v \in Workers \ {i} : wpc'[v] = wpc[v]
    BY <1>2 DEF Timeout, TypeInv, TypeOK, AckTypes
  <2>3. CurInv' /\ OwnerInv' /\ AiredInv'
    BY <2>1, <2>2 DEF CurInv, OwnerInv, AiredInv, senderVars, Busy, MessageOf, Workers
  <2>4. ReaderInv'
    BY <2>1, <2>2 DEF ReaderInv, Workers
  <2> QED BY <2>3, <2>4
<1>3. ASSUME NEW i \in Ids, NEW k \in Kinds, ReadRouting(i, k) PROVE PacketInv'
  <2>1. /\ UNCHANGED <<senderVars, closed>>
        /\ heard' = heard \union {<<i, k>>}
        /\ packet' = [id |-> i, kind |-> k]
        /\ owner[i] # <<>>
        /\ k = "ack" => MessageOf(i) \in Private
    BY <1>3 DEF ReadRouting, ackVars, OnAir
  <2>2. wpc'[Reader] = "lookup" /\ \A j \in Ids : wpc'[j] = wpc[j]
    BY <1>3 DEF ReadRouting, TypeInv, TypeOK, AckTypes, Workers
  <2>3. CurInv' /\ OwnerInv'
    BY <2>1, <2>2 DEF CurInv, OwnerInv, senderVars, Busy
  <2>4. AiredInv'
    BY <2>1, <2>2 DEF AiredInv, senderVars, MessageOf
  <2>5. ReaderInv'
    BY <2>1, <2>2 DEF ReaderInv, Resolving
  <2> QED BY <2>3, <2>4, <2>5
<1> QED BY <1>1, <1>2, <1>3

LEMMA PacketStep == TypeInv /\ PacketInv /\ Step => PacketInv'
  BY PacketSender, PacketResolve, PacketReader DEF Step

-----------------------------------------------------------------------------
(* ChannelInv                                                              *)

\* Whoever resolves an acknowledgement has a reason to.
LEMMA Backing ==
    ASSUME TypeInv, PacketInv, NEW w \in Workers, wpc[w] \in Resolving
    PROVE  \/ Failed(Target(w))
           \/ w = Reader /\ packet.kind = "ack" /\ <<Target(w), "ack">> \in heard
<1>1. CASE w = Reader
  <2>1. packet.kind \in Kinds
    BY DEF TypeInv, TypeOK, PacketTypes
  <2>2. packet.kind # "repeat" /\ <<packet.id, packet.kind>> \in heard
    BY <1>1 DEF PacketInv, ReaderInv, Resolving
  <2> QED BY <1>1, <2>1, <2>2 DEF Kinds, Target, Failed
<1>2. CASE w # Reader
  BY <1>2 DEF Target, Failed, Resolving
<1> QED BY <1>1, <1>2

LEMMA ChannelStep ==
    TypeInv /\ PacketInv /\ ChannelInv /\ Step => ChannelInv'
<1> SUFFICES ASSUME TypeInv, PacketInv, ChannelInv, Step, NEW i \in Ids
             PROVE  /\ delivered'[i] = "yes" => <<i, "ack">> \in heard'
                    /\ delivered'[i] = "no" => Failed(i)'
                    /\ repeated'[i] = "yes" => <<i, "repeat">> \in heard'
                    /\ repeated'[i] = "no" => Failed(i)' \/ <<i, "ack">> \in heard'
  BY DEF ChannelInv
<1>1. heard \subseteq heard' /\ (Failed(i) => Failed(i)')
  BY Growth, Monotone DEF Grows
<1>2. /\ delivered'[i] \in {delivered[i], "empty"}
        => /\ delivered'[i] = "yes" => <<i, "ack">> \in heard'
           /\ delivered'[i] = "no" => Failed(i)'
      /\ repeated'[i] \in {repeated[i], "empty"}
        => /\ repeated'[i] = "yes" => <<i, "repeat">> \in heard'
           /\ repeated'[i] = "no" => Failed(i)' \/ <<i, "ack">> \in heard'
  BY <1>1 DEF ChannelInv
<1> USE DEF TypeInv, TypeOK, AckTypes, senderVars, ackVars, historyVars
<1>3. ASSUME NEW m \in Messages, SenderStep(m)
      PROVE  delivered'[i] \in {delivered[i], "empty"} /\ repeated'[i] \in {repeated[i], "empty"}
  BY <1>3 DEF SenderStep, Start, Transmit, TransmitFails, Register, WaitDelivered,
              WaitRepeated, CallerReceives
<1>4. ASSUME NEW w \in Workers, SendDelivered(w)
      PROVE  /\ delivered'[i] = "yes" => <<i, "ack">> \in heard'
             /\ delivered'[i] = "no" => Failed(i)'
             /\ repeated'[i] = repeated[i]
  <2>1. repeated'[i] = repeated[i] /\ wpc[w] \in Resolving
    BY <1>4 DEF SendDelivered, Resolving
  <2>2. CASE i = Target(w)
    <3>1. delivered'[i] = Verdict(w)
      BY <1>4, <2>2 DEF SendDelivered
    <3>2. \/ Failed(i)
          \/ w = Reader /\ packet.kind = "ack" /\ <<i, "ack">> \in heard
      BY <2>1, <2>2, Backing
    <3>3. CASE w = Reader /\ packet.kind = "ack"
      <4>1. <<i, "ack">> \in heard
        BY <2>2, <3>3, <2>1 DEF PacketInv, ReaderInv, Resolving, Target
      <4> QED BY <1>1, <2>1, <3>1, <3>3, <4>1 DEF Verdict
    <3>4. CASE ~(w = Reader /\ packet.kind = "ack")
      BY <1>1, <2>1, <3>1, <3>2, <3>4 DEF Verdict
    <3> QED BY <3>3, <3>4
  <2>3. CASE i # Target(w)
    BY <1>2, <1>4, <2>1, <2>3 DEF SendDelivered
  <2> QED BY <2>2, <2>3
<1>5. ASSUME NEW w \in Workers, SendRepeated(w)
      PROVE  /\ delivered'[i] = delivered[i]
             /\ repeated'[i] = "yes" => <<i, "repeat">> \in heard'
             /\ repeated'[i] = "no" => Failed(i)' \/ <<i, "ack">> \in heard'
  <2>1. wpc[w] \in Resolving /\ delivered'[i] = delivered[i]
    BY <1>5 DEF SendRepeated, Resolving
  <2>2. CASE i = Target(w)
    <3>1. repeated'[i] = "no"
      BY <1>5, <2>2 DEF SendRepeated
    <3> QED BY <1>1, <2>1, <2>2, <3>1, Backing
  <2>3. CASE i # Target(w)
    BY <1>2, <1>5, <2>1, <2>3 DEF SendRepeated
  <2> QED BY <2>2, <2>3
<1>6. CASE Relay
  <2>1. <<packet.id, "repeat">> \in heard
    BY <1>6 DEF Relay, PacketInv, ReaderInv
  <2>2. /\ delivered'[i] = delivered[i]
        /\ repeated'[i] = IF i = packet.id THEN "yes" ELSE repeated[i]
    BY <1>6 DEF Relay
  <2> QED BY <1>1, <1>2, <2>1, <2>2
<1>7. ASSUME NEW w \in Workers, ResolveStep(w), ~SendDelivered(w), ~SendRepeated(w)
      PROVE  UNCHANGED <<delivered, repeated>>
  BY <1>7 DEF ResolveStep, Negative, StopWaiting, CloseDelivered, CloseRepeated, Delete
<1>8. CASE Lookup \/ Receive \/ (\E j \in Ids : Timeout(j))
           \/ (\E j \in Ids, k \in Kinds : ReadRouting(j, k))
  BY <1>2, <1>8 DEF Lookup, Receive, Timeout, ReadRouting
<1> QED BY <1>2, <1>3, <1>4, <1>5, <1>6, <1>7, <1>8 DEF Step, ReaderStep

-----------------------------------------------------------------------------
(* FilledInv                                                               *)

LEMMA FilledSender ==
    ASSUME TypeInv, PacketInv, FilledInv, NEW m \in Messages, SenderStep(m)
    PROVE  FilledInv'
<1> SUFFICES ASSUME NEW n \in Messages, Busy(n)' PROVE Filled(cur[n])'
  BY DEF FilledInv
<1>1. CASE Start(m) \/ CallerReceives(m)
  <2>1. Busy(n) /\ UNCHANGED <<cur, closed, delivered, repeated, wpc, packet>>
    BY <1>1 DEF Start, CallerReceives, TypeInv, TypeOK, SenderTypes, Busy, ackVars
  <2> QED BY <2>1 DEF FilledInv, Filled, Target
<1>2. CASE Transmit(m)
  <2>1. UNCHANGED <<closed, delivered, repeated, wpc, packet>>
    BY <1>2 DEF Transmit
  <2>2. PICK i \in Ids :
              /\ owner[i] = <<>>
              /\ wpc[i] = "idle"
              /\ cur'[m] = i
              /\ \A k \in Messages \ {m} : cur'[k] = cur[k] /\ spc'[k] = spc[k]
    BY <1>2, TransmitEffect
  <2>3. CASE n = m
    <3>1. <<i, "delivered">> \notin closed /\ <<i, "repeated">> \notin closed
      BY <2>2 DEF PacketInv, AiredInv
    <3>2. packet.id = i => wpc[Reader] = "idle"
      BY <2>2 DEF PacketInv, AiredInv, ReaderInv, TypeInv, TypeOK, PacketTypes
    <3>3. \A w \in Workers : Target(w) = i => wpc[w] = "idle"
      BY <2>2, <3>2 DEF Target
    <3> QED BY <2>1, <2>2, <2>3, <3>1, <3>3 DEF Filled, Target
  <2>4. CASE n # m
    BY <2>1, <2>2, <2>4 DEF FilledInv, Filled, Target, Busy
  <2> QED BY <2>3, <2>4
<1>3. CASE TransmitFails(m) \/ WaitDelivered(m) \/ WaitRepeated(m)
  <2>1. Busy(n) /\ n # m /\ UNCHANGED <<cur, closed, wpc, packet>>
    BY <1>3, SettleEffect DEF Busy
  <2>2. UNCHANGED <<delivered, repeated>> \/ Busy(m)
    BY <1>3 DEF TransmitFails, WaitDelivered, WaitRepeated, Busy, ackVars
  <2>3. Busy(m) => cur[m] # cur[n]
    BY <2>1 DEF PacketInv, CurInv
  <2>4. delivered'[cur[n]] = delivered[cur[n]] /\ repeated'[cur[n]] = repeated[cur[n]]
    <3>1. CASE UNCHANGED <<delivered, repeated>>
      BY <3>1
    <3>2. CASE Busy(m)
      <4>1. cur[m] # cur[n]
        BY <2>3, <3>2
      <4>2. /\ delivered' \in {delivered, [delivered EXCEPT ![cur[m]] = "empty"]}
            /\ repeated' \in {repeated, [repeated EXCEPT ![cur[m]] = "empty"]}
        BY <1>3 DEF TransmitFails, WaitDelivered, WaitRepeated, ackVars
      <4>3. cur[n] \in Ids
        BY <2>1 DEF PacketInv, CurInv
      <4> QED BY <4>1, <4>2, <4>3 DEF TypeInv, TypeOK, AckTypes
    <3> QED BY <2>2, <3>1, <3>2
  <2> QED BY <2>1, <2>4 DEF FilledInv, Filled, Target
<1>4. CASE Register(m)
  <2>1. Busy(n) /\ UNCHANGED <<cur, closed, delivered, repeated, packet>>
    BY <1>4 DEF Register, TypeInv, TypeOK, SenderTypes, Busy
  <2>2. \A w \in Workers : wpc'[w] = wpc[w] \/ wpc'[w] = "sleep"
    BY <1>4 DEF Register, TypeInv, TypeOK, AckTypes
  <2> QED BY <2>1, <2>2 DEF FilledInv, Filled, Target
<1> QED BY <1>1, <1>2, <1>3, <1>4 DEF SenderStep

LEMMA FilledResolve ==
    ASSUME TypeInv, PacketInv, NEW w \in Workers, ResolveStep(w),
           NEW i \in Ids, Filled(i)
    PROVE  Filled(i)'
<1> USE DEF TypeInv, TypeOK, AckTypes, Goto, ackVars
<1>1. packet' = packet /\ \A v \in Workers \ {w} : wpc'[v] = wpc[v]
  BY ResolveEffect
<1>2. Target(w) \in Ids
  BY ResolveEffect
<1>3. CASE Negative(w) \/ StopWaiting(w) \/ Delete(w)
  <2>1. UNCHANGED <<closed, delivered, repeated>>
    BY <1>3 DEF Negative, StopWaiting, Delete
  <2>2. \/ wpc[w] = "store" /\ wpc'[w] = "closeDelivered"
        \/ wpc'[w] \in {"delivered", "delete", "idle", "done"}
    BY <1>3 DEF Negative, StopWaiting, Delete
  <2> QED BY <1>1, <2>1, <2>2 DEF Filled, Target
<1>4. CASE SendDelivered(w)
  <2>1. /\ UNCHANGED <<closed, repeated>>
        /\ delivered'[Target(w)] # "empty"
        /\ \A j \in Ids \ {Target(w)} : delivered'[j] = delivered[j]
        /\ wpc'[w] = "repeated"
    BY <1>2, <1>4 DEF SendDelivered, Verdict
  <2> QED BY <1>1, <2>1 DEF Filled, Target
<1>5. CASE SendRepeated(w)
  <2>1. /\ UNCHANGED <<closed, delivered>>
        /\ repeated'[Target(w)] # "empty"
        /\ \A j \in Ids \ {Target(w)} : repeated'[j] = repeated[j]
        /\ wpc[w] = "repeated" /\ wpc'[w] = "store"
    BY <1>2, <1>5 DEF SendRepeated
  <2> QED BY <1>1, <2>1 DEF Filled, Target
<1>6. CASE CloseDelivered(w)
  <2>1. /\ UNCHANGED <<delivered, repeated>>
        /\ closed' = closed \union {<<Target(w), "delivered">>}
        /\ wpc[w] = "closeDelivered" /\ wpc'[w] = "closeRepeated"
    BY <1>6 DEF CloseDelivered
  <2> QED BY <1>1, <2>1 DEF Filled, Target
<1>7. CASE CloseRepeated(w)
  <2>1. /\ UNCHANGED <<delivered, repeated>>
        /\ closed' = closed \union {<<Target(w), "repeated">>}
        /\ wpc[w] = "closeRepeated" /\ wpc'[w] = "delete"
    BY <1>7 DEF CloseRepeated
  <2> QED BY <1>1, <2>1 DEF Filled, Target
<1> QED BY <1>3, <1>4, <1>5, <1>6, <1>7 DEF ResolveStep

LEMMA FilledReader ==
    ASSUME TypeInv, NEW i \in Ids, Filled(i),
           \/ ReaderStep
           \/ \E j \in Ids : Timeout(j)
           \/ \E j \in Ids, k \in Kinds : ReadRouting(j, k)
    PROVE  Filled(i)'
<1> USE DEF TypeInv, TypeOK, AckTypes, PacketTypes, Goto, ackVars
<1>1. CASE ReaderStep
  <2>1. UNCHANGED <<packet, closed, delivered>>
    BY <1>1 DEF ReaderStep, Lookup, Receive, Relay
  <2>2. /\ wpc'[Reader] \in {"receive", "idle", "relay", "negative", "delivered", "delete"}
        /\ \A v \in Workers \ {Reader} : wpc'[v] = wpc[v]
    BY <1>1 DEF ReaderStep, Lookup, Receive, Received, Kinds, Relay, Workers
  <2>3. repeated'[i] = repeated[i] \/ repeated'[i] = "yes"
    BY <1>1 DEF ReaderStep, Lookup, Receive, Relay
  <2> QED BY <2>1, <2>2, <2>3 DEF Filled, Target
<1>2. ASSUME NEW j \in Ids, Timeout(j) PROVE Filled(i)'
  <2>1. UNCHANGED <<packet, closed, delivered, repeated>>
    BY <1>2 DEF Timeout
  <2>2. wpc'[j] = "negative" /\ \A v \in Workers \ {j} : wpc'[v] = wpc[v]
    BY <1>2 DEF Timeout, Workers
  <2> QED BY <2>1, <2>2 DEF Filled, Target
<1>3. ASSUME NEW j \in Ids, NEW k \in Kinds, ReadRouting(j, k) PROVE Filled(i)'
  <2>1. UNCHANGED <<closed, delivered, repeated>>
    BY <1>3 DEF ReadRouting
  <2>2. wpc'[Reader] = "lookup" /\ \A v \in Workers \ {Reader} : wpc'[v] = wpc[v]
    BY <1>3 DEF ReadRouting, Workers
  <2> QED BY <2>1, <2>2 DEF Filled, Target
<1> QED BY <1>1, <1>2, <1>3

\* What every step but a sender's leaves alone.
LEMMA SenderIdle ==
    ASSUME Step, \A m \in Messages : ~SenderStep(m)
    PROVE  UNCHANGED senderVars
  BY DEF Step, Timeout, ReadRouting, ReaderStep, Lookup, Receive, Relay, ResolveStep,
         Negative, SendDelivered, SendRepeated, StopWaiting, CloseDelivered,
         CloseRepeated, Delete

LEMMA FilledStep ==
    TypeInv /\ PacketInv /\ FilledInv /\ Step => FilledInv'
<1> SUFFICES ASSUME TypeInv, PacketInv, FilledInv, Step PROVE FilledInv'
  OBVIOUS
<1>1. CASE \E m \in Messages : SenderStep(m)
  BY <1>1, FilledSender
<1>2. CASE \A m \in Messages : ~SenderStep(m)
  <2> SUFFICES ASSUME NEW n \in Messages, Busy(n)' PROVE Filled(cur[n])'
    BY DEF FilledInv
  <2>1. Busy(n) /\ cur' = cur
    BY <1>2, SenderIdle DEF senderVars, Busy
  <2>2. cur[n] \in Ids /\ Filled(cur[n])
    BY <2>1 DEF FilledInv, PacketInv, CurInv
  <2>3. Filled(cur[n])' <=> \A i \in Ids : i = cur[n] => Filled(i)'
    BY <2>1, <2>2 DEF Filled, Target
  <2>4. ASSUME NEW i \in Ids, i = cur[n] PROVE Filled(i)'
    BY <1>2, <2>2, <2>4, FilledResolve, FilledReader DEF Step
  <2> QED BY <2>3, <2>4
<1> QED BY <1>1, <1>2

-----------------------------------------------------------------------------
(* SenderInv                                                               *)

\* The radio did not take the part, the mesh answered for it, or the attempt
\* at it failed.
LEMMA SettleCases ==
    ASSUME TypeInv, PacketInv, ChannelInv, FilledInv, NEW m \in Messages,
           TransmitFails(m) \/ WaitDelivered(m) \/ WaitRepeated(m)
    PROVE  \/ PartDone(m) /\ Busy(m) /\ Confirms(cur[m])
           \/ AttemptFailed(m) /\ (Busy(m) => Failed(cur[m]))
<1>1. CASE TransmitFails(m)
  BY <1>1 DEF TransmitFails, Busy
<1>2. ASSUME spc[m] = "wait"
      PROVE  /\ Busy(m) /\ cur[m] \in Ids /\ MessageOf(cur[m]) = m
             /\ Filled(cur[m])
             /\ <<cur[m], "ack">> \in heard => m \in Private
  <2>1. Busy(m) /\ cur[m] \in Ids /\ owner[cur[m]] = <<m, part[m]>>
    BY <1>2 DEF Busy, PacketInv, CurInv
  <2>2. MessageOf(cur[m]) = m /\ Filled(cur[m])
    BY <2>1 DEF MessageOf, FilledInv
  <2>3. <<cur[m], "ack">> \in heard => m \in Private
    BY <2>1, <2>2 DEF PacketInv, AiredInv, Kinds
  <2> QED BY <2>1, <2>2, <2>3
<1>3. CASE WaitDelivered(m)
  <2> USE <1>3, <1>2 DEF WaitDelivered
  <2>1. delivered[cur[m]] # "empty"
    BY DEF Ready, Filled
  <2>2. delivered[cur[m]] = "yes" => Confirms(cur[m])
    BY DEF ChannelInv, Confirms, Confirming
  <2>3. delivered[cur[m]] # "yes" => Failed(cur[m])
    BY <2>1 DEF ChannelInv, TypeInv, TypeOK, AckTypes, Slot
  <2> QED BY <2>2, <2>3 DEF Resume
<1>4. CASE WaitRepeated(m)
  <2> USE <1>4, <1>2 DEF WaitRepeated
  <2>1. repeated[cur[m]] # "empty"
    BY DEF Ready, Filled
  <2>2. repeated[cur[m]] = "yes" => Confirms(cur[m])
    BY DEF ChannelInv, Confirms, Confirming
  <2>3. repeated[cur[m]] # "yes" => Failed(cur[m])
    BY <2>1 DEF ChannelInv, TypeInv, TypeOK, AckTypes, Slot
  <2> QED BY <2>2, <2>3 DEF Resume
<1> QED BY <1>1, <1>3, <1>4

\* A step that takes nothing from a sender and sends nothing for it.
LEMMA ToldStays ==
    ASSUME Grows, NEW m \in Messages, Told(m), part[m] \in Nat \ {0},
           part'[m] = part[m], result'[m] = result[m],
           Busy(m) => Busy(m)' /\ cur'[m] = cur[m],
           spc'[m] \notin {"report", "done"} => spc[m] \notin {"report", "done"},
           \A i \in Ids : \A p \in Nat : owner'[i] = <<m, p>> => owner[i] = <<m, p>>
    PROVE  Told(m)'
<1>1. \A p \in ConfirmedParts(m) : p \in ConfirmedParts(m)'
  BY ConfirmedGrow
<1>2. \A i \in Ids : /\ Failed(i) => Failed(i)'
                      /\ \A p : owner[i] = <<m, p>> /\ Confirms(i) => Confirms(i)'
  BY Monotone
<1>3. \A p \in 1..(part[m] - 1) : p \in ConfirmedParts(m)'
  BY <1>1 DEF Told
<1>4. result[m] = "yes" => ConfirmedParts(m)' = 1..Parts[m]
  BY <1>1 DEF Told, ConfirmedParts
<1>5. ASSUME NEW i \in Ids, owner'[i] = <<m, part[m]>>
      PROVE  \/ Failed(i)'
             \/ result[m] = "yes" /\ Confirms(i)'
             \/ Busy(m)' /\ cur'[m] = i
  <2>1. owner[i] = <<m, part[m]>>
    BY <1>5
  <2>2. \/ Failed(i)
        \/ result[m] = "yes" /\ Confirms(i)
        \/ Busy(m) /\ cur[m] = i
    BY <2>1 DEF Told
  <2> QED BY <2>1, <2>2, Monotone
<1>6. ASSUME NEW i \in Ids, NEW p \in 1..(part[m] - 1), owner'[i] = <<m, p>>
      PROVE  Failed(i)' \/ Confirms(i)'
  <2>1. owner[i] = <<m, p>>
    BY <1>6
  <2>2. Failed(i) \/ Confirms(i)
    BY <2>1 DEF Told
  <2> QED BY <2>1, <2>2, Monotone
<1> QED BY <1>3, <1>4, <1>5, <1>6 DEF Told

\* The sender that takes a step to settle its part.
LEMMA ToldSettled ==
    ASSUME TypeInv, PacketInv, Grows, NEW m \in Messages, Told(m),
           TransmitFails(m) \/ WaitDelivered(m) \/ WaitRepeated(m),
           \/ PartDone(m) /\ Busy(m) /\ Confirms(cur[m])
           \/ AttemptFailed(m) /\ (Busy(m) => Failed(cur[m]))
    PROVE  Told(m)'
<1> USE DEF TypeInv, TypeOK, SenderTypes
<1>1. /\ UNCHANGED <<cur, owner>>
      /\ part[m] \in Nat \ {0} /\ Parts[m] \in Nat /\ part[m] <= Parts[m]
      /\ spc[m] \notin {"report", "done"} /\ result[m] = "none"
  BY SettleEffect DEF TransmitFails, WaitDelivered, WaitRepeated, Told
<1>2. \A p \in ConfirmedParts(m) : p \in ConfirmedParts(m)'
  BY ConfirmedGrow
<1>3. \A i \in Ids : /\ Failed(i) => Failed(i)'
                      /\ \A p : owner[i] = <<m, p>> /\ Confirms(i) => Confirms(i)'
  BY Monotone
<1>4. \A i \in Ids, p \in Nat : owner[i] = <<m, p>> => p <= part[m]
  <2> SUFFICES ASSUME NEW i \in Ids, NEW p \in Nat, owner[i] = <<m, p>>
               PROVE  p <= part[m]
    OBVIOUS
  <2>1. owner[i] # <<>>
    OBVIOUS
  <2>2. PICK n \in Messages, q \in Nat \ {0} : q <= part[n] /\ owner[i] = <<n, q>>
    BY <2>1 DEF PacketInv, OwnerInv
  <2> QED BY <2>2
<1>5. \A p \in 1..(part[m] - 1) : p \in ConfirmedParts(m)'
  BY <1>2 DEF Told
<1>6. \A i \in Ids, p \in 1..(part[m] - 1) :
        owner[i] = <<m, p>> => Failed(i)' \/ Confirms(i)'
  <2> SUFFICES ASSUME NEW i \in Ids, NEW p \in 1..(part[m] - 1), owner[i] = <<m, p>>
               PROVE  Failed(i)' \/ Confirms(i)'
    OBVIOUS
  <2>1. Failed(i) \/ Confirms(i)
    BY DEF Told
  <2> QED BY <2>1, Monotone
<1>7. CASE PartDone(m) /\ Busy(m) /\ Confirms(cur[m])
  <2>1. cur[m] \in Ids /\ owner[cur[m]] = <<m, part[m]>>
    BY <1>7 DEF PacketInv, CurInv
  <2>2. part[m] \in ConfirmedParts(m)'
    <3>1. part[m] \in ConfirmedParts(m)
      BY <1>1, <1>7, <2>1 DEF ConfirmedParts
    <3> QED BY <3>1, <1>2
  <2>3. \A i \in Ids : owner[i] = <<m, part[m]>> => Failed(i)' \/ Confirms(i)'
    <3> SUFFICES ASSUME NEW i \in Ids, owner[i] = <<m, part[m]>>
                 PROVE  Failed(i)' \/ Confirms(i)'
      OBVIOUS
    <3>1. Failed(i) \/ Confirms(i)
      BY <1>1, <1>7 DEF Told
    <3> QED BY <3>1, Monotone
  <2>4. CASE LastPart(m)
    <3>1. /\ part' = part /\ result'[m] = "yes" /\ spc'[m] = "report"
      BY <1>7, <2>4 DEF PartDone
    <3>2. ConfirmedParts(m)' = 1..Parts[m]
      <4>1. \A p \in 1..Parts[m] : p \in 1..(part[m] - 1) \/ p = part[m]
        BY <1>1, <2>4 DEF LastPart
      <4> QED BY <4>1, <1>5, <2>2 DEF ConfirmedParts
    <3> QED BY <1>1, <1>5, <1>6, <2>3, <3>1, <3>2 DEF Told
  <2>5. CASE ~LastPart(m)
    <3>1. /\ part'[m] = part[m] + 1 /\ result' = result /\ spc'[m] = "send"
      BY <1>7, <2>5 DEF PartDone
    <3>2. \A p \in 1..(part'[m] - 1) : p \in 1..(part[m] - 1) \/ p = part[m]
      BY <1>1, <3>1
    <3>3. \A p \in 1..(part'[m] - 1) : p \in ConfirmedParts(m)'
      BY <1>5, <2>2, <3>2
    <3>4. \A i \in Ids : owner[i] # <<m, part'[m]>>
      BY <1>1, <1>4, <3>1
    <3>5. \A i \in Ids, p \in 1..(part'[m] - 1) :
            owner[i] = <<m, p>> => Failed(i)' \/ Confirms(i)'
      BY <1>6, <2>3, <3>2
    <3> QED BY <1>1, <3>1, <3>3, <3>4, <3>5 DEF Told
  <2> QED BY <2>4, <2>5
<1>8. CASE AttemptFailed(m) /\ (Busy(m) => Failed(cur[m]))
  <2>1. /\ part' = part
        /\ result'[m] # "yes"
        /\ spc'[m] = "report" \/ result'[m] = "none"
    BY <1>1, <1>8 DEF AttemptFailed
  <2>2. \A i \in Ids : owner[i] = <<m, part[m]>> => Failed(i)'
    BY <1>1, <1>3, <1>8 DEF Told
  <2> QED BY <1>1, <1>5, <1>6, <2>1, <2>2 DEF Told
<1> QED BY <1>7, <1>8

LEMMA SenderInvStep ==
    IInv /\ Step => SenderInv'
<1> SUFFICES ASSUME IInv, Step, NEW n \in Messages PROVE Told(n)'
  BY DEF SenderInv
<1>1. TypeInv /\ PacketInv /\ ChannelInv /\ FilledInv /\ Told(n)
  BY DEF IInv, SenderInv
<1>2. Grows
  BY <1>1, Growth
<1>3. part[n] \in Nat \ {0}
  BY <1>1 DEF TypeInv, TypeOK, SenderTypes
<1>4. CASE \A m \in Messages : ~SenderStep(m)
  <2>1. UNCHANGED <<spc, part, cur, result, owner>>
    BY <1>4, SenderIdle DEF senderVars
  <2> QED BY <1>1, <1>2, <1>3, <2>1, ToldStays DEF Busy
<1>5. ASSUME NEW m \in Messages, SenderStep(m) PROVE Told(n)'
  <2>1. CASE Start(m) \/ CallerReceives(m) \/ Register(m)
    <3>1. UNCHANGED <<part, cur, result, owner>>
      BY <2>1 DEF Start, CallerReceives, Register
    <3>2. /\ Busy(n) => Busy(n)'
          /\ spc'[n] \notin {"report", "done"} => spc[n] \notin {"report", "done"}
      BY <1>1, <2>1 DEF Start, CallerReceives, Register, Busy, TypeInv, TypeOK, SenderTypes
    <3> QED BY <1>1, <1>2, <1>3, <3>1, <3>2, ToldStays
  <2>2. CASE Transmit(m)
    <3>1. UNCHANGED <<part, result>>
      BY <2>2 DEF Transmit
    <3>2. PICK i \in Ids :
              /\ owner[i] = <<>>
              /\ cur'[m] = i
              /\ owner'[i] = <<m, part[m]>>
              /\ \A k \in Messages \ {m} : cur'[k] = cur[k] /\ spc'[k] = spc[k]
              /\ \A j \in Ids \ {i} : owner'[j] = owner[j]
              /\ spc[m] = "send" /\ spc'[m] = "register"
      BY <1>1, <2>2, TransmitEffect
    <3>3. CASE n # m
      <4>1. Busy(n) => Busy(n)' /\ cur'[n] = cur[n]
        BY <3>2, <3>3 DEF Busy
      <4>2. ASSUME NEW j \in Ids, NEW p \in Nat, owner'[j] = <<n, p>>
            PROVE  owner[j] = <<n, p>>
        BY <3>2, <3>3, <4>2
      <4>3. spc'[n] = spc[n]
        BY <3>2, <3>3
      <4> QED BY <1>1, <1>2, <1>3, <3>1, <4>1, <4>2, <4>3, ToldStays
    <3>4. CASE n = m
      <4>1. result'[n] = "none" /\ part'[n] = part[n] /\ Busy(n)' /\ ~Busy(n)
        BY <1>1, <3>1, <3>2, <3>4 DEF Told, Busy
      <4>2. \A p \in 1..(part[n] - 1) : p \in ConfirmedParts(n)'
        BY <1>1, <1>2, ConfirmedGrow DEF Told
      <4>3. ASSUME NEW j \in Ids, owner'[j] = <<n, part[n]>>
            PROVE  Failed(j)' \/ cur'[n] = j
        <5>1. CASE j = i
          BY <3>2, <3>4, <5>1
        <5>2. CASE j # i
          <6>1. owner[j] = <<n, part[n]>>
            BY <3>2, <4>3, <5>2
          <6>2. result[n] = "none"
            BY <1>1, <3>2, <3>4 DEF Told
          <6>3. Failed(j)
            BY <1>1, <4>1, <6>1, <6>2 DEF Told
          <6> QED BY <1>2, <6>3, Monotone
        <5> QED BY <5>1, <5>2
      <4>4. ASSUME NEW j \in Ids, NEW p \in 1..(part[n] - 1), owner'[j] = <<n, p>>
            PROVE  Failed(j)' \/ Confirms(j)'
        <5>1. j # i
          BY <1>3, <3>2, <3>4, <4>4
        <5>2. owner[j] = <<n, p>>
          BY <3>2, <4>4, <5>1
        <5>3. Failed(j) \/ Confirms(j)
          BY <1>1, <5>2 DEF Told
        <5> QED BY <1>2, <5>2, <5>3, Monotone
      <4> QED BY <4>1, <4>2, <4>3, <4>4 DEF Told
    <3> QED BY <3>3, <3>4
  <2>3. CASE TransmitFails(m) \/ WaitDelivered(m) \/ WaitRepeated(m)
    <3>1. \/ PartDone(m) /\ Busy(m) /\ Confirms(cur[m])
          \/ AttemptFailed(m) /\ (Busy(m) => Failed(cur[m]))
      BY <1>1, <2>3, SettleCases
    <3>2. CASE n = m
      BY <1>1, <1>2, <2>3, <3>1, <3>2, ToldSettled
    <3>3. CASE n # m
      <4>1. UNCHANGED <<cur, owner>> /\ spc'[n] = spc[n] /\ part'[n] = part[n]
        BY <1>1, <2>3, <3>3, SettleEffect
      <4>2. result' = result \/ \E v \in {"yes", "no"} : result' = [result EXCEPT ![m] = v]
        BY <3>1 DEF PartDone, AttemptFailed
      <4>3. result'[n] = result[n]
        BY <1>1, <3>3, <4>2 DEF TypeInv, TypeOK, SenderTypes
      <4> QED BY <1>1, <1>2, <1>3, <4>1, <4>3, ToldStays DEF Busy
    <3> QED BY <3>2, <3>3
  <2> QED BY <1>5, <2>1, <2>2, <2>3 DEF SenderStep
<1> QED BY <1>4, <1>5

-----------------------------------------------------------------------------
(* The invariant holds                                                     *)

LEMMA InvInit == Init => IInv
<1> SUFFICES ASSUME Init PROVE IInv
  OBVIOUS
<1>1. PacketInv
  BY DEF Init, PacketInv, CurInv, OwnerInv, AiredInv, ReaderInv, Busy, Workers, Resolving
<1>2. ChannelInv /\ FilledInv
  BY DEF Init, ChannelInv, FilledInv, Busy
<1>3. SenderInv
  <2> SUFFICES ASSUME NEW m \in Messages PROVE Told(m)
    BY DEF SenderInv
  <2>1. part[m] = 1 /\ result[m] = "none" /\ \A i \in Ids : owner[i] = <<>>
    BY DEF Init
  <2>2. 1..(part[m] - 1) = {}
    BY <2>1
  <2>3. \A i \in Ids : owner[i] # <<m, part[m]>>
    BY <2>1, SMTT(30)
  <2> QED BY <2>1, <2>2, <2>3 DEF Told
<1> QED BY <1>1, <1>2, <1>3, TypeInit DEF IInv

LEMMA InvNext == IInv /\ [Next]_vars => IInv'
<1> SUFFICES ASSUME IInv, [Next]_vars PROVE IInv'
  OBVIOUS
<1>1. CASE Step
  BY <1>1, TypeStep, PacketStep, ChannelStep, FilledStep, SenderInvStep DEF IInv
<1>2. CASE UNCHANGED <<senderVars, ackVars, wpc, packet, historyVars>>
  <2>1. TypeInv'
    <3>1. CASE Panic
      BY <3>1, TypePanic DEF IInv
    <3>2. CASE Step
      BY <3>2, TypeStep DEF IInv
    <3>3. CASE UNCHANGED vars
      BY <3>3 DEF vars, IInv, TypeInv, TypeOK, Located, SenderTypes, PacketTypes,
                  AckTypes, senderVars, ackVars, historyVars
    <3> QED BY <3>1, <3>2, <3>3 DEF Next, Running, Step
  <2> USE <1>2 DEF IInv, senderVars, ackVars, historyVars
  <2>2. PacketInv'
    BY DEF PacketInv, CurInv, OwnerInv, AiredInv, ReaderInv, Busy, MessageOf
  <2>3. ChannelInv' /\ FilledInv'
    BY DEF ChannelInv, FilledInv, Filled, Busy, Failed, Target
  <2>4. SenderInv'
    <3> SUFFICES ASSUME NEW m \in Messages PROVE Told(m)'
      BY DEF SenderInv
    <3>1. /\ Told(m)
          /\ part[m] \in Nat \ {0}
          /\ Grows
      BY DEF SenderInv, Grows, TypeInv, TypeOK, SenderTypes
    <3> QED BY <3>1, ToldStays DEF Busy
  <2> QED BY <2>1, <2>2, <2>3, <2>4
<1> QED BY <1>1, <1>2, NextCases

\* The inductive invariant: at every moment each sender waits on channels
\* whose content is backed by a packet that was heard or a timer that ran out.
THEOREM Invariance == Spec => []IInv
  BY InvInit, InvNext, PTL DEF Spec

\* A caller told TRUE can rely on it, for any number of messages, parts,
\* retries and packets, however the goroutines interleave (Send, SendReliably).
THEOREM YesCorrect == Spec => []YesIsConfirmed
<1>1. IInv => YesIsConfirmed
  BY DEF IInv, SenderInv, Told, YesIsConfirmed
<1> QED BY <1>1, Invariance, PTL

\* A caller told FALSE lost the part it stopped at: every transmission of it
\* timed out or came back with a routing error (delivered, receive, negative).
THEOREM NoCorrect == Spec => []NoIsJustified
<1>1. IInv => NoIsJustified
  BY DEF IInv, SenderInv, Told, NoIsJustified, Busy
<1> QED BY <1>1, Invariance, PTL

\* Parts and retries never compete: a sender transmits only when each of its
\* earlier transmissions is confirmed or has failed (SendReliably, Send).
THEOREM StopAndWait == Spec => []OneInFlight
<1>1. IInv => OneInFlight
  <2> SUFFICES ASSUME IInv, NEW i \in Ids, owner[i] # <<>>
               PROVE  LET m == MessageOf(i)
                      IN  \/ i = cur[m] /\ spc[m] \in {"register", "wait"}
                          \/ Confirms(i)
                          \/ Failed(i)
    BY DEF OneInFlight, OnAir
  <2>1. PICK m \in Messages, p \in Nat \ {0} : p <= part[m] /\ owner[i] = <<m, p>>
    BY DEF IInv, PacketInv, OwnerInv
  <2>2. Told(m) /\ part[m] \in Nat /\ MessageOf(i) = m
    BY <2>1 DEF IInv, SenderInv, TypeInv, TypeOK, SenderTypes, MessageOf
  <2>3. CASE p = part[m]
    BY <2>1, <2>2, <2>3 DEF Told, Busy
  <2>4. CASE p # part[m]
    <3>1. p \in 1..(part[m] - 1)
      BY <2>1, <2>2, <2>4
    <3> QED BY <2>1, <2>2, <3>1 DEF Told
  <2> QED BY <2>3, <2>4
<1> QED BY <1>1, Invariance, PTL

-----------------------------------------------------------------------------
(* Nobody waits for nobody: the safety side of the liveness properties      *)

\* A worker that cannot send: the buffer is full, and the channel still open.
Blocked(w) ==
    \/ /\ wpc[w] = "delivered"
       /\ delivered[Target(w)] # "empty"
       /\ <<Target(w), "delivered">> \notin closed
    \/ /\ wpc[w] \in {"repeated", "relay"}
       /\ repeated[Target(w)] # "empty"
       /\ <<Target(w), "repeated">> \notin closed

\* Past its own send on `delivered' and on the way to closing it, and the
\* same of `repeated'.
ClosingDelivered(w) == wpc[w] \in {"repeated", "store", "closeDelivered"}
ClosingRepeated(w) == wpc[w] \in {"store", "closeDelivered", "closeRepeated"}

\* A sender that was told nothing yet has a timer that will tell it.
Owed(i) == i \in waiting /\ wpc[i] \in {"idle", "sleep", "negative", "delivered"}

OwedInv == \A m \in Messages : Busy(m) /\ delivered[cur[m]] = "empty" => Owed(cur[m])

\* A channel that is full and open is about to be closed, by whoever filled it,
\* unless what fills it is the TRUE of a relay.
FullInv ==
    \A i \in Ids :
        /\ delivered[i] # "empty" /\ <<i, "delivered">> \notin closed
            => \E w \in Workers : Target(w) = i /\ ClosingDelivered(w)
        /\ repeated[i] = "no" /\ <<i, "repeated">> \notin closed
            => \E w \in Workers : Target(w) = i /\ ClosingRepeated(w)

\* An entry in Acks has a timer, and so has whatever the reader found there;
\* timers do nothing of what is the reader's.
EntryInv ==
    /\ \A i \in Ids : wpc[i] \notin {"lookup", "receive", "relay"}
    /\ \A i \in acks : wpc[i] \notin {"idle", "done"}
    /\ wpc[Reader] \notin {"idle", "lookup"} => wpc[packet.id] # "idle"

\* After a relay the reader removes the entry, and never finds it again.
RelayedInv ==
    \A i \in Ids : repeated[i] = "yes" =>
        /\ wpc[i] # "idle"
        /\ i \in acks => wpc[Reader] = "delete" /\ packet.id = i
        /\ wpc[Reader] \in {"receive", "relay"} \union Resolving => packet.id # i

WaitInv == OwedInv /\ FullInv /\ EntryInv /\ RelayedInv

\* Whoever is on the way to closing a channel is disturbed by nobody.
LEMMA CloserStays ==
    ASSUME TypeInv, PacketInv, Step, NEW w \in Workers,
           ClosingDelivered(w) \/ ClosingRepeated(w), ~ResolveStep(w)
    PROVE  wpc'[w] = wpc[w] /\ Target(w)' = Target(w)
<1> USE DEF TypeInv, TypeOK, AckTypes, ClosingDelivered, ClosingRepeated, Target, Goto
<1>1. ASSUME NEW m \in Messages, SenderStep(m)
      PROVE  wpc'[w] = wpc[w] /\ packet' = packet
  <2>1. CASE Register(m)
    <3>1. spc[m] = "register" /\ wpc' = [wpc EXCEPT ![cur[m]] = "sleep"] /\ packet' = packet
      BY <2>1 DEF Register
    <3>2. cur[m] # w
      BY <3>1 DEF PacketInv, CurInv, Busy
    <3> QED BY <3>1, <3>2
  <2> QED
    BY <1>1, <2>1 DEF SenderStep, Start, Transmit, TransmitFails, WaitDelivered,
                      WaitRepeated, CallerReceives
<1>2. ASSUME NEW i \in Ids, Timeout(i) PROVE wpc'[w] = wpc[w] /\ packet' = packet
  BY <1>2 DEF Timeout
<1>3. ASSUME NEW i \in Ids, NEW k \in Kinds, ReadRouting(i, k)
      PROVE  wpc'[w] = wpc[w] /\ w # Reader
  BY <1>3 DEF ReadRouting
<1>4. CASE ReaderStep
  BY <1>4 DEF ReaderStep, Lookup, Receive, Relay
<1>5. ASSUME NEW v \in Workers, ResolveStep(v) PROVE wpc'[w] = wpc[w] /\ packet' = packet
  BY <1>5, ResolveEffect
<1> QED BY <1>1, <1>2, <1>3, <1>4, <1>5 DEF Step

\* Where values in the channels, and closed channels, come from.
LEMMA ChannelMoves ==
    ASSUME TypeInv, PacketInv, Step, NEW i \in Ids
    PROVE  /\ closed \subseteq closed'
           /\ \/ delivered'[i] \in {delivered[i], "empty"}
              \/ \E w \in Workers : SendDelivered(w) /\ Target(w) = i
           /\ \/ repeated'[i] \in {repeated[i], "empty"}
              \/ \E w \in Workers : SendRepeated(w) /\ Target(w) = i
              \/ Relay /\ packet.id = i
<1> USE DEF TypeInv, TypeOK, AckTypes, ackVars
<1>1. ASSUME NEW m \in Messages, SenderStep(m)
      PROVE  /\ closed' = closed
             /\ delivered'[i] \in {delivered[i], "empty"}
             /\ repeated'[i] \in {repeated[i], "empty"}
  BY <1>1 DEF SenderStep, Start, Transmit, TransmitFails, Register, WaitDelivered,
              WaitRepeated, CallerReceives
<1>2. CASE \/ \E j \in Ids : Timeout(j)
           \/ \E j \in Ids, k \in Kinds : ReadRouting(j, k)
           \/ Lookup \/ Receive
  BY <1>2 DEF Timeout, ReadRouting, Lookup, Receive
<1>3. CASE Relay
  BY <1>3 DEF Relay
<1>4. ASSUME NEW w \in Workers, SendDelivered(w) PROVE
             /\ closed' = closed /\ repeated' = repeated
             /\ delivered'[i] = delivered[i] \/ Target(w) = i
  BY <1>4 DEF SendDelivered
<1>5. ASSUME NEW w \in Workers, SendRepeated(w) PROVE
             /\ closed' = closed /\ delivered' = delivered
             /\ repeated'[i] = repeated[i] \/ Target(w) = i
  BY <1>5 DEF SendRepeated
<1>6. ASSUME NEW w \in Workers, ResolveStep(w), ~SendDelivered(w), ~SendRepeated(w)
      PROVE  closed \subseteq closed' /\ UNCHANGED <<delivered, repeated>>
  BY <1>6 DEF ResolveStep, Negative, StopWaiting, CloseDelivered, CloseRepeated, Delete
<1> QED BY <1>1, <1>2, <1>3, <1>4, <1>5, <1>6 DEF Step, ReaderStep

LEMMA FullStep ==
    TypeInv /\ PacketInv /\ FullInv /\ Step => FullInv'
<1> SUFFICES ASSUME TypeInv, PacketInv, FullInv, Step, NEW i \in Ids
             PROVE  /\ delivered'[i] # "empty" /\ <<i, "delivered">> \notin closed'
                        => \E w \in Workers : Target(w)' = i /\ ClosingDelivered(w)'
                    /\ repeated'[i] = "no" /\ <<i, "repeated">> \notin closed'
                        => \E w \in Workers : Target(w)' = i /\ ClosingRepeated(w)'
  BY DEF FullInv
<1> USE DEF TypeInv, TypeOK, AckTypes, Goto
<1>1. ASSUME NEW w \in Workers, ResolveStep(w)
      PROVE  Target(w)' = Target(w)
  BY <1>1, ResolveEffect DEF Target
<1>2. ASSUME delivered'[i] # "empty", <<i, "delivered">> \notin closed'
      PROVE  \E w \in Workers : Target(w)' = i /\ ClosingDelivered(w)'
  <2>1. ASSUME NEW w \in Workers, SendDelivered(w), Target(w) = i
        PROVE  Target(w)' = i /\ ClosingDelivered(w)'
    BY <1>1, <2>1 DEF ResolveStep, SendDelivered, ClosingDelivered
  <2>2. CASE delivered'[i] \in {delivered[i], "empty"}
    <3>1. delivered[i] # "empty" /\ <<i, "delivered">> \notin closed
      BY <1>2, <2>2, ChannelMoves
    <3>2. PICK w \in Workers : Target(w) = i /\ ClosingDelivered(w)
      BY <3>1 DEF FullInv
    <3>3. CASE ~ResolveStep(w)
      BY <3>2, <3>3, CloserStays DEF ClosingDelivered
    <3>4. CASE ResolveStep(w)
      <4>1. SendRepeated(w) \/ StopWaiting(w) \/ CloseDelivered(w)
        BY <3>2, <3>4 DEF ResolveStep, ClosingDelivered, Negative, SendDelivered,
                          CloseRepeated, Delete
      <4>2. ~CloseDelivered(w)
        BY <1>2, <3>2 DEF CloseDelivered
      <4>3. ClosingDelivered(w)'
        BY <4>1, <4>2 DEF SendRepeated, StopWaiting, ClosingDelivered
      <4> QED BY <1>1, <3>2, <3>4, <4>3
    <3> QED BY <3>3, <3>4
  <2> QED BY <2>1, <2>2, ChannelMoves
<1>3. ASSUME repeated'[i] = "no", <<i, "repeated">> \notin closed'
      PROVE  \E w \in Workers : Target(w)' = i /\ ClosingRepeated(w)'
  <2>1. ASSUME NEW w \in Workers, SendRepeated(w), Target(w) = i
        PROVE  Target(w)' = i /\ ClosingRepeated(w)'
    BY <1>1, <2>1 DEF ResolveStep, SendRepeated, ClosingRepeated
  <2>2. ~(Relay /\ packet.id = i)
    BY <1>3 DEF Relay
  <2>3. CASE repeated'[i] \in {repeated[i], "empty"}
    <3>1. repeated[i] = "no" /\ <<i, "repeated">> \notin closed
      BY <1>3, <2>3, ChannelMoves
    <3>2. PICK w \in Workers : Target(w) = i /\ ClosingRepeated(w)
      BY <3>1 DEF FullInv
    <3>3. CASE ~ResolveStep(w)
      BY <3>2, <3>3, CloserStays DEF ClosingRepeated
    <3>4. CASE ResolveStep(w)
      <4>1. StopWaiting(w) \/ CloseDelivered(w) \/ CloseRepeated(w)
        BY <3>2, <3>4 DEF ResolveStep, ClosingRepeated, Negative, SendDelivered,
                          SendRepeated, Delete
      <4>2. ~CloseRepeated(w)
        BY <1>3, <3>2 DEF CloseRepeated
      <4>3. ClosingRepeated(w)'
        BY <4>1, <4>2 DEF StopWaiting, CloseDelivered, ClosingRepeated
      <4> QED BY <1>1, <3>2, <3>4, <4>3
    <3> QED BY <3>3, <3>4
  <2> QED BY <2>1, <2>2, <2>3, ChannelMoves
<1> QED BY <1>2, <1>3

\* What becomes of the timers, the entries and the reader's packet.
LEMMA EntryStep ==
    TypeInv /\ PacketInv /\ EntryInv /\ Step => EntryInv'
<1> SUFFICES ASSUME TypeInv, PacketInv, EntryInv, Step PROVE EntryInv'
  OBVIOUS
<1> USE DEF TypeInv, TypeOK, AckTypes, PacketTypes, Located, Workers, Goto, ackVars, EntryInv
<1>1. ASSUME NEW m \in Messages, SenderStep(m) PROVE EntryInv'
  <2>1. CASE Register(m)
    <3>1. cur[m] \in Ids
      BY <2>1 DEF Register, PacketInv, CurInv, Busy
    <3> QED BY <2>1, <3>1 DEF Register
  <2> QED
    BY <1>1, <2>1 DEF SenderStep, Start, Transmit, TransmitFails, WaitDelivered,
                      WaitRepeated, CallerReceives
<1>2. ASSUME NEW i \in Ids, Timeout(i) PROVE EntryInv'
  BY <1>2 DEF Timeout
<1>3. ASSUME NEW i \in Ids, NEW k \in Kinds, ReadRouting(i, k) PROVE EntryInv'
  BY <1>3 DEF ReadRouting
<1>4. CASE ReaderStep
  BY <1>4 DEF ReaderStep, Lookup, Receive, Relay
<1>5. ASSUME NEW w \in Workers, ResolveStep(w) PROVE EntryInv'
  <2>1. CASE Delete(w)
    BY <2>1 DEF Delete, Target
  <2>2. CASE Negative(w)
    BY <2>2 DEF Negative
  <2> QED
    BY <1>5, <2>1, <2>2 DEF ResolveStep, SendDelivered, SendRepeated, StopWaiting,
                            CloseDelivered, CloseRepeated
<1> QED BY <1>1, <1>2, <1>3, <1>4, <1>5 DEF Step

LEMMA RelayedStep ==
    TypeInv /\ PacketInv /\ EntryInv /\ RelayedInv /\ Step => RelayedInv'
<1> SUFFICES ASSUME TypeInv, PacketInv, EntryInv, RelayedInv, Step,
                    NEW i \in Ids, repeated'[i] = "yes"
             PROVE  /\ wpc'[i] # "idle"
                    /\ i \in acks' => wpc'[Reader] = "delete" /\ packet'.id = i
                    /\ wpc'[Reader] \in {"receive", "relay"} \union Resolving
                            => packet'.id # i
  BY DEF RelayedInv
<1> USE DEF TypeInv, TypeOK, AckTypes, PacketTypes, Located, Workers, Goto, ackVars, Resolving
<1>1. CASE Relay /\ packet.id = i
  BY <1>1 DEF Relay, EntryInv
<1>2. CASE ~(Relay /\ packet.id = i)
  <2>1. /\ repeated[i] = "yes" /\ wpc[i] # "idle"
        /\ i \in acks => wpc[Reader] = "delete" /\ packet.id = i
        /\ wpc[Reader] \in {"receive", "relay"} \union Resolving => packet.id # i
    <3>1. ASSUME NEW w \in Workers, SendRepeated(w), Target(w) = i PROVE FALSE
      BY <3>1 DEF SendRepeated
    <3> QED BY <1>2, <3>1, ChannelMoves DEF RelayedInv
  <2>2. ASSUME NEW m \in Messages, SenderStep(m)
        PROVE  wpc'[i] = wpc[i] /\ wpc'[Reader] = wpc[Reader] /\ packet' = packet
               /\ (i \in acks' => i \in acks)
    <3>1. CASE Register(m)
      <4>1. cur[m] \in Ids /\ cur[m] # i
        BY <2>1, <3>1 DEF Register, PacketInv, CurInv, Busy
      <4> QED BY <3>1, <4>1 DEF Register
    <3> QED
      BY <2>2, <3>1 DEF SenderStep, Start, Transmit, TransmitFails, WaitDelivered,
                        WaitRepeated, CallerReceives
  <2>3. ASSUME NEW j \in Ids, Timeout(j)
        PROVE  /\ wpc'[i] # "idle" /\ wpc'[Reader] = wpc[Reader]
               /\ packet' = packet /\ acks' = acks
    BY <2>1, <2>3 DEF Timeout
  <2>4. ASSUME NEW j \in Ids, NEW k \in Kinds, ReadRouting(j, k)
        PROVE  /\ wpc'[i] = wpc[i] /\ wpc'[Reader] = "lookup"
               /\ i \notin acks'
    BY <2>1, <2>4 DEF ReadRouting
  <2>5. CASE Lookup
    BY <2>1, <2>5 DEF Lookup
  <2>6. CASE Receive
    BY <2>1, <2>6 DEF Receive, Received, Kinds
  <2>7. CASE Relay
    BY <2>1, <2>7 DEF Relay
  <2>8. ASSUME NEW w \in Workers, ResolveStep(w)
        PROVE  /\ wpc'[i] # "idle"
               /\ i \in acks' => wpc'[Reader] = "delete" /\ packet'.id = i
               /\ wpc'[Reader] \in {"receive", "relay"} \union Resolving => packet'.id # i
    <3>1. CASE Delete(w)
      BY <2>1, <3>1 DEF Delete, Target
    <3>2. CASE Negative(w)
      BY <2>1, <3>2 DEF Negative
    <3> QED
      BY <2>1, <2>8, <3>1, <3>2 DEF ResolveStep, SendDelivered, SendRepeated, StopWaiting,
                                    CloseDelivered, CloseRepeated
  <2> QED BY <2>1, <2>2, <2>3, <2>4, <2>5, <2>6, <2>7, <2>8 DEF Step, ReaderStep
<1> QED BY <1>1, <1>2

LEMMA OwedStep ==
    TypeInv /\ PacketInv /\ FilledInv /\ OwedInv /\ Step => OwedInv'
<1> SUFFICES ASSUME TypeInv, PacketInv, FilledInv, OwedInv, Step, NEW n \in Messages,
                    Busy(n)', delivered'[cur'[n]] = "empty"
             PROVE  cur'[n] \in waiting' /\
                    wpc'[cur'[n]] \in {"idle", "sleep", "negative", "delivered"}
  BY DEF OwedInv, Owed
<1> USE DEF TypeInv, TypeOK, AckTypes, SenderTypes, PacketTypes, Workers, Goto
<1>1. ASSUME NEW m \in Messages, Transmit(m), n = m
      PROVE  cur'[n] \in waiting' /\ wpc'[cur'[n]] = "idle"
  <2>1. PICK i \in Ids \ OnAir : cur' = [cur EXCEPT ![m] = i] /\ waiting' = waiting \union {i}
    BY <1>1 DEF Transmit
  <2>2. wpc[i] = "idle" /\ wpc' = wpc
    BY <1>1, <2>1 DEF Transmit, OnAir, PacketInv, AiredInv
  <2> QED BY <1>1, <2>1, <2>2
<1>2. CASE ~(Transmit(n))
  <2>1. Busy(n) /\ cur'[n] = cur[n]
    <3>1. ASSUME NEW m \in Messages, SenderStep(m) PROVE Busy(n) /\ cur'[n] = cur[n]
      <4>1. CASE Transmit(m)
        BY <1>2, <4>1, TransmitEffect DEF Busy
      <4>2. CASE TransmitFails(m) \/ WaitDelivered(m) \/ WaitRepeated(m)
        BY <4>2, SettleEffect DEF Busy
      <4> QED BY <3>1, <4>1, <4>2 DEF SenderStep, Start, Register, CallerReceives, Busy
    <3>2. CASE \A m \in Messages : ~SenderStep(m)
      BY <3>2, SenderIdle DEF senderVars, Busy
    <3> QED BY <3>1, <3>2
  <2> DEFINE i == cur[n]
  <2>2. i \in Ids /\ Filled(i)
    BY <2>1 DEF FilledInv, PacketInv, CurInv
  <2>3. ASSUME NEW w \in Workers, SendDelivered(w), Target(w) = i PROVE FALSE
    BY <2>1, <2>2, <2>3 DEF SendDelivered, Verdict
  <2>4. delivered[i] = "empty"
    <3>1. ASSUME NEW m \in Messages, SenderStep(m) PROVE delivered'[i] = delivered[i]
      <4>1. CASE WaitDelivered(m)
        <5>1. n # m
          BY <4>1, SettleEffect DEF Busy
        <5>2. cur[m] # i /\ cur[m] \in Ids
          BY <2>1, <4>1, <5>1 DEF WaitDelivered, PacketInv, CurInv, Busy
        <5> QED BY <4>1, <5>2 DEF WaitDelivered
      <4> QED BY <3>1, <4>1 DEF SenderStep, Start, Transmit, TransmitFails, Register,
                    WaitRepeated, CallerReceives, ackVars
    <3>2. CASE \A m \in Messages : ~SenderStep(m)
      <4>1. delivered' = delivered \/ \E w \in Workers : SendDelivered(w)
        BY <3>2 DEF Step, Timeout, ReadRouting, ReaderStep, Lookup, Receive, Relay, ResolveStep,
              Negative, SendRepeated, StopWaiting, CloseDelivered, CloseRepeated, Delete, ackVars
      <4>2. ASSUME NEW w \in Workers, SendDelivered(w) PROVE delivered'[i] = delivered[i]
        BY <2>3, <4>2, <2>2 DEF SendDelivered
      <4> QED BY <2>1, <4>1, <4>2
    <3> QED BY <2>1, <3>1, <3>2
  <2>5. i \in waiting /\ wpc[i] \in {"idle", "sleep", "negative", "delivered"}
    BY <2>1, <2>4 DEF OwedInv, Owed
  <2>6. \A w \in Workers : Target(w) = i => ~ClosingDelivered(w) /\ ~ClosingRepeated(w)
    BY <2>2, <2>4 DEF Filled, ClosingDelivered, ClosingRepeated
  <2>7. i \in waiting' /\ wpc'[i] \in {"idle", "sleep", "negative", "delivered"}
    <3>1. ASSUME NEW m \in Messages, SenderStep(m)
          PROVE  /\ i \in waiting' /\ wpc'[i] \in {wpc[i], "sleep"}
      BY <2>2, <2>5, <3>1 DEF SenderStep, Start, Transmit, TransmitFails, Register, WaitDelivered,
                        WaitRepeated, CallerReceives, ackVars
    <3>2. ASSUME NEW j \in Ids, Timeout(j) PROVE i \in waiting' /\ wpc'[i] \in {wpc[i], "negative"}
      BY <2>5, <3>2 DEF Timeout, ackVars
    <3>3. ASSUME NEW j \in Ids, NEW k \in Kinds, ReadRouting(j, k)
          PROVE  i \in waiting' /\ wpc'[i] = wpc[i]
      BY <2>2, <2>5, <3>3 DEF ReadRouting, ackVars
    <3>4. CASE ReaderStep
      BY <2>2, <2>5, <3>4 DEF ReaderStep, Lookup, Receive, Relay, ackVars
    <3>5. ASSUME NEW w \in Workers, ResolveStep(w)
          PROVE  i \in waiting' /\ wpc'[i] \in {"idle", "sleep", "negative", "delivered"}
      <4>1. i \in waiting'
        BY <2>5, <2>6, <3>5 DEF ResolveStep, Negative, SendDelivered, SendRepeated, StopWaiting,
              CloseDelivered, CloseRepeated, Delete, ackVars, ClosingDelivered
      <4>2. CASE w = i
        <5>1. Target(w) = i
          BY <2>2, <4>2 DEF Target
        <5>2. Negative(w) \/ SendDelivered(w)
          BY <2>5, <3>5, <4>2 DEF ResolveStep, SendRepeated, StopWaiting, CloseDelivered,
                                  CloseRepeated, Delete
        <5>3. ~SendDelivered(w)
          BY <2>3, <5>1
        <5>4. wpc' = [wpc EXCEPT ![w] = "delivered"]
          BY <2>5, <5>1, <5>2, <5>3 DEF Negative
        <5> QED BY <2>2, <4>1, <4>2, <5>4
      <4>3. CASE w # i
        BY <4>1, <2>2, <2>5, <3>5, <4>3, ResolveEffect
      <4> QED BY <4>1, <4>2, <4>3
    <3> QED BY <3>1, <3>2, <3>3, <3>4, <3>5, <2>5 DEF Step
  <2> QED BY <2>1, <2>7
<1> QED BY <1>1, <1>2

LEMMA WaitInit == Init => WaitInv
<1> SUFFICES ASSUME Init PROVE WaitInv
  OBVIOUS
<1> QED BY DEF Init, WaitInv, OwedInv, FullInv, EntryInv, RelayedInv, Busy, Workers

LEMMA WaitNext == IInv /\ WaitInv /\ [Next]_vars => WaitInv'
<1> SUFFICES ASSUME IInv, WaitInv, [Next]_vars PROVE WaitInv'
  OBVIOUS
<1>1. CASE Step
  BY <1>1, FullStep, EntryStep, RelayedStep, OwedStep DEF IInv, WaitInv
<1>2. CASE UNCHANGED <<senderVars, ackVars, wpc, packet, historyVars>>
  BY <1>2 DEF WaitInv, OwedInv, Owed, FullInv, EntryInv, RelayedInv, Busy, Target,
              ClosingDelivered, ClosingRepeated, senderVars, ackVars
<1> QED BY <1>1, <1>2, NextCases

\* No step leaves a sender, an entry or a full channel with nobody to see to it.
THEOREM WaitInvariance == Spec => [](IInv /\ WaitInv)
<1>1. Init => IInv /\ WaitInv
  BY InvInit, WaitInit
<1>2. (IInv /\ WaitInv) /\ [Next]_vars => (IInv /\ WaitInv)'
  BY InvNext, WaitNext
<1> QED BY <1>1, <1>2, PTL DEF Spec

\* A sender that waits has its answer, or has a timer that still runs, is not
\* blocked, and will find `waiting' set and the channel free (delivered, timeout).
SendersAreOwed ==
    \A m \in Messages : spc[m] = "wait" =>
        \/ delivered[cur[m]] # "empty"
        \/ /\ cur[m] \in waiting
           /\ wpc[cur[m]] \in {"idle", "sleep", "negative", "delivered"}
           /\ ~Blocked(cur[m])

\* A reader that cannot send waits for a timer that is past its own sends and
\* not blocked itself: they never wait for one another (negative, receive).
ReaderIsFreed ==
    Blocked(Reader) =>
        /\ wpc[packet.id] \in {"repeated", "store", "closeDelivered", "closeRepeated"}
        /\ ~Blocked(packet.id)

\* The reader is at work on an acknowledgement and not blocked.
ReaderBusyWith(i) ==
    packet.id = i /\ wpc[Reader] \in Resolving \union {"delete"} /\ ~Blocked(Reader)

\* An entry in Acks has a timer that has yet to remove it, and if that is
\* blocked, a reader at work on the entry that is not.
EntriesAreOwned ==
    \A i \in acks : wpc[i] \notin {"idle", "done"} /\ (Blocked(i) => ReaderBusyWith(i))

\* A timer that is blocked waits for a reader that is not, or is stuck on the
\* TRUE that a relay left in `repeated' (relay, then timeout of one packet).
TimersAreFreed ==
    \A i \in Ids :
        Blocked(i) => ReaderBusyWith(i) \/ (wpc[i] = "repeated" /\ repeated[i] = "yes")

LEMMA WhoHolds ==
    ASSUME TypeInv, FullInv, EntryInv, RelayedInv, NEW i \in Ids
    PROVE  /\ Blocked(i) => \/ ReaderBusyWith(i)
                            \/ wpc[i] = "repeated" /\ repeated[i] = "yes"
           /\ Blocked(Reader) /\ packet.id = i =>
                 /\ wpc[i] \in {"repeated", "store", "closeDelivered", "closeRepeated"}
                 /\ ~Blocked(i)
<1> USE DEF TypeInv, TypeOK, AckTypes, PacketTypes, Slot
<1>1. Target(i) = i /\ Target(Reader) = packet.id /\ Reader \in Workers /\ i \in Workers
  BY DEF Target, Workers
<1>2. \A w \in Workers : Target(w) = i => w = i \/ (w = Reader /\ packet.id = i)
  BY DEF Target, Workers
<1>3. repeated[i] # "empty" => repeated[i] \in {"yes", "no"}
  OBVIOUS
<1>4. ASSUME wpc[i] = "delivered", Blocked(i) PROVE ReaderBusyWith(i)
  <2>1. packet.id = i /\ ClosingDelivered(Reader)
    BY <1>1, <1>2, <1>4 DEF Blocked, FullInv, ClosingDelivered
  <2>2. ~Blocked(Reader)
    BY <1>1, <1>2, <1>3, <1>4, <2>1
       DEF Blocked, FullInv, ClosingDelivered, ClosingRepeated, RelayedInv, Resolving
  <2> QED BY <2>1, <2>2 DEF ReaderBusyWith, ClosingDelivered, Resolving
<1>5. ASSUME wpc[i] \in {"repeated", "relay"}, Blocked(i), repeated[i] = "no"
      PROVE  ReaderBusyWith(i)
  <2>1. packet.id = i /\ ClosingRepeated(Reader)
    BY <1>1, <1>2, <1>5 DEF Blocked, FullInv, ClosingRepeated
  <2> QED BY <2>1 DEF ReaderBusyWith, ClosingRepeated, Resolving, Blocked
<1>6. ASSUME Blocked(Reader), packet.id = i
      PROVE  /\ wpc[i] \in {"repeated", "store", "closeDelivered", "closeRepeated"}
             /\ ~Blocked(i)
  <2>1. repeated[i] # "yes"
    BY <1>1, <1>6 DEF Blocked, RelayedInv, Resolving
  <2>2. CASE wpc[Reader] = "delivered"
    <3>1. ClosingDelivered(i)
      BY <1>1, <1>2, <1>6, <2>2 DEF Blocked, FullInv, ClosingDelivered
    <3>2. repeated[i] = "no" /\ <<i, "repeated">> \notin closed => ClosingRepeated(i)
      BY <1>2, <2>2 DEF FullInv, ClosingRepeated
    <3> QED BY <1>1, <1>3, <2>1, <3>1, <3>2 DEF Blocked, ClosingDelivered, ClosingRepeated
  <2>3. CASE wpc[Reader] \in {"repeated", "relay"}
    <3>1. ClosingRepeated(i)
      BY <1>1, <1>2, <1>3, <1>6, <2>1, <2>3 DEF Blocked, FullInv, ClosingRepeated
    <3> QED BY <3>1 DEF Blocked, ClosingRepeated
  <2>4. wpc[Reader] \in {"delivered", "repeated", "relay"}
    BY <1>6 DEF Blocked
  <2> QED BY <2>2, <2>3, <2>4
<1>7. wpc[i] # "relay"
  BY DEF EntryInv
<1> QED BY <1>1, <1>3, <1>4, <1>5, <1>6, <1>7 DEF Blocked

\* Where SendersReport rests: until it has its answer a waiting sender has a
\* timer that nothing keeps from giving it one.
THEOREM SendersOwed == Spec => []SendersAreOwed
<1>1. IInv /\ WaitInv => SendersAreOwed
  <2> SUFFICES ASSUME IInv, WaitInv, NEW m \in Messages, spc[m] = "wait",
                      delivered[cur[m]] = "empty"
               PROVE  Owed(cur[m]) /\ ~Blocked(cur[m])
    BY DEF SendersAreOwed, Owed
  <2>1. Owed(cur[m]) /\ cur[m] \in Ids
    BY DEF IInv, WaitInv, OwedInv, PacketInv, CurInv, Busy
  <2>2. Target(cur[m]) = cur[m]
    BY <2>1 DEF Target
  <2> QED BY <2>1, <2>2 DEF Blocked, Owed
<1> QED BY <1>1, WaitInvariance, PTL

\* Where ReaderFree rests: a reader that cannot send waits for a timer that can
\* go on, and the two never wait for one another (receive, negative).
THEOREM ReaderFreed == Spec => []ReaderIsFreed
<1>1. IInv /\ WaitInv => ReaderIsFreed
  <2> SUFFICES ASSUME IInv, WaitInv, Blocked(Reader)
               PROVE  /\ wpc[packet.id] \in
                            {"repeated", "store", "closeDelivered", "closeRepeated"}
                      /\ ~Blocked(packet.id)
    BY DEF ReaderIsFreed
  <2>1. packet.id \in Ids
    BY DEF Blocked, IInv, TypeInv, Located
  <2> QED BY <2>1, WhoHolds DEF IInv, WaitInv
<1> QED BY <1>1, WaitInvariance, PTL

\* Where AcksEmptied rests: whatever is in Acks has a timer that has yet to
\* remove it, and a timer that is blocked has a reader at work that is not.
THEOREM EntriesOwned == Spec => []EntriesAreOwned
<1>1. IInv /\ WaitInv => EntriesAreOwned
  <2> SUFFICES ASSUME IInv, WaitInv, NEW i \in acks
               PROVE  wpc[i] \notin {"idle", "done"} /\ (Blocked(i) => ReaderBusyWith(i))
    BY DEF EntriesAreOwned
  <2>1. i \in Ids /\ wpc[i] \notin {"idle", "done"}
    BY DEF IInv, TypeInv, TypeOK, AckTypes, WaitInv, EntryInv
  <2>2. repeated[i] = "yes" => packet.id = i /\ wpc[Reader] = "delete"
    BY <2>1 DEF WaitInv, RelayedInv
  <2>3. repeated[i] = "yes" => ReaderBusyWith(i)
    BY <2>2 DEF ReaderBusyWith, Blocked
  <2> QED BY <2>1, <2>3, WhoHolds DEF IInv, WaitInv
<1> QED BY <1>1, WaitInvariance, PTL

\* The one way a timer is blocked for good: the TRUE of a relay fills the one
\* place of `repeated', and its sender does not take it (acknowledgement.go:73).
THEOREM TimersFreed == Spec => []TimersAreFreed
<1>1. IInv /\ WaitInv => TimersAreFreed
  BY WhoHolds DEF IInv, WaitInv, TimersAreFreed
<1> QED BY <1>1, WaitInvariance, PTL

-----------------------------------------------------------------------------
(* Refinement: Outgoing implements Delivery                                *)

Progress == [m \in Messages |-> part[m] - 1]
Confirmed == [m \in Messages |-> ConfirmedParts(m)]

LEMMA ContractInit == Init => Contract!Init
<1> SUFFICES ASSUME Init PROVE Contract!Init
  OBVIOUS
<1>1. \A m \in Messages : part[m] - 1 = 0
  <2> SUFFICES ASSUME NEW m \in Messages PROVE part[m] - 1 = 0
    OBVIOUS
  <2>1. part[m] = 1
    BY DEF Init
  <2> QED BY <2>1
<1>2. \A m \in Messages : ConfirmedParts(m) = {}
  BY DEF Init, ConfirmedParts, Confirms
<1> QED BY <1>1, <1>2 DEF Contract!Init, Init

\* Packets and history decide what is confirmed.
LEMMA SameConfirmed ==
    ASSUME UNCHANGED <<owner, heard>> PROVE Confirmed' = Confirmed
  BY DEF Confirmed, ConfirmedParts, Confirms, Confirming, MessageOf

LEMMA ContractSettle ==
    ASSUME IInv, NEW m \in Messages,
           TransmitFails(m) \/ WaitDelivered(m) \/ WaitRepeated(m)
    PROVE  Contract!Next \/ UNCHANGED Contract!vars
<1> USE DEF IInv, TypeInv, TypeOK, SenderTypes
<1>1. Confirmed' = Confirmed
  BY SettleEffect, SameConfirmed
<1>2. /\ part[m] \in Nat \ {0} /\ Parts[m] \in Nat /\ part[m] <= Parts[m]
      /\ result[m] = "none"
  BY DEF TransmitFails, WaitDelivered, WaitRepeated, SenderInv, Told
<1>3. CASE PartDone(m) /\ Busy(m) /\ Confirms(cur[m])
  <2>1. part[m] \in ConfirmedParts(m)
    <3>1. cur[m] \in Ids /\ owner[cur[m]] = <<m, part[m]>>
      BY <1>3 DEF PacketInv, CurInv
    <3>2. part[m] \in 1..Parts[m]
      BY <1>2
    <3> QED BY <1>3, <3>1, <3>2 DEF ConfirmedParts
  <2>2. CASE LastPart(m)
    <3>1. result' = [result EXCEPT ![m] = "yes"] /\ Progress' = Progress
      BY <1>3, <2>2 DEF PartDone, Progress
    <3>2. Contract!Succeed(m)
      BY <1>1, <1>2, <2>1, <2>2, <3>1 DEF Contract!Succeed, LastPart, Progress, Confirmed
    <3> QED BY <3>2 DEF Contract!Next
  <2>3. CASE ~LastPart(m)
    <3>1. result' = result /\ part' = [part EXCEPT ![m] = @ + 1]
      BY <1>3, <2>3 DEF PartDone
    <3>2. Progress' = [Progress EXCEPT ![m] = @ + 1]
      <4>1. part'[m] = part[m] + 1 /\ \A n \in Messages \ {m} : part'[n] = part[n]
        BY <3>1
      <4>2. part'[m] - 1 = (part[m] - 1) + 1
        BY <1>2, <4>1
      <4> QED BY <4>1, <4>2 DEF Progress
    <3>3. Progress[m] + 1 = part[m] /\ part[m] < Parts[m]
      BY <1>2, <2>3 DEF Progress, LastPart
    <3>4. Contract!Advance(m)
      BY <1>1, <1>2, <2>1, <3>1, <3>2, <3>3 DEF Contract!Advance, Progress, Confirmed
    <3> QED BY <3>4 DEF Contract!Next
  <2> QED BY <2>2, <2>3
<1>4. CASE AttemptFailed(m)
  <2>1. Progress' = Progress
    BY <1>4 DEF AttemptFailed, Progress
  <2>2. CASE RetriesLeft(m)
    BY <1>1, <1>4, <2>1, <2>2 DEF AttemptFailed, Contract!vars, Progress, Confirmed
  <2>3. CASE ~RetriesLeft(m)
    <3>1. Contract!GiveUp(m)
      BY <1>1, <1>2, <1>4, <2>1, <2>3 DEF AttemptFailed, Contract!GiveUp, Progress, Confirmed
    <3> QED BY <3>1 DEF Contract!Next
  <2> QED BY <2>2, <2>3
<1> QED BY <1>3, <1>4, SettleCases

LEMMA ContractRouting ==
    ASSUME IInv, NEW i \in Ids, NEW k \in Kinds, ReadRouting(i, k)
    PROVE  Contract!Next \/ UNCHANGED Contract!vars
<1> USE DEF IInv, TypeInv, TypeOK, SenderTypes
<1>1. /\ UNCHANGED <<owner, part, result>>
      /\ heard' = heard \union {<<i, k>>}
      /\ owner[i] # <<>>
  BY DEF ReadRouting, senderVars, OnAir
<1>2. PICK m \in Messages, p \in Nat \ {0} : p <= part[m] /\ owner[i] = <<m, p>>
  BY <1>1 DEF PacketInv, OwnerInv
<1>3. part[m] \in Nat /\ Parts[m] \in Nat /\ part[m] <= Parts[m]
  OBVIOUS
<1>4. p \in 1..Parts[m] /\ MessageOf(i) = m
  BY <1>2, <1>3 DEF MessageOf
<1>5. \A j \in Ids : Confirms(j)' <=> Confirms(j) \/ (j = i /\ k = Confirming(m))
  BY <1>1, <1>4 DEF Confirms, Confirming, MessageOf
<1>6. CASE k = Confirming(m)
  <2>1. ConfirmedParts(m)' = ConfirmedParts(m) \union {p}
    BY <1>1, <1>2, <1>4, <1>5, <1>6 DEF ConfirmedParts
  <2>2. \A n \in Messages \ {m} : ConfirmedParts(n)' = ConfirmedParts(n)
    BY <1>1, <1>2, <1>5 DEF ConfirmedParts
  <2>3. Confirmed' = [Confirmed EXCEPT ![m] = @ \union {p}]
    BY <2>1, <2>2 DEF Confirmed
  <2>4. Progress' = Progress /\ p <= Progress[m] + 1
    BY <1>1, <1>2, <1>3 DEF Progress
  <2>5. Contract!Confirm(m)
    BY <1>1, <1>4, <2>3, <2>4 DEF Contract!Confirm, Progress, Confirmed
  <2> QED BY <2>5 DEF Contract!Next
<1>7. CASE k # Confirming(m)
  <2>1. Confirmed' = Confirmed
    BY <1>1, <1>5, <1>7 DEF Confirmed, ConfirmedParts
  <2> QED BY <1>1, <2>1 DEF Contract!vars, Confirmed
<1> QED BY <1>6, <1>7

LEMMA ContractStep ==
    IInv /\ [Next]_vars => Contract!Next \/ UNCHANGED Contract!vars
<1> SUFFICES ASSUME IInv, [Next]_vars
             PROVE  Contract!Next \/ UNCHANGED Contract!vars
  OBVIOUS
<1>1. ASSUME UNCHANGED <<owner, heard, part, result>>
      PROVE  UNCHANGED Contract!vars
  BY <1>1, SameConfirmed DEF Contract!vars, Confirmed
<1>2. ASSUME NEW m \in Messages, SenderStep(m)
      PROVE  Contract!Next \/ UNCHANGED Contract!vars
  <2>1. CASE Start(m) \/ Register(m) \/ CallerReceives(m)
    BY <1>1, <2>1 DEF Start, Register, CallerReceives, historyVars
  <2>2. CASE Transmit(m)
    <3>1. UNCHANGED <<heard, part, result>>
      BY <2>2 DEF Transmit, historyVars
    <3>2. PICK i \in Ids : /\ owner[i] = <<>>
                           /\ \A j \in Ids \ {i} : owner'[j] = owner[j]
      BY <2>2, TransmitEffect DEF IInv
    <3>3. \A k \in Kinds : <<i, k>> \notin heard
      BY <3>2 DEF IInv, PacketInv, AiredInv
    <3>4. ~Confirms(i) /\ ~Confirms(i)'
      BY <3>1, <3>3 DEF Confirms, Confirming, Kinds
    <3>5. \A j \in Ids \ {i} : Confirms(j)' <=> Confirms(j)
      BY <3>1, <3>2 DEF Confirms, Confirming, MessageOf
    <3>6. \A n \in Messages : ConfirmedParts(n)' = ConfirmedParts(n)
      BY <3>2, <3>4, <3>5 DEF ConfirmedParts
    <3> QED BY <3>1, <3>6 DEF Contract!vars
  <2>3. CASE TransmitFails(m) \/ WaitDelivered(m) \/ WaitRepeated(m)
    BY <2>3, ContractSettle
  <2> QED BY <1>2, <2>1, <2>2, <2>3 DEF SenderStep
<1>3. ASSUME NEW i \in Ids, NEW k \in Kinds, ReadRouting(i, k)
      PROVE  Contract!Next \/ UNCHANGED Contract!vars
  BY <1>3, ContractRouting
<1>4. CASE \/ ReaderStep
           \/ \E i \in Ids : Timeout(i)
           \/ \E w \in Workers : ResolveStep(w)
  BY <1>1, <1>4 DEF ReaderStep, Lookup, Receive, Relay, Timeout, ResolveStep, Negative,
                    SendDelivered, SendRepeated, StopWaiting, CloseDelivered,
                    CloseRepeated, Delete, senderVars, historyVars
<1>5. CASE UNCHANGED <<senderVars, ackVars, wpc, packet, historyVars>>
  BY <1>1, <1>5 DEF senderVars, historyVars
<1> QED BY <1>2, <1>3, <1>4, <1>5, NextCases DEF Step

\* Sending implements the promise of Delivery: parts in order, each only after
\* the one before it was confirmed, and one verdict for the caller.
THEOREM Refinement == Spec => ImplementsDelivery
<1>1. Init => Contract!Init
  BY ContractInit
<1>2. IInv /\ [Next]_vars => [Contract!Next]_(Contract!vars)
  BY ContractStep
<1> QED BY <1>1, <1>2, Invariance, PTL DEF Spec, ImplementsDelivery, Contract!Spec
=============================================================================
