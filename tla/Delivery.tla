------------------------------ MODULE Delivery ------------------------------
(***************************************************************************)
(* What sending a message promises its caller, without channels, timers or *)
(* goroutines.  A message is cut into parts that go out in order; a part   *)
(* is confirmed when the mesh answers for it, by the recipient for a       *)
(* private message and by any repeater for a channel message; the caller   *)
(* is told TRUE only when every part was confirmed, and once at most.      *)
(* Outgoing.tla implements this specification.                             *)
(***************************************************************************)
EXTENDS Naturals

CONSTANTS Messages,   \* the messages handed to Send or SendReliably
          Parts       \* the number of parts BreakMessage cuts each one into

VARIABLES outcome,    \* what the caller of each message has been told
          progress,   \* how many parts of each message are behind the sender
          confirmed   \* the parts of each message the mesh answered for

vars == <<outcome, progress, confirmed>>

Init ==
    /\ outcome = [m \in Messages |-> "none"]
    /\ progress = [m \in Messages |-> 0]
    /\ confirmed = [m \in Messages |-> {}]

\* The mesh answers for a part that is out, or for an older one again.
Confirm(m) ==
    /\ \E p \in 1..Parts[m] :
        /\ p <= progress[m] + 1
        /\ confirmed' = [confirmed EXCEPT ![m] = @ \union {p}]
    /\ UNCHANGED <<outcome, progress>>

\* The sender moves on to the next part, which only a confirmation allows.
Advance(m) ==
    /\ outcome[m] = "none"
    /\ progress[m] + 1 < Parts[m]
    /\ progress[m] + 1 \in confirmed[m]
    /\ progress' = [progress EXCEPT ![m] = @ + 1]
    /\ UNCHANGED <<outcome, confirmed>>

\* The last part is confirmed: the caller is told the message arrived.
Succeed(m) ==
    /\ outcome[m] = "none"
    /\ progress[m] + 1 = Parts[m]
    /\ Parts[m] \in confirmed[m]
    /\ outcome' = [outcome EXCEPT ![m] = "yes"]
    /\ UNCHANGED <<progress, confirmed>>

\* The sender gives up on the part it is at.
GiveUp(m) ==
    /\ outcome[m] = "none"
    /\ outcome' = [outcome EXCEPT ![m] = "no"]
    /\ UNCHANGED <<progress, confirmed>>

Next ==
    \E m \in Messages : Confirm(m) \/ Advance(m) \/ Succeed(m) \/ GiveUp(m)

Spec == Init /\ [][Next]_vars
=============================================================================
