---------------------------- MODULE RouteService ----------------------------
(***************************************************************************)
(* What the command /sciezka promises: everyone who asks for a route gets  *)
(* one answer, and is shown a route only if a traceroute packet of his own *)
(* node reached the bot.  Traceroute.tla implements this specification.    *)
(***************************************************************************)
CONSTANTS Commands,   \* the /sciezka messages the bot handles
          Nodes,      \* the nodes of the mesh
          Target      \* the node each command came from, to be traced

VARIABLES answer,     \* what each command was answered with
          seen        \* the nodes a traceroute packet arrived from

vars == <<answer, seen>>

Init ==
    /\ answer = [c \in Commands |-> "none"]
    /\ seen = {}

Hear(n) ==
    /\ seen' = seen \union {n}
    /\ UNCHANGED answer

Answer(c, text) ==
    /\ answer[c] = "none"
    /\ text = "route" => Target[c] \in seen
    /\ answer' = [answer EXCEPT ![c] = text]
    /\ UNCHANGED seen

Next ==
    \/ \E n \in Nodes : Hear(n)
    \/ \E c \in Commands, text \in {"route", "timeout", "error"} : Answer(c, text)

Spec == Init /\ [][Next]_vars
=============================================================================
