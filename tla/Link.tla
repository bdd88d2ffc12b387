-------------------------------- MODULE Link --------------------------------
(***************************************************************************)
(* What a connection to a device promises: there is one after another,     *)
(* each is opened only after the one before it was lost, and the bot gives *)
(* up only if it gets none at all.  Connection.tla implements this.        *)
(***************************************************************************)
EXTENDS Naturals

VARIABLES phase,      \* what the bot does about the connection
          opened      \* how many it had so far

vars == <<phase, opened>>

Init ==
    /\ phase = "seeking"
    /\ opened = 0

Open ==
    /\ phase = "seeking"
    /\ phase' = "settling"
    /\ opened' = opened + 1

Settle ==
    /\ phase = "settling"
    /\ phase' = "held"
    /\ UNCHANGED opened

Lose ==
    /\ phase = "held"
    /\ phase' = "lost"
    /\ UNCHANGED opened

Seek ==
    /\ phase = "lost"
    /\ phase' = "seeking"
    /\ UNCHANGED opened

GiveUp ==
    /\ phase = "seeking"
    /\ opened = 0
    /\ phase' = "over"
    /\ UNCHANGED opened

Next == Open \/ Settle \/ Lose \/ Seek \/ GiveUp

Spec == Init /\ [][Next]_vars
=============================================================================
