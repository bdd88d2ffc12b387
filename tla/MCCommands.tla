------------------------------ MODULE MCCommands ------------------------------
(* Small instances of Commands for TLC. *)
EXTENDS Commands, TLC

AllWords == UNION {EnabledAliases[c] : c \in Names} \union {"HELLO", "/HELLO"}

NumSymmetry == Permutations(Nums)

\* Bounds: the text arrives before anything is told of hop counts, which no
\* handler reads, and they stay as they are until it is answered.
Idle == \A t \in Texts : hpc[t] = "unsent"
Fresh == hops = [o \in Objects |-> 0] /\ recent = {} /\ told = [n \in Nums |-> "silent"]
Answered == \A t \in Texts : hpc[t] = "done"

MCNext ==
    /\ ~dead
    /\ \/ Fresh /\ Arrives
       \/ Idle /\ Registers
       \/ ~Answered /\ Registers /\ UNCHANGED <<hops, recent, told>>
       \/ ~Answered /\ (ReaderPanics \/ \E i \in Indexes : ChannelInfo(i))
       \/ \E t \in Texts : Incoming(t) \/ Transmit(t)

MCSpec == Init /\ [][MCNext]_vars
=============================================================================
