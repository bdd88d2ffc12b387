----------------------------- MODULE MCOutgoing -----------------------------
(* Small instances of Outgoing for TLC. *)
EXTENDS Outgoing, TLC

CONSTANTS m1, m2, i1, i2, i3

OnePart == [m \in Messages |-> 1]
TwoParts == [m \in Messages |-> 2]
IdSymmetry == Permutations(Ids)
=============================================================================
