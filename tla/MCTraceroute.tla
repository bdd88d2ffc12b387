---------------------------- MODULE MCTraceroute ----------------------------
(* Small instances of Traceroute for TLC. *)
EXTENDS Traceroute

CONSTANTS c1, c2, c3, n1, n2, i1, i2

\* c1 and c2 come from one node, c3 from another.
MCTarget == [c \in Commands |-> IF c = c3 THEN n2 ELSE n1]
=============================================================================
