------------------------------- MODULE MCBreak -------------------------------
(* Small instances of Break for TLC. *)
EXTENDS Break, TLC

CONSTANT MaxSize    \* bound: the longest text

Period == 6

\* A pattern of a few bytes over and over, and a letter to end with.
Repeated(pattern, n) ==
    [p \in 1..n |-> IF p = n THEN "letter" ELSE pattern[((p - 1) % Period) + 1]]

\* Texts that are not cut, that are cut once, twice, ..., and too often.
Sizes == 0..1 \union (Limit - 1)..(Limit + MaxLength) \union {MaxSize - 7, MaxSize}

RepeatedTexts ==
    {t \in {Repeated(pattern, n) : pattern \in [1..Period -> Bytes], n \in Sizes} : WellFormed(t)}
=============================================================================
