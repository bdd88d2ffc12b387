------------------------------ MODULE MCFraming ------------------------------
(* Small instances of Framing for TLC: bytes are 0..3. *)
EXTENDS Framing

Start1 == 2
Start2 == 3

\* Empty, short (one whose size ends in START1 and is followed by START2), as
\* long as it gets with a header inside, and too long.
AllSizes ==
    {<<>>, <<Start2, 1>>, <<0, Start2, 1>>, <<0, Start1, Start2, 0, 1>>,
     <<1, 0, Start2, 0, 1, 0, 0>>}
==============================================================================
