------------------------------ MODULE MCWeather ------------------------------
(* Small instances of Weather for TLC. *)
EXTENDS Weather, TLC

CONSTANTS h1, h2, h3

MCAsks ==
    (h1 :> {<<"test", TRUE>>})
        @@ (h2 :> {<<"hopy", FALSE>>})
        @@ (h3 :> {<<"pogoda", FALSE>>, <<"prognoza", TRUE>>})

\* 0 is the equator or the prime meridian, and 1 so close to it that both have
\* one key.
MCRound == (0 :> 0) @@ (1 :> 0) @@ (2 :> 2)
MCBotPlaces == {<<0, 0>>, <<2, 0>>, <<2, 1>>}
MCSenderPlaces == {<<0, 0>>, <<2, 2>>}
=============================================================================
