---------------------------- MODULE MCRunEngine ----------------------------
(* A run of two stages, a and b, with the orchestrator o and the agents s1   *)
(* and s2 of up to two steers.                                               *)
EXTENDS RunEngine

CONSTANTS a1, a2, b1, s1, s2, o

TwoThenOne == <<<<a1, a2>>, <<b1>>>>
OneThenOne == <<<<a1>>, <<b1>>>>
JustOne    == <<<<a1>>>>
NoSteers   == <<>>
OneSteer   == <<s1>>
TwoSteers  == <<s1, s2>>
=============================================================================
