------------------------------- MODULE MCShop -------------------------------
(* Two requests at a time; one machine, renamed by some and switched off by *)
(* others; two people sign up.                                              *)
EXTENDS Shop, TLC

CONSTANTS r1, r2, kim, lee, claw1, front, back

MCPatches == {[label |-> back, active |-> Nothing], [label |-> Nothing, active |-> FALSE]}

MCLimit == [g \in Gates |-> IF g = "signup" THEN 2 ELSE 1]
MCSpan  == [g \in Gates |-> IF g = "signup" THEN 2 ELSE 1]
=============================================================================
