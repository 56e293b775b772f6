----------------------------- MODULE MCScreens -----------------------------
(***************************************************************************)
(* Three claims at two machines, two of them of the same machine.  A claim *)
(* on hold leaves the second filter when it is approved, and comes back    *)
(* into it when it is rejected after all.                                  *)
(***************************************************************************)
EXTENDS Screens

CONSTANTS m1, m2

MCMachineOf == [c \in Claims |-> IF c = 3 THEN m2 ELSE m1]
MCAsked     == [c \in Claims |-> IF c = 1 THEN 2 ELSE 1]
MCFilters   == {Statuses \ {"absent"}, {"on_hold", "rejected"}}
=============================================================================
