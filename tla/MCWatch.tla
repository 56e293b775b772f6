------------------------------ MODULE MCWatch ------------------------------
(* Two machines of two shops, or one of one; a process whose date is a     *)
(* tick ahead of the Korean one.                                           *)
EXTENDS Watch, TLC

CONSTANTS m1, m2, s1, s2

Swap == (m1 :> m2) @@ (m2 :> m1) @@ (s1 :> s2) @@ (s2 :> s1)
Symmetry == {Swap}

MCStoreOf == (m1 :> s1) @@ (m2 :> s2)
MCStoreOfOne == m1 :> s1
=============================================================================
