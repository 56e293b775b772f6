-------------------------- MODULE MCClaimLifecycle --------------------------
(* Instances of ClaimLifecycle for TLC: see the README for the bounds.     *)
EXTENDS ClaimLifecycle, TLC

\* Nothing, an odd value, a part of the amount, more than the amount.
MCAmounts     == {2}
MCSentAmounts == {-1, 0, 1, 3}

\* Requests are used once and accounts only compared.
Symmetry == Permutations(Requests) \cup Permutations(Staff)
=============================================================================
