----------------------------- MODULE MCAccounts -----------------------------
(* Two accounts of a shop, two requests at a time, a lock at the second    *)
(* wrong password.                                                         *)
EXTENDS Accounts, TLC

Symmetry == Permutations(Handlers)
=============================================================================
