--------------------------- MODULE MCClaimIntake ---------------------------
(* Two forms of one customer, the first with two photos; two requests.    *)
EXTENDS ClaimIntake, TLC

CONSTANTS k1, k2, phone, a1, a2

MCForm == (k1 :> [phone |-> phone, photos |-> 2]) @@ (k2 :> [phone |-> phone, photos |-> 0])
=============================================================================
