--------------------------- MODULE MCRiskHistory ---------------------------
(* Two phones, one account or a card, amounts around the review threshold. *)
EXTENDS RiskHistory, TLC

CONSTANTS p1, p2, acc

MCForms == {[phone |-> p1, account |-> acc,  amount |-> 3],
            [phone |-> p1, account |-> Card, amount |-> 4],
            [phone |-> p2, account |-> acc,  amount |-> 3]}

Symmetry == Permutations(Requests)
=============================================================================
