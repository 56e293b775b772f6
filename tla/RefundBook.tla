----------------------------- MODULE RefundBook -----------------------------
(***************************************************************************)
(* What the claim store promises the owner of a shop: a book with one      *)
(* entry per refund claim.  An entry is opened once for the amount asked,  *)
(* is then decided, and money leaves it at most once, only after an        *)
(* approval and never for more than was asked.  A closed entry never       *)
(* changes again.  Who decides, how many requests race for the decision    *)
(* and what the audit log says are left to ClaimLifecycle, which           *)
(* implements this book.                                                   *)
(***************************************************************************)
EXTENDS Integers

CONSTANTS Claims, Amounts

VARIABLE book   \* claim -> its entry

Stages == {"unopened", "open", "approved", "rejected", "paid"}
Unopened == [stage |-> "unopened", due |-> 0, out |-> 0]

Init == book = [c \in Claims |-> Unopened]

\* A customer asks for `due` back.
Open(c) ==
  /\ book[c] = Unopened
  /\ \E due \in Amounts :
       book' = [book EXCEPT ![c] = [stage |-> "open", due |-> due, out |-> 0]]

\* The owner agrees to refund: nothing has left the account yet.
Approve(c) ==
  /\ book[c].stage = "open"
  /\ book' = [book EXCEPT ![c].stage = "approved"]

\* Refused, before or after an approval: nothing ever leaves the account.
Reject(c) ==
  /\ book[c].stage \in {"open", "approved"}
  /\ book' = [book EXCEPT ![c].stage = "rejected"]

\* The refund is recorded as sent, for at most what was asked.
Pay(c) ==
  /\ book[c].stage = "approved"
  /\ \E out \in 1..book[c].due :
       book' = [book EXCEPT ![c] = [stage |-> "paid", due |-> @.due, out |-> out]]

Next == \E c \in Claims : Open(c) \/ Approve(c) \/ Reject(c) \/ Pay(c)

Spec == Init /\ [][Next]_book
=============================================================================
