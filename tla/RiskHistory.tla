---------------------------- MODULE RiskHistory ----------------------------
(***************************************************************************)
(* How the history of a phone number and an account decides the first      *)
(* status of a new claim: the facts RiskFactsFor collects by four queries  *)
(* (internal/store/query.go), the rules of Evaluate                        *)
(* (internal/domain/risk.go), and the row that is inserted afterwards.     *)
(* Requests race, so a claim may be judged on facts that are no longer     *)
(* true when it is stored; meanwhile the owner pays claims and flags       *)
(* contacts.  The query for the rapid duplicate is ClaimIntake's.          *)
(*                                                                         *)
(* One element of Requests is one submission.  A query that fails ends its *)
(* request: it simply takes no more steps.                                 *)
(***************************************************************************)
EXTENDS Integers, FiniteSets, FiniteSetsExt

CONSTANTS
  Requests,
  Phones, Accounts,
  Card,                  \* "no account": the customer paid by card
  Forms,                 \* what submissions say: a phone, an account, an amount
  ReviewThresholdKRW, RepeatWatchCount, RepeatHoldCount,
  AccountSharingPhones, PayoutCeilingKRW,
  PaidAmounts,           \* amounts owners send
  Window30d,
  MaxNow,                \* bound of the clock
  MaxFlagged             \* bound on contacts flagged at a time

\* The policy's numbers are whatever the environment says (config.go:111-115).
ASSUME PolicyType ==
  /\ {ReviewThresholdKRW, RepeatWatchCount, RepeatHoldCount, AccountSharingPhones,
      PayoutCeilingKRW} \subseteq Int
  /\ {Window30d, MaxNow, MaxFlagged} \subseteq Nat

\* ValidateAmount lets positive amounts pass only.
ASSUME FormsType ==
  /\ PaidAmounts \subseteq Int
  /\ Forms \subseteq [phone : Phones, account : Accounts \cup {Card}, amount : Nat \ {0}]

ASSUME IdentitiesDistinct == Phones \cap Accounts = {} /\ Card \notin Phones \cup Accounts

VARIABLES
  now,     \* the clock
  flag,    \* table contact_flags: identity -> manual_status
  pc,      \* request -> where it stands
  form,    \* request -> the phone, account and amount it came with
  facts,   \* request -> the RiskInput collected so far
  row,     \* request -> the row of claims it has inserted
  saw,     \* request -> earlier rows of its phone or account
  sawPaid, \* request -> those of its phone that had been paid by then
  calm     \* request -> its identities' flags have not changed under it

vars == <<now, flag, pc, form, facts, row, saw, sawPaid, calm>>

-----------------------------------------------------------------------------
(* The rules.                                                              *)

\* A number as a set: x with each of the numbers from 1 to n.  A sum is the
\* cardinality of a union of such sets.
Units(x, n) == {x} \X (1..n)

Contacts == Phones \cup Accounts

Manuals == {"normal", "watch", "blocked"}
Judged  == {"pending", "needs_review", "on_hold"}

rank == [s \in Manuals \cup Judged |->
           CASE s \in {"normal", "pending"}     -> 0
             [] s \in {"watch", "needs_review"} -> 1
             [] OTHER                           -> 2]

NoFacts == [manual |-> "normal", claims |-> 0, paid |-> 0, phones |-> 0]

Hit(code, status, weight) == {[code |-> code, status |-> status, weight |-> weight]}

ruleManual(f) ==
  CASE f.manual = "blocked" -> Hit("manual_block", "on_hold", 60)
    [] f.manual = "watch"   -> Hit("manual_watch", "needs_review", 20)
    [] OTHER                -> {}

\* Fault: "from the n-th claim on" is read as "after n claims".
RepeatTooLate(f) ==
  IF f.claims > RepeatHoldCount THEN Hit("repeat_hold", "on_hold", 50)
  ELSE IF f.claims > RepeatWatchCount THEN Hit("repeat_watch", "needs_review", 25)
  ELSE {}

ruleRepeat(f) ==
  IF f.claims >= RepeatHoldCount THEN Hit("repeat_hold", "on_hold", 50)
  ELSE IF f.claims >= RepeatWatchCount THEN Hit("repeat_watch", "needs_review", 25)
  ELSE {}

ruleAccountSharing(f, o) ==
  IF o.account # Card /\ f.phones >= AccountSharingPhones
    THEN Hit("account_sharing", "needs_review", 30) ELSE {}

\* Fault: the amount now asked for is measured, not what has been paid.
CeilingOfAmount(f, o) ==
  IF o.amount > PayoutCeilingKRW + f.paid
    THEN Hit("payout_ceiling", "needs_review", 20) ELSE {}

rulePayoutCeiling(f, o) ==
  IF f.paid > PayoutCeilingKRW
    THEN Hit("payout_ceiling", "needs_review", 20) ELSE {}

ruleHighAmount(o) ==
  IF o.amount >= ReviewThresholdKRW
    THEN Hit("high_amount", "needs_review", 15) ELSE {}

\* Every rule looks at the facts on its own.
Hits(f, o) == ruleManual(f) \cup ruleRepeat(f) \cup ruleAccountSharing(f, o)
                \cup rulePayoutCeiling(f, o) \cup ruleHighAmount(o)

\* The strongest status wins.
Strongest(hits) ==
  IF hits = {} THEN "pending"
  ELSE (CHOOSE h \in hits : \A g \in hits : rank[g.status] <= rank[h.status]).status

Evaluate(f, o) ==
  LET hits == Hits(f, o) IN
  [status |-> Strongest(hits),
   score  |-> Min({100, Cardinality(UNION {Units(h, h.weight) : h \in hits})})]

-----------------------------------------------------------------------------
(* RiskFactsFor and the insert.                                            *)

NoForm == [phone |-> Card, account |-> Card, amount |-> 0]
NoRow  == [status |-> "absent", score |-> 0, at |-> 0, paid |-> 0]

Stored == {r \in Requests : row[r] # NoRow}
Paid   == {r \in Stored : row[r].paid > 0}

\* Claims of this phone in the thirty days before now.
Recent(p) == {q \in Stored : form[q].phone = p /\ row[q].at >= now - Window30d}

PaidTotal(qs) == Cardinality(UNION {Units(q, row[q].paid) : q \in qs})

\* A submission arrives; the first query counts its phone's claims and sums
\* what they were paid.
CountPhone(r) ==
  /\ pc[r] = "new"
  /\ \E o \in Forms :
       /\ form' = [form EXCEPT ![r] = o]
       /\ saw' = [saw EXCEPT ![r] = {q \in Stored : form[q].phone = o.phone
                                                      \/ form[q].account = o.account}]
       /\ sawPaid' = [sawPaid EXCEPT ![r] = Paid \cap Recent(o.phone)]
       /\ facts' = [facts EXCEPT ![r].claims = Cardinality(Recent(o.phone)) + 1,
                                 ![r].paid = PaidTotal(Recent(o.phone))]
  /\ pc' = [pc EXCEPT ![r] = "counted"]
  /\ UNCHANGED <<now, flag, row, calm>>

\* Other phones that ever used this account.
OtherPhones(o) == {form[q].phone : q \in {q \in Stored : form[q].account = o.account}}
                    \ {o.phone}

\* Fault: the phone that is asking is not counted.
OthersOnly(o) == Cardinality(OtherPhones(o))

AccountDistinctPhones(o) == Cardinality(OtherPhones(o)) + 1

\* Fault: a contact is known by its phone only.
FlagOfPhone(o) == flag[o.phone]

\* strongestContactStatus, over phone and account.
FlagOf(o) ==
  IF o.account # Card /\ rank[flag[o.account]] > rank[flag[o.phone]]
    THEN flag[o.account] ELSE flag[o.phone]

\* Later queries: who shares the account, and what the owner says of both.
LookAround(r) ==
  /\ pc[r] = "counted"
  /\ facts' = [facts EXCEPT ![r].phones = AccountDistinctPhones(form[r]),
                            ![r].manual = FlagOf(form[r])]
  /\ pc' = [pc EXCEPT ![r] = "judged"]
  /\ UNCHANGED <<now, flag, form, row, saw, sawPaid, calm>>

\* CreateClaim stores what Evaluate says, whatever happened meanwhile.
Store(r) ==
  LET risk == Evaluate(facts[r], form[r])
  IN /\ pc[r] = "judged"
     /\ row' = [row EXCEPT ![r] = [status |-> risk.status, score |-> risk.score,
                                   at |-> now, paid |-> 0]]
     /\ pc' = [pc EXCEPT ![r] = "stored"]
     /\ facts' = [facts EXCEPT ![r] = NoFacts]
     /\ calm' = [calm EXCEPT ![r] = TRUE]
     /\ UNCHANGED <<now, flag, form, saw, sawPaid>>

-----------------------------------------------------------------------------
(* The owner, and time.                                                    *)

\* An owner has decided a claim and paid it, in full or in part.
Pay(r, amount) ==
  /\ r \in Stored /\ row[r].paid = 0
  /\ amount \in 1..form[r].amount
  /\ row' = [row EXCEPT ![r].paid = amount]
  /\ UNCHANGED <<now, flag, pc, form, facts, saw, sawPaid, calm>>

\* handleSetContactStatus.
SetContactStatus(i, status) ==
  /\ status # flag[i]
  /\ status # "normal" => Cardinality({j \in Contacts \ {i} : flag[j] # "normal"}) < MaxFlagged
  /\ flag' = [flag EXCEPT ![i] = status]
  /\ calm' = [r \in Requests |->
                calm[r] /\ ~(pc[r] \in {"counted", "judged"}
                             /\ i \in {form[r].phone, form[r].account})]
  /\ UNCHANGED <<now, pc, form, facts, row, saw, sawPaid>>

Tick ==
  /\ now < MaxNow
  /\ now' = now + 1
  /\ UNCHANGED <<flag, pc, form, facts, row, saw, sawPaid, calm>>

Init ==
  /\ now = 0
  /\ flag = [i \in Contacts |-> "normal"]
  /\ pc = [r \in Requests |-> "new"]
  /\ form = [r \in Requests |-> NoForm]
  /\ facts = [r \in Requests |-> NoFacts]
  /\ row = [r \in Requests |-> NoRow]
  /\ saw = [r \in Requests |-> {}]
  /\ sawPaid = [r \in Requests |-> {}]
  /\ calm = [r \in Requests |-> TRUE]

Submit(r) == CountPhone(r) \/ LookAround(r) \/ Store(r)

Next ==
  \/ \E r \in Requests : Submit(r) \/ (\E amount \in PaidAmounts : Pay(r, amount))
  \/ \E i \in Contacts, status \in Manuals : SetContactStatus(i, status)
  \/ Tick

Spec == Init /\ [][Next]_vars

-----------------------------------------------------------------------------
(* What the rules are worth when submissions race.                         *)

\* Tables and facts keep their types; the score is capped and is zero for
\* the claims nothing was found against, and for no others.
TypeOK ==
  /\ now \in 0..MaxNow
  /\ flag \in [Contacts -> Manuals]
  /\ pc \in [Requests -> {"new", "counted", "judged", "stored"}]
  /\ form \in [Requests -> Forms \cup {NoForm}]
  /\ facts \in [Requests -> [manual : Manuals, claims : Nat, paid : Nat, phones : Nat]]
  /\ row \in [Requests -> [status : Judged, score : 0..100, at : 0..MaxNow, paid : Nat]
                            \cup {NoRow}]
  /\ saw \in [Requests -> SUBSET Requests]
  /\ sawPaid \in [Requests -> SUBSET Requests]
  /\ calm \in [Requests -> BOOLEAN]
  /\ \A r \in Stored : row[r].score = 0 <=> row[r].status = "pending"

\* One after the other: the later one counted when the earlier was stored.
Sequential(qs) == \A q, r \in qs : q = r \/ q \in saw[r] \/ r \in saw[q]

WithinWindow(qs) == \A q, r \in qs : row[r].at - row[q].at <= Window30d

\* However its claims are spread over the thirty days, a phone gets fewer
\* than RepeatHoldCount of them past the hold, unless they were in flight
\* together (ruleRepeat).
RepeatersHeld ==
  \A p \in Phones :
    \A qs \in SUBSET {r \in Stored : form[r].phone = p /\ row[r].status # "on_hold"} :
      qs # {} /\ Sequential(qs) /\ WithinWindow(qs) => Cardinality(qs) < RepeatHoldCount

\* Phones that share an account get fewer than AccountSharingPhones claims
\* past the review between them, however long they take, unless the claims
\* were in flight together (ruleAccountSharing).
SharersReviewed ==
  \A a \in Accounts :
    \A qs \in SUBSET {r \in Stored : form[r].account = a /\ row[r].status = "pending"} :
      /\ qs # {} /\ Sequential(qs)
      /\ \A q, r \in qs : q = r \/ form[q].phone # form[r].phone
      => Cardinality(qs) < AccountSharingPhones

\* What a phone is paid within the window on claims that no rule pointed at
\* stays below the ceiling and one more small claim, if each came after the
\* others were paid (rulePayoutCeiling, ruleHighAmount).
UnreviewedPayoutBounded ==
  \A p \in Phones :
    \A qs \in SUBSET {r \in Paid : form[r].phone = p /\ row[r].status = "pending"} :
      /\ qs # {} /\ WithinWindow(qs)
      /\ \A q, r \in qs : q = r \/ q \in sawPaid[r] \/ r \in sawPaid[q]
      => PaidTotal(qs) < PayoutCeilingKRW + ReviewThresholdKRW

\* A flag on the phone or on the account that was there before the request
\* came decides its status: a new phone does not get around a flagged account,
\* nor a new account around a flagged phone (query.go:230-231).
FlaggedNeverSlips ==
  [][\A r \in Requests :
       pc[r] = "judged" /\ pc'[r] = "stored" /\ calm[r] =>
         \A i \in {form[r].phone, form[r].account} \ {Card} :
           rank[row'[r].status] >= rank[flag[i]]]_vars
=============================================================================
