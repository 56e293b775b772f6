-------------------------- MODULE RiskHistory_proofs --------------------------
(***************************************************************************)
(* What TLAPS proves of RiskHistory, for any phones, accounts, requests    *)
(* and thresholds: no flag is passed, and the three rules about a history  *)
(* hold back what they are meant to hold back.                             *)
(*                                                                         *)
(* The argument for the flags.  Between the query for the flags and the    *)
(* insert a request keeps the stronger of the flags of its phone and its   *)
(* account, unless the owner changes one of them (calm); ruleManual gives  *)
(* that flag the status of its rank; and Strongest takes no weaker one     *)
(* than any rule's, since statuses have only two ranks above "pending" and *)
(* a set of hits therefore has a strongest one.                            *)
(*                                                                         *)
(* The argument for the histories.  A group of claims each of which was    *)
(* counted after the others is completed by the one that came last, since  *)
(* nobody has counted a claim that is not stored (or paid) yet.  What that *)
(* one found in the tables contains the rest of the group: its facts are   *)
(* at least as large as the group without it, and stay so until it is      *)
(* judged, because rows keep their phones, accounts, times and payments.   *)
(***************************************************************************)
EXTENDS RiskHistory, FiniteSetTheorems, TLAPS

Typed ==
  /\ flag \in [Contacts -> Manuals]
  /\ pc \in [Requests -> {"new", "counted", "judged", "stored"}]
  /\ form \in [Requests -> Forms \cup {NoForm}]
  /\ \A r \in Requests : pc[r] # "new" => form[r] \in Forms
  /\ DOMAIN facts = Requests
  /\ \A r \in Requests :
       DOMAIN facts[r] = {"manual", "claims", "paid", "phones"} /\ facts[r].manual \in Manuals
  /\ DOMAIN row = Requests /\ DOMAIN calm = Requests

\* The identities a submission is made with.
Identities(o) == {o.phone, o.account} \ {Card}

\* A calm request has found a flag as strong as either of its identities'.
FlagInv(r) ==
  pc[r] = "judged" /\ calm[r] =>
    \A i \in Identities(form[r]) : rank[facts[r].manual] >= rank[flag[i]]

IInv == Typed /\ \A r \in Requests : FlagInv(r)

\* Rows a request found: of its phone from some time on, and of its account.
SeenOfPhone(r, t) == {q \in saw[r] : form[q].phone = form[r].phone /\ row[q].at >= t - Window30d}
SeenOfAccount(r)  == {q \in saw[r] : form[q].account = form[r].account}
SeenPhones(r)     == {form[q].phone : q \in SeenOfAccount(r)} \ {form[r].phone}

\* What a request knows of the history, and what is kept of it when it is stored.
SeenInv(r) ==
  /\ saw[r] \subseteq Stored /\ sawPaid[r] \subseteq Paid
  /\ r \in Stored <=> pc[r] = "stored"
  /\ pc[r] # "new" => form[r] \in Forms
  /\ r \in Stored => row[r].paid <= form[r].amount
  /\ pc[r] \in {"counted", "judged"} =>
       /\ \E t \in 0..now : facts[r].claims = Cardinality(SeenOfPhone(r, t)) + 1
       /\ facts[r].paid = PaidTotal(sawPaid[r])
  /\ pc[r] = "judged" => facts[r].phones >= Cardinality(SeenPhones(r)) + 1
  /\ r \in Stored /\ row[r].status = "pending" =>
       /\ PaidTotal(sawPaid[r]) <= PayoutCeilingKRW
       /\ form[r].amount < ReviewThresholdKRW

SeenAll == \A r \in Requests : SeenInv(r)

HistoryInv == TypeOK /\ IsFiniteSet(Stored) /\ SeenAll

-----------------------------------------------------------------------------
(* The rules.                                                              *)

LEMMA Ranks ==
  /\ rank["normal"] = 0 /\ rank["pending"] = 0
  /\ rank["watch"] = 1 /\ rank["needs_review"] = 1
  /\ rank["blocked"] = 2 /\ rank["on_hold"] = 2
BY DEF rank, Manuals, Judged

LEMMA RankType == \A s \in Manuals \cup Judged : rank[s] \in 0..2
BY Ranks DEF Manuals, Judged

\* A submission's identities are contacts, the phone always among them.
LEMMA IdentitiesAreContacts ==
  ASSUME NEW o \in Forms
  PROVE  /\ o.phone \in Phones /\ o.account \in Accounts \cup {Card}
         /\ Identities(o) \subseteq Contacts
         /\ Identities(o) = IF o.account = Card THEN {o.phone} ELSE {o.phone, o.account}
BY FormsType, IdentitiesDistinct DEF Identities, Contacts

LEMMA HitsAreJudged ==
  ASSUME NEW f, NEW o, NEW h \in Hits(f, o) PROVE h.status \in {"needs_review", "on_hold"}
BY DEF Hits, Hit, ruleManual, ruleRepeat, ruleAccountSharing, rulePayoutCeiling, ruleHighAmount

\* The strongest status is as strong as any hit's.
LEMMA StrongestIs ==
  ASSUME NEW hits, hits # {}, \A h \in hits : h.status \in {"needs_review", "on_hold"}
  PROVE  /\ Strongest(hits) \in Judged
         /\ \A h \in hits : rank[Strongest(hits)] >= rank[h.status]
<1> DEFINE Top(h) == \A g \in hits : rank[g.status] <= rank[h.status]
<1>1. \A h \in hits : rank[h.status] \in {1, 2} /\ rank[h.status] \in Int
  BY Ranks
<1>2. \E h \in hits : Top(h)
  <2>1. CASE \E h \in hits : rank[h.status] = 2
    BY <1>1, <2>1
  <2>2. CASE \A h \in hits : rank[h.status] = 1
    BY <1>1, <2>2
  <2> QED
    BY <1>1, <2>1, <2>2
<1> DEFINE top == CHOOSE h \in hits : Top(h)
<1>3. top \in hits /\ Top(top)
  <2> HIDE DEF Top
  <2> QED
    BY <1>2, Zenon
<1>4. Strongest(hits) = top.status
  BY Zenon DEF Strongest
<1> HIDE DEF top
<1>5. \A g \in hits : rank[g.status] <= rank[top.status]
  BY <1>3
<1> QED
  BY <1>1, <1>3, <1>4, <1>5 DEF Judged

\* A claim's status is as strong as the flag that was found.
LEMMA ManualDecides ==
  ASSUME NEW f, NEW o, f.manual \in Manuals
  PROVE  /\ Evaluate(f, o).status \in Judged
         /\ rank[Evaluate(f, o).status] >= rank[f.manual]
<1> DEFINE hits == Hits(f, o)
<1>1. Evaluate(f, o).status = Strongest(hits)
  BY Zenon DEF Evaluate
<1>2. \A h \in hits : h.status \in {"needs_review", "on_hold"}
  BY HitsAreJudged
<1>3. ruleManual(f) \subseteq hits
  BY DEF Hits
<1> HIDE DEF hits
<1>4. CASE hits = {}
  <2>1. Strongest(hits) = "pending"
    BY <1>4 DEF Strongest
  <2>2. f.manual = "normal"
    BY <1>3, <1>4 DEF ruleManual, Hit, Manuals
  <2> QED
    BY <1>1, <2>1, <2>2, Ranks DEF Judged
<1>5. CASE hits # {}
  <2>1. Strongest(hits) \in Judged /\ \A h \in hits : rank[Strongest(hits)] >= rank[h.status]
    BY <1>2, <1>5, StrongestIs
  <2>2. CASE f.manual = "normal"
    BY <1>1, <2>1, <2>2, Ranks, RankType
  <2>3. CASE f.manual = "watch"
    <3>1. \E h \in hits : h.status = "needs_review"
      BY <1>3, <2>3 DEF ruleManual, Hit
    <3> QED
      BY <1>1, <2>1, <2>3, <3>1, Ranks
  <2>4. CASE f.manual = "blocked"
    <3>1. \E h \in hits : h.status = "on_hold"
      BY <1>3, <2>4 DEF ruleManual, Hit
    <3> QED
      BY <1>1, <2>1, <2>4, <3>1, Ranks
  <2> QED
    BY <2>2, <2>3, <2>4 DEF Manuals
<1> QED
  BY <1>4, <1>5

\* FlagOf is as strong as the flag of either identity.
LEMMA FlagOfIs ==
  ASSUME Typed, NEW o \in Forms
  PROVE  FlagOf(o) \in Manuals /\ \A i \in Identities(o) : rank[FlagOf(o)] >= rank[flag[i]]
<1>1. /\ o.phone \in Contacts /\ flag[o.phone] \in Manuals
      /\ o.account # Card => flag[o.account] \in Manuals
      /\ Identities(o) = IF o.account = Card THEN {o.phone} ELSE {o.phone, o.account}
  BY IdentitiesAreContacts DEF Typed, Contacts
<1>2. \A s \in Manuals : rank[s] \in Int
  BY RankType
<1> QED
  BY <1>1, <1>2 DEF FlagOf

-----------------------------------------------------------------------------
(* Sums.                                                                   *)

LEMMA UnitsSize ==
  ASSUME NEW x, NEW n \in Nat
  PROVE  IsFiniteSet(Units(x, n)) /\ Cardinality(Units(x, n)) = n
<1>1. IsFiniteSet({x}) /\ Cardinality({x}) = 1
  BY FS_Singleton
<1>2. IsFiniteSet(1..n) /\ Cardinality(1..n) = n
  BY FS_Interval
<1>3. IsFiniteSet({x} \X (1..n)) /\ Cardinality({x} \X (1..n)) = Cardinality({x}) * Cardinality(1..n)
  BY <1>1, <1>2, FS_Product
<1> QED
  BY <1>1, <1>2, <1>3 DEF Units

\* A sum of finitely many numbers is a number.
LEMMA FiniteSum ==
  ASSUME NEW S, IsFiniteSet(S), NEW n \in [S -> Nat]
  PROVE  /\ IsFiniteSet(UNION {Units(x, n[x]) : x \in S})
         /\ Cardinality(UNION {Units(x, n[x]) : x \in S}) \in Nat
<1> DEFINE T == {Units(x, n[x]) : x \in S}
           f == [x \in S |-> Units(x, n[x])]
<1>1. f \in Surjection(S, T)
  BY DEF Surjection
<1>2. \A U \in T : IsFiniteSet(U)
  BY UnitsSize
<1> HIDE DEF T, f
<1>3. IsFiniteSet(T)
  BY <1>1, FS_Surjection
<1>4. IsFiniteSet(UNION T)
  BY <1>2, <1>3, FS_UNION
<1>5. Cardinality(UNION T) \in Nat
  BY <1>4, FS_CardinalityType
<1> QED
  BY <1>4, <1>5 DEF T

\* The won that were sent for some claims.
Won(qs) == UNION {Units(q, row[q].paid) : q \in qs}

LEMMA WonFinite ==
  ASSUME NEW qs, IsFiniteSet(qs), \A q \in qs : row[q].paid \in Nat
  PROVE  IsFiniteSet(Won(qs)) /\ PaidTotal(qs) \in Nat /\ PaidTotal(qs) = Cardinality(Won(qs))
<1> DEFINE n == [q \in qs |-> row[q].paid]
<1>1. n \in [qs -> Nat]
  OBVIOUS
<1>2. Won(qs) = UNION {Units(q, n[q]) : q \in qs}
  BY DEF Won
<1> HIDE DEF n
<1>3. /\ IsFiniteSet(UNION {Units(q, n[q]) : q \in qs})
      /\ Cardinality(UNION {Units(q, n[q]) : q \in qs}) \in Nat
  BY <1>1, FiniteSum
<1>4. IsFiniteSet(Won(qs)) /\ Cardinality(Won(qs)) \in Nat
  BY <1>2, <1>3
<1> QED
  BY <1>4 DEF PaidTotal, Won

LEMMA PaidGrows ==
  ASSUME NEW qs, IsFiniteSet(qs), \A q \in qs : row[q].paid \in Nat, NEW ps \in SUBSET qs
  PROVE  PaidTotal(ps) <= PaidTotal(qs)
<1>1. Won(ps) \in SUBSET Won(qs)
  BY DEF Won
<1>2. IsFiniteSet(Won(qs))
  BY WonFinite
<1>3. Cardinality(Won(ps)) <= Cardinality(Won(qs))
  BY <1>1, <1>2, FS_Subset
<1> QED
  BY <1>3 DEF PaidTotal, Won

\* A sum with one of its numbers taken out.
LEMMA OneMoreOfSum ==
  ASSUME NEW S, IsFiniteSet(S), NEW n \in [S -> Nat], NEW r \in S
  PROVE  Cardinality(UNION {Units(x, n[x]) : x \in S})
           = Cardinality(UNION {Units(x, n[x]) : x \in S \ {r}}) + n[r]
<1> DEFINE W == UNION {Units(x, n[x]) : x \in S}
           U == Units(r, n[r])
           V == UNION {Units(x, n[x]) : x \in S \ {r}}
<1>1. W = V \cup U
  OBVIOUS
<1>2. V \cap U = {}
  BY DEF Units
<1>3. IsFiniteSet(W)
  BY FiniteSum
<1>4. IsFiniteSet(U) /\ Cardinality(U) = n[r] /\ n[r] \in Nat
  BY UnitsSize
<1> HIDE DEF W, U, V
<1>5. IsFiniteSet(V) /\ Cardinality(V) \in Nat
  BY <1>1, <1>3, FS_Subset, FS_CardinalityType
<1>6. Cardinality(V \cup U) = Cardinality(V) + Cardinality(U) - Cardinality(V \cap U)
  BY <1>4, <1>5, FS_Union
<1>7. Cardinality(V \cap U) = 0
  BY <1>2, FS_EmptySet
<1>8. Cardinality(W) = Cardinality(V) + n[r]
  BY <1>1, <1>4, <1>5, <1>6, <1>7
<1> QED
  BY <1>8 DEF W, V

-----------------------------------------------------------------------------
(* What the rules do with the facts.                                       *)

\* A claim that nothing was found against.
LEMMA PendingMeans ==
  ASSUME NEW f, NEW o, Evaluate(f, o).status = "pending"
  PROVE  Hits(f, o) = {}
<1> SUFFICES ASSUME Hits(f, o) # {} PROVE FALSE
  OBVIOUS
<1> DEFINE hits == Hits(f, o)
<1>1. Strongest(hits) = "pending"
  BY Zenon DEF Evaluate
<1>2. \A h \in hits : h.status \in {"needs_review", "on_hold"}
  BY HitsAreJudged
<1> HIDE DEF hits
<1>3. hits # {}
  BY DEF hits
<1>4. \A h \in hits : rank[Strongest(hits)] >= rank[h.status]
  BY <1>2, <1>3, StrongestIs
<1> QED
  BY <1>1, <1>2, <1>3, <1>4, Ranks

\* From the RepeatHoldCount-th claim on a claim is held.
LEMMA RepeatDecides ==
  ASSUME NEW f, NEW o, f.claims \in Int, f.claims >= RepeatHoldCount
  PROVE  Evaluate(f, o).status = "on_hold"
<1> DEFINE hits == Hits(f, o)
<1>1. Evaluate(f, o).status = Strongest(hits)
  BY Zenon DEF Evaluate
<1>2. \A h \in hits : h.status \in {"needs_review", "on_hold"}
  BY HitsAreJudged
<1>3. \E h \in hits : h.status = "on_hold"
  <2>1. ruleRepeat(f) = {[code |-> "repeat_hold", status |-> "on_hold", weight |-> 50]}
    BY DEF ruleRepeat, Hit
  <2>2. ruleRepeat(f) \subseteq hits
    BY DEF Hits
  <2> HIDE DEF hits
  <2> QED
    BY <2>1, <2>2
<1>4. /\ Strongest(hits) \in Judged
      /\ \A h \in hits : rank[Strongest(hits)] >= rank[h.status]
  BY <1>2, <1>3, StrongestIs
<1> QED
  BY <1>1, <1>3, <1>4, Ranks DEF Judged

\* What it means that no rule pointed at a claim.
LEMMA NothingFound ==
  ASSUME NEW f, NEW o, Hits(f, o) = {}
  PROVE  /\ o.account # Card => ~(f.phones >= AccountSharingPhones)
         /\ ~(f.paid > PayoutCeilingKRW)
         /\ ~(o.amount >= ReviewThresholdKRW)
BY DEF Hits, Hit, ruleAccountSharing, rulePayoutCeiling, ruleHighAmount

\* The score is capped, and zero for the claims nothing was found against.
LEMMA ScoreIs ==
  ASSUME NEW f, NEW o
  PROVE  /\ Evaluate(f, o).score \in 0..100
         /\ Evaluate(f, o).score = 0 <=> Evaluate(f, o).status = "pending"
<1> DEFINE hits == Hits(f, o)
           points == UNION {Units(h, h.weight) : h \in hits}
<1>1. IsFiniteSet(hits) /\ \A h \in hits : h.weight \in Nat \ {0}
  <2>1. /\ IsFiniteSet(ruleManual(f)) /\ IsFiniteSet(ruleRepeat(f))
        /\ IsFiniteSet(ruleAccountSharing(f, o))
        /\ IsFiniteSet(rulePayoutCeiling(f, o)) /\ IsFiniteSet(ruleHighAmount(o))
    <3>1. \A c, s, w : IsFiniteSet(Hit(c, s, w))
      BY FS_Singleton DEF Hit
    <3>2. IsFiniteSet({})
      BY FS_EmptySet
    <3> QED
      BY <3>1, <3>2 DEF ruleManual, ruleRepeat, ruleAccountSharing, rulePayoutCeiling, ruleHighAmount
  <2>2. IsFiniteSet(hits)
    BY <2>1, FS_Union DEF Hits
  <2>3. \A h \in hits : h.weight \in Nat \ {0}
    BY DEF Hits, Hit, ruleManual, ruleRepeat, ruleAccountSharing, rulePayoutCeiling, ruleHighAmount
  <2> QED
    BY <2>2, <2>3
<1>2. Cardinality(points) \in Nat /\ (Cardinality(points) = 0 <=> hits = {})
  <2> DEFINE n == [h \in hits |-> h.weight]
  <2>1. n \in [hits -> Nat]
    BY <1>1
  <2>2. points = UNION {Units(h, n[h]) : h \in hits}
    OBVIOUS
  <2>3. points = {} <=> hits = {}
    <3>1. ASSUME NEW h \in hits PROVE <<h, 1>> \in Units(h, h.weight)
      BY <1>1 DEF Units
    <3> QED
      BY <3>1
  <2> HIDE DEF hits, n, points
  <2>4. IsFiniteSet(points) /\ Cardinality(points) \in Nat
    BY <1>1, <2>1, <2>2, FiniteSum
  <2> QED
    BY <2>3, <2>4, FS_EmptySet
<1>3. hits = {} <=> Evaluate(f, o).status = "pending"
  <2>1. hits = {} => Evaluate(f, o).status = "pending"
    BY Zenon DEF Evaluate, Strongest
  <2> QED
    BY <2>1, PendingMeans
<1>4. Evaluate(f, o).score = Min({100, Cardinality(points)})
  BY Zenon DEF Evaluate
<1> HIDE DEF hits, points
<1>5. ASSUME NEW k \in Nat PROVE Min({100, k}) = IF k <= 100 THEN k ELSE 100
  BY DEF Min
<1> QED
  BY <1>2, <1>3, <1>4, <1>5

-----------------------------------------------------------------------------
(* The histories: what requests found, and what became of it.             *)

Rows == [status : Judged, score : 0..100, at : 0..MaxNow, paid : Nat]

LEMMA RowTypes ==
  ASSUME TypeOK
  PROVE  /\ \A r \in Stored : row[r] \in Rows
         /\ \A r \in Requests : row[r].paid \in Nat /\ row[r].at \in Nat
         /\ \A r \in Requests \ Stored : row[r] = NoRow
<1>1. \A r \in Requests : row[r] \in Rows \cup {NoRow}
  BY DEF TypeOK, Rows
<1>2. MaxNow \in Nat
  BY PolicyType
<1> QED
  BY <1>1, <1>2 DEF Stored, Rows, NoRow

\* Other phones of an account are finitely many.
LEMMA PhonesFinite ==
  ASSUME NEW S, IsFiniteSet(S), NEW p
  PROVE  /\ IsFiniteSet({form[q].phone : q \in S} \ {p})
         /\ Cardinality({form[q].phone : q \in S} \ {p}) \in Nat
<1> DEFINE T == {form[q].phone : q \in S}
           f == [q \in S |-> form[q].phone]
<1>1. f \in Surjection(S, T)
  BY DEF Surjection
<1> HIDE DEF T, f
<1>2. IsFiniteSet(T)
  BY <1>1, FS_Surjection
<1>3. IsFiniteSet(T \ {p}) /\ Cardinality(T \ {p}) \in Nat
  BY <1>2, FS_Subset, FS_CardinalityType
<1> QED
  BY <1>3 DEF T

LEMMA FoundSizes ==
  ASSUME TypeOK, IsFiniteSet(Stored)
  PROVE  /\ \A S \in SUBSET Stored :
              IsFiniteSet(S) /\ Cardinality(S) \in Nat /\ PaidTotal(S) \in Nat
         /\ \A o : /\ IsFiniteSet(OtherPhones(o))
                   /\ Cardinality(OtherPhones(o)) \in Nat
<1>1. \A S \in SUBSET Stored : IsFiniteSet(S) /\ Cardinality(S) \in Nat
  BY FS_Subset, FS_CardinalityType
<1>2. ASSUME NEW S \in SUBSET Stored PROVE PaidTotal(S) \in Nat
  BY <1>1, RowTypes, WonFinite DEF Stored
<1>3. ASSUME NEW o PROVE /\ IsFiniteSet(OtherPhones(o))
                         /\ Cardinality(OtherPhones(o)) \in Nat
  <2> DEFINE S == {q \in Stored : form[q].account = o.account}
  <2>1. IsFiniteSet(S)
    BY <1>1
  <2> HIDE DEF S
  <2>2. /\ IsFiniteSet({form[q].phone : q \in S} \ {o.phone})
        /\ Cardinality({form[q].phone : q \in S} \ {o.phone}) \in Nat
    BY <2>1, PhonesFinite
  <2> QED
    BY <2>2 DEF OtherPhones, S
<1> QED
  BY <1>1, <1>2, <1>3

LEMMA TypeKeeps ==
  ASSUME TypeOK, IsFiniteSet(Stored), [Next]_vars,
         \A r \in Requests : pc[r] # "new" => form[r] \in Forms
  PROVE  TypeOK'
<1>1. ASSUME NEW r \in Requests, CountPhone(r) PROVE TypeOK'
  <2>1. PICK o \in Forms :
          /\ form' = [form EXCEPT ![r] = o]
          /\ saw' = [saw EXCEPT ![r] = {q \in Stored : form[q].phone = o.phone
                                                         \/ form[q].account = o.account}]
          /\ sawPaid' = [sawPaid EXCEPT ![r] = Paid \cap Recent(o.phone)]
          /\ facts' = [facts EXCEPT ![r].claims = Cardinality(Recent(o.phone)) + 1,
                                    ![r].paid = PaidTotal(Recent(o.phone))]
    BY <1>1 DEF CountPhone
  <2>2. pc' = [pc EXCEPT ![r] = "counted"] /\ UNCHANGED <<now, flag, row, calm>>
    BY <1>1 DEF CountPhone
  <2>3. Cardinality(Recent(o.phone)) \in Nat /\ PaidTotal(Recent(o.phone)) \in Nat
    BY FoundSizes DEF Recent
  <2>4. facts' \in [Requests -> [manual : Manuals, claims : Nat, paid : Nat, phones : Nat]]
    <3> DEFINE c == Cardinality(Recent(o.phone)) + 1
               w == PaidTotal(Recent(o.phone))
    <3>1. c \in Nat /\ w \in Nat
      BY <2>3
    <3>2. facts' = [facts EXCEPT ![r].claims = c, ![r].paid = w]
      BY <2>1
    <3> HIDE DEF c, w
    <3>3. /\ facts \in [Requests -> [manual : Manuals, claims : Nat, paid : Nat, phones : Nat]]
          /\ facts' = [facts EXCEPT ![r] = [facts[r] EXCEPT !.claims = c, !.paid = w]]
      BY <3>2 DEF TypeOK
    <3>4. [facts[r] EXCEPT !.claims = c, !.paid = w]
            \in [manual : Manuals, claims : Nat, paid : Nat, phones : Nat]
      BY <3>1, <3>3
    <3> HIDE DEF TypeOK
    <3> QED
      BY <3>3, <3>4
  <2>5. saw' \in [Requests -> SUBSET Requests] /\ sawPaid' \in [Requests -> SUBSET Requests]
    BY <2>1 DEF TypeOK, Stored, Paid
  <2> QED
    BY <2>1, <2>2, <2>4, <2>5 DEF TypeOK, Stored
<1>2. ASSUME NEW r \in Requests, LookAround(r) PROVE TypeOK'
  <2>1. /\ facts' = [facts EXCEPT ![r].phones = AccountDistinctPhones(form[r]),
                                  ![r].manual = FlagOf(form[r])]
        /\ pc' = [pc EXCEPT ![r] = "judged"]
        /\ UNCHANGED <<now, flag, form, row, saw, sawPaid, calm>>
    BY <1>2 DEF LookAround
  <2>2. AccountDistinctPhones(form[r]) \in Nat
    BY FoundSizes DEF AccountDistinctPhones
  <2>3. FlagOf(form[r]) \in Manuals
    <3>1. form[r] \in Forms
      BY <1>2 DEF LookAround
    <3>2. form[r].phone \in Contacts /\ (form[r].account # Card => form[r].account \in Contacts)
      BY <3>1, IdentitiesAreContacts DEF Contacts
    <3> QED
      BY <3>2 DEF FlagOf, TypeOK
  <2>4. facts' \in [Requests -> [manual : Manuals, claims : Nat, paid : Nat, phones : Nat]]
    <3> DEFINE n == AccountDistinctPhones(form[r])
               m == FlagOf(form[r])
    <3> HIDE DEF n, m
    <3>1. n \in Nat /\ m \in Manuals
      BY <2>2, <2>3 DEF n, m
    <3>2. /\ facts \in [Requests -> [manual : Manuals, claims : Nat, paid : Nat, phones : Nat]]
          /\ facts' = [facts EXCEPT ![r] = [facts[r] EXCEPT !.phones = n, !.manual = m]]
      BY <2>1 DEF TypeOK, n, m
    <3>3. [facts[r] EXCEPT !.phones = n, !.manual = m]
            \in [manual : Manuals, claims : Nat, paid : Nat, phones : Nat]
      BY <3>1, <3>2
    <3> QED
      BY <3>2, <3>3
  <2> QED
    BY <2>1, <2>4 DEF TypeOK, Stored
<1>3. ASSUME NEW r \in Requests, Store(r) PROVE TypeOK'
  <2> DEFINE risk == Evaluate(facts[r], form[r])
             new == [status |-> risk.status, score |-> risk.score, at |-> now, paid |-> 0]
  <2>1. /\ row' = [row EXCEPT ![r] = new]
        /\ pc' = [pc EXCEPT ![r] = "stored"] /\ facts' = [facts EXCEPT ![r] = NoFacts]
        /\ calm' = [calm EXCEPT ![r] = TRUE] /\ UNCHANGED <<now, flag, form, saw, sawPaid>>
    BY <1>3 DEF Store
  <2>2. risk.status \in Judged /\ risk.score \in 0..100 /\ (risk.score = 0 <=> risk.status = "pending")
    BY ManualDecides, ScoreIs DEF TypeOK
  <2> HIDE DEF risk
  <2>3. row' \in [Requests -> Rows \cup {NoRow}]
    BY <2>1, <2>2 DEF TypeOK, Rows
  <2>4. \A q \in Stored' : row'[q].score = 0 <=> row'[q].status = "pending"
    <3>1. ASSUME NEW q \in Stored', q # r PROVE q \in Stored /\ row'[q] = row[q]
      BY <2>1, <3>1 DEF Stored, TypeOK
    <3>2. row'[r].score = risk.score /\ row'[r].status = risk.status
      BY <2>1 DEF TypeOK
    <3> QED
      BY <2>2, <3>1, <3>2 DEF TypeOK
  <2>5. /\ pc' \in [Requests -> {"new", "counted", "judged", "stored"}]
        /\ facts' \in [Requests -> [manual : Manuals, claims : Nat, paid : Nat, phones : Nat]]
        /\ calm' \in [Requests -> BOOLEAN]
    BY <2>1 DEF TypeOK, NoFacts, Manuals
  <2> QED
    BY <2>1, <2>3, <2>4, <2>5 DEF TypeOK, Rows
<1>4. ASSUME NEW r \in Requests, NEW amount \in PaidAmounts, Pay(r, amount) PROVE TypeOK'
  <2>1. /\ r \in Stored /\ amount \in 1..form[r].amount
        /\ row' = [row EXCEPT ![r].paid = amount]
        /\ UNCHANGED <<now, flag, pc, form, facts, saw, sawPaid, calm>>
    BY <1>4 DEF Pay
  <2>2. amount \in Nat /\ row[r] \in Rows
    BY <2>1, FormsType, RowTypes
  <2>3. /\ row'[r] \in Rows /\ row'[r].score = row[r].score /\ row'[r].status = row[r].status
        /\ \A q \in Requests \ {r} : row'[q] = row[q]
        /\ row' \in [Requests -> Rows \cup {NoRow}]
    BY <2>1, <2>2 DEF TypeOK, Rows
  <2>4. Stored' \subseteq Stored
    BY <2>1, <2>3 DEF Stored
  <2>5. \A q \in Stored' : row'[q].score = 0 <=> row'[q].status = "pending"
    BY <2>3, <2>4 DEF TypeOK, Stored
  <2> QED
    BY <2>1, <2>3, <2>5 DEF TypeOK, Rows
<1>5. ASSUME NEW i \in Contacts, NEW status \in Manuals, SetContactStatus(i, status) PROVE TypeOK'
  BY <1>5 DEF SetContactStatus, TypeOK, Stored
<1>6. CASE Tick
  BY <1>6, PolicyType DEF Tick, TypeOK, Stored
<1>7. CASE UNCHANGED vars
  BY <1>7 DEF vars, TypeOK, Stored
<1> QED
  BY <1>1, <1>2, <1>3, <1>4, <1>5, <1>6, <1>7 DEF Next, Submit

\* A request that does not move keeps what it has found: the rows it saw keep
\* their phones, accounts and times, and the payments it saw are not changed.
LEMMA SeenStays ==
  ASSUME TypeOK, NEW r \in Requests, SeenInv(r),
         Stored \subseteq Stored', Paid \subseteq Paid', r \in Stored' <=> r \in Stored,
         now' \in Nat, now <= now',
         form'[r] = form[r], saw'[r] = saw[r], sawPaid'[r] = sawPaid[r],
         facts'[r] = facts[r], pc'[r] = pc[r], row'[r].status = row[r].status,
         row'[r].paid <= form[r].amount \/ r \notin Stored,
         \A q \in saw[r] : form'[q] = form[q] /\ row'[q].at = row[q].at,
         \A q \in sawPaid[r] : row'[q].paid = row[q].paid
  PROVE  SeenInv(r)'
<1>1. PaidTotal(sawPaid[r])' = PaidTotal(sawPaid[r])
  <2>1. UNION {Units(q, row'[q].paid) : q \in sawPaid'[r]}
          = UNION {Units(q, row[q].paid) : q \in sawPaid[r]}
    OBVIOUS
  <2> QED
    BY <2>1 DEF PaidTotal
<1>2. \A t : SeenOfPhone(r, t)' = SeenOfPhone(r, t)
  BY DEF SeenOfPhone
<1>3. SeenPhones(r)' = SeenPhones(r)
  BY DEF SeenPhones, SeenOfAccount
<1>4. ASSUME pc'[r] \in {"counted", "judged"}
      PROVE  \E t \in 0..now' : facts'[r].claims = Cardinality(SeenOfPhone(r, t)') + 1
  <2>1. PICK t \in 0..now : facts[r].claims = Cardinality(SeenOfPhone(r, t)) + 1
    BY <1>4 DEF SeenInv
  <2>2. t \in 0..now'
    BY DEF TypeOK
  <2> QED
    BY <1>2, <2>1, <2>2
<1> QED
  BY <1>1, <1>3, <1>4 DEF SeenInv

\* Groups of rows that keep their phones, accounts, times and statuses.
LEMMA GroupsStay ==
  ASSUME RepeatersHeld, SharersReviewed, Stored' = Stored,
         \A q \in Stored : /\ form'[q] = form[q] /\ saw'[q] = saw[q]
                           /\ row'[q].at = row[q].at /\ row'[q].status = row[q].status
  PROVE  RepeatersHeld' /\ SharersReviewed'
<1>1. ASSUME NEW p \in Phones,
             NEW qs \in SUBSET {r \in Stored' : form'[r].phone = p /\ row'[r].status # "on_hold"},
             qs # {}, Sequential(qs)', WithinWindow(qs)'
      PROVE  Cardinality(qs) < RepeatHoldCount
  <2>1. qs \in SUBSET {r \in Stored : form[r].phone = p /\ row[r].status # "on_hold"}
    OBVIOUS
  <2>2. Sequential(qs) /\ WithinWindow(qs)
    BY <1>1 DEF Sequential, WithinWindow
  <2> QED
    BY <1>1, <2>1, <2>2 DEF RepeatersHeld
<1>2. ASSUME NEW a \in Accounts,
             NEW qs \in SUBSET {r \in Stored' : form'[r].account = a /\ row'[r].status = "pending"},
             qs # {}, Sequential(qs)', \A q, r \in qs : q = r \/ form'[q].phone # form'[r].phone
      PROVE  Cardinality(qs) < AccountSharingPhones
  <2>1. qs \in SUBSET {r \in Stored : form[r].account = a /\ row[r].status = "pending"}
    OBVIOUS
  <2>2. Sequential(qs) /\ \A q, r \in qs : q = r \/ form[q].phone # form[r].phone
    BY <1>2 DEF Sequential
  <2> QED
    BY <1>2, <2>1, <2>2 DEF SharersReviewed
<1> QED
  BY <1>1, <1>2 DEF RepeatersHeld, SharersReviewed

\* A group that holds a claim nobody has counted yet is counted by that claim.
LEMMA LastSawRest ==
  ASSUME SeenAll, NEW r \in Requests \ Stored, saw' = saw,
         NEW qs \in SUBSET Requests, r \in qs, Sequential(qs)', NEW q \in qs \ {r}, q \in Stored
  PROVE  q \in saw[r]
BY DEF Sequential, SeenAll, SeenInv

\* ruleRepeat: the group of a phone that a claim completes is what it counted.
LEMMA RepeatersKeep ==
  ASSUME HistoryInv, RepeatersHeld, NEW r \in Requests, Store(r)
  PROVE  RepeatersHeld'
<1> SUFFICES ASSUME NEW p \in Phones,
                    NEW qs \in SUBSET {q \in Stored' : form'[q].phone = p /\ row'[q].status # "on_hold"},
                    qs # {}, Sequential(qs)', WithinWindow(qs)'
             PROVE  Cardinality(qs) < RepeatHoldCount
  BY DEF RepeatersHeld
<1>0. TypeOK /\ IsFiniteSet(Stored) /\ SeenAll
  BY DEF HistoryInv
<1>1. /\ UNCHANGED <<now, form, saw>> /\ row'[r].status = Evaluate(facts[r], form[r]).status
      /\ row'[r].at = now /\ \A q \in Requests \ {r} : row'[q] = row[q]
      /\ r \in Requests \ Stored /\ pc[r] = "judged" /\ Stored' \subseteq Stored \cup {r}
  BY <1>0 DEF Store, TypeOK, SeenAll, SeenInv, Stored
<1>2. CASE r \notin qs
  <2>1. ASSUME NEW q \in qs
        PROVE  q \in Stored /\ form[q].phone = p /\ row[q].status # "on_hold" /\ row'[q] = row[q]
    <3>1. q \in Stored /\ row'[q] = row[q]
      BY <1>1, <1>2 DEF Stored
    <3> QED
      BY <1>1, <3>1
  <2>2. Sequential(qs) /\ WithinWindow(qs)
    BY <1>1, <2>1 DEF Sequential, WithinWindow
  <2> QED
    BY <2>1, <2>2 DEF RepeatersHeld
<1>3. CASE r \in qs
  <2>1. PICK t \in 0..now : facts[r].claims = Cardinality(SeenOfPhone(r, t)) + 1
    BY <1>0, <1>1 DEF SeenAll, SeenInv
  <2> DEFINE rest == qs \ {r}
  <2>2. ASSUME NEW q \in rest PROVE q \in SeenOfPhone(r, t)
    <3>1. q \in Stored /\ form[q].phone = form[r].phone
      BY <1>1, <1>3
    <3>2. q \in saw[r]
      BY <1>0, <1>1, <1>3, <3>1, LastSawRest DEF Stored
    <3>3. now - row[q].at <= Window30d
      BY <1>1, <1>3, <3>1 DEF WithinWindow, Stored
    <3>4. now \in Nat /\ row[q].at \in Nat /\ Window30d \in Nat /\ t \in Nat /\ t <= now
      BY <1>0, <3>1, RowTypes, PolicyType DEF TypeOK, Stored
    <3> QED
      BY <3>1, <3>2, <3>3, <3>4 DEF SeenOfPhone
  <2>3. SeenOfPhone(r, t) \in SUBSET Stored
    BY <1>0 DEF SeenOfPhone, SeenAll, SeenInv
  <2>4. /\ IsFiniteSet(SeenOfPhone(r, t)) /\ Cardinality(SeenOfPhone(r, t)) \in Nat
    BY <1>0, <2>3, FoundSizes
  <2>5. IsFiniteSet(rest) /\ Cardinality(rest) \in Nat /\ Cardinality(rest) <= Cardinality(SeenOfPhone(r, t))
    BY <2>2, <2>4, FS_Subset, FS_CardinalityType
  <2>6. Cardinality(qs) = Cardinality(rest) + 1
    <3>1. qs = rest \cup {r} /\ r \notin rest
      BY <1>3
    <3> HIDE DEF rest
    <3> QED
      BY <2>5, <3>1, FS_AddElement
  <2>7. facts[r].claims \in Int /\ ~(facts[r].claims >= RepeatHoldCount)
    <3>1. facts[r].claims \in Int
      BY <2>1, <2>4
    <3>2. row'[r].status # "on_hold"
      BY <1>3
    <3> QED
      BY <1>1, <3>1, <3>2, RepeatDecides
  <2> HIDE DEF rest
  <2>8. RepeatHoldCount \in Int
    BY PolicyType
  <2> QED
    BY <2>1, <2>4, <2>5, <2>6, <2>7, <2>8
<1> QED
  BY <1>2, <1>3

\* ruleAccountSharing: likewise the phones of an account.
LEMMA SharersKeep ==
  ASSUME HistoryInv, SharersReviewed, NEW r \in Requests, Store(r)
  PROVE  SharersReviewed'
<1> SUFFICES ASSUME NEW a \in Accounts,
                    NEW qs \in SUBSET {q \in Stored' : form'[q].account = a /\ row'[q].status = "pending"},
                    qs # {}, Sequential(qs)',
                    \A q, s \in qs : q = s \/ form'[q].phone # form'[s].phone
             PROVE  Cardinality(qs) < AccountSharingPhones
  BY DEF SharersReviewed
<1>0. TypeOK /\ IsFiniteSet(Stored) /\ SeenAll
  BY DEF HistoryInv
<1>1. /\ UNCHANGED <<now, form, saw>> /\ row'[r].status = Evaluate(facts[r], form[r]).status
      /\ \A q \in Requests \ {r} : row'[q] = row[q]
      /\ r \in Requests \ Stored /\ pc[r] = "judged" /\ Stored' \subseteq Stored \cup {r}
  BY <1>0 DEF Store, TypeOK, SeenAll, SeenInv, Stored
<1>2. CASE r \notin qs
  <2>1. ASSUME NEW q \in qs
        PROVE  q \in Stored /\ form[q].account = a /\ row[q].status = "pending"
    <3>1. q \in Stored /\ row'[q] = row[q]
      BY <1>1, <1>2 DEF Stored
    <3> QED
      BY <1>1, <3>1
  <2>2. Sequential(qs) /\ \A q, s \in qs : q = s \/ form[q].phone # form[s].phone
    BY <1>1 DEF Sequential
  <2> QED
    BY <2>1, <2>2 DEF SharersReviewed
<1>3. CASE r \in qs
  <2> DEFINE rest == qs \ {r}
             found == [q \in rest |-> form[q].phone]
  <2>1. ASSUME NEW q \in rest PROVE q \in saw[r] /\ form[q].phone \in SeenPhones(r)
    <3>1. q \in Stored /\ form[q].account = form[r].account
      BY <1>1, <1>3
    <3>2. q \in saw[r]
      BY <1>0, <1>1, <1>3, <3>1, LastSawRest DEF Stored
    <3>3. form[q].phone # form[r].phone
      BY <1>1, <1>3
    <3> QED
      BY <3>1, <3>2, <3>3 DEF SeenPhones, SeenOfAccount
  <2>2. found \in Injection(rest, SeenPhones(r))
    BY <1>1, <2>1 DEF Injection, IsInjective
  <2>3. IsFiniteSet(SeenPhones(r)) /\ Cardinality(SeenPhones(r)) \in Nat
    <3>1. SeenOfAccount(r) \in SUBSET Stored
      BY <1>0 DEF SeenOfAccount, SeenAll, SeenInv
    <3>2. IsFiniteSet(SeenOfAccount(r))
      BY <1>0, <3>1, FoundSizes
    <3> QED
      BY <3>2, PhonesFinite DEF SeenPhones
  <2>4. Cardinality(qs) = Cardinality(rest) + 1 /\ Cardinality(rest) <= Cardinality(SeenPhones(r))
        /\ Cardinality(rest) \in Nat
    <3>1. qs = rest \cup {r} /\ r \notin rest
      BY <1>3
    <3> HIDE DEF rest, found
    <3>2. IsFiniteSet(rest) /\ Cardinality(rest) <= Cardinality(SeenPhones(r))
      BY <2>2, <2>3, FS_Injection
    <3> QED
      BY <3>1, <3>2, FS_AddElement, FS_CardinalityType
  <2>5. facts[r].phones >= Cardinality(SeenPhones(r)) + 1 /\ facts[r].phones \in Nat
    BY <1>0, <1>1 DEF SeenAll, SeenInv, TypeOK
  <2>6. ~(facts[r].phones >= AccountSharingPhones)
    <3>1. row'[r].status = "pending" /\ form[r].account = a
      BY <1>1, <1>3
    <3>2. form[r].account # Card
      BY <3>1, IdentitiesDistinct
    <3>3. Evaluate(facts[r], form[r]).status = "pending"
      BY <1>1, <3>1
    <3>4. Hits(facts[r], form[r]) = {}
      BY <3>3, PendingMeans
    <3> QED
      BY <3>1, <3>2, <3>4, NothingFound
  <2> HIDE DEF rest, found
  <2>7. AccountSharingPhones \in Int
    BY PolicyType
  <2> QED
    BY <2>3, <2>4, <2>5, <2>6, <2>7
<1> QED
  BY <1>2, <1>3

\* As long as nobody is paid, what was paid stays.
LEMMA PayoutStays ==
  ASSUME UnreviewedPayoutBounded, Paid' = Paid,
         \A q \in Paid : form'[q] = form[q] /\ sawPaid'[q] = sawPaid[q] /\ row'[q] = row[q]
  PROVE  UnreviewedPayoutBounded'
<1> SUFFICES ASSUME NEW p \in Phones,
                    NEW qs \in SUBSET {r \in Paid' : form'[r].phone = p /\ row'[r].status = "pending"},
                    qs # {}, WithinWindow(qs)',
                    \A q, r \in qs : q = r \/ q \in sawPaid'[r] \/ r \in sawPaid'[q]
             PROVE  PaidTotal(qs)' < PayoutCeilingKRW + ReviewThresholdKRW
  BY DEF UnreviewedPayoutBounded
<1>1. qs \in SUBSET {r \in Paid : form[r].phone = p /\ row[r].status = "pending"}
  OBVIOUS
<1>2. WithinWindow(qs) /\ \A q, r \in qs : q = r \/ q \in sawPaid[r] \/ r \in sawPaid[q]
  BY <1>1 DEF WithinWindow
<1>3. PaidTotal(qs)' = PaidTotal(qs)
  <2>1. UNION {Units(q, row'[q].paid) : q \in qs} = UNION {Units(q, row[q].paid) : q \in qs}
    BY <1>1
  <2> QED
    BY <2>1 DEF PaidTotal
<1> QED
  BY <1>1, <1>2, <1>3 DEF UnreviewedPayoutBounded

\* rulePayoutCeiling and ruleHighAmount: the claim that is paid last knew of
\* the others' payments, found them below the ceiling, and is itself small.
LEMMA PayKeeps ==
  ASSUME HistoryInv, UnreviewedPayoutBounded,
         NEW r \in Requests, NEW amount \in PaidAmounts, Pay(r, amount)
  PROVE  UnreviewedPayoutBounded'
<1> SUFFICES ASSUME NEW p \in Phones,
                    NEW qs \in SUBSET {q \in Paid' : form'[q].phone = p /\ row'[q].status = "pending"},
                    qs # {}, WithinWindow(qs)',
                    \A q, s \in qs : q = s \/ q \in sawPaid'[s] \/ s \in sawPaid'[q]
             PROVE  PaidTotal(qs)' < PayoutCeilingKRW + ReviewThresholdKRW
  BY DEF UnreviewedPayoutBounded
<1>0. TypeOK /\ IsFiniteSet(Stored) /\ SeenAll
  BY DEF HistoryInv
<1>1. /\ UNCHANGED <<form, sawPaid>> /\ r \in Stored /\ r \notin Paid
      /\ row'[r].paid = amount /\ row'[r].status = row[r].status /\ row'[r].at = row[r].at
      /\ \A q \in Requests \ {r} : row'[q] = row[q]
      /\ amount \in 1..form[r].amount /\ amount \in Nat
  <2>1. /\ r \in Stored /\ row[r].paid = 0 /\ amount \in 1..form[r].amount /\ amount \in Int
        /\ row' = [row EXCEPT ![r].paid = amount] /\ UNCHANGED <<form, sawPaid>>
    BY FormsType DEF Pay
  <2>2. row[r] \in Rows
    BY <1>0, <2>1, RowTypes
  <2> QED
    BY <1>0, <2>1, <2>2 DEF Paid, Rows, TypeOK
<1>2. Paid' \subseteq Paid \cup {r}
  <2>1. Stored' \subseteq Stored
    BY <1>1 DEF Stored
  <2> QED
    BY <1>1, <2>1 DEF Paid, Stored
<1>3. CASE r \notin qs
  <2>1. \A q \in qs : q \in Paid /\ row'[q] = row[q]
    BY <1>1, <1>2, <1>3 DEF Paid, Stored
  <2>2. qs \in SUBSET {q \in Paid : form[q].phone = p /\ row[q].status = "pending"}
    BY <1>1, <2>1
  <2>3. WithinWindow(qs) /\ \A q, s \in qs : q = s \/ q \in sawPaid[s] \/ s \in sawPaid[q]
    BY <1>1, <2>1 DEF WithinWindow
  <2>4. PaidTotal(qs)' = PaidTotal(qs)
    <3>1. UNION {Units(q, row'[q].paid) : q \in qs} = UNION {Units(q, row[q].paid) : q \in qs}
      BY <2>1
    <3> QED
      BY <3>1 DEF PaidTotal
  <2> QED
    BY <2>2, <2>3, <2>4 DEF UnreviewedPayoutBounded
<1>4. CASE r \in qs
  <2> DEFINE rest == qs \ {r}
  <2>1. \A q \in rest : q \in Paid /\ row'[q] = row[q]
    BY <1>1, <1>2 DEF Paid, Stored
  <2>2. ASSUME NEW q \in rest PROVE q \in sawPaid[r]
    <3>1. q \in sawPaid[r] \/ r \in sawPaid[q]
      BY <1>1, <1>4
    <3>2. sawPaid[q] \subseteq Paid
      BY <1>0, <2>1 DEF SeenAll, SeenInv, Paid, Stored
    <3> QED
      BY <1>1, <3>1, <3>2
  <2>3. /\ sawPaid[r] \in SUBSET Stored /\ IsFiniteSet(sawPaid[r]) /\ PaidTotal(sawPaid[r]) \in Nat
        /\ \A q \in sawPaid[r] : row[q].paid \in Nat
    <3>1. sawPaid[r] \in SUBSET Stored
      BY <1>0, <1>1 DEF SeenAll, SeenInv, Paid, Stored
    <3> QED
      BY <1>0, <3>1, FoundSizes, RowTypes DEF Stored
  <2>4. PaidTotal(rest) <= PaidTotal(sawPaid[r])
    <3>1. rest \in SUBSET sawPaid[r]
      BY <2>2
    <3> QED
      BY <2>3, <3>1, PaidGrows
  <2>5. PaidTotal(rest) \in Nat /\ IsFiniteSet(rest)
    <3>1. rest \in SUBSET Stored
      BY <2>1 DEF Paid
    <3> QED
      BY <1>0, <3>1, FoundSizes
  <2>6. PaidTotal(sawPaid[r]) <= PayoutCeilingKRW /\ form[r].amount < ReviewThresholdKRW
    <3>1. row[r].status = "pending"
      BY <1>1, <1>4
    <3> QED
      BY <1>0, <1>1, <3>1 DEF SeenAll, SeenInv, Stored
  <2>7. PaidTotal(qs)' = PaidTotal(rest) + amount
    <3> DEFINE paid == [q \in qs |-> row'[q].paid]
    <3>1. paid \in [qs -> Nat]
      <4>1. \A q \in rest : row[q].paid \in Nat
        BY <1>0, <2>1, RowTypes DEF Paid, Stored
      <4> QED
        BY <1>1, <2>1, <4>1
    <3>2. PaidTotal(qs)' = Cardinality(UNION {Units(q, paid[q]) : q \in qs})
      BY DEF PaidTotal
    <3>3. UNION {Units(q, paid[q]) : q \in rest} = UNION {Units(q, row[q].paid) : q \in rest}
      BY <2>1
    <3>4. paid[r] = amount
      BY <1>1, <1>4
    <3>5. IsFiniteSet(qs)
      <4>1. qs = rest \cup {r}
        BY <1>4
      <4> HIDE DEF rest
      <4> QED
        BY <2>5, <4>1, FS_AddElement
    <3> HIDE DEF paid
    <3>6. Cardinality(UNION {Units(q, paid[q]) : q \in qs})
            = Cardinality(UNION {Units(q, paid[q]) : q \in rest}) + paid[r]
      BY <1>4, <3>1, <3>5, OneMoreOfSum
    <3> QED
      BY <3>2, <3>3, <3>4, <3>6 DEF PaidTotal
  <2> HIDE DEF rest
  <2>8. form[r].amount \in Nat
    BY <1>0, <1>1, FormsType DEF SeenAll, SeenInv, Stored, NoForm, TypeOK
  <2> QED
    BY <1>1, <2>3, <2>4, <2>5, <2>6, <2>7, <2>8, PolicyType
<1> QED
  BY <1>3, <1>4

\* What is paid of the claims of a phone is paid of those that were paid.
LEMMA UnpaidAddNothing ==
  ASSUME TypeOK, NEW qs \in SUBSET Stored
  PROVE  PaidTotal(Paid \cap qs) = PaidTotal(qs)
<1>1. \A q \in qs : row[q].paid \in Nat
  BY RowTypes DEF Stored
<1>2. \A q \in qs \ Paid : Units(q, row[q].paid) = {}
  BY <1>1 DEF Paid, Units
<1>3. UNION {Units(q, row[q].paid) : q \in Paid \cap qs} = UNION {Units(q, row[q].paid) : q \in qs}
  BY <1>2
<1> QED
  BY <1>3 DEF PaidTotal

\* What the requests know of the history stays true.
LEMMA CountKeeps ==
  ASSUME HistoryInv, NEW r \in Requests, CountPhone(r)
  PROVE  SeenAll' /\ Stored' = Stored /\ Paid' = Paid
<1>0. TypeOK /\ IsFiniteSet(Stored) /\ SeenAll
  BY DEF HistoryInv
<1>1. PICK o \in Forms :
        /\ form' = [form EXCEPT ![r] = o]
        /\ saw' = [saw EXCEPT ![r] = {q \in Stored : form[q].phone = o.phone
                                                       \/ form[q].account = o.account}]
        /\ sawPaid' = [sawPaid EXCEPT ![r] = Paid \cap Recent(o.phone)]
        /\ facts' = [facts EXCEPT ![r].claims = Cardinality(Recent(o.phone)) + 1,
                                  ![r].paid = PaidTotal(Recent(o.phone))]
  BY DEF CountPhone
<1>2. pc[r] = "new" /\ pc' = [pc EXCEPT ![r] = "counted"] /\ UNCHANGED <<now, flag, row, calm>>
  BY DEF CountPhone
<1>3. Stored' = Stored /\ Paid' = Paid /\ r \notin Stored
  BY <1>0, <1>2 DEF Stored, Paid, SeenAll, SeenInv
<1>4. /\ form'[r] = o /\ pc'[r] = "counted"
      /\ saw'[r] = {q \in Stored : form[q].phone = o.phone \/ form[q].account = o.account}
      /\ sawPaid'[r] = Paid \cap Recent(o.phone)
      /\ facts'[r].claims = Cardinality(Recent(o.phone)) + 1
      /\ facts'[r].paid = PaidTotal(Recent(o.phone))
  BY <1>0, <1>1, <1>2 DEF TypeOK
<1>5. \A q \in Requests \ {r} : /\ form'[q] = form[q] /\ saw'[q] = saw[q] /\ sawPaid'[q] = sawPaid[q]
                                /\ facts'[q] = facts[q] /\ pc'[q] = pc[q]
  BY <1>0, <1>1, <1>2 DEF TypeOK
<1>6. SeenInv(r)'
  <2>1. SeenOfPhone(r, now)' = Recent(o.phone)
    <3>1. \A q \in Stored : form'[q] = form[q] /\ row'[q] = row[q] /\ q \in Requests
      BY <1>2, <1>3, <1>5 DEF Stored
    <3>2. \A q \in Stored : form[q].phone = o.phone => q \in saw'[r]
      BY <1>4
    <3>3. saw'[r] \subseteq Stored
      BY <1>4
    <3> QED
      BY <1>2, <1>4, <3>1, <3>2, <3>3 DEF SeenOfPhone, Recent
  <2>2. now \in 0..now
    BY <1>0, PolicyType DEF TypeOK
  <2>3. \E t \in 0..now' : facts'[r].claims = Cardinality(SeenOfPhone(r, t)') + 1
    BY <1>2, <1>4, <2>1, <2>2
  <2>4. facts'[r].paid = PaidTotal(sawPaid[r])'
    <3>1. PaidTotal(Paid \cap Recent(o.phone)) = PaidTotal(Recent(o.phone))
      BY <1>0, UnpaidAddNothing DEF Recent
    <3>2. PaidTotal(sawPaid[r])' = PaidTotal(Paid \cap Recent(o.phone))
      BY <1>2, <1>4 DEF PaidTotal
    <3> QED
      BY <1>4, <3>1, <3>2
  <2> QED
    BY <1>3, <1>4, <2>3, <2>4 DEF SeenInv
<1>7. ASSUME NEW q \in Requests \ {r} PROVE SeenInv(q)'
  <2>1. SeenInv(q) /\ saw[q] \subseteq Stored /\ sawPaid[q] \subseteq Stored
    BY <1>0 DEF SeenAll, SeenInv, Paid
  <2>2. \A s \in saw[q] \cup sawPaid[q] : form'[s] = form[s] /\ row'[s] = row[s]
    BY <1>2, <1>3, <1>5, <2>1 DEF Stored
  <2>3. now' = now /\ now \in Nat /\ row'[q] = row[q] /\ (row[q].paid <= form[q].amount \/ q \notin Stored)
    BY <1>0, <1>2, <2>1 DEF TypeOK, SeenInv
  <2> QED
    BY <1>0, <1>3, <1>5, <2>1, <2>2, <2>3, SeenStays
<1> QED
  BY <1>3, <1>6, <1>7 DEF SeenAll

LEMMA LookKeeps ==
  ASSUME HistoryInv, NEW r \in Requests, LookAround(r)
  PROVE  SeenAll' /\ Stored' = Stored /\ Paid' = Paid
<1>0. TypeOK /\ IsFiniteSet(Stored) /\ SeenAll
  BY DEF HistoryInv
<1>1. /\ pc[r] = "counted" /\ pc' = [pc EXCEPT ![r] = "judged"]
      /\ facts' = [facts EXCEPT ![r].phones = AccountDistinctPhones(form[r]),
                                ![r].manual = FlagOf(form[r])]
      /\ UNCHANGED <<now, flag, form, row, saw, sawPaid, calm>>
  BY DEF LookAround
<1>2. Stored' = Stored /\ Paid' = Paid /\ r \notin Stored
  BY <1>0, <1>1 DEF Stored, Paid, SeenAll, SeenInv
<1>3. /\ pc'[r] = "judged" /\ facts'[r].phones = AccountDistinctPhones(form[r])
      /\ facts'[r].claims = facts[r].claims /\ facts'[r].paid = facts[r].paid
      /\ \A q \in Requests \ {r} : pc'[q] = pc[q] /\ facts'[q] = facts[q]
  BY <1>0, <1>1 DEF TypeOK
<1>4. /\ PaidTotal(sawPaid[r])' = PaidTotal(sawPaid[r]) /\ SeenPhones(r)' = SeenPhones(r)
      /\ \A t : SeenOfPhone(r, t)' = SeenOfPhone(r, t)
  BY <1>1 DEF PaidTotal, SeenPhones, SeenOfAccount, SeenOfPhone
<1>5. facts'[r].phones >= Cardinality(SeenPhones(r)) + 1
  <2>1. SeenPhones(r) \in SUBSET OtherPhones(form[r])
    BY <1>0 DEF SeenPhones, SeenOfAccount, OtherPhones, SeenAll, SeenInv
  <2>2. IsFiniteSet(OtherPhones(form[r])) /\ Cardinality(OtherPhones(form[r])) \in Nat
    BY <1>0, FoundSizes
  <2>3. Cardinality(SeenPhones(r)) <= Cardinality(OtherPhones(form[r])) /\ Cardinality(SeenPhones(r)) \in Nat
    BY <2>1, <2>2, FS_Subset, FS_CardinalityType
  <2> QED
    BY <1>3, <2>2, <2>3 DEF AccountDistinctPhones
<1>6. SeenInv(r)'
  <2>1. SeenInv(r)
    BY <1>0 DEF SeenAll
  <2> QED
    BY <1>1, <1>2, <1>3, <1>4, <1>5, <2>1 DEF SeenInv
<1>7. ASSUME NEW q \in Requests \ {r} PROVE SeenInv(q)'
  <2>1. SeenInv(q) /\ now \in Nat /\ (row[q].paid <= form[q].amount \/ q \notin Stored)
    BY <1>0 DEF SeenAll, SeenInv, TypeOK
  <2>2. pc'[q] = pc[q] /\ facts'[q] = facts[q] /\ UNCHANGED <<now, form, row, saw, sawPaid>>
    BY <1>1, <1>3
  <2> QED
    BY <1>0, <1>2, <2>1, <2>2, SeenStays
<1> QED
  BY <1>2, <1>6, <1>7 DEF SeenAll

LEMMA StoreKeeps ==
  ASSUME HistoryInv, NEW r \in Requests, Store(r)
  PROVE  SeenAll' /\ Stored' = Stored \cup {r} /\ Paid' = Paid
<1>0. TypeOK /\ IsFiniteSet(Stored) /\ SeenAll
  BY DEF HistoryInv
<1>1. /\ row'[r].status = Evaluate(facts[r], form[r]).status /\ row'[r].paid = 0
      /\ row'[r] # NoRow /\ pc[r] = "judged" /\ pc'[r] = "stored"
      /\ \A q \in Requests \ {r} : row'[q] = row[q] /\ pc'[q] = pc[q] /\ facts'[q] = facts[q]
      /\ UNCHANGED <<now, flag, form, saw, sawPaid>>
  <2>1. Evaluate(facts[r], form[r]).status # "absent"
    BY <1>0, ManualDecides DEF TypeOK, Judged
  <2> DEFINE risk == Evaluate(facts[r], form[r])
  <2>2. /\ row' = [row EXCEPT ![r] = [status |-> risk.status, score |-> risk.score, at |-> now, paid |-> 0]]
        /\ pc[r] = "judged" /\ pc' = [pc EXCEPT ![r] = "stored"]
        /\ facts' = [facts EXCEPT ![r] = NoFacts] /\ UNCHANGED <<now, flag, form, saw, sawPaid>>
    BY DEF Store
  <2> HIDE DEF risk
  <2>3. row'[r] = [status |-> risk.status, score |-> risk.score, at |-> now, paid |-> 0]
    BY <1>0, <2>2 DEF TypeOK
  <2> QED
    BY <1>0, <2>1, <2>2, <2>3 DEF TypeOK, NoRow, risk
<1>2. r \notin Stored
  BY <1>0, <1>1 DEF SeenAll, SeenInv
<1>3. Stored' = Stored \cup {r}
  BY <1>1 DEF Stored
<1>4. Paid' = Paid
  BY <1>1, <1>2, <1>3 DEF Paid, Stored
<1>5. saw[r] \subseteq Stored /\ sawPaid[r] \subseteq Paid /\ form[r] \in Forms /\ r \notin sawPaid[r]
      /\ facts[r].paid = PaidTotal(sawPaid[r])
  BY <1>0, <1>1, <1>2 DEF SeenAll, SeenInv, Paid
<1>6. SeenInv(r)'
  <2>1. PaidTotal(sawPaid[r])' = PaidTotal(sawPaid[r])
    <3>1. UNION {Units(q, row'[q].paid) : q \in sawPaid[r]} = UNION {Units(q, row[q].paid) : q \in sawPaid[r]}
      BY <1>1, <1>5 DEF Paid, Stored
    <3> QED
      BY <1>1, <3>1 DEF PaidTotal
  <2>2. row'[r].status = "pending" =>
          PaidTotal(sawPaid[r]) <= PayoutCeilingKRW /\ form[r].amount < ReviewThresholdKRW
    <3> SUFFICES ASSUME row'[r].status = "pending"
                 PROVE  PaidTotal(sawPaid[r]) <= PayoutCeilingKRW /\ form[r].amount < ReviewThresholdKRW
      OBVIOUS
    <3>1. ~(facts[r].paid > PayoutCeilingKRW) /\ ~(form[r].amount >= ReviewThresholdKRW)
      BY <1>1, PendingMeans, NothingFound
    <3>2. facts[r].paid \in Nat /\ form[r].amount \in Nat
      BY <1>0, <1>5, FormsType DEF TypeOK
    <3> QED
      BY <1>5, <3>1, <3>2, PolicyType
  <2>3. form[r].amount \in Nat
    BY <1>5, FormsType
  <2> QED
    BY <1>1, <1>3, <1>4, <1>5, <2>1, <2>2, <2>3 DEF SeenInv
<1>7. ASSUME NEW q \in Requests \ {r} PROVE SeenInv(q)'
  <2>1. SeenInv(q) /\ saw[q] \subseteq Stored /\ sawPaid[q] \subseteq Stored
    BY <1>0 DEF SeenAll, SeenInv, Paid
  <2>2. \A s \in saw[q] \cup sawPaid[q] : row'[s] = row[s]
    BY <1>1, <1>2, <2>1 DEF Stored
  <2>3. now \in Nat /\ (row[q].paid <= form[q].amount \/ q \notin Stored)
    BY <1>0, <2>1 DEF TypeOK, SeenInv
  <2> QED
    BY <1>0, <1>1, <1>3, <1>4, <2>1, <2>2, <2>3, SeenStays
<1> QED
  BY <1>3, <1>4, <1>6, <1>7 DEF SeenAll

LEMMA PaySees ==
  ASSUME HistoryInv, NEW r \in Requests, NEW amount \in PaidAmounts, Pay(r, amount)
  PROVE  SeenAll' /\ Stored' = Stored
<1>0. TypeOK /\ IsFiniteSet(Stored) /\ SeenAll
  BY DEF HistoryInv
<1>1. /\ r \in Stored /\ row[r].paid = 0 /\ amount \in 1..form[r].amount /\ amount \in Int
      /\ row' = [row EXCEPT ![r].paid = amount]
      /\ UNCHANGED <<now, flag, pc, form, facts, saw, sawPaid, calm>>
  BY FormsType DEF Pay
<1>2. /\ row'[r].paid = amount /\ row'[r].status = row[r].status /\ row'[r].at = row[r].at
      /\ \A q \in Requests \ {r} : row'[q] = row[q]
  <2>1. row[r] \in Rows
    BY <1>0, <1>1, RowTypes
  <2> QED
    BY <1>0, <1>1, <2>1 DEF TypeOK, Rows
<1>3. form[r] \in Forms /\ form[r].amount \in Nat /\ amount > 0 /\ amount <= form[r].amount
  BY <1>0, <1>1, FormsType DEF SeenAll, SeenInv, Stored
<1>4. r \notin Paid /\ Stored' = Stored /\ Paid \subseteq Paid'
  <2>1. row'[r] # NoRow
    BY <1>2, <1>3 DEF NoRow
  <2>2. Stored' = Stored
    BY <1>1, <1>2, <2>1 DEF Stored
  <2> QED
    BY <1>1, <1>2, <1>3, <2>2 DEF Paid, Stored
<1>5. ASSUME NEW q \in Requests PROVE SeenInv(q)'
  <2>1. SeenInv(q) /\ saw[q] \subseteq Requests /\ sawPaid[q] \subseteq Paid
    BY <1>0 DEF SeenAll, SeenInv, Stored
  <2>2. \A s \in saw[q] : row'[s].at = row[s].at
    BY <1>2, <2>1
  <2>3. \A s \in sawPaid[q] : row'[s].paid = row[s].paid
    BY <1>2, <1>4, <2>1 DEF Paid, Stored
  <2>4. now \in Nat /\ row'[q].status = row[q].status /\ (row'[q].paid <= form[q].amount \/ q \notin Stored)
    BY <1>0, <1>2, <1>3, <2>1 DEF TypeOK, SeenInv
  <2> QED
    BY <1>0, <1>1, <1>4, <2>1, <2>2, <2>3, <2>4, SeenStays
<1> QED
  BY <1>4, <1>5 DEF SeenAll

LEMMA OthersKeep ==
  ASSUME HistoryInv, UNCHANGED <<pc, form, facts, row, saw, sawPaid>>, now' \in Nat, now <= now'
  PROVE  SeenAll' /\ Stored' = Stored /\ Paid' = Paid
<1>0. TypeOK /\ SeenAll
  BY DEF HistoryInv
<1>1. Stored' = Stored /\ Paid' = Paid
  BY DEF Stored, Paid
<1>2. ASSUME NEW q \in Requests PROVE SeenInv(q)'
  <2>1. SeenInv(q) /\ (row[q].paid <= form[q].amount \/ q \notin Stored)
    BY <1>0 DEF SeenAll, SeenInv
  <2> QED
    BY <1>0, <1>1, <2>1, SeenStays
<1> QED
  BY <1>1, <1>2 DEF SeenAll

\* The three bounds and what they rest on.
Histories == HistoryInv /\ RepeatersHeld /\ SharersReviewed /\ UnreviewedPayoutBounded

LEMMA InitHistories == Init => Histories
<1> SUFFICES ASSUME Init PROVE Histories
  OBVIOUS
<1>1. Stored = {} /\ Paid = {}
  BY DEF Init, Stored, Paid
<1>2. TypeOK
  BY <1>1, PolicyType DEF Init, TypeOK, NoFacts, Manuals
<1>3. SeenAll
  BY <1>1 DEF Init, SeenAll, SeenInv
<1>4. IsFiniteSet(Stored)
  BY <1>1, FS_EmptySet
<1>5. RepeatersHeld /\ SharersReviewed /\ UnreviewedPayoutBounded
  BY <1>1 DEF RepeatersHeld, SharersReviewed, UnreviewedPayoutBounded
<1> QED
  BY <1>2, <1>3, <1>4, <1>5 DEF Histories, HistoryInv

LEMMA NextHistories ==
  ASSUME Histories, [Next]_vars PROVE Histories'
<1>0. /\ HistoryInv /\ TypeOK /\ IsFiniteSet(Stored) /\ SeenAll
      /\ RepeatersHeld /\ SharersReviewed /\ UnreviewedPayoutBounded
  BY DEF Histories, HistoryInv
<1>1. TypeOK'
  BY <1>0, TypeKeeps DEF SeenAll, SeenInv
<1>2. ASSUME NEW r \in Requests, CountPhone(r) PROVE Histories'
  <2>1. SeenAll' /\ Stored' = Stored /\ Paid' = Paid /\ r \notin Stored
    BY <1>0, <1>2, CountKeeps DEF SeenAll, SeenInv, CountPhone
  <2>2. \A q \in Stored : /\ form'[q] = form[q] /\ saw'[q] = saw[q]
                          /\ sawPaid'[q] = sawPaid[q] /\ row'[q] = row[q]
    BY <1>0, <1>2, <2>1 DEF CountPhone, TypeOK, Stored
  <2>3. RepeatersHeld' /\ SharersReviewed'
    BY <1>0, <2>1, <2>2, GroupsStay
  <2>4. UnreviewedPayoutBounded'
    BY <1>0, <2>1, <2>2, PayoutStays DEF Paid
  <2> QED
    BY <1>0, <1>1, <2>1, <2>3, <2>4 DEF Histories, HistoryInv
<1>3. ASSUME NEW r \in Requests, LookAround(r) PROVE Histories'
  <2>1. SeenAll' /\ Stored' = Stored /\ Paid' = Paid
    BY <1>0, <1>3, LookKeeps
  <2>2. UNCHANGED <<form, row, saw, sawPaid>>
    BY <1>3 DEF LookAround
  <2>3. RepeatersHeld' /\ SharersReviewed' /\ UnreviewedPayoutBounded'
    BY <1>0, <2>1, <2>2, GroupsStay, PayoutStays
  <2> QED
    BY <1>0, <1>1, <2>1, <2>3 DEF Histories, HistoryInv
<1>4. ASSUME NEW r \in Requests, Store(r) PROVE Histories'
  <2>1. SeenAll' /\ Stored' = Stored \cup {r} /\ Paid' = Paid /\ r \notin Stored
    BY <1>0, <1>4, StoreKeeps DEF SeenAll, SeenInv, Store
  <2>2. RepeatersHeld' /\ SharersReviewed'
    BY <1>0, <1>4, RepeatersKeep, SharersKeep
  <2>3. \A q \in Paid : form'[q] = form[q] /\ sawPaid'[q] = sawPaid[q] /\ row'[q] = row[q]
    BY <1>0, <1>4, <2>1 DEF Store, TypeOK, Paid
  <2>4. UnreviewedPayoutBounded'
    BY <1>0, <2>1, <2>3, PayoutStays
  <2>5. IsFiniteSet(Stored \cup {r})
    BY <1>0, FS_AddElement
  <2> QED
    BY <1>1, <2>1, <2>2, <2>4, <2>5 DEF Histories, HistoryInv
<1>5. ASSUME NEW r \in Requests, NEW amount \in PaidAmounts, Pay(r, amount) PROVE Histories'
  <2>1. SeenAll' /\ Stored' = Stored
    BY <1>0, <1>5, PaySees
  <2>2. \A q \in Stored : /\ form'[q] = form[q] /\ saw'[q] = saw[q]
                          /\ row'[q].at = row[q].at /\ row'[q].status = row[q].status
    <3>1. ASSUME NEW q \in Stored PROVE row'[q].at = row[q].at /\ row'[q].status = row[q].status
      <4>1. row[q] \in Rows
        BY <1>0, RowTypes
      <4> QED
        BY <1>0, <1>5, <4>1 DEF Pay, TypeOK, Rows, Stored
    <3> QED
      BY <1>5, <3>1 DEF Pay
  <2>3. RepeatersHeld' /\ SharersReviewed'
    BY <1>0, <2>1, <2>2, GroupsStay
  <2>4. UnreviewedPayoutBounded'
    BY <1>0, <1>5, PayKeeps
  <2> QED
    BY <1>0, <1>1, <2>1, <2>3, <2>4 DEF Histories, HistoryInv
<1>6. ASSUME UNCHANGED <<pc, form, facts, row, saw, sawPaid>>, now' \in Nat, now <= now' PROVE Histories'
  <2>1. SeenAll' /\ Stored' = Stored /\ Paid' = Paid
    BY <1>0, <1>6, OthersKeep
  <2>2. RepeatersHeld' /\ SharersReviewed' /\ UnreviewedPayoutBounded'
    BY <1>0, <1>6, <2>1, GroupsStay, PayoutStays
  <2> QED
    BY <1>0, <1>1, <2>1, <2>2 DEF Histories, HistoryInv
<1>7. now \in Nat
  BY <1>0 DEF TypeOK
<1>8. ASSUME NEW i \in Contacts, NEW status \in Manuals, SetContactStatus(i, status) PROVE Histories'
  BY <1>6, <1>7, <1>8 DEF SetContactStatus
<1>9. CASE Tick
  BY <1>6, <1>7, <1>9 DEF Tick
<1>10. CASE UNCHANGED vars
  BY <1>6, <1>7, <1>10 DEF vars
<1> QED
  BY <1>2, <1>3, <1>4, <1>5, <1>8, <1>9, <1>10 DEF Next, Submit

\* Every reachable state satisfies the bounds and what they rest on.
THEOREM HistoriesHold == Spec => []Histories
BY InitHistories, NextHistories, PTL DEF Spec

\* Types, and a score of zero for the claims nothing was found against only.
THEOREM TypesHold == Spec => []TypeOK
<1>1. Histories => TypeOK
  BY DEF Histories, HistoryInv
<1> QED
  BY HistoriesHold, <1>1, PTL

\* A phone gets fewer than RepeatHoldCount claims past the hold within the
\* window, unless they were in flight together.
THEOREM RepeatersAreHeld == Spec => []RepeatersHeld
<1>1. Histories => RepeatersHeld
  BY DEF Histories
<1> QED
  BY HistoriesHold, <1>1, PTL

\* Phones that share an account get fewer than AccountSharingPhones claims
\* past the review, unless they were in flight together.
THEOREM SharersAreReviewed == Spec => []SharersReviewed
<1>1. Histories => SharersReviewed
  BY DEF Histories
<1> QED
  BY HistoriesHold, <1>1, PTL

\* What a phone is paid in the window without a review stays below the ceiling
\* and one more small claim, if each claim came after the others were paid.
THEOREM PayoutIsBounded == Spec => []UnreviewedPayoutBounded
<1>1. Histories => UnreviewedPayoutBounded
  BY DEF Histories
<1> QED
  BY HistoriesHold, <1>1, PTL

-----------------------------------------------------------------------------
LEMMA InitHolds == Init => IInv
<1> SUFFICES ASSUME Init PROVE IInv
  OBVIOUS
<1>1. Typed
  BY DEF Init, Typed, NoFacts, Manuals
<1>2. ASSUME NEW r \in Requests PROVE FlagInv(r)
  BY DEF Init, FlagInv
<1> QED
  BY <1>1, <1>2 DEF IInv

LEMMA NextKeeps ==
  ASSUME IInv, [Next]_vars PROVE IInv'
<1>0. Typed /\ \A r \in Requests : FlagInv(r)
  BY DEF IInv
<1>1. ASSUME NEW r \in Requests, CountPhone(r) PROVE IInv'
  <2>1. PICK o \in Forms : /\ form' = [form EXCEPT ![r] = o]
                           /\ facts' = [facts EXCEPT ![r].claims = Cardinality(Recent(o.phone)) + 1,
                                                     ![r].paid = PaidTotal(Recent(o.phone))]
    BY <1>1 DEF CountPhone
  <2>2. pc' = [pc EXCEPT ![r] = "counted"] /\ UNCHANGED <<now, flag, row, calm>>
    BY <1>1 DEF CountPhone
  <2>3. /\ DOMAIN facts' = Requests
        /\ \A q \in Requests : /\ DOMAIN facts'[q] = {"manual", "claims", "paid", "phones"}
                               /\ facts'[q].manual = facts[q].manual
    BY <1>0, <2>1 DEF Typed
  <2>4. Typed'
    BY <1>0, <2>1, <2>2, <2>3 DEF Typed
  <2>5. ASSUME NEW q \in Requests PROVE FlagInv(q)'
    <3>1. pc'[q] = "judged" => q # r /\ pc[q] = "judged" /\ form'[q] = form[q]
      BY <1>0, <2>1, <2>2 DEF Typed
    <3> QED
      BY <1>0, <2>2, <2>3, <3>1 DEF FlagInv
  <2> QED
    BY <2>4, <2>5 DEF IInv
<1>2. ASSUME NEW r \in Requests, LookAround(r) PROVE IInv'
  <2>1. /\ pc' = [pc EXCEPT ![r] = "judged"] /\ pc[r] = "counted"
        /\ UNCHANGED <<flag, form, row, calm>>
        /\ facts' = [facts EXCEPT ![r].phones = AccountDistinctPhones(form[r]),
                                  ![r].manual = FlagOf(form[r])]
    BY <1>2 DEF LookAround
  <2>2. form[r] \in Forms
    BY <1>0, <2>1 DEF Typed
  <2>3. FlagOf(form[r]) \in Manuals
        /\ \A i \in Identities(form[r]) : rank[FlagOf(form[r])] >= rank[flag[i]]
    BY <1>0, <2>2, FlagOfIs
  <2>4. /\ DOMAIN facts' = Requests /\ facts'[r].manual = FlagOf(form[r])
        /\ \A q \in Requests : DOMAIN facts'[q] = {"manual", "claims", "paid", "phones"}
        /\ \A q \in Requests \ {r} : facts'[q] = facts[q]
    BY <1>0, <2>1 DEF Typed
  <2>5. Typed'
    BY <1>0, <2>1, <2>3, <2>4 DEF Typed
  <2>6. ASSUME NEW q \in Requests PROVE FlagInv(q)'
    <3>1. CASE q = r
      BY <2>1, <2>3, <2>4, <3>1 DEF FlagInv
    <3>2. CASE q # r
      BY <1>0, <2>1, <2>4, <3>2 DEF FlagInv, Typed
    <3> QED
      BY <3>1, <3>2
  <2> QED
    BY <2>5, <2>6 DEF IInv
<1>3. ASSUME NEW r \in Requests, Store(r) PROVE IInv'
  <2>1. /\ pc' = [pc EXCEPT ![r] = "stored"] /\ pc[r] = "judged"
        /\ facts' = [facts EXCEPT ![r] = NoFacts] /\ calm' = [calm EXCEPT ![r] = TRUE]
        /\ DOMAIN row' = DOMAIN row /\ UNCHANGED <<flag, form>>
    BY <1>3 DEF Store
  <2>2. Typed'
    BY <1>0, <2>1 DEF Typed, NoFacts, Manuals
  <2>3. ASSUME NEW q \in Requests PROVE FlagInv(q)'
    BY <1>0, <2>1 DEF FlagInv, Typed
  <2> QED
    BY <2>2, <2>3 DEF IInv
<1>4. ASSUME NEW r \in Requests, NEW amount \in PaidAmounts, Pay(r, amount) PROVE IInv'
  <2>1. DOMAIN row' = DOMAIN row /\ UNCHANGED <<flag, pc, form, facts, calm>>
    BY <1>4 DEF Pay
  <2> QED
    BY <1>0, <2>1 DEF IInv, Typed, FlagInv
<1>5. ASSUME NEW i \in Contacts, NEW status \in Manuals, SetContactStatus(i, status) PROVE IInv'
  <2>1. /\ flag' = [flag EXCEPT ![i] = status]
        /\ \A r \in Requests : calm'[r] => calm[r] /\ ~(pc[r] = "judged" /\ i \in {form[r].phone, form[r].account})
        /\ DOMAIN calm' = Requests /\ UNCHANGED <<pc, form, facts, row>>
    BY <1>5 DEF SetContactStatus
  <2>2. Typed'
    BY <1>0, <2>1 DEF Typed
  <2>3. ASSUME NEW q \in Requests PROVE FlagInv(q)'
    <3> SUFFICES ASSUME pc'[q] = "judged", calm'[q], NEW j \in Identities(form'[q])
                 PROVE  rank[facts'[q].manual] >= rank[flag'[j]]
      BY DEF FlagInv
    <3>1. pc[q] = "judged" /\ calm[q] /\ j \in Identities(form[q]) /\ facts'[q] = facts[q]
      BY <2>1
    <3>2. j # i /\ flag'[j] = flag[j]
      BY <1>0, <2>1, <3>1 DEF Identities, Typed
    <3> QED
      BY <1>0, <3>1, <3>2 DEF FlagInv
  <2> QED
    BY <2>2, <2>3 DEF IInv
<1>6. CASE Tick \/ UNCHANGED vars
  <2>1. UNCHANGED <<flag, pc, form, facts, row, calm>>
    BY <1>6 DEF Tick, vars
  <2> QED
    BY <1>0, <2>1 DEF IInv, Typed, FlagInv
<1> QED
  BY <1>1, <1>2, <1>3, <1>4, <1>5, <1>6 DEF Next, Submit

\* Every reachable state satisfies IInv.
THEOREM Invariant == Spec => []IInv
BY InitHolds, NextKeeps, PTL DEF Spec

\* A claim whose phone or account is flagged is never stored with a weaker
\* status, unless the owner changes a flag while the request is under way.
THEOREM FlagsHold == Spec => FlaggedNeverSlips
<1> DEFINE Held(r) ==
      pc[r] = "judged" /\ pc'[r] = "stored" /\ calm[r] =>
        \A i \in {form[r].phone, form[r].account} \ {Card} :
          rank[row'[r].status] >= rank[flag[i]]
<1>1. ASSUME IInv, Next, NEW r \in Requests PROVE Held(r)
  <2> SUFFICES ASSUME pc[r] = "judged", pc'[r] = "stored", calm[r], NEW i \in Identities(form[r])
               PROVE  rank[row'[r].status] >= rank[flag[i]]
    BY DEF Identities
  <2>0. Typed /\ FlagInv(r) /\ form[r] \in Forms
    BY <1>1 DEF IInv, Typed
  <2>1. Store(r)
    <3>1. \A q \in Requests \ {r} : Submit(q) => pc'[r] = pc[r]
      BY <2>0 DEF Submit, CountPhone, LookAround, Store, Typed
    <3>2. ~CountPhone(r) /\ ~LookAround(r)
      BY DEF CountPhone, LookAround
    <3>3. (\E q \in Requests, amount \in PaidAmounts : Pay(q, amount))
          \/ (\E j \in Contacts, status \in Manuals : SetContactStatus(j, status)) \/ Tick => pc' = pc
      BY DEF Pay, SetContactStatus, Tick
    <3> QED
      BY <1>1, <3>1, <3>2, <3>3 DEF Next, Submit
  <2>2. row'[r].status = Evaluate(facts[r], form[r]).status
    BY <2>0, <2>1 DEF Store, Typed
  <2>3. facts[r].manual \in Manuals
    BY <2>0 DEF Typed
  <2>4. /\ Evaluate(facts[r], form[r]).status \in Judged
        /\ rank[Evaluate(facts[r], form[r]).status] >= rank[facts[r].manual]
    BY <2>3, ManualDecides
  <2>5. rank[facts[r].manual] >= rank[flag[i]]
    BY <2>0 DEF FlagInv
  <2>6. flag[i] \in Manuals
    BY <2>0, IdentitiesAreContacts DEF Typed
  <2>7. \A s \in Manuals \cup Judged : rank[s] \in Int
    BY RankType
  <2> QED
    BY <2>2, <2>3, <2>4, <2>5, <2>6, <2>7
<1>2. IInv /\ [Next]_vars => [\A r \in Requests : Held(r)]_vars
  BY <1>1
<1> QED
  BY Invariant, <1>2, PTL DEF Spec, FlaggedNeverSlips
=============================================================================
