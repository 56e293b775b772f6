---------------------------- MODULE Office_proofs ----------------------------
(***************************************************************************)
(* What TLAPS proves of an owner's office: of what he is shown (Screens),  *)
(* for any claims, machines, filters and page size, and of who gets in     *)
(* (Accounts), for any number of accounts and requests.                    *)
(*                                                                         *)
(* The screens.  A page and what lies below its last claim divide the rest *)
(* of the list, and a claim that is stored stays where it is: so what is   *)
(* due and not shown yet lies below the cursor, and all that was shown     *)
(* above it.  The till holds what the claims paid on each day were paid.   *)
(* Lines that put every claim on one of them add up to the line of all,    *)
(* and the line of a period only grows: so what was read later is no less. *)
(*                                                                         *)
(* The door.  A handler that compares a password holds a count that is     *)
(* at most the tries recorded since the last reset, and exactly that many  *)
(* as long as it is alone; a reset or a second try under way is what       *)
(* `late` and `overlap` record.  While no two accounts have been switched  *)
(* off together, at most one handler is past the count of the others, and  *)
(* what it counted is still active.                                        *)
(***************************************************************************)
EXTENDS Screens, Accounts, FiniteSetTheorems, WellFoundedInduction, TLAPS

-----------------------------------------------------------------------------
(* Sums.                                                                   *)

\* A finite sum is a number.
LEMMA TotalType ==
  ASSUME NEW S, IsFiniteSet(S), NEW f \in [S -> Nat]
  PROVE  IsFiniteSet(Units(f)) /\ Total(f) \in Nat
<1> DEFINE part == [x \in S |-> {x} \X (1..f[x])]
           T == {{x} \X (1..f[x]) : x \in S}
<1>1. part \in Surjection(S, T)
  BY DEF Surjection
<1>2. IsFiniteSet(T)
  BY <1>1, FS_Surjection
<1>3. ASSUME NEW x \in S PROVE IsFiniteSet({x} \X (1..f[x]))
  <2>1. IsFiniteSet(1..f[x])
    BY FS_Interval
  <2>2. IsFiniteSet({x})
    BY FS_Singleton, Zenon
  <2> QED
    BY <2>1, <2>2, FS_Product
<1>4. \A t \in T : IsFiniteSet(t)
  BY <1>3
<1> HIDE DEF T
<1>5. IsFiniteSet(UNION T)
  BY <1>2, <1>4, FS_UNION
<1>6. Units(f) = UNION T
  BY DEF Units, T
<1> QED
  BY <1>5, <1>6, FS_CardinalityType DEF Total

\* A sum over fewer things, each of which counts for less, is no larger.
LEMMA TotalGrows ==
  ASSUME NEW S, NEW T, IsFiniteSet(T), S \subseteq T,
         NEW f \in [S -> Nat], NEW g \in [T -> Nat], \A x \in S : f[x] <= g[x]
  PROVE  Total(f) <= Total(g)
<1>1. IsFiniteSet(Units(g))
  BY TotalType
<1>2. Units(f) \subseteq Units(g)
  <2>1. ASSUME NEW x \in S PROVE {x} \X (1..f[x]) \subseteq {x} \X (1..g[x])
    OBVIOUS
  <2> QED
    BY <2>1 DEF Units
<1> QED
  BY <1>1, <1>2, FS_Subset DEF Total

\* The sizes of the parts of a set add up to the size of the set.
LEMMA PartsAddUp ==
  ASSUME NEW H, IsFiniteSet(H), NEW D, NEW part \in [D -> SUBSET H],
         \A d, e \in D : d = e \/ part[d] \cap part[e] = {},
         \A h \in H : \E d \in D : h \in part[d],
         NEW f \in [D -> Nat], \A d \in D : f[d] = Cardinality(part[d])
  PROVE  Total(f) = Cardinality(H)
<1> DEFINE number == [d \in D |-> CHOOSE b : b \in Bijection(1..f[d], part[d])]
<1>1. ASSUME NEW d \in D PROVE number[d] \in Bijection(1..f[d], part[d])
  <2>1. IsFiniteSet(part[d])
    BY FS_Subset
  <2>2. ExistsBijection(1..f[d], part[d])
    BY <2>1, FS_CardinalityType
  <2>3. \E b : b \in Bijection(1..f[d], part[d])
    BY <2>2 DEF ExistsBijection
  <2> QED
    BY <2>3
<1> HIDE DEF number
<1>2. ASSUME NEW u \in Units(f)
      PROVE  u[1] \in D /\ u[2] \in 1..f[u[1]] /\ u = <<u[1], u[2]>>
  BY DEF Units
<1>3. \A d \in D, n \in Nat : n \in 1..f[d] => <<d, n>> \in Units(f)
  BY DEF Units
<1> DEFINE all == [u \in Units(f) |-> number[u[1]][u[2]]]
<1>4. ASSUME NEW u \in Units(f) PROVE all[u] \in part[u[1]] /\ all[u] \in H
  BY <1>1, <1>2 DEF Bijection, Injection
<1>5. ASSUME NEW h \in H PROVE \E u \in Units(f) : all[u] = h
  <2>1. PICK d \in D : h \in part[d]
    OBVIOUS
  <2>2. PICK n \in 1..f[d] : number[d][n] = h
    BY <1>1, <2>1 DEF Bijection, Surjection
  <2>3. <<d, n>> \in Units(f)
    BY <1>3, <2>2
  <2>4. all[<<d, n>>] = h
    BY <2>2, <2>3
  <2> QED
    BY <2>3, <2>4
<1>6. ASSUME NEW u \in Units(f), NEW v \in Units(f), all[u] = all[v] PROVE u = v
  <2>1. u[1] = v[1]
    BY <1>2, <1>4, <1>6
  <2>2. number[u[1]] \in Injection(1..f[u[1]], part[u[1]])
    BY <1>1, <1>2 DEF Bijection
  <2>3. u[2] \in 1..f[u[1]] /\ v[2] \in 1..f[u[1]]
    BY <1>2, <2>1
  <2>4. number[u[1]][u[2]] = number[u[1]][v[2]]
    BY <1>6, <2>1
  <2>5. u[2] = v[2]
    BY <2>2, <2>3, <2>4 DEF Injection, IsInjective
  <2> QED
    BY <1>2, <2>1, <2>5
<1>7. all \in [Units(f) -> H]
  BY <1>4
<1> HIDE DEF all
<1>8. all \in Injection(Units(f), H)
  BY <1>6, <1>7 DEF Injection, IsInjective
<1>9. all \in Surjection(Units(f), H)
  BY <1>5, <1>7 DEF Surjection
<1> QED
  BY <1>8, <1>9, FS_Injection DEF Total

\* So do the sums over the parts.
LEMMA SumsAddUp ==
  ASSUME NEW S, IsFiniteSet(S), NEW D, NEW part \in [D -> SUBSET S],
         \A d, e \in D : d = e \/ part[d] \cap part[e] = {},
         \A x \in S : \E d \in D : x \in part[d],
         NEW f \in [S -> Nat],
         NEW g \in [D -> Nat], \A d \in D : g[d] = Total([x \in part[d] |-> f[x]])
  PROVE  Total(g) = Total(f)
<1> DEFINE heap == [d \in D |-> Units([x \in part[d] |-> f[x]])]
<1>1. ASSUME NEW d \in D, NEW u
      PROVE  u \in heap[d] <=> \E x \in part[d] : u \in {x} \X (1..f[x])
  <2> DEFINE h == [x \in part[d] |-> f[x]]
  <2>1. DOMAIN h = part[d] /\ \A x \in part[d] : h[x] = f[x]
    OBVIOUS
  <2> HIDE DEF h
  <2>2. u \in Units(h) <=> \E x \in part[d] : u \in {x} \X (1..f[x])
    BY <2>1 DEF Units
  <2> QED
    BY <2>2 DEF h
<1>2. \A u : u \in Units(f) <=> \E x \in S : u \in {x} \X (1..f[x])
  BY DEF Units
<1>3. heap \in [D -> SUBSET Units(f)]
  BY <1>1, <1>2
<1>4. ASSUME NEW d \in D, NEW e \in D, d # e PROVE heap[d] \cap heap[e] = {}
  BY <1>1, <1>4
<1>5. \A u \in Units(f) : \E d \in D : u \in heap[d]
  BY <1>1, <1>2
<1>6. \A d \in D : g[d] = Cardinality(heap[d])
  BY DEF Total
<1>7. IsFiniteSet(Units(f))
  BY TotalType
<1> HIDE DEF heap
<1>8. \A d, e \in D : d = e \/ heap[d] \cap heap[e] = {}
  BY <1>4
<1>9. Total(g) = Cardinality(Units(f))
  BY <1>3, <1>5, <1>6, <1>7, <1>8, PartsAddUp
<1> QED
  BY <1>9 DEF Total

\* One more thing adds what it counts for.
LEMMA TotalAdds ==
  ASSUME NEW S, IsFiniteSet(S), NEW f \in [S -> Nat], NEW c, c \notin S,
         NEW g \in [S \cup {c} -> Nat], \A x \in S : g[x] = f[x]
  PROVE  Total(g) = Total(f) + g[c]
<1> DEFINE new == {c} \X (1..g[c])
<1>1. IsFiniteSet({c}) /\ Cardinality({c}) = 1
  BY FS_Singleton, Zenon
<1>2. IsFiniteSet(1..g[c]) /\ Cardinality(1..g[c]) = g[c]
  BY FS_Interval
<1>3. IsFiniteSet(new) /\ Cardinality(new) = g[c]
  <2>1. IsFiniteSet(new) /\ Cardinality(new) = Cardinality({c}) * Cardinality(1..g[c])
    BY <1>1, <1>2, FS_Product
  <2>2. \A n \in Nat : 1 * n = n
    OBVIOUS
  <2> QED
    BY <1>1, <1>2, <2>1, <2>2
<1>4. IsFiniteSet(Units(f)) /\ Total(f) \in Nat
  BY TotalType
<1>5. Units(g) = Units(f) \cup new
  BY DEF Units
<1>6. Units(f) \cap new = {}
  BY DEF Units
<1> HIDE DEF new
<1>7. Cardinality(Units(f) \cap new) = 0
  BY <1>6, FS_EmptySet
<1> QED
  BY <1>3, <1>4, <1>5, <1>7, FS_Union DEF Total

-----------------------------------------------------------------------------
(* Pages.                                                                  *)

Above(cs, c) == {d \in cs : Below(Place(c), Place(d))}
Beneath(cs, c) == {d \in cs : Below(Place(d), Place(c))}

\* Some number of a set of them is the least.
LEMMA LeastIs ==
  ASSUME NEW S \in SUBSET Nat, S # {}
  PROVE  \E m \in S : \A n \in S : m <= n
<1>1. PICK m \in S : \A n \in S : ~(<<n, m>> \in OpToRel(<, Nat))
  BY NatLessThanWellFounded, WFMin
<1>2. \A n \in S : ~(n < m)
  BY <1>1 DEF OpToRel
<1> QED
  BY <1>2

\* The places of claims are in a line.
LEMMA PlacesInLine ==
  ASSUME ClaimsOk, TypeOK, NEW c \in Claims, NEW d \in Claims
  PROVE  /\ Below(Place(c), Place(d)) => ~Below(Place(d), Place(c))
         /\ c = d \/ Below(Place(c), Place(d)) \/ Below(Place(d), Place(c))
         /\ \A e \in Claims : Below(Place(c), Place(d)) /\ Below(Place(d), Place(e))
                                => Below(Place(c), Place(e))
<1>1. \A e \in Claims : e \in Nat /\ row[e].at \in Nat
  <2> SUFFICES ASSUME NEW e \in Claims
               PROVE  e \in Nat /\ row[e].at \in Nat
    OBVIOUS
  <2>1. e \in Nat
    BY DEF ClaimsOk
  <2>2. row[e].at \in 0..MaxNow
    BY DEF TypeOK
  <2> QED
    BY <2>1, <2>2
<1> QED
  BY <1>1 DEF Below, Place

\* The higher of two claims has fewer above it, and more beneath.
LEMMA HigherIs ==
  ASSUME ClaimsOk, TypeOK, NEW cs \in SUBSET Claims,
         NEW c \in cs, NEW d \in cs, Below(Place(c), Place(d))
  PROVE  /\ Cardinality(Above(cs, d)) < Cardinality(Above(cs, c))
         /\ Cardinality(Beneath(cs, c)) < Cardinality(Beneath(cs, d))
         /\ Cardinality(Above(cs, c)) \in Nat /\ Cardinality(Beneath(cs, d)) \in Nat
<1>1. IsFiniteSet(cs)
  BY FS_Subset DEF ClaimsOk
<1>2. Above(cs, c) \in SUBSET cs /\ Beneath(cs, d) \in SUBSET cs
  BY DEF Above, Beneath
<1>3. IsFiniteSet(Above(cs, c)) /\ IsFiniteSet(Beneath(cs, d))
  BY <1>1, <1>2, FS_Subset
<1>4. Above(cs, d) \subseteq Above(cs, c) /\ d \in Above(cs, c) /\ d \notin Above(cs, d)
  BY PlacesInLine DEF Above
<1>5. Beneath(cs, c) \subseteq Beneath(cs, d) /\ c \in Beneath(cs, d) /\ c \notin Beneath(cs, c)
  BY PlacesInLine DEF Beneath
<1> QED
  BY <1>3, <1>4, <1>5, FS_Subset, FS_CardinalityType

\* How many claims are above another, and beneath it, are numbers.
LEMMA SizesOfSides ==
  ASSUME ClaimsOk, NEW cs \in SUBSET Claims, NEW c
  PROVE  Cardinality(Above(cs, c)) \in Nat /\ Cardinality(Beneath(cs, c)) \in Nat
<1>1. IsFiniteSet(cs)
  BY FS_Subset DEF ClaimsOk
<1>2. Above(cs, c) \in SUBSET cs /\ Beneath(cs, c) \in SUBSET cs
  BY DEF Above, Beneath
<1> QED
  BY <1>1, <1>2, FS_Subset, FS_CardinalityType

\* There is a highest claim and a lowest.
LEMMA EndsOfLine ==
  ASSUME ClaimsOk, TypeOK, NEW cs \in SUBSET Claims, cs # {}
  PROVE  /\ \E c \in cs : Above(cs, c) = {}
         /\ \E c \in cs : Beneath(cs, c) = {}
<1> DEFINE ups == {Cardinality(Above(cs, c)) : c \in cs}
           downs == {Cardinality(Beneath(cs, c)) : c \in cs}
<1>1. ups \in SUBSET Nat /\ downs \in SUBSET Nat /\ ups # {} /\ downs # {}
  BY SizesOfSides
<1>2. PICK c \in cs : \A n \in ups : Cardinality(Above(cs, c)) <= n
  <2>1. \E m \in ups : \A n \in ups : m <= n
    BY <1>1, LeastIs
  <2> QED
    BY <2>1
<1>3. PICK d \in cs : \A n \in downs : Cardinality(Beneath(cs, d)) <= n
  <2>1. \E m \in downs : \A n \in downs : m <= n
    BY <1>1, LeastIs
  <2> QED
    BY <2>1
<1>4. ASSUME NEW e \in Above(cs, c) PROVE FALSE
  <2>1. e \in cs /\ Below(Place(c), Place(e))
    BY DEF Above
  <2>2. Cardinality(Above(cs, e)) < Cardinality(Above(cs, c))
    BY <2>1, HigherIs
  <2>3. Cardinality(Above(cs, c)) <= Cardinality(Above(cs, e))
    BY <1>2, <2>1
  <2> QED
    BY <2>1, <2>2, <2>3, SizesOfSides
<1>5. ASSUME NEW e \in Beneath(cs, d) PROVE FALSE
  <2>1. e \in cs /\ Below(Place(e), Place(d))
    BY DEF Beneath
  <2>2. Cardinality(Beneath(cs, e)) < Cardinality(Beneath(cs, d))
    BY <2>1, HigherIs
  <2>3. Cardinality(Beneath(cs, d)) <= Cardinality(Beneath(cs, e))
    BY <1>3, <2>1
  <2> QED
    BY <2>1, <2>2, <2>3, SizesOfSides
<1> QED
  BY <1>4, <1>5

\* A page is the rest of the list, or its upper part down to its last claim.
LEMMA PageSplits ==
  ASSUME ClaimsOk, NumbersOk, TypeOK, NEW rest \in SUBSET Claims
  PROVE  /\ Page(rest) \subseteq rest
         /\ ~(Cardinality(rest) > Limit) => Page(rest) = rest
         /\ Cardinality(rest) > Limit =>
              /\ Last(Page(rest)) \in Page(rest)
              /\ \A c \in Page(rest) : ~Below(Place(c), Place(Last(Page(rest))))
              /\ \A c \in rest \ Page(rest) : Below(Place(c), Place(Last(Page(rest))))
<1> DEFINE page == Page(rest)
<1>0. IsFiniteSet(rest) /\ Limit \in Nat /\ Limit > 0
  <2>1. IsFiniteSet(rest)
    BY FS_Subset DEF ClaimsOk
  <2>2. Limit \in Nat /\ Limit > 0
    BY DEF NumbersOk
  <2> QED
    BY <2>1, <2>2
<1>1. \A c : c \in page <=> c \in rest /\ Cardinality(Above(rest, c)) < Limit
  BY DEF Page, Above
<1>2. ASSUME ~(Cardinality(rest) > Limit), NEW c \in rest PROVE c \in page
  <2>1. Above(rest, c) \in SUBSET rest /\ c \notin Above(rest, c)
    BY PlacesInLine DEF Above
  <2>2. /\ Cardinality(Above(rest, c)) \in Nat /\ Cardinality(rest) \in Nat
        /\ Cardinality(Above(rest, c)) < Cardinality(rest)
    BY <1>0, <2>1, FS_Subset, FS_CardinalityType
  <2> QED
    BY <1>0, <1>1, <1>2, <2>2
<1>3. ASSUME Cardinality(rest) > Limit
      PROVE  Last(page) \in page /\ \A c \in page : ~Below(Place(c), Place(Last(page)))
  <2>1. rest # {}
    BY <1>0, <1>3, FS_EmptySet
  <2>2. PICK c \in rest : Above(rest, c) = {}
    BY <2>1, EndsOfLine
  <2>3. c \in page
    BY <1>0, <1>1, <2>2, FS_EmptySet
  <2>4. page \in SUBSET Claims /\ page # {}
    BY <1>1, <2>3
  <2>5. PICK l \in page : Beneath(page, l) = {}
    BY <2>4, EndsOfLine
  <2>6. \A d \in page : ~Below(Place(d), Place(l))
    BY <2>5 DEF Beneath
  <2> QED
    BY <2>6 DEF Last
<1>4. ASSUME Cardinality(rest) > Limit, NEW c \in rest \ page
      PROVE  Below(Place(c), Place(Last(page)))
  <2> DEFINE l == Last(page)
  <2>1. l \in page /\ l \in rest
    BY <1>1, <1>3, <1>4
  <2> HIDE DEF l, page
  <2>2. ASSUME Below(Place(l), Place(c)) PROVE FALSE
    <3>1. Cardinality(Above(rest, c)) < Cardinality(Above(rest, l))
      BY <2>1, <2>2, HigherIs
    <3>2. Cardinality(Above(rest, l)) < Limit
      BY <1>1, <2>1
    <3>3. Cardinality(Above(rest, c)) \in Nat /\ Cardinality(Above(rest, l)) \in Nat
      BY SizesOfSides
    <3> QED
      BY <1>0, <1>1, <3>1, <3>2, <3>3
  <2>3. c # l /\ c \in Claims /\ l \in Claims
    BY <2>1
  <2>4. Below(Place(c), Place(l))
    BY <2>2, <2>3, PlacesInLine
  <2> QED
    BY <2>4 DEF l
<1> QED
  BY <1>1, <1>2, <1>3, <1>4

-----------------------------------------------------------------------------
(* The tables, and the till.                                               *)

\* The times of a claim are in the past.
RowInv ==
  \A c \in Claims :
    /\ row[c].status = "absent" => row[c] = Absent
    /\ row[c].status # "absent" => row[c].at \in 1..now
    /\ row[c].approvedAt <= now
    /\ row[c].status = "approved" => row[c].approvedAt >= 1
    /\ row[c].status = "paid" => row[c].paidAt \in 1..now

PaidOn(d) == {c \in In({"paid"}) : KoreanDay(row[c].paidAt) = d}

\* What went out on a day is what the claims paid on it were paid.
TillInv == \A d \in Days : till[d] = MoneyOut(PaidOn(d))

\* Days do not go back.
LEMMA DaysInLine ==
  ASSUME NumbersOk, NEW x \in Nat, NEW y \in Nat, x <= y
  PROVE  x \div DayLength \in Nat /\ x \div DayLength <= y \div DayLength
<1>0. DayLength \in Nat /\ DayLength > 0
  BY DEF NumbersOk
<1> DEFINE p == x \div DayLength
           q == y \div DayLength
<1>1. /\ p \in Int /\ q \in Int
      /\ DayLength * p <= x /\ x < DayLength * p + DayLength
      /\ y < DayLength * q + DayLength
  BY <1>0
<1> HIDE DEF p, q
<1>2. ASSUME p > q PROVE FALSE
  <2>1. DayLength * p >= DayLength * (q + 1)
    BY <1>0, <1>1, <1>2
  <2>2. DayLength * (q + 1) = DayLength * q + DayLength
    BY <1>0, <1>1
  <2> DEFINE a == DayLength * p
             b == DayLength * q
  <2>3. a \in Int /\ b \in Int
    BY <1>0, <1>1
  <2> QED
    BY <1>0, <1>1, <2>1, <2>2, <2>3
<1>3. ASSUME p < 0 PROVE FALSE
  <2>1. DayLength * (p + 1) <= 0
    BY <1>0, <1>1, <1>3
  <2>2. DayLength * (p + 1) = DayLength * p + DayLength
    BY <1>0, <1>1
  <2> DEFINE a == DayLength * p
  <2>3. a \in Int
    BY <1>0, <1>1
  <2> QED
    BY <1>0, <1>1, <2>1, <2>2, <2>3
<1> QED
  BY <1>1, <1>2, <1>3 DEF p, q

\* The till has a line for the Korean day of every time.
LEMMA KoreanDaysInLine ==
  ASSUME NumbersOk, NEW t \in Nat, t <= MaxNow
  PROVE  KoreanDay(t) \in Days
<1>1. /\ t + ZoneShift \in Nat /\ MaxNow + ZoneShift \in Nat
      /\ t + ZoneShift <= MaxNow + ZoneShift
  BY DEF NumbersOk
<1> QED
  BY <1>1, DaysInLine DEF KoreanDay, Days

\* What is paid, and what was asked of it, are numbers.
LEMMA MoneyType ==
  ASSUME ClaimsOk, TypeOK, NEW c \in Claims
  PROVE  PaidOut(c) \in Nat /\ AskedOfPaid(c) \in Nat
BY DEF ClaimsOk, TypeOK, PaidOut, AskedOfPaid

\* Claims that are paid stay so, with the amount and the time.
LEMMA TillStays ==
  ASSUME TillInv, till' = till,
         \A c \in Claims :
           /\ row[c].status = "paid" <=> row'[c].status = "paid"
           /\ row[c].status = "paid" => row'[c].paid = row[c].paid
                                        /\ row'[c].paidAt = row[c].paidAt
  PROVE  TillInv'
<1> SUFFICES ASSUME NEW d \in Days PROVE till[d] = MoneyOut(PaidOn(d))'
  BY DEF TillInv, Days, KoreanDay
<1>1. PaidOn(d)' = PaidOn(d)
  BY DEF PaidOn, In, KoreanDay
<1>2. \A c \in PaidOn(d) : PaidOut(c)' = PaidOut(c)
  BY DEF PaidOn, In, PaidOut
<1>3. MoneyOut(PaidOn(d))' = MoneyOut(PaidOn(d))
  BY <1>1, <1>2 DEF MoneyOut
<1> QED
  BY <1>3 DEF TillInv

\* No claim is stored and nothing has been paid.
LEMMA InitHolds ==
  ASSUME ClaimsOk, NumbersOk, Init
  PROVE  TypeOK /\ RowInv /\ TillInv
<1>1. TypeOK
  <2>1. Absent \in [status : Statuses, at : 0..MaxNow, approvedAt : 0..MaxNow,
                    paidAt : 0..MaxNow, paid : Nat]
    BY DEF Absent, Statuses, NumbersOk
  <2> QED
    BY <2>1 DEF Init, TypeOK, Closed, NumbersOk
<1>2. RowInv
  BY DEF Init, RowInv, Absent
<1>3. TillInv
  <2> SUFFICES ASSUME NEW d \in Days PROVE MoneyOut(PaidOn(d)) = 0
    BY DEF TillInv, Init
  <2>1. PaidOn(d) = {}
    BY DEF PaidOn, In, Init, Absent
  <2>2. Units([c \in {} |-> PaidOut(c)]) = {}
    BY DEF Units
  <2> QED
    BY <2>1, <2>2, FS_EmptySet DEF MoneyOut, Total
<1> QED
  BY <1>1, <1>2, <1>3

\* What the tables do to a screen, and to what it is about.
LEMMA TablesMove ==
  ASSUME ClaimsOk, NumbersOk, TypeOK, RowInv, Desk \/ Tick
  PROVE  /\ Moved
         /\ now' >= now
         /\ \A c \in Stored : c \in Stored' /\ row'[c].at = row[c].at
         /\ \A c \in Claims : AskedOfPaid(c) <= AskedOfPaid(c)'
<1>0. /\ now \in Nat /\ \A c \in Claims : Asked[c] \in Nat
      /\ \A c \in Claims : AskedOfPaid(c) \in Nat
  BY MoneyType DEF TypeOK, ClaimsOk
<1>1. ASSUME NEW c \in Claims, Arrive(c)
      PROVE  /\ now' = now /\ Moved /\ \A d \in Claims \ {c} : row'[d] = row[d]
             /\ row[c] = Absent
  BY <1>1 DEF Arrive, TypeOK
<1>2. ASSUME NEW c \in Claims, Hold(c) \/ Approve(c) \/ Reject(c) \/ Pay(c)
      PROVE  /\ now' = now /\ Moved /\ \A d \in Claims \ {c} : row'[d] = row[d]
             /\ row[c].status \notin {"absent", "paid"} /\ row'[c].status # "absent"
             /\ row'[c].at = row[c].at
  BY <1>2 DEF Hold, Approve, Reject, Pay, TypeOK, Open
<1>3. CASE Tick
  BY <1>0, <1>3 DEF Tick, Stored, AskedOfPaid
<1>4. ASSUME NEW c \in Claims, Arrive(c)
      PROVE  /\ now' >= now
             /\ \A d \in Stored : d \in Stored' /\ row'[d].at = row[d].at
             /\ \A d \in Claims : AskedOfPaid(d) <= AskedOfPaid(d)'
  BY <1>0, <1>1, <1>4 DEF Stored, AskedOfPaid, Absent
<1>5. ASSUME NEW c \in Claims, Hold(c) \/ Approve(c) \/ Reject(c) \/ Pay(c)
      PROVE  /\ now' >= now
             /\ \A d \in Stored : d \in Stored' /\ row'[d].at = row[d].at
             /\ \A d \in Claims : AskedOfPaid(d) <= AskedOfPaid(d)'
  BY <1>0, <1>2, <1>5 DEF Stored, AskedOfPaid
<1> QED
  BY <1>1, <1>2, <1>3, <1>4, <1>5 DEF Desk

\* No step gives a claim a time of the future.
LEMMA RowKeeps ==
  ASSUME ClaimsOk, NumbersOk, TypeOK, RowInv, Next \/ UNCHANGED vars
  PROVE  /\ now' \in 1..MaxNow
         /\ row' \in [Claims -> [status : Statuses, at : 0..MaxNow, approvedAt : 0..MaxNow,
                                 paidAt : 0..MaxNow, paid : Nat]]
         /\ RowInv'
<1> DEFINE Rows == [status : Statuses, at : 0..MaxNow, approvedAt : 0..MaxNow,
                    paidAt : 0..MaxNow, paid : Nat]
<1>0. /\ now \in 1..MaxNow /\ row \in [Claims -> Rows] /\ MaxNow \in Nat
  BY DEF TypeOK, NumbersOk
<1>1. ASSUME NEW c \in Claims, now' = now, row' = [row EXCEPT ![c] = row'[c]],
             row'[c] \in Rows, row'[c].status # "absent",
             row'[c].at \in 1..now, row'[c].approvedAt <= now,
             row'[c].status = "approved" => row'[c].approvedAt >= 1,
             row'[c].status = "paid" => row'[c].paidAt \in 1..now
      PROVE  now' \in 1..MaxNow /\ row' \in [Claims -> Rows] /\ RowInv'
  <2>1. \A d \in Claims \ {c} : row'[d] = row[d]
    BY <1>0, <1>1
  <2> QED
    BY <1>0, <1>1, <2>1 DEF RowInv
<1>2. ASSUME UNCHANGED <<now, row>>
      PROVE  now' \in 1..MaxNow /\ row' \in [Claims -> Rows] /\ RowInv'
  BY <1>0, <1>2 DEF RowInv
<1>3. ASSUME NEW c \in Claims, Arrive(c)
      PROVE  now' \in 1..MaxNow /\ row' \in [Claims -> Rows] /\ RowInv'
  <2>1. PICK t \in (now - Lag)..now, s \in Arriving :
          t > 0 /\ row' = [row EXCEPT ![c].status = s, ![c].at = t]
    BY <1>3 DEF Arrive
  <2>2. t \in 1..now /\ s \in {"pending", "needs_review"} /\ row[c] = Absent
    BY <1>0, <1>3, <2>1 DEF Arrive, ClaimsOk, NumbersOk
  <2>3. row'[c] = [status |-> s, at |-> t, approvedAt |-> 0, paidAt |-> 0, paid |-> 0]
    BY <1>0, <2>1, <2>2 DEF Absent
  <2>a. s \in Statuses /\ t \in 0..MaxNow /\ 0 \in 0..MaxNow
    BY <1>0, <2>2 DEF Statuses
  <2>4. row'[c] \in Rows /\ row'[c].status = s /\ row'[c].at = t /\ row'[c].approvedAt = 0
    BY <2>3, <2>a
  <2>5. now' = now /\ row' = [row EXCEPT ![c] = row'[c]]
    BY <1>0, <1>3, <2>1 DEF Arrive
  <2> HIDE DEF Rows
  <2> QED
    BY <1>0, <1>1, <2>2, <2>4, <2>5
<1>4. ASSUME NEW c \in Claims, Hold(c) \/ Reject(c)
      PROVE  now' \in 1..MaxNow /\ row' \in [Claims -> Rows] /\ RowInv'
  <2>1. PICK s \in {"on_hold", "rejected"} : row' = [row EXCEPT ![c].status = s]
    BY <1>4 DEF Hold, Reject
  <2>2. row[c].status # "absent" /\ now' = now
    BY <1>4 DEF Hold, Reject, Open
  <2>3. row'[c] = [row[c] EXCEPT !.status = s] /\ row[c] \in Rows
    BY <1>0, <2>1
  <2>4. /\ row'[c] \in Rows /\ row'[c].status = s
        /\ row'[c].at = row[c].at /\ row'[c].approvedAt = row[c].approvedAt
    BY <2>3 DEF Statuses
  <2>5. row[c].at \in 1..now /\ row[c].approvedAt <= now
    BY <2>2 DEF RowInv
  <2>6. row' = [row EXCEPT ![c] = row'[c]]
    BY <1>0, <2>1
  <2> HIDE DEF Rows
  <2> QED
    BY <1>0, <1>1, <2>2, <2>4, <2>5, <2>6
<1>5. ASSUME NEW c \in Claims, Approve(c)
      PROVE  now' \in 1..MaxNow /\ row' \in [Claims -> Rows] /\ RowInv'
  <2>1. /\ row' = [row EXCEPT ![c].status = "approved", ![c].approvedAt = now]
        /\ row[c].status # "absent" /\ now' = now
    BY <1>5 DEF Approve, Open
  <2>2. /\ row'[c] = [row[c] EXCEPT !.status = "approved", !.approvedAt = now]
        /\ row[c] \in Rows
    BY <1>0, <2>1
  <2>a. "approved" \in Statuses /\ now \in 0..MaxNow /\ now <= now /\ now >= 1
    BY <1>0 DEF Statuses
  <2>3. /\ row'[c] \in Rows /\ row'[c].status = "approved"
        /\ row'[c].at = row[c].at /\ row'[c].approvedAt = now
    BY <2>2, <2>a
  <2>4. row[c].at \in 1..now
    BY <2>1 DEF RowInv
  <2>5. row' = [row EXCEPT ![c] = row'[c]]
    BY <1>0, <2>1
  <2> HIDE DEF Rows
  <2> QED
    BY <1>1, <2>1, <2>3, <2>4, <2>5, <2>a
<1>6. ASSUME NEW c \in Claims, Pay(c)
      PROVE  now' \in 1..MaxNow /\ row' \in [Claims -> Rows] /\ RowInv'
  <2>1. PICK n \in 1..Asked[c] :
          row' = [row EXCEPT ![c].status = "paid", ![c].paidAt = now, ![c].paid = n]
    BY <1>6 DEF Pay
  <2>2. n \in Nat /\ row[c].status # "absent" /\ now' = now
    BY <1>6 DEF Pay, ClaimsOk
  <2>3. /\ row'[c] = [row[c] EXCEPT !.status = "paid", !.paidAt = now, !.paid = n]
        /\ row[c] \in Rows
    BY <1>0, <2>1
  <2>4. /\ row'[c] \in Rows /\ row'[c].status = "paid" /\ row'[c].paidAt = now
        /\ row'[c].at = row[c].at /\ row'[c].approvedAt = row[c].approvedAt
    <3>1. "paid" \in Statuses /\ now \in 0..MaxNow
      BY <1>0 DEF Statuses
    <3> QED
      BY <2>2, <2>3, <3>1
  <2>5. row[c].at \in 1..now /\ row[c].approvedAt <= now
    BY <2>2 DEF RowInv
  <2>6. row' = [row EXCEPT ![c] = row'[c]]
    BY <1>0, <2>1
  <2> HIDE DEF Rows
  <2> QED
    BY <1>0, <1>1, <2>2, <2>4, <2>5, <2>6
<1>7. ASSUME Tick
      PROVE  now' \in 1..MaxNow /\ row' \in [Claims -> Rows] /\ RowInv'
  BY <1>0, <1>7 DEF Tick, RowInv
<1>8. ASSUME ~(Desk \/ Tick)
      PROVE  now' \in 1..MaxNow /\ row' \in [Claims -> Rows] /\ RowInv'
  <2>1. UNCHANGED <<now, row>>
    BY <1>8 DEF Next, vars, OpenList, NextPage, Turn, OpenHome, ReadOldest, OpenSettlement,
                ReadDays, ReadMachines, OpenStats, Show
  <2> HIDE DEF Rows
  <2> QED
    BY <1>2, <2>1
<1> HIDE DEF Rows
<1>9. now' \in 1..MaxNow /\ row' \in [Claims -> Rows] /\ RowInv'
  BY <1>3, <1>4, <1>5, <1>6, <1>7, <1>8 DEF Desk
<1> QED
  BY <1>9 DEF Rows

\* What Pay adds to the till it adds to the claims of the day.
LEMMA TillKeeps ==
  ASSUME ClaimsOk, NumbersOk, TypeOK, RowInv, TillInv, Next \/ UNCHANGED vars
  PROVE  till' \in [Days -> Nat] /\ TillInv'
<1>1. ASSUME NEW c \in Claims, Arrive(c) \/ Hold(c) \/ Approve(c) \/ Reject(c)
      PROVE  till' \in [Days -> Nat] /\ TillInv'
  <2>1. /\ till' = till /\ row[c].status # "paid" /\ row'[c].status # "paid"
        /\ \A d \in Claims \ {c} : row'[d] = row[d]
    <3>1. CASE Arrive(c)
      <4>1. PICK t \in (now - Lag)..now, s \in Arriving :
                row' = [row EXCEPT ![c].status = s, ![c].at = t]
        BY <3>1 DEF Arrive
      <4>2. s \in {"pending", "needs_review"} /\ row[c] = Absent /\ till' = till
        BY <3>1 DEF Arrive, ClaimsOk
      <4> QED
        BY <4>1, <4>2 DEF TypeOK, Absent
    <3>2. CASE Hold(c) \/ Approve(c) \/ Reject(c)
      BY <3>2 DEF Hold, Approve, Reject, TypeOK, Open
    <3> QED
      BY <1>1, <3>1, <3>2
  <2> QED
    BY <2>1, TillStays DEF TypeOK
<1>2. ASSUME NEW c \in Claims, Pay(c)
      PROVE  till' \in [Days -> Nat] /\ TillInv'
  <2>1. PICK n \in 1..Asked[c] :
          /\ row' = [row EXCEPT ![c].status = "paid", ![c].paidAt = now, ![c].paid = n]
          /\ till' = [till EXCEPT ![KoreanDay(now)] = till[KoreanDay(now)] + n]
    BY <1>2 DEF Pay
  <2>2. n \in Nat /\ row[c].status = "approved" /\ KoreanDay(now) \in Days
    BY <1>2, KoreanDaysInLine DEF Pay, ClaimsOk, TypeOK, NumbersOk
  <2>3. till' \in [Days -> Nat]
    BY <2>1, <2>2 DEF TypeOK
  <2>4. /\ row'[c].status = "paid" /\ row'[c].paidAt = now /\ row'[c].paid = n
        /\ \A d \in Claims \ {c} : row'[d] = row[d]
    BY <2>1 DEF TypeOK
  <2>5. ASSUME NEW d \in Days PROVE till'[d] = MoneyOut(PaidOn(d))'
    <3>1. till[d] = MoneyOut(PaidOn(d))
      BY DEF TillInv
    <3>2. CASE d # KoreanDay(now)
      <4>1. PaidOn(d)' = PaidOn(d)
        BY <2>2, <2>4, <3>2 DEF PaidOn, In, KoreanDay
      <4>2. \A x \in PaidOn(d) : PaidOut(x)' = PaidOut(x)
        BY <2>2, <2>4 DEF PaidOn, In, PaidOut
      <4>3. MoneyOut(PaidOn(d))' = MoneyOut(PaidOn(d))
        BY <4>1, <4>2 DEF MoneyOut
      <4> QED
        BY <2>1, <2>2, <3>1, <3>2, <4>3 DEF TypeOK
    <3>3. CASE d = KoreanDay(now)
      <4> DEFINE S == PaidOn(d)
                 f == [x \in S |-> PaidOut(x)]
                 g == [x \in S \cup {c} |-> PaidOut(x)']
      <4>1. PaidOn(d)' = S \cup {c} /\ c \notin S
        BY <2>2, <2>4, <3>3 DEF PaidOn, In, KoreanDay
      <4>2. \A x \in S : PaidOut(x)' = PaidOut(x) /\ PaidOut(x) \in Nat
        BY <2>2, <2>4, MoneyType DEF PaidOn, In, PaidOut
      <4>3. PaidOut(c)' = n
        BY <2>4 DEF PaidOut
      <4>4. S \in SUBSET Claims
        BY DEF PaidOn, In
      <4>5. IsFiniteSet(S)
        BY <4>4, FS_Subset DEF ClaimsOk
      <4>6. MoneyOut(PaidOn(d))' = Total(g)
        BY <4>1 DEF MoneyOut
      <4>7. MoneyOut(PaidOn(d)) = Total(f)
        BY DEF MoneyOut
      <4> HIDE DEF S
      <4>8. /\ f \in [S -> Nat] /\ g \in [S \cup {c} -> Nat]
            /\ (\A x \in S : g[x] = f[x]) /\ g[c] = n
        BY <2>2, <4>2, <4>3
      <4> HIDE DEF f, g
      <4>9. Total(g) = Total(f) + n
        BY <4>1, <4>5, <4>8, TotalAdds
      <4>10. till'[d] = till[d] + n
        BY <2>1, <3>3 DEF TypeOK
      <4> QED
        BY <3>1, <4>6, <4>7, <4>9, <4>10
    <3> QED
      BY <3>2, <3>3
  <2> QED
    BY <2>3, <2>5 DEF TillInv, Days, KoreanDay
<1>3. CASE Tick
  BY <1>3, TillStays DEF Tick, TypeOK
<1>4. CASE ~(Desk \/ Tick)
  <2>1. UNCHANGED <<row, till>>
    BY <1>4 DEF Next, vars, OpenList, NextPage, Turn, OpenHome, ReadOldest, OpenSettlement,
                ReadDays, ReadMachines, OpenStats, Show
  <2> QED
    BY <2>1, TillStays DEF TypeOK
<1> QED
  BY <1>1, <1>2, <1>3, <1>4 DEF Desk

-----------------------------------------------------------------------------
(* The list.                                                               *)

\* What a browser has of the list s when it asks for the next page of it:
\* whatever is due and not shown is below the cursor, and nothing else is.
Turning(s) ==
  /\ DOMAIN s = DOMAIN Closed /\ s.kind = "list" /\ s.still \in BOOLEAN
  /\ s.filter \in Filters /\ ~s.again
  /\ s.shown \subseteq Stored /\ s.due \subseteq In(s.filter)
  /\ s.cursor # <<>> => s.cursor \in Nat \X Nat
  /\ s.cursor # <<>> \/ s.shown = {}
  /\ \A c \in s.shown : s.cursor # <<>> => ~Below(Place(c), s.cursor)
  /\ \A c \in s.due \ s.shown : s.cursor # <<>> => Below(Place(c), s.cursor)

ListInv ==
  /\ ~screen.again
  /\ screen.kind = "list" =>
       /\ ~screen.done => Turning(screen)
       /\ screen.done => screen.due \subseteq screen.shown

\* A page is cut off the top of what is left: what is due is on it or below it,
\* and nothing on it was shown before.
LEMMA TurnKeeps ==
  ASSUME ClaimsOk, NumbersOk, TypeOK, NEW s, Turning(s), Turn(s)
  PROVE  /\ UNCHANGED <<now, row, till>>
         /\ DOMAIN screen' = DOMAIN Closed /\ screen'.kind = "list"
         /\ screen'.done \in BOOLEAN /\ screen'.still \in BOOLEAN
         /\ ListInv'
<1> DEFINE rest == Rest(s.filter, s.cursor)
           page == Page(rest)
           more == Cardinality(rest) > Limit
           again == s.again \/ page \cap s.shown # {}
           cursor == IF more THEN Place(Last(page)) ELSE s.cursor
<1>1. /\ screen' = [s EXCEPT !.shown = s.shown \cup page, !.again = again,
                             !.cursor = cursor, !.done = ~more]
      /\ UNCHANGED <<now, row, till>>
  BY DEF Turn, Show
<1>2. rest \in SUBSET Claims /\ rest \subseteq In(s.filter)
  BY DEF Rest, In
<1>3. /\ page \subseteq rest
      /\ ~more => page = rest
      /\ more => /\ Last(page) \in page
                 /\ \A c \in page : ~Below(Place(c), Place(Last(page)))
                 /\ \A c \in rest \ page : Below(Place(c), Place(Last(page)))
  BY <1>2, PageSplits
<1>4. page \cap s.shown = {}
  <2> SUFFICES ASSUME NEW c \in page, c \in s.shown PROVE FALSE
    OBVIOUS
  <2>1. c \in rest /\ s.cursor # <<>>
    BY <1>3 DEF Turning
  <2> HIDE DEF page
  <2> QED
    BY <2>1 DEF Turning, Rest
<1>5. s.due \subseteq s.shown \cup rest
  BY DEF Turning, Rest, In
<1>6. In(s.filter) \subseteq Stored
  BY DEF Turning, In, Stored, ClaimsOk
<1>7. s.shown \cup page \subseteq Stored
  BY <1>2, <1>3, <1>6 DEF Turning
<1>8. ASSUME more
      PROVE  /\ cursor # <<>> /\ cursor \in Nat \X Nat
             /\ \A c \in s.shown \cup page : ~Below(Place(c), cursor)
             /\ \A c \in s.due \ (s.shown \cup page) : Below(Place(c), cursor)
  <2> DEFINE l == Last(page)
  <2>1. l \in rest /\ l \in page /\ cursor = Place(l)
    BY <1>3, <1>8
  <2>a. l \in Claims
    BY <1>2, <2>1
  <2>b. l \in Nat /\ row[l].at \in Nat
    BY <2>a DEF TypeOK, ClaimsOk
  <2>2. Place(l) # <<>> /\ Place(l) \in Nat \X Nat
    BY <2>b DEF Place
  <2>3. s.cursor # <<>> => Below(Place(l), s.cursor)
    BY <2>1 DEF Rest
  <2> HIDE DEF l, page, rest, cursor
  <2>4. ASSUME NEW c \in s.shown PROVE ~Below(Place(c), Place(l))
    <3>1. s.cursor # <<>> /\ ~Below(Place(c), s.cursor) /\ c \in Claims /\ l \in Claims
      BY <1>2, <2>1 DEF Turning, Stored
    <3>2. Below(Place(l), s.cursor)
      BY <2>3, <3>1
    <3>3. s.cursor[1] \in Nat /\ s.cursor[2] \in Nat
      BY <3>1 DEF Turning
    <3>4. c \in Nat /\ l \in Nat /\ row[c].at \in Nat /\ row[l].at \in Nat
      BY <3>1 DEF TypeOK, ClaimsOk
    <3> QED
      BY <3>1, <3>2, <3>3, <3>4 DEF Below, Place
  <2>5. \A c \in page : ~Below(Place(c), Place(l))
    BY <1>3, <1>8 DEF l
  <2>6. \A c \in s.due \ (s.shown \cup page) : Below(Place(c), Place(l))
    BY <1>3, <1>5, <1>8 DEF l
  <2> QED
    BY <2>1, <2>2, <2>4, <2>5, <2>6
<1> HIDE DEF rest, page, more, cursor
<1>9. /\ DOMAIN screen' = DOMAIN Closed /\ screen'.kind = "list"
      /\ screen'.done = ~more /\ screen'.still = s.still
      /\ screen'.filter = s.filter /\ screen'.due = s.due
      /\ screen'.shown = s.shown \cup page /\ screen'.cursor = cursor
      /\ screen'.again = again
  BY <1>1 DEF Turning, Closed
<1>10. ~again
  BY <1>4 DEF Turning
<1>11. ASSUME more PROVE Turning(screen)'
  <2>1. \A c : Place(c)' = Place(c)
    BY <1>1 DEF Place
  <2>2. Stored' = Stored /\ In(s.filter)' = In(s.filter)
    BY <1>1 DEF Stored, In
  <2> QED
    BY <1>7, <1>8, <1>9, <1>10, <1>11, <2>1, <2>2 DEF Turning
<1>12. ~more => s.due \subseteq s.shown \cup page
  BY <1>3, <1>5
<1> QED
  BY <1>1, <1>9, <1>10, <1>11, <1>12 DEF ListInv, Turning

-----------------------------------------------------------------------------
(* The screen.                                                             *)

\* When the tables move a screen is closed, or is of no one moment any more.
LEMMA MovedIs ==
  ASSUME TypeOK, Moved
  PROVE  \/ screen' = Closed
         \/ /\ screen.kind # "closed" /\ ~screen.done
            /\ DOMAIN screen' = DOMAIN Closed
            /\ screen'.kind = screen.kind /\ ~screen'.done /\ ~screen'.still
            /\ screen'.done = screen.done /\ screen'.still = FALSE
            /\ screen'.filter = screen.filter /\ screen'.cursor = screen.cursor
            /\ screen'.due = {c \in screen.due : row'[c].status \in screen.filter}
            /\ screen'.shown = screen.shown /\ screen'.again = screen.again
            /\ screen'.from = screen.from /\ screen'.to = screen.to
            /\ screen'.sums = screen.sums
BY DEF TypeOK, Moved, Closed

\* A screen is of one of the kinds, and a list is asked for by its filter.
ShapeOK(s) ==
  /\ DOMAIN s = DOMAIN Closed
  /\ s.kind \in {"closed", "list", "home", "settlement", "stats"}
  /\ s.done \in BOOLEAN /\ s.still \in BOOLEAN

\* No screen is open.
LEMMA ClosedIs ==
  /\ ShapeOK(Closed) /\ Closed.kind = "closed"
  /\ ~Closed.done /\ Closed.still /\ ~Closed.again
  /\ Closed.cursor = <<>> /\ Closed.shown = {} /\ Closed.oldest = 0
BY DEF ShapeOK, Closed

\* A list is opened on its first page.
LEMMA ListOpens ==
  ASSUME ClaimsOk, NumbersOk, TypeOK, NEW f \in Filters, OpenList(f)
  PROVE  screen'.kind = "list" /\ ShapeOK(screen') /\ ListInv'
<1> DEFINE s == [Closed EXCEPT !.kind = "list", !.filter = f, !.due = In(f)]
<1>1. /\ DOMAIN s = DOMAIN Closed /\ s.kind = "list" /\ s.still = TRUE
      /\ s.filter = f /\ s.due = In(f) /\ s.again = FALSE
      /\ s.shown = {} /\ s.cursor = <<>>
  BY DEF Closed
<1>2. Turn(s)
  BY DEF OpenList
<1> HIDE DEF s
<1>3. Turning(s)
  BY <1>1 DEF Turning
<1> QED
  BY <1>2, <1>3, TurnKeeps DEF ShapeOK

\* What is due on a list is still there, and above the cursor it is shown,
\* whatever becomes of the claims.
LEMMA ListKeeps ==
  ASSUME ClaimsOk, NumbersOk, TypeOK, RowInv, ListInv, Next \/ UNCHANGED vars
  PROVE  ListInv'
<1>1. CASE Desk \/ Tick
  <2>1. Moved /\ \A c \in Stored : c \in Stored' /\ row'[c].at = row[c].at
    BY <1>1, TablesMove
  <2>2. CASE screen' = Closed
    BY <2>2, ClosedIs DEF ListInv
  <2>3. CASE screen' # Closed /\ screen.kind = "list"
    <3>1. /\ ~screen.done /\ DOMAIN screen' = DOMAIN Closed
          /\ screen'.kind = "list" /\ ~screen'.done /\ screen'.still \in BOOLEAN
          /\ screen'.filter = screen.filter /\ screen'.cursor = screen.cursor
          /\ screen'.due = {c \in screen.due : row'[c].status \in screen.filter}
          /\ screen'.shown = screen.shown /\ screen'.again = screen.again
      BY <2>1, <2>3, MovedIs
    <3>2. Turning(screen) /\ ~screen.again
      BY <2>3, <3>1 DEF ListInv
    <3>3. In(screen.filter) \subseteq Stored /\ In(screen.filter) \subseteq Claims
      BY <3>2 DEF Turning, In, Stored, ClaimsOk
    <3>4. screen'.shown \subseteq Stored' /\ screen'.due \subseteq In(screen.filter)'
      BY <2>1, <3>1, <3>2, <3>3 DEF Turning, In
    <3>5. \A c \in screen.shown \cup screen.due : Place(c)' = Place(c)
      BY <2>1, <3>2, <3>3 DEF Turning, Place
    <3>6. Turning(screen)'
      BY <3>1, <3>2, <3>4, <3>5 DEF Turning
    <3> QED
      BY <3>1, <3>2, <3>6 DEF ListInv
  <2>4. CASE screen' # Closed /\ screen.kind # "list"
    BY <2>1, <2>4, MovedIs DEF ListInv
  <2> QED
    BY <2>2, <2>3, <2>4
<1>2. ASSUME NEW f \in Filters, OpenList(f) PROVE ListInv'
  BY <1>2, ListOpens
<1>3. CASE NextPage
  <2>1. Turn(screen) /\ Turning(screen)
    BY <1>3 DEF NextPage, ListInv
  <2> QED
    BY <2>1, TurnKeeps
<1>4. CASE OpenHome \/ ReadOldest \/ (\E f, t \in 0..Day(MaxNow) : OpenSettlement(f, t))
           \/ ReadDays \/ ReadMachines \/ OpenStats
  <2>1. CASE OpenHome \/ (\E f, t \in 0..Day(MaxNow) : OpenSettlement(f, t)) \/ OpenStats
    BY <2>1 DEF OpenHome, OpenSettlement, OpenStats, Show, Closed, ListInv
  <2>2. CASE ReadOldest \/ ReadDays \/ ReadMachines
    <3>1. screen.kind \in {"home", "settlement"} /\ screen'.kind = screen.kind
      BY <2>2 DEF ReadOldest, ReadDays, ReadMachines, Show, TypeOK, Closed
    <3>2. screen'.again = screen.again
      BY <2>2 DEF ReadOldest, ReadDays, ReadMachines, Show, TypeOK, Closed
    <3> QED
      BY <3>1, <3>2 DEF ListInv
  <2> QED
    BY <1>4, <2>1, <2>2
<1>5. CASE UNCHANGED vars
  BY <1>5 DEF vars, ListInv, Turning, Stored, In, Place
<1> QED
  BY <1>1, <1>2, <1>3, <1>4, <1>5 DEF Next

\* A screen keeps its shape.
LEMMA ShapeKeeps ==
  ASSUME ClaimsOk, NumbersOk, TypeOK, RowInv, ListInv, Next \/ UNCHANGED vars
  PROVE  ShapeOK(screen')
<1>0. ShapeOK(screen)
  BY DEF TypeOK, ShapeOK
<1>1. CASE Desk \/ Tick
  <2>1. Moved
    BY <1>1, TablesMove
  <2> QED
    BY <1>0, <2>1, MovedIs, ClosedIs DEF ShapeOK
<1>2. ASSUME NEW f \in Filters, OpenList(f) PROVE ShapeOK(screen')
  BY <1>2, ListOpens
<1>3. CASE NextPage
  <2>1. Turn(screen) /\ Turning(screen)
    BY <1>3 DEF NextPage, ListInv
  <2> QED
    BY <2>1, TurnKeeps DEF ShapeOK
<1>4. CASE OpenHome \/ (\E f, t \in 0..Day(MaxNow) : OpenSettlement(f, t)) \/ OpenStats
  BY <1>4 DEF OpenHome, OpenSettlement, OpenStats, Show, ShapeOK, Closed
<1>5. CASE ReadOldest \/ ReadDays \/ ReadMachines
  BY <1>0, <1>5 DEF ReadOldest, ReadDays, ReadMachines, Show, ShapeOK, Closed
<1>6. CASE UNCHANGED vars
  BY <1>0, <1>6 DEF vars
<1> QED
  BY <1>1, <1>2, <1>3, <1>4, <1>5, <1>6 DEF Next

-----------------------------------------------------------------------------
(* What the home screen and the figures by day show.                       *)

\* What is paid lies in the till, on the day it was paid on.
LEMMA TillIsPaid ==
  ASSUME ClaimsOk, NumbersOk, TypeOK, RowInv, TillInv
  PROVE  Total(till) = MoneyOut(In({"paid"}))
<1> DEFINE S == In({"paid"})
           f == [c \in S |-> PaidOut(c)]
           part == [d \in Days |-> PaidOn(d)]
<1>1. S \in SUBSET Claims /\ IsFiniteSet(S)
  <2>1. S \in SUBSET Claims
    BY DEF In
  <2> QED
    BY <2>1, FS_Subset DEF ClaimsOk
<1>2. f \in [S -> Nat]
  BY <1>1, MoneyType
<1>3. \A d : PaidOn(d) \subseteq S
  BY DEF PaidOn
<1>4. part \in [Days -> SUBSET S]
  BY <1>3
<1>5. \A d, e \in Days : d = e \/ part[d] \cap part[e] = {}
  BY DEF PaidOn
<1>6. ASSUME NEW c \in S PROVE \E d \in Days : c \in part[d]
  <2>1. row[c].paidAt \in Nat /\ row[c].paidAt <= MaxNow
    BY <1>1, <1>6 DEF RowInv, TypeOK, In, NumbersOk
  <2>2. KoreanDay(row[c].paidAt) \in Days
    BY <2>1, KoreanDaysInLine
  <2> QED
    BY <1>6, <2>2 DEF PaidOn
<1>7. ASSUME NEW d \in Days PROVE till[d] = Total([c \in part[d] |-> f[c]])
  <2>1. [c \in part[d] |-> f[c]] = [c \in PaidOn(d) |-> PaidOut(c)]
    BY <1>3, <1>7
  <2> QED
    BY <2>1, <1>7 DEF TillInv, MoneyOut
<1>8. till \in [Days -> Nat]
  BY DEF TypeOK
<1> HIDE DEF S, f, part
<1>9. Total(till) = Total(f)
  BY <1>1, <1>2, <1>4, <1>5, <1>6, <1>7, <1>8, SumsAddUp
<1> QED
  BY <1>9 DEF f, S, MoneyOut

\* The figures of all the days up to today are those of all the claims.
LEMMA DaysShowAll ==
  ASSUME ClaimsOk, NumbersOk, TypeOK, RowInv
  PROVE  Total([d \in 0..Day(now) |-> MoneyOut(Between(d, d))]) = MoneyOut(In({"paid"}))
<1> DEFINE S == Stored
           f == [c \in S |-> PaidOut(c)]
           D == 0..Day(now)
           part == [d \in D |-> Between(d, d)]
           g == [d \in D |-> MoneyOut(Between(d, d))]
<1>1. S \in SUBSET Claims /\ IsFiniteSet(S)
  <2>1. S \in SUBSET Claims
    BY DEF Stored
  <2> QED
    BY <2>1, FS_Subset DEF ClaimsOk
<1>2. f \in [S -> Nat]
  BY <1>1, MoneyType
<1>3. \A d : Between(d, d) \subseteq S
  BY DEF Between
<1>a. \A d \in D, c \in S : c \in Between(d, d) => Day(row[c].at) = d
  BY DEF Between
<1>4. part \in [D -> SUBSET S]
  BY <1>3
<1>5. \A d, e \in D : d = e \/ part[d] \cap part[e] = {}
  BY <1>3, <1>a
<1>6. ASSUME NEW c \in S PROVE \E d \in D : c \in part[d]
  <2>1. row[c].at \in Nat /\ row[c].at <= now /\ now \in Nat
    BY <1>1, <1>6 DEF RowInv, TypeOK, Stored
  <2>2. Day(row[c].at) \in Nat /\ Day(row[c].at) <= Day(now) /\ Day(now) \in Nat
    BY <2>1, DaysInLine DEF Day
  <2>3. Day(row[c].at) \in D /\ Day(row[c].at) \in Day(row[c].at)..Day(row[c].at)
    BY <2>2
  <2> QED
    BY <1>6, <2>3 DEF Between
<1>7. ASSUME NEW d \in D PROVE /\ g[d] = Total([c \in part[d] |-> f[c]])
                               /\ g[d] \in Nat
  <2>1. [c \in part[d] |-> f[c]] = [c \in Between(d, d) |-> PaidOut(c)]
    BY <1>3, <1>7
  <2>2. IsFiniteSet(part[d]) /\ [c \in part[d] |-> f[c]] \in [part[d] -> Nat]
    <3>1. part[d] \in SUBSET S
      BY <1>4, <1>7
    <3> QED
      BY <3>1, <1>1, <1>2, FS_Subset
  <2>3. Total([c \in part[d] |-> f[c]]) \in Nat
    <3> HIDE DEF part, f
    <3> QED
      BY <2>2, TotalType
  <2> QED
    BY <2>1, <2>3, <1>7 DEF MoneyOut
<1>8. g \in [D -> Nat]
  BY <1>7
<1>9. Units(f) = Units([c \in In({"paid"}) |-> PaidOut(c)])
  <2>1. \A c \in S : c \in In({"paid"}) \/ f[c] = 0
    BY DEF PaidOut, In, Stored
  <2>2. \A c \in In({"paid"}) : c \in S
    BY DEF In, Stored
  <2>3. \A c \in S : f[c] = 0 => {c} \X (1..f[c]) = {}
    OBVIOUS
  <2> QED
    BY <2>1, <2>2, <2>3 DEF Units
<1> HIDE DEF S, f, D, part, g
<1>10. Total(g) = Total(f)
  BY <1>1, <1>2, <1>4, <1>5, <1>6, <1>7, <1>8, SumsAddUp
<1> QED
  BY <1>9, <1>10 DEF Total, MoneyOut, g, D

\* Both figures are read in one query each, and compared with the till of that
\* moment.
LEMMA MoneyKeeps ==
  ASSUME ClaimsOk, NumbersOk, TypeOK, RowInv, TillInv, ListInv, ScreensShowMoneyOut,
         Next \/ UNCHANGED vars
  PROVE  ScreensShowMoneyOut'
<1>1. CASE Desk \/ Tick
  <2>1. Moved
    BY <1>1, TablesMove
  <2> QED
    BY <2>1, MovedIs, ClosedIs DEF ScreensShowMoneyOut
<1>2. ASSUME NEW f \in Filters, OpenList(f) PROVE ScreensShowMoneyOut'
  BY <1>2, ListOpens DEF ScreensShowMoneyOut
<1>3. CASE NextPage
  <2>1. screen'.kind = "list"
    BY <1>3 DEF NextPage, Turn, Show, TypeOK, Closed
  <2> QED
    BY <2>1 DEF ScreensShowMoneyOut
<1>4. CASE OpenHome
  <2>1. /\ screen'.kind = "home" /\ screen'.to = KoreanDay(now)
        /\ screen'.sums = <<MoneyOut(PaidToday)>> /\ UNCHANGED <<now, row, till>>
    BY <1>4 DEF OpenHome, Show, Closed
  <2>2. PaidToday = PaidOn(KoreanDay(now))
    BY DEF PaidToday, PaidOn
  <2>3. KoreanDay(now) \in Days
    BY KoreanDaysInLine DEF TypeOK, NumbersOk
  <2> QED
    BY <2>1, <2>2, <2>3 DEF ScreensShowMoneyOut, TillInv
<1>5. CASE ReadOldest
  <2>1. /\ screen'.kind = "home" /\ screen.kind = "home" /\ screen'.to = screen.to
        /\ screen'.sums = screen.sums /\ screen'.still = screen.still /\ till' = till
    BY <1>5 DEF ReadOldest, Show, TypeOK, Closed
  <2> QED
    BY <2>1 DEF ScreensShowMoneyOut
<1>6. CASE (\E f, t \in 0..Day(MaxNow) : OpenSettlement(f, t)) \/ ReadDays \/ ReadMachines
  <2>1. screen'.kind = "settlement"
    BY <1>6 DEF OpenSettlement, ReadDays, ReadMachines, Show, TypeOK, Closed
  <2> QED
    BY <2>1 DEF ScreensShowMoneyOut
<1>7. CASE OpenStats
  <2>1. /\ screen'.kind = "stats" /\ till' = till
        /\ screen'.sums[1] = [d \in 0..Day(now) |-> MoneyOut(Between(d, d))]
    BY <1>7 DEF OpenStats, Show, Closed
  <2>2. Total(screen'.sums[1]) = Total(till')
    BY <2>1, DaysShowAll, TillIsPaid
  <2> QED
    BY <2>1, <2>2 DEF ScreensShowMoneyOut
<1>8. CASE UNCHANGED vars
  BY <1>8 DEF vars, ScreensShowMoneyOut
<1> QED
  BY <1>1, <1>2, <1>3, <1>4, <1>5, <1>6, <1>7, <1>8 DEF Next

\* The oldest of the approvals is that of one claim, and before all others.
LEMMA OldestIs ==
  ASSUME ClaimsOk, TypeOK, RowInv, PendingApprovals # {}
  PROVE  /\ Min(PendingApprovals) \in PendingApprovals
         /\ \A t \in PendingApprovals : Min(PendingApprovals) <= t
         /\ PendingApprovals \subseteq Nat \ {0}
<1>1. PendingApprovals \in SUBSET Nat /\ PendingApprovals \subseteq Nat \ {0}
  <2>1. \A c \in In({"approved"}) : row[c].approvedAt \in Nat /\ row[c].approvedAt >= 1
    BY DEF RowInv, TypeOK, In
  <2> QED
    BY <2>1 DEF PendingApprovals
<1>2. \E m \in PendingApprovals : \A n \in PendingApprovals : m <= n
  BY <1>1, LeastIs
<1> QED
  BY <1>1, <1>2 DEF Min

\* Whatever is decided between the two queries, the second reads the log of the
\* claims that are approved by then.
LEMMA OldestKeeps ==
  ASSUME ClaimsOk, NumbersOk, TypeOK, RowInv, ListInv, OldestPromiseShown,
         Next \/ UNCHANGED vars
  PROVE  OldestPromiseShown'
<1>1. CASE Desk \/ Tick
  <2>1. Moved
    BY <1>1, TablesMove
  <2> QED
    BY <2>1, MovedIs, ClosedIs DEF OldestPromiseShown
<1>2. ASSUME NEW f \in Filters, OpenList(f) PROVE OldestPromiseShown'
  BY <1>2, ListOpens DEF OldestPromiseShown
<1>3. CASE NextPage \/ (\E f, t \in 0..Day(MaxNow) : OpenSettlement(f, t))
           \/ ReadDays \/ ReadMachines \/ OpenStats
  <2>1. screen'.kind # "home"
    BY <1>3 DEF NextPage, Turn, OpenSettlement, ReadDays, ReadMachines, OpenStats, Show,
                TypeOK, Closed
  <2> QED
    BY <2>1 DEF OldestPromiseShown
<1>4. CASE OpenHome
  <2>1. /\ screen'.promised = In({"approved"}) /\ screen'.oldest = 0
        /\ screen'.done = (In({"approved"}) = {})
    BY <1>4 DEF OpenHome, Show, Closed
  <2> QED
    BY <2>1 DEF OldestPromiseShown
<1>5. CASE ReadOldest
  <2> DEFINE oldest == IF PendingApprovals = {} THEN 0 ELSE Min(PendingApprovals)
  <2>1. screen'.oldest = oldest /\ UNCHANGED <<now, row, till>>
    BY <1>5 DEF ReadOldest, Show, TypeOK, Closed
  <2>2. In({"approved"})' = In({"approved"})
    BY <2>1 DEF In
  <2>3. ASSUME NEW c \in In({"approved"}) PROVE oldest \in 1..row[c].approvedAt
    <3>1. row[c].approvedAt \in PendingApprovals
      BY <2>3 DEF PendingApprovals
    <3> QED
      BY <3>1, OldestIs
  <2>4. oldest # 0 => \E c \in In({"approved"}) : row[c].approvedAt = oldest
    <3>1. oldest # 0 => oldest \in PendingApprovals
      BY OldestIs
    <3> QED
      BY <3>1 DEF PendingApprovals
  <2> HIDE DEF oldest
  <2> QED
    BY <2>1, <2>2, <2>3, <2>4 DEF OldestPromiseShown
<1>6. CASE UNCHANGED vars
  BY <1>6 DEF vars, OldestPromiseShown, In
<1> QED
  BY <1>1, <1>2, <1>3, <1>4, <1>5, <1>6 DEF Next

-----------------------------------------------------------------------------
(* The settlement.                                                         *)

Lines == [claims : Nat, paid : Nat]

\* Counts and sums are numbers.
LEMMA LineIs ==
  ASSUME ClaimsOk, NEW cs \in SUBSET Claims, NEW g \in [cs -> Nat]
  PROVE  IsFiniteSet(cs) /\ [claims |-> Cardinality(cs), paid |-> Total(g)] \in Lines
<1>1. IsFiniteSet(cs)
  BY FS_Subset DEF ClaimsOk
<1>2. Total(g) \in Nat
  BY <1>1, TotalType
<1>3. Cardinality(cs) \in Nat
  BY <1>1, FS_CardinalityType
<1> QED
  BY <1>1, <1>2, <1>3 DEF Lines

\* A line of the settlement is one.
LEMMA LineType ==
  ASSUME ClaimsOk, TypeOK, NEW cs \in SUBSET Claims
  PROVE  IsFiniteSet(cs) /\ Line(cs) \in Lines
<1>1. [c \in cs |-> AskedOfPaid(c)] \in [cs -> Nat]
  BY MoneyType
<1> QED
  BY <1>1, LineIs DEF Line

\* If claims are put on lines, each on one, the lines add up to that of all.
LEMMA LinesAddUp ==
  ASSUME ClaimsOk, TypeOK, NEW cs \in SUBSET Claims,
         NEW D, NEW part \in [D -> SUBSET cs],
         \A d, e \in D : d = e \/ part[d] \cap part[e] = {},
         \A c \in cs : \E d \in D : c \in part[d]
  PROVE  AddedUp([d \in D |-> Line(part[d])]) = Line(cs)
<1> DEFINE f == [c \in cs |-> AskedOfPaid(c)]
           lines == [d \in D |-> Line(part[d])]
           claims == [d \in D |-> lines[d].claims]
           paid == [d \in D |-> lines[d].paid]
<1>1. IsFiniteSet(cs)
  BY LineType
<1>2. f \in [cs -> Nat]
  BY MoneyType
<1>3. ASSUME NEW d \in D
      PROVE  /\ claims[d] = Cardinality(part[d]) /\ claims[d] \in Nat
             /\ paid[d] = Total([c \in part[d] |-> f[c]]) /\ paid[d] \in Nat
  <2>1. part[d] \in SUBSET cs /\ part[d] \in SUBSET Claims
    OBVIOUS
  <2>2. Line(part[d]) \in Lines
    BY <2>1, LineType
  <2>3. [c \in part[d] |-> f[c]] = [c \in part[d] |-> AskedOfPaid(c)]
    BY <2>1
  <2>4. /\ claims[d] = Line(part[d]).claims /\ paid[d] = Line(part[d]).paid
        /\ Line(part[d]).claims = Cardinality(part[d])
        /\ Line(part[d]).paid = Total([c \in part[d] |-> AskedOfPaid(c)])
    BY DEF Line
  <2> HIDE DEF claims, paid, f
  <2> QED
    BY <2>2, <2>3, <2>4 DEF Lines
<1>4. claims \in [D -> Nat] /\ paid \in [D -> Nat]
  BY <1>3
<1>5. DOMAIN lines = D
  OBVIOUS
<1>6. AddedUp(lines) = [claims |-> Total(claims), paid |-> Total(paid)]
  BY <1>5 DEF AddedUp
<1>7. Line(cs) = [claims |-> Cardinality(cs), paid |-> Total(f)]
  BY DEF Line
<1> HIDE DEF lines, claims, paid, f
<1>8. Total(claims) = Cardinality(cs)
  <2>1. \A d \in D : claims[d] = Cardinality(part[d])
    BY <1>3
  <2>2. claims \in [D -> Nat]
    BY <1>4
  <2> QED
    BY <1>1, <2>1, <2>2, PartsAddUp
<1>9. Total(paid) = Total(f)
  BY <1>1, <1>2, <1>3, <1>4, SumsAddUp
<1>10. AddedUp(lines) = Line(cs)
  BY <1>6, <1>7, <1>8, <1>9
<1> QED
  BY <1>10 DEF lines

\* The lines of the days of a period add up to that of the period, ...
LEMMA DaysOfPeriod ==
  ASSUME ClaimsOk, NumbersOk, TypeOK, RowInv, NEW f \in Int, NEW t \in Int
  PROVE  AddedUp([d \in f..t |-> Line(Between(d, d))]) = Line(Between(f, t))
<1> DEFINE part == [d \in f..t |-> Between(d, d)]
           cs == Between(f, t)
<1>1. cs \in SUBSET Claims
  BY DEF Between, Stored
<1>2. \A d \in f..t : \A c :
        c \in Between(d, d) <=> c \in Stored /\ Day(row[c].at) = d
  BY DEF Between
<1>3. part \in [f..t -> SUBSET cs]
  BY <1>2 DEF Between
<1>4. \A d, e \in f..t : d = e \/ part[d] \cap part[e] = {}
  BY <1>2
<1>5. \A c \in cs : \E d \in f..t : c \in part[d]
  BY <1>2 DEF Between
<1> DEFINE lines == [d \in f..t |-> Line(part[d])]
<1>6. lines = [d \in f..t |-> Line(Between(d, d))]
  OBVIOUS
<1> HIDE DEF part, cs
<1>7. AddedUp(lines) = Line(cs)
  BY <1>1, <1>3, <1>4, <1>5, LinesAddUp
<1> QED
  BY <1>6, <1>7 DEF cs

\* ... and of its machines, if none of them is off.
LEMMA MachinesOfPeriod ==
  ASSUME ClaimsOk, TypeOK, Active = Machines, NEW f, NEW t
  PROVE  AddedUp([m \in Active |-> Line({c \in Between(f, t) : MachineOf[c] = m})])
           = Line(Between(f, t))
<1> DEFINE cs == Between(f, t)
           part == [m \in Active |-> {c \in cs : MachineOf[c] = m}]
<1>1. cs \in SUBSET Claims
  BY DEF Between, Stored
<1>2. part \in [Active -> SUBSET cs]
  OBVIOUS
<1>3. \A m, n \in Active : m = n \/ part[m] \cap part[n] = {}
  OBVIOUS
<1>4. \A c \in cs : \E m \in Active : c \in part[m]
  BY <1>1 DEF ClaimsOk
<1> DEFINE lines == [m \in Active |-> Line(part[m])]
<1>5. lines = [m \in Active |-> Line({c \in Between(f, t) : MachineOf[c] = m})]
  OBVIOUS
<1> HIDE DEF part, cs
<1>6. AddedUp(lines) = Line(cs)
  BY <1>1, <1>2, <1>3, <1>4, LinesAddUp
<1> QED
  BY <1>5, <1>6 DEF cs

\* Lines are ordered.
LEMMA AtMostIs ==
  /\ \A k \in Lines : AtMost(k, k)
  /\ \A k, l, m \in Lines : AtMost(k, l) /\ AtMost(l, m) => AtMost(k, m)
BY DEF AtMost, Lines

\* The claims of a period become no fewer, and no less has been paid for them.
LEMMA LineGrows ==
  ASSUME ClaimsOk, NumbersOk, TypeOK, TypeOK', RowInv, Desk \/ Tick, NEW f, NEW t
  PROVE  AtMost(Line(Between(f, t)), Line(Between(f, t))')
<1> DEFINE S == Between(f, t)
           T == Between(f, t)'
           a == [c \in S |-> AskedOfPaid(c)]
           b == [c \in T |-> AskedOfPaid(c)']
<1>1. S \in SUBSET Claims /\ T \in SUBSET Claims
  BY DEF Between, Stored
<1>2. S \subseteq T
  BY TablesMove DEF Between, Stored, Day
<1>3. IsFiniteSet(S) /\ IsFiniteSet(T)
  BY <1>1, FS_Subset DEF ClaimsOk
<1>4. \A c \in Claims : /\ AskedOfPaid(c) \in Nat /\ AskedOfPaid(c)' \in Nat
                        /\ AskedOfPaid(c) <= AskedOfPaid(c)'
  <2>1. \A c \in Claims : AskedOfPaid(c)' \in Nat
    BY DEF ClaimsOk, TypeOK, AskedOfPaid
  <2> QED
    BY <2>1, MoneyType, TablesMove
<1>5. a \in [S -> Nat] /\ b \in [T -> Nat] /\ \A c \in S : a[c] <= b[c]
  BY <1>1, <1>2, <1>4
<1>6. Line(Between(f, t)) = [claims |-> Cardinality(S), paid |-> Total(a)]
  BY DEF Line
<1>7. Line(Between(f, t))' = [claims |-> Cardinality(T), paid |-> Total(b)]
  BY DEF Line
<1> HIDE DEF S, T, a, b
<1>8. Total(a) <= Total(b)
  BY <1>2, <1>3, <1>5, TotalGrows
<1>9. Cardinality(S) <= Cardinality(T)
  BY <1>2, <1>3, FS_Subset
<1> QED
  BY <1>6, <1>7, <1>8, <1>9 DEF AtMost

\* The totals, and the lines by day, are of this moment or of an earlier one.
TotalsOk(s, here) ==
  s.sums[1] \in Lines /\ AtMost(s.sums[1], here) /\ (s.still => s.sums[1] = here)
DaysOk(s, here) ==
  LET days == AddedUp(s.sums[2])
  IN /\ days \in Lines /\ AtMost(s.sums[1], days) /\ AtMost(days, here)
     /\ s.still => days = here /\ s.sums[1] = days

SettleInv ==
  screen.kind = "settlement" =>
    /\ screen.from \in Int /\ screen.to \in Int
    /\ screen.done <=> Len(screen.sums) = 3
    /\ Len(screen.sums) \in {1, 2} =>
         TotalsOk(screen, Line(Between(screen.from, screen.to)))
    /\ Len(screen.sums) = 2 =>
         DaysOk(screen, Line(Between(screen.from, screen.to)))
    /\ SettlementAddsUp

\* The line of a period is one.
LEMMA PeriodType ==
  ASSUME ClaimsOk, TypeOK, NEW f, NEW t
  PROVE  Between(f, t) \in SUBSET Claims /\ Line(Between(f, t)) \in Lines
<1>1. Between(f, t) \in SUBSET Claims
  BY DEF Between, Stored
<1> QED
  BY <1>1, LineType

\* Each of the three queries reads a line that is no smaller than the one before.
LEMMA SettleKeeps ==
  ASSUME ClaimsOk, NumbersOk, TypeOK, TypeOK', RowInv, SettleInv, ListInv,
         Next \/ UNCHANGED vars
  PROVE  SettleInv'
<1>a. PICK f, t : f = screen.from /\ t = screen.to
  OBVIOUS
<1>b. Line(Between(f, t)) \in Lines /\ Line(Between(f, t))' \in Lines
  <2> DEFINE T == Between(f, t)'
             b == [c \in T |-> AskedOfPaid(c)']
  <2>1. T \in SUBSET Claims
    BY DEF Between, Stored
  <2>2. b \in [T -> Nat]
    BY <2>1 DEF ClaimsOk, TypeOK, AskedOfPaid
  <2>3. Line(Between(f, t))' = [claims |-> Cardinality(T), paid |-> Total(b)]
    BY DEF Line
  <2> HIDE DEF T, b
  <2>4. [claims |-> Cardinality(T), paid |-> Total(b)] \in Lines
    BY <2>1, <2>2, LineIs
  <2> QED
    BY <2>3, <2>4, PeriodType
<1>1. CASE Desk \/ Tick
  <2>1. Moved
    BY <1>1, TablesMove
  <2>2. CASE screen' = Closed
    BY <2>2, ClosedIs DEF SettleInv
  <2>3. CASE screen' # Closed /\ screen.kind # "settlement"
    BY <2>1, <2>3, MovedIs DEF SettleInv
  <2>4. CASE screen' # Closed /\ screen.kind = "settlement"
    <3>1. /\ ~screen.done /\ ~screen'.done /\ ~screen'.still
          /\ screen'.kind = screen.kind
          /\ screen'.from = f /\ screen'.to = t
          /\ screen'.sums = screen.sums
      BY <1>a, <2>1, <2>4, MovedIs
    <3>2. AtMost(Line(Between(f, t)), Line(Between(f, t))')
      BY <1>1, LineGrows
    <3>3. Len(screen.sums) \in {1, 2} => TotalsOk(screen', Line(Between(f, t))')
      BY <1>a, <1>b, <2>4, <3>1, <3>2, AtMostIs DEF SettleInv, TotalsOk
    <3>4. Len(screen.sums) = 2 => DaysOk(screen', Line(Between(f, t))')
      BY <1>a, <1>b, <2>4, <3>1, <3>2, AtMostIs DEF SettleInv, DaysOk
    <3>5. SettlementAddsUp'
      BY <3>1 DEF SettlementAddsUp
    <3> QED
      BY <1>a, <2>4, <3>1, <3>3, <3>4, <3>5 DEF SettleInv
  <2> QED
    BY <2>2, <2>3, <2>4
<1>2. ASSUME NEW x \in 0..Day(MaxNow), NEW y \in 0..Day(MaxNow), OpenSettlement(x, y)
      PROVE  SettleInv'
  <2>1. /\ screen'.kind = "settlement" /\ screen'.from = x /\ screen'.to = y
        /\ ~screen'.done /\ screen'.sums = <<Line(Between(x, y))>>
        /\ UNCHANGED <<now, row, till>>
    BY <1>2 DEF OpenSettlement, Show, Closed
  <2>2. Line(Between(x, y))' = Line(Between(x, y))
    BY <2>1 DEF Line, Between, Stored, AskedOfPaid
  <2>3. Len(screen'.sums) = 1 /\ screen'.sums[1] = Line(Between(x, y))
    BY <2>1
  <2>4. TotalsOk(screen', Line(Between(x, y))')
    BY <2>2, <2>3, PeriodType, AtMostIs DEF TotalsOk
  <2>5. SettlementAddsUp'
    BY <2>1 DEF SettlementAddsUp
  <2> QED
    BY <2>1, <2>3, <2>4, <2>5 DEF SettleInv
<1>3. CASE ReadDays
  <2> DEFINE lines == [d \in screen.from..screen.to |-> Line(Between(d, d))]
  <2>1. /\ screen.kind = "settlement" /\ Len(screen.sums) = 1
        /\ screen'.kind = "settlement" /\ screen'.from = f /\ screen'.to = t
        /\ screen'.done = screen.done /\ screen'.still = screen.still
        /\ screen'.sums = <<screen.sums[1], lines>>
        /\ UNCHANGED <<now, row, till>>
    BY <1>3, <1>a DEF ReadDays, Show, TypeOK, Closed
  <2> HIDE DEF lines
  <2>2. Line(Between(f, t))' = Line(Between(f, t))
    BY <2>1 DEF Line, Between, Stored, AskedOfPaid
  <2>3. /\ Len(screen'.sums) = 2
        /\ screen'.sums[1] = screen.sums[1] /\ screen'.sums[2] = lines
    BY <2>1
  <2>4. /\ f \in Int /\ t \in Int /\ ~screen.done
        /\ TotalsOk(screen, Line(Between(f, t)))
    BY <1>a, <2>1 DEF SettleInv
  <2>5. AddedUp(lines) = Line(Between(f, t))
    BY <1>a, <2>4, DaysOfPeriod DEF lines
  <2>6. TotalsOk(screen', Line(Between(f, t))') /\ DaysOk(screen', Line(Between(f, t))')
    BY <1>b, <2>1, <2>2, <2>3, <2>4, <2>5, AtMostIs DEF TotalsOk, DaysOk
  <2>7. SettlementAddsUp'
    BY <2>1, <2>4 DEF SettlementAddsUp
  <2> QED
    BY <2>1, <2>3, <2>4, <2>6, <2>7 DEF SettleInv
<1>4. CASE ReadMachines
  <2> DEFINE lines == [m \in Active |-> Line({c \in Between(screen.from, screen.to) :
                                                  MachineOf[c] = m})]
  <2>1. /\ screen.kind = "settlement" /\ Len(screen.sums) = 2
        /\ screen'.kind = "settlement" /\ screen'.from = f /\ screen'.to = t
        /\ screen'.done = TRUE /\ screen'.still = screen.still
        /\ screen'.sums = <<screen.sums[1], screen.sums[2], lines>>
    BY <1>4, <1>a DEF ReadMachines, Show, TypeOK, Closed
  <2> HIDE DEF lines
  <2>2. /\ Len(screen'.sums) = 3 /\ screen'.sums[1] = screen.sums[1]
        /\ screen'.sums[2] = screen.sums[2] /\ screen'.sums[3] = lines
    BY <2>1
  <2>3. /\ f \in Int /\ t \in Int
        /\ DaysOk(screen, Line(Between(f, t)))
    BY <1>a, <2>1 DEF SettleInv
  <2>4. Active = Machines => AddedUp(lines) = Line(Between(f, t))
    BY <1>a, MachinesOfPeriod DEF lines
  <2>5. SettlementAddsUp'
    BY <2>1, <2>2, <2>3, <2>4 DEF SettlementAddsUp, DaysOk
  <2> QED
    BY <2>1, <2>2, <2>3, <2>5 DEF SettleInv
<1>5. ASSUME NEW x \in Filters, OpenList(x) PROVE SettleInv'
  BY <1>5, ListOpens DEF SettleInv
<1>6. CASE NextPage \/ OpenHome \/ ReadOldest \/ OpenStats
  <2>1. screen'.kind # "settlement"
    BY <1>6 DEF NextPage, Turn, OpenHome, ReadOldest, OpenStats, Show, TypeOK, Closed
  <2> QED
    BY <2>1 DEF SettleInv
<1>7. CASE UNCHANGED vars
  <2>1. Line(Between(f, t))' = Line(Between(f, t)) /\ screen' = screen
    BY <1>7 DEF vars, Line, Between, Stored, AskedOfPaid
  <2>2. SettlementAddsUp' <=> SettlementAddsUp
    BY <2>1 DEF SettlementAddsUp
  <2> QED
    BY <1>a, <2>1, <2>2 DEF SettleInv
<1> QED
  BY <1>1, <1>2, <1>3, <1>4, <1>5, <1>6, <1>7 DEF Next

-----------------------------------------------------------------------------
(* What holds in every state.                                              *)

IInv ==
  /\ TypeOK /\ RowInv /\ TillInv
  /\ ListInv /\ SettleInv /\ ScreensShowMoneyOut /\ OldestPromiseShown

\* All of it holds at the start, ...
LEMMA InitialHolds ==
  ASSUME ClaimsOk, NumbersOk, Init
  PROVE  IInv
<1>1. TypeOK /\ RowInv /\ TillInv
  BY InitHolds
<1>2. ListInv /\ SettleInv /\ ScreensShowMoneyOut /\ OldestPromiseShown
  BY ClosedIs DEF Init, ListInv, SettleInv, ScreensShowMoneyOut, OldestPromiseShown
<1> QED
  BY <1>1, <1>2 DEF IInv

\* ... and after every step.
LEMMA StepHolds ==
  ASSUME ClaimsOk, NumbersOk, IInv, Next \/ UNCHANGED vars
  PROVE  IInv'
<1>1. ListInv' /\ ShapeOK(screen')
  BY ListKeeps, ShapeKeeps DEF IInv
<1>2. TypeOK' /\ RowInv' /\ TillInv'
  BY <1>1, RowKeeps, TillKeeps DEF IInv, TypeOK, ShapeOK
<1>3. SettleInv' /\ ScreensShowMoneyOut' /\ OldestPromiseShown'
  BY <1>2, SettleKeeps, MoneyKeeps, OldestKeeps DEF IInv
<1> QED
  BY <1>1, <1>2, <1>3 DEF IInv

\* The parts hold together, always.
THEOREM ScreensInvariant == Spec => []IInv
<1>1. Init => IInv
  BY InitialHolds, SettingOk
<1>2. IInv /\ [Next]_vars => IInv'
  BY StepHolds, SettingOk
<1> QED
  BY <1>1, <1>2, PTL DEF Spec

\* The tables hold what they are declared to hold, and a screen what it shows.
THEOREM ScreensTypeCorrect == Spec => []TypeOK
<1>1. IInv => TypeOK
  BY DEF IInv
<1> QED
  BY <1>1, ScreensInvariant, PTL

\* Whoever turns all the pages of the list is shown each claim that was there
\* when he began and has been what he asked for all along, and none twice
\* (query.go:48-100).
THEOREM PagesShowEachOnceHolds == Spec => []PagesShowEachOnce
<1>1. IInv => PagesShowEachOnce
  BY DEF IInv, ListInv, PagesShowEachOnce, PagesMissNone
<1> QED
  BY <1>1, ScreensInvariant, PTL

\* The home screen shows the money that went out on the Korean day it was
\* opened on, and the figures by day add up to all that ever did, as long as
\* nothing has been committed since (home.go:33-74, stats.go:18-47).
THEOREM ScreensShowMoneyOutHolds == Spec => []ScreensShowMoneyOut
<1>1. IInv => ScreensShowMoneyOut
  BY DEF IInv
<1> QED
  BY <1>1, ScreensInvariant, PTL

\* "The oldest has been waiting since" is not later than the approval of any
\* claim that was promised when the home screen was opened and still is, and
\* is the time of one that is, whatever is decided between the two queries
\* (home.go:76-82).
THEOREM OldestPromiseShownHolds == Spec => []OldestPromiseShown
<1>1. IInv => OldestPromiseShown
  BY DEF IInv
<1> QED
  BY <1>1, ScreensInvariant, PTL

\* The lines of the settlement by day, and by machine if none is off, never
\* add up to less than the totals above them, and to the same if nothing was
\* committed between the three queries (settlement.go:67-150,
\* settlement_integration_test.go:97-103).
THEOREM SettlementAddsUpHolds == Spec => []SettlementAddsUp
<1>1. IInv => SettlementAddsUp
  BY DEF IInv, SettleInv, SettlementAddsUp
<1> QED
  BY <1>1, ScreensInvariant, PTL

-----------------------------------------------------------------------------
(* Who gets in.                                                            *)

\* A handler that is not idle works on an account; one that compares a
\* password found it in the table.
JobOf(h) ==
  /\ pc[h] # "idle" => job[h].on \in Users
  /\ pc[h] = "compare" => users[job[h].on].there

\* The count in the row of u.
RowCount(u) ==
  /\ ~late[u] => /\ users[u].failed <= streak[u]
                 /\ users[u].lockedUntil # 0 => streak[u] >= maxLoginFailures
  /\ ~late[u] /\ ~overlap[u] =>
       /\ users[u].failed = streak[u]
       /\ streak[u] >= maxLoginFailures => users[u].lockedUntil # 0

\* The count in a handler that compares a password of u.
HeldCount(h, u) ==
  pc[h] = "compare" /\ job[h].on = u /\ ~late[u] =>
    /\ failed[h] <= streak[u]
    /\ ~overlap[u] => failed[h] = streak[u]

CountInv ==
  /\ \A u \in Users : RowCount(u)
  /\ \A h \in Handlers, u \in Users : HeldCount(h, u)

\* The guard of the last account, while it has not been crossed.
GuardInv ==
  ~crossed =>
    /\ ActiveUsers # {}
    /\ \A h \in Handlers : pc[h] = "off" => ActiveUsers \ {job[h].on} # {}
    /\ \A g, h \in Handlers : pc[g] = "off" /\ pc[h] = "off" => g = h

AccountsInv == AccountsTypeOK /\ (\A h \in Handlers : JobOf(h)) /\ CountInv /\ GuardInv

-----------------------------------------------------------------------------
(* Steps.                                                                  *)

LEMMA AccountsBegin ==
  ASSUME AccountsInit
  PROVE  AccountsInv
<1> USE UsersType, LimitsType DEF AccountsInit
<1> DEFINE Rows == [there : BOOLEAN, active : BOOLEAN, failed : Nat, lockedUntil : Nat]
<1>1. NoAccount \in Rows /\ Fresh \in Rows
  BY DEF NoAccount, Fresh
<1>2. AccountsTypeOK
  <2>1. users \in [Users -> [there : BOOLEAN, active : BOOLEAN, failed : Nat,
                             lockedUntil : Nat]]
    BY <1>1
  <2>2. \A u \in Users : ~users[u].there => users[u] = NoAccount /\ cookie[u] = 0
    BY DEF Fresh, NoAccount
  <2>3. job \in [Handlers -> [by : Users \cup {Nobody}, on : Users \cup {Nobody}]]
    BY DEF NoJob
  <2>4. late \in [Users -> BOOLEAN] /\ overlap \in [Users -> BOOLEAN]
    OBVIOUS
  <2>5. /\ now \in 1..MaxNow
        /\ cookie \in [Users -> Nat] /\ streak \in [Users -> Nat]
        /\ failed \in [Handlers -> Nat]
        /\ pc \in [Handlers -> {"idle", "compare", "create", "count", "on", "off"}]
    OBVIOUS
  <2>6. crossed \in BOOLEAN
    OBVIOUS
  <2> QED
    BY <2>1, <2>2, <2>3, <2>4, <2>5, <2>6, Zenon DEF AccountsTypeOK
<1>3. \A h \in Handlers : JobOf(h)
  BY DEF JobOf
<1>4. CountInv
  BY DEF CountInv, RowCount, HeldCount, Fresh, NoAccount
<1>5. GuardInv
  <2>1. Owner \in ActiveUsers
    BY DEF ActiveUsers, Fresh, NoAccount
  <2> QED
    BY <2>1 DEF GuardInv
<1> QED
  BY <1>2, <1>3, <1>4, <1>5 DEF AccountsInv

\* The steps of a handler, by name.
LEMMA AccountsSteps ==
  ASSUME AccountsNext
  PROVE  \/ \E h \in Handlers, u \in Users : ReadAccount(h, u)
         \/ \E h \in Handlers, by, on \in Users, here \in {"create", "on", "count"} :
              Serve(h, by, on, here)
         \/ \E h \in Handlers : WrongPassword(h)
         \/ \E h \in Handlers : RightPassword(h)
         \/ \E h \in Handlers : CreateUser(h)
         \/ \E h \in Handlers : CountOthers(h)
         \/ \E h \in Handlers : Switch(h)
         \/ \E h \in Handlers : Fail(h)
         \/ \E u \in Users : Logout(u)
         \/ \E u \in Users : SetPassword(u)
         \/ AccountsTick
  BY DEF AccountsNext, Request, Handle

\* A reset leaves the three histories of the tries well typed.
LEMMA RestartType ==
  ASSUME AccountsTypeOK, NEW u \in Users, NEW h, Restart(u, h)
  PROVE  /\ streak' \in [Users -> Nat]
         /\ late' \in [Users -> BOOLEAN]
         /\ overlap' \in [Users -> BOOLEAN]
<1> DEFINE others == Comparing(u) \ {h} # {}
<1>1. others \in BOOLEAN
  OBVIOUS
<1> HIDE DEF others
<1>2. late' = [late EXCEPT ![u] = others]
  BY DEF Restart, others
<1> QED
  BY <1>1, <1>2 DEF Restart, AccountsTypeOK

LEMMA AccountsTypeKeeps ==
  ASSUME AccountsInv, [AccountsNext]_accountsVars
  PROVE  AccountsTypeOK'
<1> USE UsersType, LimitsType
<1> DEFINE Rows == [there : BOOLEAN, active : BOOLEAN, failed : Nat, lockedUntil : Nat]
<1>0. AccountsTypeOK /\ (\A h \in Handlers : JobOf(h))
  BY DEF AccountsInv
<1>a. NoAccount \in Rows /\ Fresh \in Rows /\ Fresh.there
  BY DEF NoAccount, Fresh
<1>b. NoJob \in [by : Users \cup {Nobody}, on : Users \cup {Nobody}]
  BY DEF NoJob
<1>1. ASSUME NEW h \in Handlers, NEW u \in Users, ReadAccount(h, u) PROVE AccountsTypeOK'
  <2>1. /\ pc' = [pc EXCEPT ![h] = "compare"]
        /\ job' = [job EXCEPT ![h].on = u]
        /\ failed' = [failed EXCEPT ![h] = users[u].failed]
        /\ UNCHANGED <<now, users, cookie, streak, late, overlap, crossed>>
    BY <1>1 DEF ReadAccount
  <2>2. /\ pc' \in [Handlers -> {"idle", "compare", "create", "count", "on", "off"}]
        /\ job' \in [Handlers -> [by : Users \cup {Nobody}, on : Users \cup {Nobody}]]
        /\ failed' \in [Handlers -> Nat]
    BY <1>0, <1>1, <2>1 DEF AccountsTypeOK
  <2> QED
    BY <1>0, <2>1, <2>2 DEF AccountsTypeOK
<1>2. ASSUME NEW h \in Handlers, NEW by \in Users, NEW on \in Users,
             NEW here \in {"create", "on", "count"}, Serve(h, by, on, here)
      PROVE AccountsTypeOK'
  BY <1>0, <1>2 DEF Serve, AccountsTypeOK
<1>3. ASSUME NEW h \in Handlers, WrongPassword(h) PROVE AccountsTypeOK'
  <2> DEFINE u == job[h].on
             n == failed[h] + 1
             lock == IF n >= maxLoginFailures THEN now + lockDuration ELSE 0
             crowd == overlap[u] \/ Comparing(u) # {h}
  <2>1. /\ users' = [users EXCEPT ![u].failed = n, ![u].lockedUntil = lock]
        /\ streak' = [streak EXCEPT ![u] = streak[u] + 1]
        /\ overlap' = [overlap EXCEPT ![u] = crowd]
        /\ Done(h) /\ UNCHANGED <<now, cookie, late, crossed>>
    BY <1>3 DEF WrongPassword, CountUp
  <2>2. u \in Users /\ users[u].there /\ n \in Nat /\ lock \in Nat
    BY <1>0, <1>3 DEF WrongPassword, AccountsTypeOK, JobOf
  <2>3. crowd \in BOOLEAN
    OBVIOUS
  <2> HIDE DEF n, lock, crowd, u
  <2>a. users \in [Users -> Rows] /\ users[u] \in Rows
    BY <1>0, <2>2 DEF AccountsTypeOK
  <2>b. users' \in [Users -> Rows] /\ users'[u].there
    BY <2>1, <2>2, <2>a
  <2>c. \A v \in Users \ {u} : users'[v] = users[v]
    BY <2>1, <2>a
  <2>4. /\ users' \in [Users -> Rows]
        /\ \A v \in Users : ~users'[v].there => users'[v] = NoAccount /\ cookie'[v] = 0
    BY <1>0, <2>1, <2>b, <2>c DEF AccountsTypeOK
  <2>5. streak' \in [Users -> Nat]
    BY <1>0, <2>1, <2>2 DEF AccountsTypeOK
  <2>6. overlap' \in [Users -> BOOLEAN]
    BY <1>0, <2>1, <2>3 DEF AccountsTypeOK
  <2> QED
    BY <1>0, <1>b, <2>1, <2>4, <2>5, <2>6 DEF Done, AccountsTypeOK
<1>4. ASSUME NEW h \in Handlers, RightPassword(h) PROVE AccountsTypeOK'
  <2> DEFINE u == job[h].on
  <2>1. u \in Users /\ users[u] \in Rows /\ users[u].there /\ pc[h] = "compare"
    BY <1>0, <1>4 DEF RightPassword, JobOf, AccountsTypeOK
  <2>2. /\ streak' \in [Users -> Nat]
        /\ late' \in [Users -> BOOLEAN]
        /\ overlap' \in [Users -> BOOLEAN]
    BY <1>0, <1>4, <2>1, RestartType DEF RightPassword, AccountsTypeOK
  <2>3. users' = users \/ users' = [users EXCEPT ![u].failed = 0, ![u].lockedUntil = 0]
    BY <1>4 DEF RightPassword
  <2>4. cookie' = [cookie EXCEPT ![u] = now + sessionLifetime] /\ Done(h) /\ now' = now
          /\ crossed' = crossed
    BY <1>4 DEF RightPassword
  <2>5. users' \in [Users -> Rows]
    BY <1>0, <2>1, <2>3 DEF AccountsTypeOK
  <2>6. cookie' \in [Users -> Nat]
    BY <1>0, <2>1, <2>4 DEF AccountsTypeOK
  <2>7. \A v \in Users : ~users'[v].there => users'[v] = NoAccount /\ cookie'[v] = 0
    BY <1>0, <2>1, <2>3, <2>4 DEF AccountsTypeOK
  <2> QED
    BY <1>0, <1>b, <2>2, <2>4, <2>5, <2>6, <2>7 DEF Done, AccountsTypeOK
<1>5. ASSUME NEW h \in Handlers, CreateUser(h) PROVE AccountsTypeOK'
  BY <1>0, <1>5, <1>a, <1>b DEF CreateUser, Done, AccountsTypeOK, JobOf
<1>6. ASSUME NEW h \in Handlers, CountOthers(h) PROVE AccountsTypeOK'
  BY <1>0, <1>6 DEF CountOthers, AccountsTypeOK
<1>7. ASSUME NEW h \in Handlers, Switch(h) PROVE AccountsTypeOK'
  <2> DEFINE u == job[h].on
             on == (pc[h] = "on")
  <2>1. u \in Users /\ users[u] \in Rows /\ users[u].there /\ on \in BOOLEAN
    BY <1>0, <1>7 DEF Switch, JobOf, AccountsTypeOK
  <2>2. users' = [users EXCEPT ![u].active = on]
    BY <1>7 DEF Switch
  <2> HIDE DEF on
  <2>3. users' \in [Users -> Rows]
    BY <1>0, <2>1, <2>2 DEF AccountsTypeOK
  <2>4. \A v \in Users : ~users'[v].there => users'[v] = NoAccount /\ cookie'[v] = 0
    BY <1>0, <1>7, <2>1, <2>2 DEF AccountsTypeOK, Switch
  <2> QED
    BY <1>0, <1>7, <1>b, <2>3, <2>4 DEF Switch, Done, AccountsTypeOK
<1>8. ASSUME NEW h \in Handlers, Fail(h) PROVE AccountsTypeOK'
  BY <1>0, <1>8, <1>b DEF Fail, Done, AccountsTypeOK
<1>9. ASSUME NEW u \in Users, Logout(u) PROVE AccountsTypeOK'
  BY <1>0, <1>9 DEF Logout, AccountsTypeOK
<1>10. ASSUME NEW u \in Users, SetPassword(u) PROVE AccountsTypeOK'
  <2>1. /\ streak' \in [Users -> Nat]
        /\ late' \in [Users -> BOOLEAN]
        /\ overlap' \in [Users -> BOOLEAN]
    BY <1>0, <1>10, RestartType DEF SetPassword
  <2>a. users[u] \in Rows /\ users[u].there
    BY <1>0, <1>10 DEF SetPassword, AccountsTypeOK
  <2>b. users' = [users EXCEPT ![u].failed = 0, ![u].lockedUntil = 0]
    BY <1>10 DEF SetPassword
  <2>2. users' \in [Users -> Rows]
    BY <1>0, <2>a, <2>b DEF AccountsTypeOK
  <2>3. \A v \in Users : ~users'[v].there => users'[v] = NoAccount /\ cookie'[v] = 0
    BY <1>0, <1>10, <2>a, <2>b DEF SetPassword, AccountsTypeOK
  <2>4. UNCHANGED <<now, cookie, pc, job, failed, crossed>>
    BY <1>10 DEF SetPassword
  <2> QED
    BY <1>0, <2>1, <2>2, <2>3, <2>4 DEF AccountsTypeOK
<1>11. CASE AccountsTick
  BY <1>0, <1>11 DEF AccountsTick, AccountsTypeOK
<1>12. CASE UNCHANGED accountsVars
  BY <1>0, <1>12 DEF accountsVars, AccountsTypeOK
<1> QED
  BY <1>1, <1>2, <1>3, <1>4, <1>5, <1>6, <1>7, <1>8, <1>9, <1>10, <1>11, <1>12,
     AccountsSteps

LEMMA JobsKeep ==
  ASSUME AccountsInv, [AccountsNext]_accountsVars,
         NEW k \in Handlers
  PROVE  JobOf(k)'
<1> USE UsersType
<1>0. AccountsTypeOK /\ (\A h \in Handlers : JobOf(h)) /\ JobOf(k)
  BY DEF AccountsInv
<1>1. ASSUME NEW h \in Handlers, NEW u \in Users, ReadAccount(h, u) PROVE JobOf(k)'
  BY <1>0, <1>1 DEF ReadAccount, AccountsTypeOK, JobOf
<1>2. ASSUME NEW h \in Handlers, NEW by \in Users, NEW on \in Users,
             NEW here \in {"create", "on", "count"}, Serve(h, by, on, here)
      PROVE JobOf(k)'
  BY <1>0, <1>2 DEF Serve, AccountsTypeOK, JobOf
<1>a. \* Nobody leaves the table.
      ASSUME \A v \in Users : users[v].there => users'[v].there,
             NEW h \in Handlers, Done(h)
      PROVE JobOf(k)'
  BY <1>0, <1>a DEF Done, AccountsTypeOK, JobOf
<1>3. ASSUME NEW h \in Handlers, WrongPassword(h) PROVE JobOf(k)'
  BY <1>0, <1>3, <1>a DEF WrongPassword, AccountsTypeOK
<1>4. ASSUME NEW h \in Handlers, RightPassword(h) PROVE JobOf(k)'
  BY <1>0, <1>4, <1>a DEF RightPassword, AccountsTypeOK
<1>5. ASSUME NEW h \in Handlers, CreateUser(h) PROVE JobOf(k)'
  BY <1>0, <1>5, <1>a DEF CreateUser, AccountsTypeOK
<1>6. ASSUME NEW h \in Handlers, CountOthers(h) PROVE JobOf(k)'
  BY <1>0, <1>6 DEF CountOthers, AccountsTypeOK, JobOf
<1>7. ASSUME NEW h \in Handlers, Switch(h) PROVE JobOf(k)'
  BY <1>0, <1>7, <1>a DEF Switch, AccountsTypeOK
<1>8. ASSUME NEW h \in Handlers, Fail(h) PROVE JobOf(k)'
  BY <1>0, <1>8, <1>a DEF Fail
<1>9. ASSUME NEW u \in Users, Logout(u) PROVE JobOf(k)'
  BY <1>0, <1>9 DEF Logout, JobOf
<1>10. ASSUME NEW u \in Users, SetPassword(u) PROVE JobOf(k)'
  BY <1>0, <1>10 DEF SetPassword, AccountsTypeOK, JobOf
<1>11. CASE AccountsTick
  BY <1>0, <1>11 DEF AccountsTick, JobOf
<1>12. CASE UNCHANGED accountsVars
  BY <1>0, <1>12 DEF accountsVars, JobOf
<1> QED
  BY <1>1, <1>2, <1>3, <1>4, <1>5, <1>6, <1>7, <1>8, <1>9, <1>10, <1>11, <1>12,
     AccountsSteps

\* A step that touches neither the counts, the histories of the tries nor any
\* handler that compares a password.
CountsUntouched ==
  /\ \A u \in Users : users'[u].failed = users[u].failed
                       /\ users'[u].lockedUntil = users[u].lockedUntil
  /\ UNCHANGED <<streak, late, overlap>>
  /\ \A h \in Handlers : pc'[h] = "compare" =>
       pc[h] = "compare" /\ job'[h] = job[h] /\ failed'[h] = failed[h]

LEMMA UntouchedKeeps ==
  ASSUME AccountsInv, CountsUntouched
  PROVE  CountInv'
<1>1. CountInv
  BY DEF AccountsInv
<1>2. ASSUME NEW u \in Users PROVE RowCount(u)'
  BY <1>1 DEF CountInv, CountsUntouched, RowCount
<1>3. ASSUME NEW h \in Handlers, NEW u \in Users PROVE HeldCount(h, u)'
  BY <1>1 DEF CountInv, CountsUntouched, HeldCount
<1> QED
  BY <1>2, <1>3 DEF CountInv

\* The count is cleared: only tries under way could still write an old one.
LEMMA ResetKeeps ==
  ASSUME AccountsInv, NEW u \in Users, NEW h, Restart(u, h),
         users' = [users EXCEPT ![u].failed = 0, ![u].lockedUntil = 0],
         IF h \in Handlers THEN Done(h) ELSE UNCHANGED <<pc, job, failed>>
  PROVE  CountInv'
<1>1. CountInv /\ AccountsTypeOK
  BY DEF AccountsInv
<1>2. /\ streak'[u] = 0 /\ users'[u].failed = 0 /\ users'[u].lockedUntil = 0
      /\ late'[u] = (Comparing(u) \ {h} # {})
  BY <1>1 DEF AccountsTypeOK, Restart
<1>3. \A v \in Users \ {u} : /\ users'[v] = users[v] /\ streak'[v] = streak[v]
                             /\ late'[v] = late[v] /\ overlap'[v] = overlap[v]
  BY <1>1 DEF AccountsTypeOK, Restart
<1>4. \A k \in Handlers : pc'[k] = "compare" =>
        k # h /\ pc[k] = "compare" /\ job'[k] = job[k] /\ failed'[k] = failed[k]
  BY <1>1 DEF Done, AccountsTypeOK
<1>5. ASSUME NEW v \in Users PROVE RowCount(v)'
  <2>1. CASE v = u
    BY <1>2, <2>1, LimitsType DEF RowCount
  <2>2. CASE v # u
    BY <1>1, <1>3, <2>2 DEF RowCount, CountInv
  <2> QED
    BY <2>1, <2>2
<1>6. ASSUME NEW k \in Handlers, NEW v \in Users PROVE HeldCount(k, v)'
  <2>1. CASE v = u
    BY <1>1, <1>2, <1>4, <2>1 DEF HeldCount, Comparing
  <2>2. CASE v # u
    BY <1>1, <1>3, <1>4, <2>2 DEF HeldCount, CountInv
  <2> QED
    BY <2>1, <2>2
<1> QED
  BY <1>5, <1>6 DEF CountInv

\* One more wrong password: the number written is at most the number of tries.
LEMMA WrongPasswordCounts ==
  ASSUME AccountsInv, NEW h \in Handlers, WrongPassword(h)
  PROVE  CountInv'
<1> DEFINE u == job[h].on
           n == failed[h] + 1
<1>1. CountInv /\ AccountsTypeOK /\ u \in Users /\ pc[h] = "compare"
  BY DEF AccountsInv, JobOf, WrongPassword
<1>2. /\ streak'[u] = streak[u] + 1 /\ users'[u].failed = n
      /\ users'[u].lockedUntil = IF n >= maxLoginFailures THEN now + lockDuration ELSE 0
      /\ late'[u] = late[u]
      /\ ~overlap'[u] => ~overlap[u] /\ Comparing(u) = {h}
  <2> DEFINE crowd == overlap[u] \/ Comparing(u) # {h}
             lock == IF n >= maxLoginFailures THEN now + lockDuration ELSE 0
  <2>1. /\ users' = [users EXCEPT ![u].failed = n, ![u].lockedUntil = lock]
        /\ streak' = [streak EXCEPT ![u] = streak[u] + 1]
        /\ overlap' = [overlap EXCEPT ![u] = crowd]
        /\ late' = late
    BY DEF WrongPassword, CountUp
  <2> HIDE DEF n, lock, crowd
  <2>2. users'[u].failed = n /\ users'[u].lockedUntil = lock /\ streak'[u] = streak[u] + 1
    BY <1>1, <2>1 DEF AccountsTypeOK
  <2>3. overlap'[u] = crowd
    BY <1>1, <2>1 DEF AccountsTypeOK
  <2> QED
    BY <2>1, <2>2, <2>3 DEF lock, crowd
<1>3. \A v \in Users \ {u} : /\ users'[v] = users[v] /\ streak'[v] = streak[v]
                             /\ late'[v] = late[v] /\ overlap'[v] = overlap[v]
  BY <1>1 DEF AccountsTypeOK, WrongPassword
<1>4. \A k \in Handlers : pc'[k] = "compare" =>
        k # h /\ pc[k] = "compare" /\ job'[k] = job[k] /\ failed'[k] = failed[k]
  BY <1>1 DEF Done, AccountsTypeOK, WrongPassword
<1>5. /\ failed[h] \in Nat /\ streak[u] \in Nat /\ now + lockDuration > 0
      /\ ~late[u] => failed[h] <= streak[u]
      /\ ~late[u] /\ ~overlap[u] => failed[h] = streak[u]
  BY <1>1, LimitsType DEF AccountsTypeOK, CountInv, HeldCount
<1>6. ASSUME NEW v \in Users PROVE RowCount(v)'
  <2>1. CASE v = u
    BY <1>2, <1>5, <2>1, LimitsType DEF RowCount
  <2>2. CASE v # u
    BY <1>1, <1>3, <2>2 DEF RowCount, CountInv
  <2> QED
    BY <2>1, <2>2
<1>7. ASSUME NEW k \in Handlers, NEW v \in Users PROVE HeldCount(k, v)'
  <2>1. CASE v = u
    <3> SUFFICES ASSUME pc'[k] = "compare", job'[k].on = u, ~late'[u]
                 PROVE  failed'[k] <= streak'[u] /\ overlap'[u]
      BY <2>1 DEF HeldCount
    <3>1. k # h /\ k \in Comparing(u) /\ failed'[k] = failed[k]
      BY <1>4 DEF Comparing
    <3>2. overlap'[u]
      BY <1>2, <3>1
    <3>3. failed[k] <= streak[u] /\ failed[k] \in Nat
      BY <1>1, <1>2, <3>1 DEF CountInv, HeldCount, Comparing, AccountsTypeOK
    <3> QED
      BY <1>2, <1>5, <3>1, <3>2, <3>3
  <2>2. CASE v # u
    BY <1>1, <1>3, <1>4, <2>2 DEF HeldCount, CountInv
  <2> QED
    BY <2>1, <2>2
<1> QED
  BY <1>6, <1>7 DEF CountInv

LEMMA CountKeeps ==
  ASSUME AccountsInv, [AccountsNext]_accountsVars
  PROVE  CountInv'
<1>0. AccountsTypeOK /\ CountInv /\ \A h \in Handlers : JobOf(h)
  BY DEF AccountsInv
<1>1. ASSUME NEW h \in Handlers, NEW u \in Users, ReadAccount(h, u) PROVE CountInv'
  <2>1. ASSUME NEW v \in Users PROVE RowCount(v)'
    BY <1>0, <1>1 DEF ReadAccount, CountInv, RowCount
  <2>2. ASSUME NEW k \in Handlers, NEW v \in Users PROVE HeldCount(k, v)'
    <3>1. CASE k = h
      BY <1>0, <1>1, <3>1 DEF ReadAccount, CountInv, RowCount, HeldCount,
                              AccountsTypeOK
    <3>2. CASE k # h
      BY <1>0, <1>1, <3>2 DEF ReadAccount, CountInv, HeldCount, AccountsTypeOK
    <3> QED
      BY <3>1, <3>2
  <2> QED
    BY <2>1, <2>2 DEF CountInv
<1>2. ASSUME NEW h \in Handlers, NEW by \in Users, NEW on \in Users,
             NEW here \in {"create", "on", "count"}, Serve(h, by, on, here)
      PROVE CountInv'
  BY <1>0, <1>2, UntouchedKeeps DEF Serve, CountsUntouched, AccountsTypeOK
<1>3. ASSUME NEW h \in Handlers, WrongPassword(h) PROVE CountInv'
  BY <1>3, WrongPasswordCounts
<1>4. ASSUME NEW h \in Handlers, RightPassword(h) PROVE CountInv'
  <2>1. job[h].on \in Users
    BY <1>0, <1>4 DEF RightPassword, JobOf
  <2>2. CASE failed[h] > 0
    BY <1>4, <2>1, <2>2, ResetKeeps DEF RightPassword
  <2>3. CASE ~(failed[h] > 0)
    BY <1>0, <1>4, <2>3, UntouchedKeeps DEF RightPassword, Done,
                                            CountsUntouched, AccountsTypeOK
  <2> QED
    BY <2>2, <2>3
<1>5. ASSUME NEW h \in Handlers, CreateUser(h) PROVE CountInv'
  <2>1. \A u \in Users : users'[u].failed = users[u].failed
                         /\ users'[u].lockedUntil = users[u].lockedUntil
    BY <1>0, <1>5 DEF CreateUser, AccountsTypeOK, JobOf, Fresh, NoAccount
  <2> QED
    BY <1>0, <1>5, <2>1, UntouchedKeeps DEF CreateUser, Done, CountsUntouched,
                                            AccountsTypeOK
<1>6. ASSUME NEW h \in Handlers, CountOthers(h) PROVE CountInv'
  BY <1>0, <1>6, UntouchedKeeps DEF CountOthers, CountsUntouched, AccountsTypeOK
<1>7. ASSUME NEW h \in Handlers, Switch(h) PROVE CountInv'
  <2>1. \A u \in Users : users'[u].failed = users[u].failed
                         /\ users'[u].lockedUntil = users[u].lockedUntil
    BY <1>0, <1>7 DEF Switch, AccountsTypeOK, JobOf
  <2> QED
    BY <1>0, <1>7, <2>1, UntouchedKeeps DEF Switch, Done, CountsUntouched,
                                            AccountsTypeOK
<1>8. ASSUME NEW h \in Handlers, Fail(h) PROVE CountInv'
  BY <1>0, <1>8, UntouchedKeeps DEF Fail, Done, CountsUntouched, AccountsTypeOK
<1>9. ASSUME NEW u \in Users, Logout(u) PROVE CountInv'
  BY <1>9, UntouchedKeeps DEF Logout, CountsUntouched
<1>10. ASSUME NEW u \in Users, SetPassword(u) PROVE CountInv'
  BY <1>10, ResetKeeps, UsersType DEF SetPassword
<1>11. CASE AccountsTick
  BY <1>11, UntouchedKeeps DEF AccountsTick, CountsUntouched
<1>12. CASE UNCHANGED accountsVars
  BY <1>12, UntouchedKeeps DEF accountsVars, CountsUntouched
<1> QED
  BY <1>1, <1>2, <1>3, <1>4, <1>5, <1>6, <1>7, <1>8, <1>9, <1>10, <1>11, <1>12,
     AccountsSteps

\* Whoever switches an account off alone leaves the one that was counted.
LEMMA GuardKeeps ==
  ASSUME AccountsInv, [AccountsNext]_accountsVars
  PROVE  GuardInv'
<1>0. AccountsTypeOK /\ GuardInv /\ \A h \in Handlers : JobOf(h)
  BY DEF AccountsInv
<1>a. ASSUME ActiveUsers \subseteq ActiveUsers', crossed' = crossed,
             \A h \in Handlers : pc'[h] = "off" => pc[h] = "off" /\ job'[h] = job[h]
      PROVE GuardInv'
  BY <1>0, <1>a DEF GuardInv
<1>1. ASSUME NEW h \in Handlers, NEW u \in Users, ReadAccount(h, u) PROVE GuardInv'
  BY <1>0, <1>1, <1>a DEF ReadAccount, ActiveUsers, AccountsTypeOK
<1>2. ASSUME NEW h \in Handlers, NEW by \in Users, NEW on \in Users,
             NEW here \in {"create", "on", "count"}, Serve(h, by, on, here)
      PROVE GuardInv'
  BY <1>0, <1>2, <1>a DEF Serve, ActiveUsers, AccountsTypeOK
<1>3. ASSUME NEW h \in Handlers, WrongPassword(h) PROVE GuardInv'
  <2>1. ActiveUsers' = ActiveUsers
    BY <1>0, <1>3 DEF WrongPassword, ActiveUsers, AccountsTypeOK
  <2> QED
    BY <1>0, <1>3, <1>a, <2>1 DEF WrongPassword, Done, AccountsTypeOK
<1>4. ASSUME NEW h \in Handlers, RightPassword(h) PROVE GuardInv'
  <2> DEFINE u == job[h].on
  <2>a. users' = users \/ users' = [users EXCEPT ![u].failed = 0, ![u].lockedUntil = 0]
    BY <1>4 DEF RightPassword
  <2>b. \A v \in Users : users'[v].active = users[v].active
    BY <1>0, <2>a DEF AccountsTypeOK
  <2>1. ActiveUsers' = ActiveUsers
    BY <2>b DEF ActiveUsers
  <2> QED
    BY <1>0, <1>4, <1>a, <2>1 DEF RightPassword, Done, AccountsTypeOK
<1>5. ASSUME NEW h \in Handlers, CreateUser(h) PROVE GuardInv'
  <2>1. ActiveUsers \subseteq ActiveUsers'
    BY <1>0, <1>5 DEF CreateUser, ActiveUsers, AccountsTypeOK, Fresh,
                      NoAccount
  <2> QED
    BY <1>0, <1>5, <1>a, <2>1 DEF CreateUser, Done, AccountsTypeOK
<1>6. ASSUME NEW h \in Handlers, CountOthers(h) PROVE GuardInv'
  <2>1. ActiveUsers' = ActiveUsers
    BY <1>6 DEF CountOthers, ActiveUsers
  <2>2. ~crossed' => ~crossed /\ \A g \in Handlers : pc[g] # "off"
    BY <1>6 DEF CountOthers
  <2>3. \A g \in Handlers : pc'[g] = "off" => g = h \/ pc[g] = "off"
    BY <1>0, <1>6 DEF CountOthers, AccountsTypeOK
  <2>4. ActiveUsers \ {job'[h].on} # {}
    BY <1>6 DEF CountOthers
  <2> QED
    BY <1>0, <2>1, <2>2, <2>3, <2>4 DEF GuardInv
<1>7. ASSUME NEW h \in Handlers, Switch(h) PROVE GuardInv'
  <2>1. crossed' = crossed /\ job[h].on \in Users
    BY <1>0, <1>7 DEF Switch, JobOf
  <2>2. \A g \in Handlers : pc'[g] = "off" => g # h /\ pc[g] = "off" /\ job'[g] = job[g]
    BY <1>0, <1>7 DEF Switch, Done, AccountsTypeOK
  <2>3. CASE pc[h] = "on"
    <3>1. ActiveUsers \subseteq ActiveUsers'
      BY <1>0, <1>7, <2>1, <2>3 DEF Switch, ActiveUsers, AccountsTypeOK
    <3> QED
      BY <1>a, <2>1, <2>2, <3>1
  <2>4. CASE pc[h] = "off"
    <3>1. ActiveUsers' = ActiveUsers \ {job[h].on}
      <4>1. users' = [users EXCEPT ![job[h].on].active = FALSE]
        BY <1>7, <2>4 DEF Switch
      <4>2. /\ ~users'[job[h].on].active
            /\ \A v \in Users \ {job[h].on} : users'[v] = users[v]
        BY <1>0, <2>1, <4>1 DEF AccountsTypeOK
      <4> QED
        BY <2>1, <4>2 DEF ActiveUsers
    <3>2. ~crossed => \A g \in Handlers : pc'[g] # "off"
      BY <1>0, <2>2, <2>4 DEF GuardInv
    <3> QED
      BY <1>0, <2>1, <2>4, <3>1, <3>2 DEF GuardInv
  <2> QED
    BY <1>7, <2>3, <2>4 DEF Switch
<1>8. ASSUME NEW h \in Handlers, Fail(h) PROVE GuardInv'
  BY <1>0, <1>8, <1>a DEF Fail, Done, ActiveUsers, AccountsTypeOK
<1>9. ASSUME NEW u \in Users, Logout(u) PROVE GuardInv'
  BY <1>9, <1>a DEF Logout, ActiveUsers
<1>10. ASSUME NEW u \in Users, SetPassword(u) PROVE GuardInv'
  <2>1. ActiveUsers' = ActiveUsers
    BY <1>0, <1>10 DEF SetPassword, ActiveUsers, AccountsTypeOK
  <2> QED
    BY <1>10, <1>a, <2>1 DEF SetPassword
<1>11. CASE AccountsTick
  BY <1>11, <1>a DEF AccountsTick, ActiveUsers
<1>12. CASE UNCHANGED accountsVars
  BY <1>12, <1>a DEF accountsVars, ActiveUsers
<1> QED
  BY <1>1, <1>2, <1>3, <1>4, <1>5, <1>6, <1>7, <1>8, <1>9, <1>10, <1>11, <1>12,
     AccountsSteps

-----------------------------------------------------------------------------
(* What follows.                                                           *)

\* The four parts hold together, always.
THEOREM AccountsInvariant == AccountsSpec => []AccountsInv
<1>1. AccountsInv /\ [AccountsNext]_accountsVars => AccountsInv'
  BY AccountsTypeKeeps, JobsKeep, CountKeeps, GuardKeeps DEF AccountsInv
<1> QED
  BY <1>1, AccountsBegin, PTL DEF AccountsSpec

\* Rows, cookies and handlers keep their types for any number of accounts and
\* requests.
THEOREM AccountsTypeCorrect == AccountsSpec => []AccountsTypeOK
<1>1. AccountsInv => AccountsTypeOK
  BY DEF AccountsInv
<1> QED
  BY <1>1, AccountsInvariant, PTL

\* The count of failures in recordLoginFailure locks no account too early,
\* whatever logins and resets interleave.
THEOREM LockIsEarnedHolds == AccountsSpec => []LockIsEarned
<1>1. AccountsInv => LockIsEarned
  BY DEF AccountsInv, CountInv, RowCount, LockIsEarned
<1> QED
  BY <1>1, AccountsInvariant, PTL

\* ... and none too late, if tries do not overlap.
THEOREM SerialTriesCountHolds == AccountsSpec => []SerialTriesCount
<1>1. AccountsInv => SerialTriesCount
  BY DEF AccountsInv, CountInv, RowCount, SerialTriesCount
<1> QED
  BY <1>1, AccountsInvariant, PTL

\* SetUserActive leaves an active account unless two of them cross.
THEOREM LastAccountGuardedHolds == AccountsSpec => []LastAccountGuarded
<1>1. AccountsInv => LastAccountGuarded
  BY DEF AccountsInv, GuardInv, LastAccountGuarded
<1> QED
  BY <1>1, AccountsInvariant, PTL
=============================================================================
