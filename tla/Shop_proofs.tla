----------------------------- MODULE Shop_proofs -----------------------------
(***************************************************************************)
(* What TLAPS proves of Shop, for any number of requests, emails and       *)
(* machines, any gates with any limits, and any edits.                     *)
(*                                                                         *)
(* The argument.  One open sign-up at a time holds an email, and only one  *)
(* that no account has; both rows become visible in one step, so there is  *)
(* no shop without its owner in between.  And a machine differs from the   *)
(* copy an edit works on in those fields only that other edits have        *)
(* changed since the copy was read; an edit that writes the fields it does *)
(* not send back from its copy therefore undoes nothing but those.         *)
(*                                                                         *)
(* Gates.  A window lets its limit through, and one less after its first   *)
(* moment, which the next window finds a whole window old.  So the         *)
(* requests no older than a window are those of the present one, and fewer *)
(* than the limit of the one before it.                                    *)
(***************************************************************************)
EXTENDS Shop, FiniteSetTheorems, TLAPS

\* The email of an open sign-up is nobody else's.
SignInv(r) ==
  pc[r] = "owner" =>
    /\ ~Taken(email[r])
    /\ \A q \in Requests : pc[q] = "owner" /\ email[q] = email[r] => q = r

\* What has changed since an edit read its machine, others have changed.
EditInv(r) ==
  edit[r] # Nothing => Differ(machines[edit[r].code], edit[r].row) \subseteq crossed[r]

IInv ==
  /\ TypeOK
  /\ SignedUpWhole
  /\ \A r \in Requests : SignInv(r)
  /\ \A r \in Requests : EditInv(r)

Counter == [n : Nat, left : Nat]

CacheTyped ==
  /\ redis \in BOOLEAN
  /\ counter \in [Gates -> Counter]
  /\ DOMAIN passed = Gates /\ \A g \in Gates : passed[g] \in [0..(Span[g] - 1) -> Nat]

SignTyped ==
  /\ users \subseteq [email : Emails, shop : shops]
  /\ email \in [Requests -> Emails \cup {Nothing}]
  /\ \A r \in Requests : pc[r] \in {"signing", "store", "owner"} => email[r] # Nothing

EditTyped ==
  /\ machines \in [Codes -> Row \cup {Nothing}]
  /\ edit \in [Requests -> Edit \cup {Nothing}]
  /\ crossed \in [Requests -> SUBSET {"label", "active"}]
  /\ \A r \in Requests :
       /\ edit[r] # Nothing <=> pc[r] = "editing"
       /\ edit[r] # Nothing => machines[edit[r].code] # Nothing

PcTyped == pc \in [Requests -> {"idle", "signing", "store", "owner", "editing"}]

LEMMA Parts == TypeOK <=> CacheTyped /\ SignTyped /\ EditTyped /\ PcTyped
BY DEF TypeOK, CacheTyped, SignTyped, EditTyped, PcTyped, Counter

LEMMA PartsNext ==
  ASSUME CacheTyped', SignTyped', EditTyped', PcTyped' PROVE TypeOK'
BY DEF TypeOK, CacheTyped, SignTyped, EditTyped, PcTyped, Counter

-----------------------------------------------------------------------------
(* The cache.                                                              *)

LEMMA CountedType ==
  ASSUME CacheTyped, NEW g \in Gates PROVE Counted(g) \in Counter
<1>1. counter[g] \in Counter /\ Span[g] \in Nat /\ Limit[g] \in Nat
  BY GatesType DEF CacheTyped
<1> QED
  BY <1>1 DEF Counted, Counter

LEMMA OneMore ==
  ASSUME NEW n \in Nat \ {0}, NEW f \in [0..(n - 1) -> Nat]
  PROVE  [f EXCEPT ![0] = f[0] + 1] \in [0..(n - 1) -> Nat]
<1>1. 0 \in 0..(n - 1) /\ f[0] + 1 \in Nat
  OBVIOUS
<1> QED
  BY <1>1, Zenon

\* Whatever a gate answers, the cache keeps its types.
LEMMA GateKeeps ==
  ASSUME CacheTyped, NEW g \in Gates, Admit(g) \/ Refuse(g) PROVE CacheTyped'
<1>0. Counted(g) \in Counter /\ Span[g] \in Nat \ {0}
  BY CountedType, GatesType
<1>1. counter' \in [Gates -> Counter]
  <2>1. Count(g) => counter' \in [Gates -> Counter]
    BY <1>0 DEF Count, CacheTyped
  <2> QED
    BY <2>1 DEF Admit, Refuse, Pass, CacheError, CacheTyped
<1>2. CASE UNCHANGED passed
  BY <1>1, <1>2 DEF Admit, Refuse, Pass, CacheError, CacheTyped
<1>3. CASE LetIn(g) /\ redis' = redis
  <2>1. 0 \in 0..(Span[g] - 1) /\ passed[g] \in [0..(Span[g] - 1) -> Nat]
    BY <1>0 DEF CacheTyped
  <2>2. [passed[g] EXCEPT ![0] = passed[g][0] + 1] \in [0..(Span[g] - 1) -> Nat]
    BY <1>0, <2>1, OneMore
  <2>3. passed' = [passed EXCEPT ![g] = [passed[g] EXCEPT ![0] = passed[g][0] + 1]]
    BY <1>3 DEF LetIn
  <2>4. DOMAIN passed' = Gates
    BY <2>3 DEF CacheTyped
  <2>5. ASSUME NEW f \in Gates PROVE passed'[f] \in [0..(Span[f] - 1) -> Nat]
    BY <2>2, <2>3 DEF CacheTyped
  <2> QED
    BY <1>1, <1>3, <2>4, <2>5 DEF CacheTyped
<1> QED
  BY <1>2, <1>3 DEF Admit, Refuse, Pass, CacheError

LEMMA EmptyCache ==
  ASSUME redis' \in BOOLEAN, counter' = [g \in Gates |-> Gone],
         passed' = [g \in Gates |-> [age \in 0..(Span[g] - 1) |-> 0]]
  PROVE  CacheTyped'
BY DEF CacheTyped, Counter, Gone

LEMMA TickKeeps ==
  ASSUME CacheTyped, Tick PROVE CacheTyped'
<1>1. ASSUME NEW g \in Gates PROVE Older(counter[g]) \in Counter
  <2>1. counter[g] \in Counter
    BY DEF CacheTyped
  <2>2. CASE counter[g].left = 0
    BY <2>2 DEF Older, Gone, Counter
  <2>3. CASE counter[g].left # 0
    BY <2>1, <2>3 DEF Older, Counter
  <2> QED
    BY <2>2, <2>3
<1>2. counter' \in [Gates -> Counter]
  BY <1>1 DEF Tick
<1>3. DOMAIN passed' = Gates
  BY DEF Tick
<1>4. ASSUME NEW g \in Gates PROVE passed'[g] \in [0..(Span[g] - 1) -> Nat]
  <2>1. Span[g] \in Nat /\ passed[g] \in [0..(Span[g] - 1) -> Nat]
    BY GatesType DEF CacheTyped
  <2>2. \A age \in 0..(Span[g] - 1) : age # 0 => passed[g][age - 1] \in Nat
    BY <2>1
  <2>3. passed'[g] = [age \in 0..(Span[g] - 1) |-> IF age = 0 THEN 0 ELSE passed[g][age - 1]]
    BY DEF Tick
  <2> QED
    BY <2>2, <2>3
<1> QED
  BY <1>2, <1>3, <1>4 DEF Tick, CacheTyped

-----------------------------------------------------------------------------
(* Sizes of histories of passes: h[age] requests have that age.            *)

Marks(h, ages) == UNION {{age} \X (1..h[age]) : age \in ages}
Size(h, ages)  == Cardinality(Marks(h, ages))

LEMMA MarksFinite ==
  ASSUME NEW n \in Nat, NEW h \in [0..(n - 1) -> Nat], NEW ages \in SUBSET (0..(n - 1))
  PROVE  IsFiniteSet(Marks(h, ages)) /\ Size(h, ages) \in Nat
<1> DEFINE part == [age \in ages |-> {age} \X (1..h[age])]
           parts == {{age} \X (1..h[age]) : age \in ages}
<1>1. IsFiniteSet(ages)
  <2>1. IsFiniteSet(0..(n - 1))
    BY FS_Interval
  <2> QED
    BY <2>1, FS_Subset
<1>2. part \in Surjection(ages, parts)
  BY DEF Surjection
<1>3. IsFiniteSet(parts)
  BY <1>1, <1>2, FS_Surjection
<1>4. ASSUME NEW age \in ages PROVE IsFiniteSet({age} \X (1..h[age]))
  <2>1. IsFiniteSet(1..h[age]) /\ IsFiniteSet({age})
    <3>1. h[age] \in Int
      OBVIOUS
    <3>2. IsFiniteSet(1..h[age])
      BY <3>1, FS_Interval
    <3>3. IsFiniteSet({age})
      BY FS_Singleton, Zenon
    <3> QED
      BY <3>2, <3>3
  <2> QED
    BY <2>1, FS_Product
<1>5. IsFiniteSet(UNION parts)
  BY <1>3, <1>4, FS_UNION
<1> QED
  BY <1>5, FS_CardinalityType DEF Marks, Size

\* Fewer ages, fewer requests.
LEMMA SizeMono ==
  ASSUME NEW n \in Nat, NEW h \in [0..(n - 1) -> Nat], NEW ages \in SUBSET (0..(n - 1)),
         NEW some \in SUBSET ages
  PROVE  Size(h, some) <= Size(h, ages)
<1>1. Marks(h, some) \in SUBSET Marks(h, ages)
  BY DEF Marks
<1> QED
  BY <1>1, MarksFinite, FS_Subset DEF Size

LEMMA SizeSplit ==
  ASSUME NEW n \in Nat, NEW h \in [0..(n - 1) -> Nat],
         NEW a \in SUBSET (0..(n - 1)), NEW b \in SUBSET (0..(n - 1))
  PROVE  Size(h, a \cup b) <= Size(h, a) + Size(h, b)
<1>1. Marks(h, a \cup b) = Marks(h, a) \cup Marks(h, b)
  BY DEF Marks
<1>2. IsFiniteSet(Marks(h, a)) /\ IsFiniteSet(Marks(h, b))
  BY MarksFinite
<1>3. IsFiniteSet(Marks(h, a) \cap Marks(h, b))
  <2>1. Marks(h, a) \cap Marks(h, b) \in SUBSET Marks(h, a)
    OBVIOUS
  <2> QED
    BY <1>2, <2>1, FS_Subset
<1>4. Cardinality(Marks(h, a) \cup Marks(h, b)) =
        Size(h, a) + Size(h, b) - Cardinality(Marks(h, a) \cap Marks(h, b))
  BY <1>2, FS_Union DEF Size
<1>5. /\ Size(h, a) \in Nat /\ Size(h, b) \in Nat
      /\ Cardinality(Marks(h, a) \cap Marks(h, b)) \in Nat
  BY <1>3, MarksFinite, FS_CardinalityType
<1>6. Size(h, a \cup b) = Cardinality(Marks(h, a) \cup Marks(h, b))
  BY <1>1 DEF Size
<1> QED
  BY <1>4, <1>5, <1>6

LEMMA SizeNone ==
  ASSUME NEW h, NEW ages, \A age \in ages : h[age] = 0 PROVE Size(h, ages) = 0
<1>1. 1..0 = {}
  OBVIOUS
<1>2. Marks(h, ages) = {}
  BY <1>1 DEF Marks
<1> QED
  BY <1>2, FS_EmptySet DEF Size

\* A tick makes every request older, and forgets those of the last age.
LEMMA SizeShift ==
  ASSUME NEW n \in Nat \ {0}, NEW h \in [0..(n - 1) -> Nat], NEW k \in [0..(n - 1) -> Nat],
         k[0] = 0, \A age \in 1..(n - 1) : k[age] = h[age - 1],
         NEW a \in SUBSET (0..(n - 1)), NEW b \in SUBSET (0..(n - 1)),
         \A age \in a : age # 0 => age - 1 \in b
  PROVE  Size(k, a) <= Size(h, b)
<1> DEFINE younger == [p \in Marks(k, a) |-> <<p[1] - 1, p[2]>>]
<1>1. ASSUME NEW p \in Marks(k, a)
      PROVE  p[1] \in Int /\ p = <<p[1], p[2]>> /\ <<p[1] - 1, p[2]>> \in Marks(h, b)
  <2>1. PICK age \in a : p \in {age} \X (1..k[age])
    BY DEF Marks
  <2>2. p = <<age, p[2]>> /\ p[1] = age /\ p[2] \in 1..k[age]
    BY <2>1
  <2>3. age # 0
    BY <2>2
  <2>4. age \in 1..(n - 1) /\ age - 1 \in b /\ k[age] = h[age - 1]
    BY <2>3
  <2> QED
    BY <2>2, <2>4 DEF Marks
<1>2. younger \in [Marks(k, a) -> Marks(h, b)]
  BY <1>1
<1>3. ASSUME NEW p \in Marks(k, a), NEW q \in Marks(k, a), younger[p] = younger[q] PROVE p = q
  <2>1. p[1] - 1 = q[1] - 1 /\ p[2] = q[2]
    BY <1>3
  <2>2. p[1] \in Int /\ q[1] \in Int
    BY <1>1
  <2>3. p[1] = q[1]
    BY <2>1, <2>2
  <2> QED
    BY <1>1, <2>1, <2>3
<1>4. younger \in Injection(Marks(k, a), Marks(h, b))
  BY <1>2, <1>3 DEF Injection, IsInjective
<1> QED
  BY <1>4, MarksFinite, FS_Injection DEF Size

\* One more request that has just passed.
LEMMA SizeMore ==
  ASSUME NEW n \in Nat \ {0}, NEW h \in [0..(n - 1) -> Nat],
         NEW k \in [0..(n - 1) -> Nat], k[0] = h[0] + 1, \A age \in 1..(n - 1) : k[age] = h[age]
  PROVE  \A a \in SUBSET (0..(n - 1)) :
           Size(k, a) <= Size(h, a) + 1 /\ (0 \notin a => Size(k, a) = Size(h, a))
<1> SUFFICES ASSUME NEW a \in SUBSET (0..(n - 1))
             PROVE  Size(k, a) <= Size(h, a) + 1 /\ (0 \notin a => Size(k, a) = Size(h, a))
  OBVIOUS
<1>1. Marks(k, a) \in SUBSET (Marks(h, a) \cup {<<0, h[0] + 1>>})
  <2>1. ASSUME NEW age \in a, age # 0 PROVE k[age] = h[age]
    BY <2>1
  <2>2. h[0] \in Nat
    OBVIOUS
  <2>3. 1..k[0] = (1..h[0]) \cup {h[0] + 1}
    BY <2>2
  <2> QED
    BY <2>1, <2>3 DEF Marks
<1>2. IsFiniteSet(Marks(h, a)) /\ Size(h, a) \in Nat
  BY MarksFinite
<1>3. Size(k, a) <= Size(h, a) + 1
  <2> DEFINE new == <<0, h[0] + 1>>
             all == Marks(h, a) \cup {new}
  <2> HIDE DEF new
  <2>1. IsFiniteSet(all) /\ Cardinality(all) = IF new \in Marks(h, a) THEN Size(h, a) ELSE Size(h, a) + 1
    BY <1>2, FS_AddElement DEF Size
  <2>2. Cardinality(all) <= Size(h, a) + 1 /\ Cardinality(all) \in Nat
    BY <1>2, <2>1
  <2>3. Size(k, a) <= Cardinality(all) /\ Size(k, a) \in Nat
    BY <1>1, <2>1, FS_Subset, MarksFinite DEF Size, new
  <2> QED
    BY <1>2, <2>2, <2>3
<1>4. 0 \notin a => Marks(k, a) = Marks(h, a)
  <2>1. ASSUME 0 \notin a, NEW age \in a PROVE k[age] = h[age]
    BY <2>1
  <2> QED
    BY <2>1 DEF Marks
<1> QED
  BY <1>3, <1>4 DEF Size

-----------------------------------------------------------------------------
(* Windows.                                                                *)

Ages(g) == 0..(Span[g] - 1)

\* The requests a window has let through, those after its first moment, and
\* those of the windows before it.
Since(g, c)  == {age \in Ages(g) : age <= Span[g] - c.left}
After(g, c)  == {age \in Ages(g) : age < Span[g] - c.left}
Before(g, c) == {age \in Ages(g) : age > Span[g] - c.left}

Ended(c, inRedis) == c.n = 0 \/ (inRedis /\ c.left = 0)

\* A window lets its limit through, and one less after its first moment: what
\* is left of it when the next one begins.
Window(g, c, h, inRedis) ==
  IF Ended(c, inRedis)
    THEN h[0] = 0 /\ Size(h, Ages(g)) <= Limit[g] - 1
    ELSE /\ c.left <= Span[g]
         /\ Size(h, Since(g, c)) <= c.n /\ Size(h, Since(g, c)) <= Limit[g]
         /\ Size(h, After(g, c)) <= c.n - 1 /\ Size(h, After(g, c)) <= Limit[g] - 1
         /\ Size(h, Before(g, c)) <= Limit[g] - 1

WindowInv == \A g \in Gates : Window(g, counter[g], passed[g], redis)

\* What is known of a gate.
LEMMA GateFacts ==
  ASSUME CacheTyped, NEW g \in Gates
  PROVE  /\ Span[g] \in Nat \ {0} /\ Limit[g] \in Nat \ {0}
         /\ counter[g] \in Counter /\ counter[g].n \in Nat /\ counter[g].left \in Nat
         /\ passed[g] \in [0..(Span[g] - 1) -> Nat]
         /\ \A c : /\ Since(g, c) \in SUBSET (0..(Span[g] - 1))
                   /\ After(g, c) \in SUBSET (0..(Span[g] - 1))
                   /\ Before(g, c) \in SUBSET (0..(Span[g] - 1))
BY GatesType DEF CacheTyped, Counter, Since, After, Before, Ages

\* The window of a gate that has been counted on is on, as old as before or new.
LEMMA CountedWindow ==
  ASSUME CacheTyped, NEW g \in Gates
  PROVE  /\ ~Ended(Counted(g), redis)
         /\ Fresh(g) <=> Ended(counter[g], redis)
         /\ Fresh(g) => Counted(g).n = 1 /\ Counted(g).left = Span[g]
         /\ ~Fresh(g) => /\ Counted(g).left = counter[g].left
                         /\ Counted(g).n = IF counter[g].n > Limit[g] THEN counter[g].n ELSE counter[g].n + 1
<1>1. /\ Span[g] \in Nat \ {0} /\ Limit[g] \in Nat \ {0}
      /\ counter[g] \in Counter /\ counter[g].n \in Nat /\ counter[g].left \in Nat
  BY GateFacts
<1>2. Fresh(g) <=> Ended(counter[g], redis)
  BY DEF Fresh, Ended
<1>3. Fresh(g) => Counted(g).n = 1 /\ Counted(g).left = Span[g]
  BY DEF Counted
<1>4. ~Fresh(g) => /\ Counted(g).left = counter[g].left
                   /\ Counted(g).n = IF counter[g].n > Limit[g] THEN counter[g].n ELSE counter[g].n + 1
  BY <1>1 DEF Counted, Counter
<1>5. ~Ended(Counted(g), redis)
  BY <1>1, <1>2, <1>3, <1>4 DEF Ended
<1> QED
  BY <1>2, <1>3, <1>4, <1>5

\* When a window begins, only its first moment is in it.
LEMMA NewWindow ==
  ASSUME CacheTyped, NEW g \in Gates, Fresh(g)
  PROVE  /\ Since(g, Counted(g)) = {0} /\ After(g, Counted(g)) = {}
         /\ 0 \notin Before(g, Counted(g))
<1>1. Counted(g).left = Span[g] /\ Span[g] \in Nat \ {0}
  BY CountedWindow, GateFacts
<1>2. Span[g] - Counted(g).left = 0
  BY <1>1
<1> QED
  BY <1>1, <1>2 DEF Since, After, Before, Ages

\* A request that is counted and does not pass.
LEMMA CountKeeps ==
  ASSUME CacheTyped, NEW g \in Gates, Window(g, counter[g], passed[g], redis)
  PROVE  Window(g, Counted(g), passed[g], redis)
<1> DEFINE c == Counted(g)
           h == passed[g]
<1>0. /\ Span[g] \in Nat \ {0} /\ Limit[g] \in Nat \ {0}
      /\ counter[g].n \in Nat /\ counter[g].left \in Nat
      /\ h \in [0..(Span[g] - 1) -> Nat] /\ ~Ended(c, redis)
      /\ Size(h, Since(g, c)) \in Nat /\ Size(h, After(g, c)) \in Nat /\ Size(h, Before(g, c)) \in Nat
  BY GateFacts, CountedWindow, MarksFinite
<1>1. CASE Fresh(g)
  <2>1. h[0] = 0 /\ Size(h, Ages(g)) <= Limit[g] - 1
    BY <1>1, CountedWindow DEF Window
  <2>2. Size(h, Since(g, c)) = 0 /\ Size(h, After(g, c)) = 0
    BY <1>1, <2>1, NewWindow, SizeNone
  <2>3. Size(h, Before(g, c)) <= Size(h, Ages(g)) /\ Size(h, Ages(g)) \in Nat
    <3>1. Before(g, c) \in SUBSET Ages(g) /\ Ages(g) \in SUBSET (0..(Span[g] - 1))
      BY DEF Before, Ages
    <3> QED
      BY <1>0, <3>1, SizeMono, MarksFinite
  <2>4. c.n = 1 /\ c.left = Span[g]
    BY <1>1, CountedWindow
  <2> HIDE DEF c, h
  <2>5. Window(g, c, h, redis)
    BY <1>0, <2>1, <2>2, <2>3, <2>4 DEF Window
  <2> QED
    BY <2>5 DEF c, h
<1>2. CASE ~Fresh(g)
  <2>1. /\ c.left = counter[g].left /\ c.n >= counter[g].n /\ c.n \in Nat
        /\ Since(g, c) = Since(g, counter[g]) /\ After(g, c) = After(g, counter[g])
        /\ Before(g, c) = Before(g, counter[g])
    BY <1>0, <1>2, CountedWindow DEF Since, After, Before
  <2>2. ~Ended(counter[g], redis) /\ Window(g, counter[g], h, redis)
    BY <1>2, CountedWindow
  <2> HIDE DEF c, h
  <2>3. Window(g, c, h, redis)
    BY <1>0, <2>1, <2>2 DEF Window
  <2> QED
    BY <2>3 DEF c, h
<1> QED
  BY <1>1, <1>2

\* A request that passes.
LEMMA PassCounts ==
  ASSUME CacheTyped, NEW g \in Gates, Window(g, counter[g], passed[g], redis), ~Shut(g),
         NEW k, k = [passed[g] EXCEPT ![0] = passed[g][0] + 1]
  PROVE  Window(g, Counted(g), k, redis)
<1> DEFINE c == Counted(g)
           h == passed[g]
<1>0. /\ Span[g] \in Nat \ {0} /\ Limit[g] \in Nat \ {0}
      /\ counter[g].n \in Nat /\ counter[g].left \in Nat
      /\ h \in [0..(Span[g] - 1) -> Nat] /\ ~Ended(c, redis)
      /\ Since(g, c) \in SUBSET (0..(Span[g] - 1)) /\ After(g, c) \in SUBSET (0..(Span[g] - 1))
      /\ Before(g, c) \in SUBSET (0..(Span[g] - 1))
  BY GateFacts, CountedWindow
<1>1. /\ k \in [0..(Span[g] - 1) -> Nat] /\ k[0] = h[0] + 1
      /\ \A age \in 1..(Span[g] - 1) : k[age] = h[age]
  <2>1. k \in [0..(Span[g] - 1) -> Nat]
    BY <1>0, OneMore
  <2> QED
    BY <1>0, <2>1
<1>2. /\ Size(k, Since(g, c)) <= Size(h, Since(g, c)) + 1
      /\ Size(k, After(g, c)) <= Size(h, After(g, c)) + 1
      /\ 0 \notin Before(g, c) => Size(k, Before(g, c)) = Size(h, Before(g, c))
  <2> HIDE DEF c, h
  <2> DEFINE n == Span[g]
  <2>1. /\ n \in Nat \ {0} /\ h \in [0..(n - 1) -> Nat]
        /\ k \in [0..(n - 1) -> Nat] /\ k[0] = h[0] + 1 /\ \A age \in 1..(n - 1) : k[age] = h[age]
    BY <1>0, <1>1
  <2>2. /\ Since(g, c) \in SUBSET (0..(n - 1)) /\ After(g, c) \in SUBSET (0..(n - 1))
        /\ Before(g, c) \in SUBSET (0..(n - 1))
    BY <1>0
  <2> HIDE DEF n
  <2>3. \A a \in SUBSET (0..(n - 1)) :
          Size(k, a) <= Size(h, a) + 1 /\ (0 \notin a => Size(k, a) = Size(h, a))
    BY <2>1, SizeMore
  <2> QED
    BY <2>2, <2>3
<1>3. /\ Size(h, Since(g, c)) \in Nat /\ Size(h, After(g, c)) \in Nat /\ Size(h, Before(g, c)) \in Nat
      /\ Size(k, Since(g, c)) \in Nat /\ Size(k, After(g, c)) \in Nat
  BY <1>0, <1>1, MarksFinite
<1>4. c.n <= Limit[g]
  <2>1. c.n \in Nat
    BY <1>0, CountedWindow
  <2> QED
    BY <1>0, <2>1 DEF Shut
<1>5. CASE Fresh(g)
  <2>1. h[0] = 0 /\ Size(h, Ages(g)) <= Limit[g] - 1
    BY <1>5, CountedWindow DEF Window
  <2>2. Size(h, Since(g, c)) = 0 /\ Size(k, After(g, c)) = 0
    BY <1>5, <2>1, NewWindow, SizeNone
  <2>3. Size(h, Before(g, c)) <= Size(h, Ages(g)) /\ Size(h, Ages(g)) \in Nat
    <3>1. Before(g, c) \in SUBSET Ages(g) /\ Ages(g) \in SUBSET (0..(Span[g] - 1))
      BY DEF Before, Ages
    <3> QED
      BY <1>0, <3>1, SizeMono, MarksFinite
  <2>4. c.n = 1 /\ c.left = Span[g] /\ 0 \notin Before(g, c)
    BY <1>5, CountedWindow, NewWindow
  <2> HIDE DEF c, h
  <2>5. Window(g, c, k, redis)
    BY <1>0, <1>2, <1>3, <2>1, <2>2, <2>3, <2>4 DEF Window
  <2> QED
    BY <2>5 DEF c, h
<1>6. CASE ~Fresh(g)
  <2>1. /\ c.left = counter[g].left /\ c.n = counter[g].n + 1 /\ c.n \in Nat
        /\ Since(g, c) = Since(g, counter[g]) /\ After(g, c) = After(g, counter[g])
        /\ Before(g, c) = Before(g, counter[g])
    BY <1>0, <1>4, <1>6, CountedWindow DEF Since, After, Before
  <2>2. /\ c.left <= Span[g]
        /\ Size(h, Since(g, c)) <= counter[g].n
        /\ Size(h, After(g, c)) <= counter[g].n - 1
        /\ Size(h, Before(g, c)) <= Limit[g] - 1
    <3>1. ~Ended(counter[g], redis)
      BY <1>6, CountedWindow
    <3> HIDE DEF c
    <3> QED
      BY <2>1, <3>1 DEF Window
  <2>3. 0 \notin Before(g, c)
    BY <1>0, <2>1, <2>2 DEF Before
  <2> HIDE DEF c, h
  <2>4. Size(k, Since(g, c)) <= c.n /\ Size(k, After(g, c)) <= c.n - 1
    <3>1. counter[g].n \in Nat
      BY <1>0
    <3> QED
      BY <1>2, <1>3, <2>1, <2>2, <3>1
  <2>5. Size(k, Since(g, c)) <= Limit[g] /\ Size(k, After(g, c)) <= Limit[g] - 1
    <3>1. Limit[g] \in Nat /\ c.n \in Nat
      BY <1>0, <2>1
    <3> QED
      BY <1>3, <1>4, <2>4, <3>1
  <2>6. Size(k, Before(g, c)) <= Limit[g] - 1
    BY <1>2, <2>2, <2>3
  <2>7. Window(g, c, k, redis)
    BY <1>0, <2>2, <2>4, <2>5, <2>6 DEF Window
  <2> QED
    BY <2>7 DEF c, h
<1> QED
  BY <1>5, <1>6

\* Time passes.
LEMMA OlderKeeps ==
  ASSUME CacheTyped, NEW g \in Gates, Window(g, counter[g], passed[g], redis),
         NEW k \in [0..(Span[g] - 1) -> Nat], k[0] = 0,
         \A age \in 1..(Span[g] - 1) : k[age] = passed[g][age - 1]
  PROVE  Window(g, Older(counter[g]), k, redis)
<1> DEFINE c == counter[g]
           d == Older(counter[g])
           h == passed[g]
<1>0. /\ Span[g] \in Nat \ {0} /\ Limit[g] \in Nat \ {0}
      /\ c \in Counter /\ c.n \in Nat /\ c.left \in Nat
      /\ h \in [0..(Span[g] - 1) -> Nat] /\ Ages(g) = 0..(Span[g] - 1)
  BY GateFacts DEF Ages
<1>a. ASSUME NEW a \in SUBSET Ages(g), NEW b \in SUBSET Ages(g), \A age \in a : age # 0 => age - 1 \in b
      PROVE  Size(k, a) <= Size(h, b) /\ Size(k, a) \in Nat /\ Size(h, b) \in Nat
  BY <1>0, <1>a, SizeShift, MarksFinite
<1>b. \A x \in Ages(g) : x # 0 => x - 1 \in Ages(g)
  BY <1>0
<1>1. CASE Ended(c, redis)
  <2>1. Size(h, Ages(g)) <= Limit[g] - 1
    BY <1>1 DEF Window
  <2>2. Ended(d, redis)
    BY <1>0, <1>1 DEF Ended, Older, Gone, Counter
  <2>3. Size(k, Ages(g)) <= Size(h, Ages(g)) /\ Size(k, Ages(g)) \in Nat /\ Size(h, Ages(g)) \in Nat
    BY <1>a, <1>b
  <2> HIDE DEF c, d, h
  <2>4. Window(g, d, k, redis)
    BY <1>0, <2>1, <2>2, <2>3 DEF Window
  <2> QED
    BY <2>4 DEF d, c
<1>2. CASE ~Ended(c, redis)
  <2>0. /\ c.n # 0 /\ c.left <= Span[g]
        /\ Size(h, Since(g, c)) <= c.n /\ Size(h, Since(g, c)) <= Limit[g]
        /\ Size(h, After(g, c)) <= c.n - 1 /\ Size(h, After(g, c)) <= Limit[g] - 1
        /\ Size(h, Before(g, c)) <= Limit[g] - 1
    <3> HIDE DEF c
    <3> QED
      BY <1>2 DEF Window, Ended, c
  \* The window's first moment is over the horizon now.
  <2>1. ASSUME \A age \in Ages(g) : age # 0 => age - 1 \in After(g, c), Ended(d, redis)
        PROVE  Window(g, d, k, redis)
    <3>1. After(g, c) \in SUBSET Ages(g)
      BY DEF After
    <3>2. Size(k, Ages(g)) <= Size(h, After(g, c)) /\ Size(k, Ages(g)) \in Nat /\ Size(h, After(g, c)) \in Nat
      BY <1>a, <2>1, <3>1
    <3> HIDE DEF c, d, h
    <3> QED
      BY <1>0, <2>0, <2>1, <3>2 DEF Window
  <2>2. CASE c.left = 0
    <3>1. Ended(d, redis)
      BY <2>2 DEF Ended, Older, Gone
    <3>2. \A age \in Ages(g) : age # 0 => age - 1 \in After(g, c)
      BY <1>0, <2>2 DEF After
    <3> QED
      BY <2>1, <3>1, <3>2
  <2>3. CASE c.left # 0
    <3>0. d.n = c.n /\ d.left = c.left - 1 /\ d.left \in Nat
      BY <1>0, <2>3 DEF Older, Counter
    <3>1. CASE Ended(d, redis)
      <4>1. d.left = 0
        BY <2>0, <3>0, <3>1 DEF Ended
      <4>2. \A age \in Ages(g) : age # 0 => age - 1 \in After(g, c)
        BY <1>0, <3>0, <4>1 DEF After
      <4> QED
        BY <2>1, <3>1, <4>2
    <3>2. CASE ~Ended(d, redis)
      <4> HIDE DEF d, c, h
      <4>1. /\ \A age \in Since(g, d) : age # 0 => age - 1 \in Since(g, c)
            /\ \A age \in After(g, d) : age # 0 => age - 1 \in After(g, c)
            /\ \A age \in Before(g, d) : age # 0 => age - 1 \in Before(g, c)
        <5> DEFINE s == Span[g] - c.left
        <5>1. s \in Int /\ Span[g] - d.left = s + 1
          BY <1>0, <3>0
        <5>2. \A x \in Ages(g) : x \in Int /\ (x # 0 => x - 1 \in Ages(g))
          BY <1>0
        <5>3. /\ Since(g, c) = {age \in Ages(g) : age <= s} /\ Since(g, d) = {age \in Ages(g) : age <= s + 1}
              /\ After(g, c) = {age \in Ages(g) : age < s} /\ After(g, d) = {age \in Ages(g) : age < s + 1}
              /\ Before(g, c) = {age \in Ages(g) : age > s} /\ Before(g, d) = {age \in Ages(g) : age > s + 1}
          BY <5>1 DEF Since, After, Before
        <5> HIDE DEF s
        <5> QED
          BY <5>1, <5>2, <5>3
      <4>2. \A x : Since(g, x) \in SUBSET Ages(g) /\ After(g, x) \in SUBSET Ages(g) /\ Before(g, x) \in SUBSET Ages(g)
        BY DEF Since, After, Before
      <4>3. Size(k, Since(g, d)) <= Size(h, Since(g, c)) /\ Size(k, Since(g, d)) \in Nat /\ Size(h, Since(g, c)) \in Nat
        BY <1>a, <4>1, <4>2
      <4>4. Size(k, After(g, d)) <= Size(h, After(g, c)) /\ Size(k, After(g, d)) \in Nat /\ Size(h, After(g, c)) \in Nat
        BY <1>a, <4>1, <4>2
      <4>5. Size(k, Before(g, d)) <= Size(h, Before(g, c)) /\ Size(k, Before(g, d)) \in Nat /\ Size(h, Before(g, c)) \in Nat
        BY <1>a, <4>1, <4>2
      <4>6. /\ Size(k, Since(g, d)) <= c.n /\ Size(k, Since(g, d)) <= Limit[g]
            /\ Size(k, After(g, d)) <= c.n - 1 /\ Size(k, After(g, d)) <= Limit[g] - 1
            /\ Size(k, Before(g, d)) <= Limit[g] - 1
        <5>1. c.n \in Nat /\ Limit[g] \in Nat
          BY <1>0
        <5> QED
          BY <2>0, <4>3, <4>4, <4>5, <5>1
      <4>7. d.left <= Span[g]
        BY <1>0, <2>0, <3>0
      <4>8. Window(g, d, k, redis)
        BY <3>0, <3>2, <4>6, <4>7 DEF Window
      <4> QED
        BY <4>8 DEF d, c
    <3> QED
      BY <3>1, <3>2
  <2> QED
    BY <2>2, <2>3
<1> QED
  BY <1>1, <1>2

\* A gate on which nothing happens.
LEMMA AtRest ==
  ASSUME WindowInv, redis' = redis, NEW g \in Gates, counter'[g] = counter[g], passed'[g] = passed[g]
  PROVE  Window(g, counter'[g], passed'[g], redis')
BY DEF WindowInv

LEMMA GateWindows ==
  ASSUME CacheTyped, WindowInv, NEW g \in Gates, Admit(g) \/ Refuse(g) PROVE WindowInv'
<1>0. redis' = redis /\ Window(g, counter[g], passed[g], redis)
      /\ counter \in [Gates -> Counter] /\ DOMAIN passed = Gates
  BY DEF Admit, Refuse, Pass, CacheError, WindowInv, CacheTyped
<1>1. ASSUME NEW f \in Gates \ {g} PROVE counter'[f] = counter[f] /\ passed'[f] = passed[f]
  BY <1>0 DEF Admit, Refuse, Pass, CacheError, Count, LetIn
<1>2. Window(g, counter'[g], passed'[g], redis')
  <2>1. CASE ~Shut(g) /\ Count(g) /\ LetIn(g)
    <3>1. counter'[g] = Counted(g) /\ passed'[g] = [passed[g] EXCEPT ![0] = passed[g][0] + 1]
      BY <1>0, <2>1 DEF Count, LetIn
    <3> QED
      BY <1>0, <2>1, <3>1, PassCounts
  <2>2. CASE Count(g) /\ passed' = passed
    <3>1. counter'[g] = Counted(g)
      BY <1>0, <2>2 DEF Count
    <3> QED
      BY <1>0, <2>2, <3>1, CountKeeps
  <2>3. CASE counter' = counter /\ passed' = passed
    BY <1>0, <2>3
  <2> QED
    BY <2>1, <2>2, <2>3 DEF Admit, Refuse, Pass, CacheError
<1>3. ASSUME NEW f \in Gates PROVE Window(f, counter'[f], passed'[f], redis')
  BY <1>0, <1>1, <1>2, AtRest
<1> QED
  BY <1>3 DEF WindowInv

\* An empty cache has no window.
LEMMA NoWindows ==
  ASSUME NEW c, NEW h, c = [g \in Gates |-> Gone],
         h = [g \in Gates |-> [age \in 0..(Span[g] - 1) |-> 0]], NEW inRedis
  PROVE  \A g \in Gates : Window(g, c[g], h[g], inRedis)
<1> SUFFICES ASSUME NEW g \in Gates PROVE Window(g, c[g], h[g], inRedis)
  OBVIOUS
<1>1. c[g].n = 0 /\ h[g] = [age \in 0..(Span[g] - 1) |-> 0]
  BY DEF Gone
<1>2. Span[g] \in Nat \ {0} /\ Limit[g] \in Nat \ {0}
  BY GatesType
<1>3. h[g][0] = 0 /\ \A age \in Ages(g) : h[g][age] = 0
  BY <1>1, <1>2 DEF Ages
<1>4. Size(h[g], Ages(g)) = 0
  BY <1>3, SizeNone
<1> QED
  BY <1>1, <1>2, <1>3, <1>4 DEF Window, Ended

LEMMA WindowsKeep ==
  ASSUME TypeOK, WindowInv, [Next]_vars PROVE WindowInv'
<1>0. CacheTyped
  BY Parts
<1>1. ASSUME UNCHANGED cache PROVE WindowInv'
  BY <1>1 DEF cache, WindowInv
<1>2. ASSUME NEW g \in Gates, Knock(g) PROVE WindowInv'
  BY <1>0, <1>2, GateWindows DEF Knock
<1>3. ASSUME NEW r \in Requests, NEW e \in Emails, EnterSignup(r, e) PROVE WindowInv'
  BY <1>0, <1>3, GateWindows, GatesType DEF EnterSignup, AdmitSignup, Admit
<1>4. ASSUME Restart PROVE WindowInv'
  <2>1. CASE redis
    BY <1>4, <2>1 DEF Restart, WindowInv
  <2>2. CASE ~redis
    BY <1>4, <2>2, NoWindows DEF Restart, WindowInv
  <2> QED
    BY <2>1, <2>2
<1>5. ASSUME Tick PROVE WindowInv'
  <2>1. ASSUME NEW g \in Gates PROVE Window(g, counter'[g], passed'[g], redis')
    <3>1. /\ counter'[g] = Older(counter[g]) /\ redis' = redis
          /\ passed'[g] = [age \in 0..(Span[g] - 1) |-> IF age = 0 THEN 0 ELSE passed[g][age - 1]]
      BY <1>5 DEF Tick
    <3>2. Span[g] \in Nat \ {0} /\ passed[g] \in [0..(Span[g] - 1) -> Nat]
      BY <1>0, GateFacts
    <3>3. passed'[g][0] = 0 /\ \A age \in 1..(Span[g] - 1) : passed'[g][age] = passed[g][age - 1]
      BY <3>1, <3>2
    <3>4. passed'[g] \in [0..(Span[g] - 1) -> Nat]
      <4>1. CacheTyped'
        BY <1>0, <1>5, TickKeeps
      <4> QED
        BY <4>1 DEF CacheTyped
    <3>5. Window(g, counter[g], passed[g], redis)
      BY DEF WindowInv
    <3> QED
      BY <1>0, <3>1, <3>3, <3>4, <3>5, OlderKeeps
  <2> QED
    BY <2>1 DEF WindowInv
<1>6. ASSUME NEW r \in Requests,
             InsertStore(r) \/ InsertOwner(r) \/ CommitSignup(r) \/ FailSignup(r) \/ Owner(r)
      PROVE  UNCHANGED cache
  BY <1>6 DEF InsertStore, InsertOwner, CommitSignup, FailSignup, Owner, CreateMachine, ReadMachine, WriteMachine
<1> QED
  BY <1>1, <1>2, <1>3, <1>4, <1>5, <1>6 DEF Next, Newcomer, vars

-----------------------------------------------------------------------------
LEMMA InitHolds == Init => IInv
<1> SUFFICES ASSUME Init PROVE IInv
  OBVIOUS
<1>1. CacheTyped
  BY DEF Init, CacheTyped, Counter, Gone
<1>2. SignTyped /\ PcTyped
  BY DEF Init, SignTyped, PcTyped
<1>3. EditTyped
  BY DEF Init, EditTyped
<1>4. SignedUpWhole
  BY DEF Init, SignedUpWhole
<1>5. ASSUME NEW r \in Requests PROVE SignInv(r) /\ EditInv(r)
  BY DEF Init, SignInv, EditInv
<1> QED
  BY <1>1, <1>2, <1>3, <1>4, <1>5, Parts DEF IInv

-----------------------------------------------------------------------------
(* One request moves.                                                      *)

\* A request that does not become an open sign-up leaves the others' emails
\* as they are.
LEMMA SignsStay ==
  ASSUME NEW r \in Requests, \A q \in Requests : SignInv(q), users' = users,
         \A q \in Requests \ {r} : pc'[q] = pc[q] /\ email'[q] = email[q],
         pc'[r] # "owner",
         NEW q \in Requests
  PROVE  SignInv(q)'
BY DEF SignInv, Taken

\* Where machines and copies stay, so does what is known of them.
LEMMA EditsStay ==
  ASSUME \A q \in Requests : EditInv(q), UNCHANGED <<machines, edit, crossed>>, NEW q \in Requests
  PROVE  EditInv(q)'
BY DEF EditInv, Differ

LEMMA EditTypesStay ==
  ASSUME EditTyped, NEW r \in Requests, UNCHANGED <<machines, edit, crossed>>,
         pc[r] # "editing", pc'[r] # "editing",
         \A q \in Requests \ {r} : pc'[q] = pc[q]
  PROVE  EditTyped'
BY DEF EditTyped

LEMMA ShopsStay ==
  ASSUME SignedUpWhole, UNCHANGED <<shops, users>> PROVE SignedUpWhole'
BY DEF SignedUpWhole

LEMMA SignupKeeps ==
  ASSUME IInv, NEW r \in Requests,
         (\E e \in Emails : EnterSignup(r, e)) \/ InsertStore(r) \/ InsertOwner(r)
           \/ CommitSignup(r) \/ FailSignup(r)
  PROVE  IInv'
<1>0. /\ CacheTyped /\ SignTyped /\ EditTyped /\ PcTyped
      /\ pc \in [Requests -> {"idle", "signing", "store", "owner", "editing"}]
      /\ email \in [Requests -> Emails \cup {Nothing}]
      /\ \A q \in Requests : SignInv(q)
      /\ \A q \in Requests : EditInv(q)
      /\ SignedUpWhole
  BY Parts DEF IInv, PcTyped, SignTyped
<1>1. UNCHANGED <<machines, edit, crossed>> /\ \A q \in Requests : EditInv(q)'
  <2>1. UNCHANGED <<machines, edit, crossed>>
    BY DEF EnterSignup, InsertStore, InsertOwner, CommitSignup, FailSignup, tables
  <2> QED
    BY <1>0, <2>1, EditsStay
<1>2. ASSUME NEW e \in Emails, EnterSignup(r, e) PROVE IInv'
  <2>1. CacheTyped'
    BY <1>0, <1>2, GateKeeps, GatesType DEF EnterSignup, AdmitSignup, Admit
  <2>2. /\ PcTyped' /\ pc[r] # "editing" /\ pc'[r] # "editing" /\ pc'[r] # "owner"
        /\ \A q \in Requests \ {r} : pc'[q] = pc[q] /\ email'[q] = email[q]
    BY <1>0, <1>2 DEF EnterSignup, Goto, PcTyped
  <2>3. SignTyped'
    BY <1>0, <1>2, Distinct DEF EnterSignup, Goto, SignTyped, tables
  <2>4. users' = users /\ shops' = shops
    BY <1>2 DEF EnterSignup, tables
  <2>5. EditTyped'
    BY <1>0, <1>1, <2>2, EditTypesStay
  <2> QED
    BY <1>0, <1>1, <2>1, <2>2, <2>3, <2>4, <2>5, SignsStay, ShopsStay, PartsNext DEF IInv
<1>3. ASSUME UNCHANGED <<cache, shops, users>>,
             pc[r] # "editing", pc'[r] \in {"idle", "store", "owner"},
             pc' = [pc EXCEPT ![r] = pc'[r]], email'[r] = Nothing => pc'[r] = "idle",
             email' = email \/ email' = [email EXCEPT ![r] = Nothing],
             \A q \in Requests : SignInv(q)'
      PROVE  IInv'
  <2>1. CacheTyped'
    BY <1>0, <1>3 DEF CacheTyped, cache
  <2>2. PcTyped' /\ pc'[r] # "editing" /\ \A q \in Requests \ {r} : pc'[q] = pc[q]
    BY <1>0, <1>3 DEF PcTyped
  <2>3. SignTyped'
    BY <1>0, <1>3 DEF SignTyped
  <2>4. EditTyped'
    BY <1>0, <1>1, <1>3, <2>2, EditTypesStay
  <2> QED
    BY <1>0, <1>1, <1>3, <2>1, <2>2, <2>3, <2>4, ShopsStay, PartsNext DEF IInv
<1>4. CASE InsertStore(r)
  <2>1. /\ pc[r] = "signing" /\ pc' = [pc EXCEPT ![r] = "store"] /\ email' = email /\ email[r] # Nothing
        /\ UNCHANGED <<cache, shops, users>>
    BY <1>0, <1>4 DEF InsertStore, Goto, tables, SignTyped
  <2>2. pc'[r] = "store" /\ \A q \in Requests \ {r} : pc'[q] = pc[q]
    BY <1>0, <2>1
  <2>3. \A q \in Requests : SignInv(q)'
    BY <1>0, <2>1, <2>2, SignsStay
  <2> QED
    BY <1>3, <2>1, <2>2, <2>3
<1>5. CASE (InsertOwner(r) /\ Taken(email[r])) \/ FailSignup(r)
  <2>1. /\ pc[r] \in {"signing", "store", "owner"} /\ UNCHANGED <<cache, shops, users>>
        /\ pc' = [pc EXCEPT ![r] = "idle"] /\ email' = [email EXCEPT ![r] = Nothing]
    BY <1>5 DEF InsertOwner, FailSignup, Leave, Goto, tables
  <2>2. pc'[r] = "idle" /\ \A q \in Requests \ {r} : pc'[q] = pc[q] /\ email'[q] = email[q]
    BY <1>0, <2>1
  <2>3. \A q \in Requests : SignInv(q)'
    BY <1>0, <2>1, <2>2, SignsStay
  <2> QED
    BY <1>3, <2>1, <2>2, <2>3
<1>6. CASE InsertOwner(r) /\ ~Taken(email[r])
  <2>1. /\ pc[r] = "store" /\ ~OpenTx(email[r]) /\ ~Taken(email[r]) /\ email[r] # Nothing
        /\ UNCHANGED <<cache, shops, users>>
        /\ pc' = [pc EXCEPT ![r] = "owner"] /\ email' = email
    BY <1>0, <1>6 DEF InsertOwner, Goto, tables, SignTyped
  <2>2. pc'[r] = "owner" /\ \A q \in Requests \ {r} : pc'[q] = pc[q]
    BY <1>0, <2>1
  <2>3. \A q \in Requests : SignInv(q)'
    BY <1>0, <2>1, <2>2 DEF SignInv, Taken, OpenTx
  <2> QED
    BY <1>3, <2>1, <2>2, <2>3
<1>7. CASE CommitSignup(r)
  <2>1. /\ pc[r] = "owner" /\ email[r] \in Emails
        /\ pc' = [pc EXCEPT ![r] = "idle"] /\ email' = [email EXCEPT ![r] = Nothing]
        /\ UNCHANGED cache
    BY <1>0, <1>7 DEF CommitSignup, Leave, Goto, SignTyped
  <2>2. pc'[r] = "idle" /\ \A q \in Requests \ {r} : pc'[q] = pc[q] /\ email'[q] = email[q]
    BY <1>0, <2>1
  <2> DEFINE new == NewShop
  <2>3. shops' = shops \cup {new} /\ users' = users \cup {[email |-> email[r], shop |-> new]}
    BY <1>7 DEF CommitSignup
  <2>4. PcTyped' /\ CacheTyped' /\ EditTyped'
    <3>1. PcTyped'
      BY <1>0, <2>1 DEF PcTyped
    <3>2. CacheTyped'
      BY <1>0, <2>1 DEF CacheTyped, cache
    <3>3. EditTyped'
      BY <1>0, <1>1, <2>1, <2>2, EditTypesStay
    <3> QED
      BY <3>1, <3>2, <3>3
  <2> HIDE DEF new
  <2>5. SignTyped'
    <3>1. users' \subseteq [email : Emails, shop : shops']
      BY <1>0, <2>1, <2>3 DEF SignTyped
    <3>2. email' \in [Requests -> Emails \cup {Nothing}]
      BY <1>0, <2>1
    <3>3. \A q \in Requests : pc'[q] \in {"signing", "store", "owner"} => email'[q] # Nothing
      BY <1>0, <2>2 DEF SignTyped
    <3> QED
      BY <3>1, <3>2, <3>3 DEF SignTyped
  <2>6. SignedUpWhole'
    <3>1. \A u \in users : u.email # email[r]
      BY <1>0, <2>1 DEF SignInv, Taken
    <3> QED
      <4>1. \A s \in shops' : \E u \in users' : u.shop = s
        <5>1. [email |-> email[r], shop |-> new] \in users'
              /\ [email |-> email[r], shop |-> new].shop = new
          BY <2>3
        <5> QED
          BY <1>0, <2>3, <5>1 DEF SignedUpWhole
      <4>2. \A u, v \in users' : u.email = v.email => u = v
        BY <1>0, <2>3, <3>1 DEF SignedUpWhole
      <4> QED
        BY <4>1, <4>2 DEF SignedUpWhole
  <2>7. ASSUME NEW q \in Requests PROVE SignInv(q)'
    <3>1. pc'[q] = "owner" => q # r /\ pc[q] = "owner" /\ email[q] # email[r]
      BY <1>0, <2>1, <2>2 DEF SignInv
    <3> QED
      BY <1>0, <2>1, <2>2, <2>3, <3>1 DEF SignInv, Taken
  <2> QED
    BY <1>1, <2>4, <2>5, <2>6, <2>7, PartsNext DEF IInv
<1> QED
  BY <1>2, <1>4, <1>5, <1>6, <1>7 DEF InsertOwner

-----------------------------------------------------------------------------
(* Machines.                                                               *)

LEMMA SignTypesStay ==
  ASSUME SignTyped, SignedUpWhole, \A q \in Requests : SignInv(q), NEW r \in Requests,
         UNCHANGED <<shops, users, email>>,
         pc'[r] \notin {"signing", "store", "owner"},
         \A q \in Requests \ {r} : pc'[q] = pc[q]
  PROVE  SignTyped' /\ SignedUpWhole' /\ \A q \in Requests : SignInv(q)'
<1>1. SignTyped'
  BY DEF SignTyped
<1>2. SignedUpWhole'
  BY ShopsStay
<1>3. ASSUME NEW q \in Requests PROVE SignInv(q)'
  BY SignsStay
<1> QED
  BY <1>1, <1>2, <1>3

\* What an edit writes is a row, and differs from the row it finds in the
\* fields it sends or that have changed since it read.
LEMMA MergedIsRow ==
  ASSUME NEW e \in Edit
  PROVE  /\ Merged(e) \in Row
         /\ \A f \in {"label", "active"} : e.patch[f] = Nothing => Merged(e)[f] = e.row[f]
<1>1. /\ e.patch.label \in Labels \cup {Nothing} /\ e.patch.active \in BOOLEAN \cup {Nothing}
      /\ e.row.label \in Labels /\ e.row.active \in BOOLEAN
  BY PatchesType DEF Edit, Row
<1>2. Merged(e) \in Row
  <2> DEFINE x == IF e.patch.label = Nothing THEN e.row.label ELSE e.patch.label
             y == IF e.patch.active = Nothing THEN e.row.active ELSE e.patch.active
  <2>1. x \in Labels
    BY <1>1
  <2>2. y \in BOOLEAN
    BY <1>1, Zenon
  <2>3. Merged(e) = [label |-> x, active |-> y]
    BY DEF Merged
  <2> HIDE DEF x, y
  <2> QED
    BY <2>1, <2>2, <2>3 DEF Row
<1>3. e.patch["label"] = Nothing => Merged(e)["label"] = e.row["label"]
  BY Zenon DEF Merged
<1>4. e.patch["active"] = Nothing => Merged(e)["active"] = e.row["active"]
  BY Zenon DEF Merged
<1> QED
  BY <1>2, <1>3, <1>4

LEMMA CreateKeeps ==
  ASSUME IInv, NEW r \in Requests, NEW c \in Codes, NEW label \in Labels, CreateMachine(r, c, label)
  PROVE  IInv'
<1>0. /\ CacheTyped /\ SignTyped /\ EditTyped /\ PcTyped
      /\ \A q \in Requests : EditInv(q)
  BY Parts DEF IInv
<1>1. [label |-> label, active |-> TRUE] \in Row
  BY DEF Row
<1>2. EditTyped'
  BY <1>0, <1>1, Distinct DEF CreateMachine, locals, EditTyped
<1>3. ASSUME NEW q \in Requests PROVE EditInv(q)'
  BY <1>0 DEF CreateMachine, locals, EditTyped, EditInv, Differ
<1>4. CacheTyped' /\ SignTyped' /\ PcTyped' /\ SignedUpWhole'
  BY <1>0 DEF IInv, CreateMachine, locals, cache, CacheTyped, SignTyped, PcTyped, SignedUpWhole
<1>5. ASSUME NEW q \in Requests PROVE SignInv(q)'
  BY DEF IInv, CreateMachine, locals, SignInv, Taken
<1> QED
  BY <1>2, <1>3, <1>4, <1>5, PartsNext DEF IInv

LEMMA ReadKeeps ==
  ASSUME IInv, NEW r \in Requests, NEW c \in Codes, NEW patch \in Patches, ReadMachine(r, c, patch)
  PROVE  IInv'
<1>0. /\ CacheTyped /\ SignTyped /\ EditTyped /\ PcTyped /\ SignedUpWhole
      /\ \A q \in Requests : EditInv(q)
      /\ \A q \in Requests : SignInv(q)
  BY Parts DEF IInv
<1> DEFINE e == [code |-> c, row |-> machines[c], patch |-> patch]
<1>1. e \in Edit /\ e # Nothing /\ machines[c] # Nothing
  BY <1>0, Distinct DEF ReadMachine, EditTyped, Edit
<1>2. /\ pc' = [pc EXCEPT ![r] = "editing"] /\ edit' = [edit EXCEPT ![r] = e]
      /\ UNCHANGED <<cache, tables, email, crossed>>
      /\ e.code = c /\ e.row = machines[c]
  BY DEF ReadMachine, Goto
<1> HIDE DEF e
<1>3. pc'[r] = "editing" /\ PcTyped' /\ \A q \in Requests \ {r} : pc'[q] = pc[q]
  BY <1>0, <1>2 DEF PcTyped
<1>4. EditTyped'
  BY <1>0, <1>1, <1>2, <1>3 DEF EditTyped, tables
<1>5. ASSUME NEW q \in Requests PROVE EditInv(q)'
  BY <1>0, <1>2 DEF EditInv, Differ, tables, EditTyped
<1>6. CacheTyped' /\ UNCHANGED <<shops, users, email>>
  BY <1>0, <1>2 DEF cache, tables, CacheTyped
<1>7. SignTyped' /\ SignedUpWhole' /\ \A q \in Requests : SignInv(q)'
  BY <1>0, <1>3, <1>6, SignTypesStay
<1> QED
  BY <1>3, <1>4, <1>5, <1>6, <1>7, PartsNext DEF IInv

LEMMA WriteKeeps ==
  ASSUME IInv, NEW r \in Requests, WriteMachine(r)
  PROVE  IInv'
<1>0. /\ CacheTyped /\ SignTyped /\ EditTyped /\ PcTyped /\ SignedUpWhole
      /\ \A q \in Requests : EditInv(q)
      /\ \A q \in Requests : SignInv(q)
  BY Parts DEF IInv
<1> DEFINE e == edit[r]
<1>1. e \in Edit /\ e # Nothing /\ e.code \in Codes
  BY <1>0 DEF WriteMachine, EditTyped, Edit
<1>2. /\ pc' = [pc EXCEPT ![r] = "idle"] /\ edit' = [edit EXCEPT ![r] = Nothing]
      /\ machines' = [machines EXCEPT ![e.code] = Merged(e)] \/ machines' = machines
      /\ \A q \in Requests : crossed'[q] =
           IF q = r THEN {}
           ELSE IF edit[q] # Nothing /\ edit[q].code = e.code
             THEN crossed[q] \cup Differ(machines[e.code], machines'[e.code])
           ELSE crossed[q]
      /\ UNCHANGED <<cache, shops, users, email>>
  BY DEF WriteMachine, Goto
<1>3. pc'[r] = "idle" /\ PcTyped' /\ \A q \in Requests \ {r} : pc'[q] = pc[q]
  BY <1>0, <1>2 DEF PcTyped
<1>4. EditTyped'
  <2>1. machines' \in [Codes -> Row \cup {Nothing}] /\ \A c \in Codes : machines[c] # Nothing => machines'[c] # Nothing
    BY <1>0, <1>1, <1>2, MergedIsRow, Distinct DEF EditTyped
  <2>2. crossed' \in [Requests -> SUBSET {"label", "active"}]
    <3>1. DOMAIN crossed' = Requests /\ crossed' = [q \in Requests |-> crossed'[q]]
      BY DEF WriteMachine
    <3>2. ASSUME NEW q \in Requests PROVE crossed'[q] \subseteq {"label", "active"}
      BY <1>0, <1>2 DEF EditTyped, Differ
    <3> QED
      BY <3>1, <3>2
  <2> QED
    BY ZenonT(40), <1>0, <1>2, <1>3, <2>1, <2>2 DEF EditTyped, Edit
<1>5. ASSUME NEW q \in Requests PROVE EditInv(q)'
  <2>1. CASE q = r
    BY <1>0, <1>2, <2>1 DEF EditInv, EditTyped
  <2>2. CASE q # r /\ edit[q] = Nothing
    BY <1>0, <1>2, <2>2 DEF EditInv, EditTyped
  <2>3. CASE q # r /\ edit[q] # Nothing /\ edit[q].code # e.code
    <3>1. edit'[q] = edit[q] /\ crossed'[q] = crossed[q] /\ edit[q].code \in Codes
      BY <1>0, <1>2, <2>3 DEF EditTyped, Edit
    <3>2. machines'[edit[q].code] = machines[edit[q].code]
      BY <1>0, <1>1, <1>2, <2>3, <3>1 DEF EditTyped
    <3> QED
      BY <1>0, <2>3, <3>1, <3>2 DEF EditInv, Differ
  <2>4. CASE q # r /\ edit[q] # Nothing /\ edit[q].code = e.code
    <3>1. /\ edit'[q] = edit[q] /\ crossed'[q] = crossed[q] \cup Differ(machines[e.code], machines'[e.code])
          /\ Differ(machines[e.code], edit[q].row) \subseteq crossed[q]
      BY <1>0, <1>2, <2>4 DEF EditInv, EditTyped
    <3> QED
      BY <2>4, <3>1 DEF EditInv, Differ
  <2> QED
    BY <2>1, <2>2, <2>3, <2>4
<1>6. CacheTyped' /\ UNCHANGED <<shops, users, email>>
  BY <1>0, <1>2 DEF cache, CacheTyped
<1>7. SignTyped' /\ SignedUpWhole' /\ \A q \in Requests : SignInv(q)'
  BY <1>0, <1>3, <1>6, SignTypesStay
<1> QED
  BY <1>3, <1>4, <1>5, <1>6, <1>7, PartsNext DEF IInv

-----------------------------------------------------------------------------
(* The results.                                                            *)

LEMMA OthersKeep ==
  ASSUME IInv, (\E g \in Gates : Knock(g)) \/ Restart \/ Tick \/ UNCHANGED vars PROVE IInv'
<1>0. /\ CacheTyped /\ SignTyped /\ EditTyped /\ PcTyped /\ SignedUpWhole
      /\ \A q \in Requests : EditInv(q)
      /\ \A q \in Requests : SignInv(q)
  BY Parts DEF IInv
<1>1. ASSUME UNCHANGED <<tables, locals>>, CacheTyped' PROVE IInv'
  <2>1. SignTyped' /\ EditTyped' /\ PcTyped' /\ SignedUpWhole'
    BY <1>0, <1>1 DEF tables, locals, SignTyped, EditTyped, PcTyped, SignedUpWhole
  <2>2. ASSUME NEW q \in Requests PROVE EditInv(q)' /\ SignInv(q)'
    BY <1>0, <1>1 DEF tables, locals, EditInv, Differ, SignInv, Taken
  <2> QED
    BY <1>1, <2>1, <2>2, PartsNext DEF IInv
<1>2. ASSUME NEW g \in Gates, Knock(g) PROVE IInv'
  BY <1>0, <1>1, <1>2, GateKeeps DEF Knock
<1>3. CASE Tick
  BY <1>0, <1>1, <1>3, TickKeeps DEF Tick
<1>4. CASE UNCHANGED vars
  <2>1. CacheTyped'
    BY <1>0, <1>4 DEF vars, cache, CacheTyped
  <2> QED
    BY <1>1, <1>4, <2>1 DEF vars
<1>5. CASE Restart
  <2>1. CacheTyped'
    <3>1. CASE redis
      BY <1>0, <1>5, <3>1 DEF Restart, CacheTyped
    <3>2. CASE ~redis
      BY <1>0, <1>5, <3>2, EmptyCache DEF Restart, CacheTyped
    <3> QED
      BY <3>1, <3>2
  <2>2. SignTyped' /\ EditTyped' /\ PcTyped' /\ SignedUpWhole'
    BY <1>0, <1>5 DEF Restart, tables, SignTyped, EditTyped, PcTyped, SignedUpWhole
  <2>3. ASSUME NEW q \in Requests PROVE EditInv(q)' /\ SignInv(q)'
    BY <1>5 DEF Restart, EditInv, SignInv
  <2> QED
    BY <2>1, <2>2, <2>3, PartsNext DEF IInv
<1> QED
  BY <1>2, <1>3, <1>4, <1>5

\* Every reachable state satisfies IInv.
THEOREM Invariant == Spec => []IInv
<1>1. IInv /\ [Next]_vars => IInv'
  BY SignupKeeps, CreateKeeps, ReadKeeps, WriteKeeps, OthersKeep DEF Next, Newcomer, Owner
<1> QED
  BY InitHolds, <1>1, PTL DEF Spec

\* Cache, tables and handlers keep their types.
THEOREM TypesHold == Spec => []TypeOK
BY Invariant, PTL DEF IInv

\* Every reachable state keeps the windows.
THEOREM WindowsHold == Spec => []WindowInv
<1>1. Init => WindowInv
  BY NoWindows DEF Init, WindowInv
<1> QED
  BY TypesHold, <1>1, WindowsKeep, PTL DEF Spec

\* In any stretch of time as long as a window no gate lets two windows' worth
\* through.
THEOREM PassesHold == Spec => []PassesBounded
<1>1. ASSUME TypeOK, WindowInv PROVE PassesBounded
  <2> SUFFICES ASSUME NEW g \in Gates PROVE Size(passed[g], Ages(g)) < 2 * Limit[g]
    BY DEF PassesBounded, Passes, Size, Marks, Ages
  <2> DEFINE c == counter[g]
             h == passed[g]
  <2>0. /\ CacheTyped /\ Span[g] \in Nat \ {0} /\ Limit[g] \in Nat \ {0} /\ c.left \in Nat
        /\ h \in [0..(Span[g] - 1) -> Nat] /\ Ages(g) = 0..(Span[g] - 1)
        /\ Window(g, c, h, redis)
    BY <1>1, Parts, GateFacts DEF Ages, WindowInv
  <2>1. /\ Since(g, c) \in SUBSET (0..(Span[g] - 1)) /\ Before(g, c) \in SUBSET (0..(Span[g] - 1))
        /\ Ages(g) = Since(g, c) \cup Before(g, c)
    BY <2>0 DEF Since, Before
  <2> HIDE DEF c, h
  <2>2. Size(h, Ages(g)) <= Size(h, Since(g, c)) + Size(h, Before(g, c))
    BY <2>0, <2>1, SizeSplit
  <2>3. Size(h, Ages(g)) \in Nat /\ Size(h, Since(g, c)) \in Nat /\ Size(h, Before(g, c)) \in Nat
    BY <2>0, <2>1, MarksFinite
  <2>4. Size(h, Ages(g)) < 2 * Limit[g]
    BY <2>0, <2>2, <2>3 DEF Window
  <2> QED
    BY <2>4 DEF h
<1> QED
  BY TypesHold, WindowsHold, <1>1, PTL

\* There is no shop without its owner, and no email with two accounts,
\* however many sign up at once.
THEOREM SignedUpHolds == Spec => []SignedUpWhole
BY Invariant, PTL DEF IInv

\* An edit leaves what it does not send as it is, but for what others have
\* changed since it read the machine.
THEOREM UnsentHolds == Spec => UnsentKept
<1> DEFINE Kept(r) ==
      edit[r] # Nothing /\ edit'[r] = Nothing =>
         LET e == edit[r]
             sent == {f \in {"label", "active"} : e.patch[f] # Nothing}
         IN machines'[e.code] = machines[e.code] \/
            Differ(machines[e.code], machines'[e.code]) \subseteq sent \cup crossed[r]
<1>1. ASSUME IInv, Next, NEW r \in Requests PROVE Kept(r)
  <2>0. EditTyped /\ EditInv(r) /\ edit \in [Requests -> Edit \cup {Nothing}]
    BY <1>1, Parts DEF IInv, EditTyped
  <2>1. CASE machines' = machines
    BY <2>1
  <2>2. ASSUME WriteMachine(r), edit[r] # Nothing,
               machines' = [machines EXCEPT ![edit[r].code] = Merged(edit[r])]
        PROVE  Kept(r)
    <3>1. /\ edit[r] \in Edit /\ edit[r].code \in Codes
          /\ machines'[edit[r].code] = Merged(edit[r])
      BY <2>0, <2>2 DEF EditTyped, Edit
    <3>2. Differ(machines[edit[r].code], edit[r].row) \subseteq crossed[r]
      BY <2>0, <2>2 DEF EditInv
    <3>3. \A f \in {"label", "active"} :
            edit[r].patch[f] = Nothing => Merged(edit[r])[f] = edit[r].row[f]
      BY <3>1, MergedIsRow
    <3> QED
      BY <3>1, <3>2, <3>3 DEF Differ
  <2>3. ASSUME NEW q \in Requests \ {r}, WriteMachine(q) PROVE edit'[r] = edit[r]
    BY <2>0, <2>3 DEF WriteMachine
  <2>4. ASSUME NEW q \in Requests, NEW c \in Codes, NEW label \in Labels, CreateMachine(q, c, label)
        PROVE  edit'[r] = edit[r]
    BY <2>4 DEF CreateMachine, locals
  <2>5. WriteMachine(r) => machines' = machines
                           \/ machines' = [machines EXCEPT ![edit[r].code] = Merged(edit[r])]
    BY DEF WriteMachine
  <2>6. ASSUME NEW q \in Requests, Newcomer(q) \/ \E c \in Codes, patch \in Patches : ReadMachine(q, c, patch)
        PROVE  machines' = machines
    BY <2>6 DEF Newcomer, EnterSignup, InsertStore, InsertOwner, CommitSignup, FailSignup, ReadMachine, tables
  <2>7. (\E g \in Gates : Knock(g)) \/ Restart \/ Tick => machines' = machines
    BY DEF Knock, Restart, Tick, tables
  <2>8. edit'[r] = edit[r] => Kept(r)
    OBVIOUS
  <2> HIDE DEF Kept
  <2>9. edit[r] = Nothing => Kept(r)
    BY DEF Kept
  <2> QED
    BY <1>1, <2>1, <2>2, <2>3, <2>4, <2>5, <2>6, <2>7, <2>8, <2>9 DEF Next, Owner
<1>2. IInv /\ [Next]_vars => [\A r \in Requests : Kept(r)]_vars
  BY <1>1
<1> QED
  BY Invariant, <1>2, PTL DEF Spec, UnsentKept
=============================================================================
