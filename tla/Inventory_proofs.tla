-------------------------- MODULE Inventory_proofs --------------------------
(***************************************************************************)
(* What TLAPS proves of Inventory, for any number of requests, forms and   *)
(* items.                                                                  *)
(*                                                                         *)
(* The argument.  A row belongs to the request that inserted it, which is  *)
(* past its INSERT and has the row's key and stamp; so a key that nobody   *)
(* has stored is stored once, and whoever finds it taken finds another's.  *)
(* Stamps are given out in order: what has been answered before a request  *)
(* was sent has the earlier stamp, and so has the purchase it was answered *)
(* about, whoever stored it.  That a newest purchase and a last count      *)
(* exist is part of the invariant, since each row is added to rows that    *)
(* have one.  A receipt is on disk until its own request deletes it.       *)
(* The screen: what was spent when it was read is still in the books when  *)
(* the stock is summed up, and every item not yet counted is worth what    *)
(* was spent on it.  Numbering an item's money maps its share of the stock *)
(* onto it, and so the stock's units onto those of all purchases.          *)
(***************************************************************************)
EXTENDS Inventory, FiniteSetTheorems, TLAPS

\* Past its INSERT, or given up.
Past == {"stored", "failed", "done", "dead"}

\* What a request to record a purchase knows.
PostInv(r) ==
  /\ pc[r] # "idle" => key[r] \in Keys
  /\ reply[r] # "counted"
  /\ pc[r] \in {"ready", "begun"} /\ before[r] = key[r] => Known(key[r])
  /\ pc[r] = "stored" \/ reply[r] = "created" =>
       /\ before[r] # key[r]
       /\ \E p \in purchases : p.key = key[r] /\ p.by = r
  /\ pc[r] \in {"conflict", "overtaken"} \/ reply[r] = "existing" =>
       \E p \in purchases : p.key = key[r] /\ p.by # r
  /\ reply[r] = "existing" => before[r] # key[r]

CountInv(r) ==
  pc[r] \in {"counting", "ready", "begun", "noted"} =>
    counted[r] \in [item : Items, qty : Nat]

\* Who has been answered stays so, and has had his stamp before.
OrderInv(r) ==
  /\ reply[r] # "" => pc[r] = "done"
  /\ pc[r] = "begun" => began[r] # 0
  /\ pc[r] = "idle" => began[r] = 0
  /\ \A q \in knew[r] :
       /\ q \in Answered
       /\ began[r] # 0 => began[q] < began[r]
       /\ q \in Posts /\ began[r] # 0 =>
            \A p \in purchases : p.key = key[q] => p.at < began[r]

PurchaseInv(p) == pc[p.by] \in Past /\ key[p.by] = p.key /\ p.at = began[p.by]
CountedInv(c)  == pc[c.by] \in {"noted", "done", "dead"} /\ c.at = began[c.by]

HasNewest ==
  \A i \in Items : OfItem(i) # {} =>
    \E p \in OfItem(i) : \A q \in OfItem(i) :
      \/ Form[q.key].day < Form[p.key].day
      \/ Form[q.key].day = Form[p.key].day /\ q.at <= p.at

HasLast ==
  \A i \in Items : CountsOf(i) # {} =>
    \E c \in CountsOf(i) : \A d \in CountsOf(i) : d.at <= c.at

\* The receipt of a request that goes on is on disk.
ReceiptInv(r) ==
  (pc[r] \in {"ready", "begun", "stored"} \/ reply[r] = "created")
    /\ Form[key[r]].receipt => r \in disk

BooksInv ==
  /\ \A r \in Posts : PostInv(r)
  /\ \A r \in Counts : CountInv(r)
  /\ \A p \in purchases : PurchaseInv(p)
  /\ \A c \in counts : CountedInv(c)
  /\ OnePurchasePerKey

ClockInv == \A r \in Requests : OrderInv(r)

DiskInv ==
  /\ \A r \in Posts : ReceiptInv(r)
  /\ ReceiptsAccounted

IInv == TypeOK /\ BooksInv /\ ClockInv /\ HasNewest /\ HasLast /\ DiskInv

-----------------------------------------------------------------------------
LEMMA InitHolds == Init => IInv
<1>0. 0 \in 0..0
  OBVIOUS
<1> SUFFICES ASSUME Init PROVE IInv
  OBVIOUS
<1> USE DEF Init
<1>1. TypeOK
  <2>1. began \in [Requests -> 0..clock]
    <3>1. clock = 0
      OBVIOUS
    <3> QED
      BY <1>0, <3>1, Zenon
  <2>2. pc \in [Requests -> Busy \cup {"idle", "done", "dead"}]
        /\ key \in [Posts -> Keys \cup {Nothing}]
        /\ before \in [Posts -> Keys \cup {Nothing}]
        /\ knew \in [Requests -> SUBSET Requests]
    OBVIOUS
  <2>3. counted \in [Counts -> [item : Items, qty : CountedQty] \cup {Nothing}]
    BY Zenon
  <2>4. reply \in [Requests -> {"", "refused", "created", "existing", "error",
                                "counted", "not found"}]
    OBVIOUS
  <2> QED
    BY <2>1, <2>2, <2>3, <2>4 DEF TypeOK
<1>2. BooksInv
  BY DEF BooksInv, PostInv, CountInv, OnePurchasePerKey, Requests
<1>3. ClockInv
  BY DEF ClockInv, OrderInv
<1>4. HasNewest /\ HasLast
  BY DEF HasNewest, HasLast, OfItem, CountsOf
<1>5. DiskInv
  BY DEF DiskInv, ReceiptInv, ReceiptsAccounted, Requests
<1> QED
  BY <1>1, <1>2, <1>3, <1>4, <1>5 DEF IInv

\* What the types say of rows and stamps.
LEMMA Rows ==
  ASSUME TypeOK
  PROVE  /\ \A r \in Requests : began[r] \in Nat
         /\ \A p \in purchases : p.key \in Keys /\ p.by \in Posts /\ p.at \in Nat /\ p.at # 0
         /\ \A c \in counts : /\ c.item \in Items /\ c.qty \in Nat /\ c.by \in Counts
                              /\ c.at \in Nat /\ c.at # 0
<1>1. clock \in Nat
  BY DEF TypeOK
<1>2. \A t \in 0..clock : t \in Nat
  BY <1>1
<1>3. \A t \in 1..clock : t \in Nat /\ t # 0
  BY <1>1
<1>4. \A r \in Requests : began[r] \in 0..clock
  BY DEF TypeOK
<1>5. \A p \in purchases : p \in [key : Keys, by : Posts, at : 1..clock]
  BY Zenon DEF TypeOK
<1>6. \A c \in counts : c \in [item : Items, qty : Nat, by : Counts, at : 1..clock]
  BY Zenon DEF TypeOK
<1> HIDE DEF TypeOK
<1> QED
  BY <1>2, <1>3, <1>4, <1>5, <1>6

\* The price of the time before is that of a purchase.
LEMMA NewestIsOne ==
  ASSUME NEW i \in Items, TypeOK, HasNewest
  PROVE  Newest(i) = Nothing \/ (Newest(i) \in Keys /\ Known(Newest(i)))
<1> SUFFICES ASSUME OfItem(i) # {} PROVE Newest(i) \in Keys /\ Known(Newest(i))
  BY DEF Newest
<1>1. \E p \in OfItem(i) : \A q \in OfItem(i) :
        \/ Form[q.key].day < Form[p.key].day
        \/ Form[q.key].day = Form[p.key].day /\ q.at <= p.at
  BY DEF HasNewest
<1>2. \E p \in OfItem(i) : Newest(i) = p.key
  BY <1>1, Zenon DEF Newest
<1> QED
  BY <1>2 DEF OfItem, TypeOK, Known

-----------------------------------------------------------------------------
\* The types, one action after the other.
LEMMA TypeKeeps ==
  ASSUME TypeOK, BooksInv, ClockInv, HasNewest, [Next]_vars PROVE TypeOK'
<1> USE DEF Requests
<1>1. ASSUME NEW r \in Posts, NEW k \in Keys, Post(r, k) PROVE TypeOK'
  BY <1>1 DEF Post, Send, Answered, TypeOK, Goto, Answer, Busy, tables, files
<1>2. ASSUME NEW r \in Posts, Prepare(r) PROVE TypeOK'
  <2>1. key[r] \in Keys
    BY <1>2 DEF Prepare, BooksInv, PostInv
  <2>2. Newest(Form[key[r]].item) \in Keys \cup {Nothing}
    <3>1. Form[key[r]].item \in Items
      BY <2>1, FormType
    <3> QED
      BY <3>1, NewestIsOne, Zenon
  <2>3. before' \in [Posts -> Keys \cup {Nothing}]
    BY <1>2, <2>2 DEF Prepare, TypeOK
  <2>4. pc' \in [Requests -> Busy \cup {"idle", "done", "dead"}]
    BY <1>2 DEF Prepare, TypeOK, Goto, Busy
  <2>5. disk' \subseteq Posts /\ strays' \subseteq disk'
    BY <1>2 DEF Prepare, TypeOK
  <2> QED
    BY <1>2, <2>3, <2>4, <2>5 DEF Prepare, TypeOK, tables, asked
<1>3. ASSUME NEW r \in Requests, Begin(r) PROVE TypeOK'
  <2>1. clock' \in Nat /\ 1..clock \subseteq 1..clock' /\ 0..clock \subseteq 0..clock'
        /\ clock' \in 0..clock'
    <3>1. clock \in Nat /\ clock' = clock + 1
      BY <1>3, Zenon DEF Begin, TypeOK
    <3> QED
      BY <3>1
  <2>2. began' \in [Requests -> 0..clock']
    BY <1>3, <2>1 DEF Begin, TypeOK
  <2>3. purchases' \subseteq [key : Keys, by : Posts, at : 1..clock']
        /\ counts' \subseteq [item : Items, qty : Nat, by : Counts, at : 1..clock']
    BY <1>3, <2>1 DEF Begin, TypeOK, tables
  <2> QED
    BY <1>3, <2>1, <2>2, <2>3 DEF Begin, TypeOK, Goto, Busy, tables, files, asked
<1>4. ASSUME NEW r \in Posts, Insert(r) PROVE TypeOK'
  <2>1. began[r] \in 1..clock /\ key[r] \in Keys
    <3>1. began[r] \in 0..clock /\ clock \in Nat
      BY DEF TypeOK
    <3>2. began[r] # 0 /\ key[r] \in Keys
      BY <1>4, Zenon DEF Insert, BooksInv, PostInv, ClockInv, OrderInv
    <3> QED
      BY <3>1, <3>2
  <2>2. purchases' \subseteq [key : Keys, by : Posts, at : 1..clock]
    <3>1. purchases' \subseteq purchases \cup {[key |-> key[r], by |-> r, at |-> began[r]]}
      BY <1>4, Zenon DEF Insert
    <3>2. [key |-> key[r], by |-> r, at |-> began[r]] \in [key : Keys, by : Posts, at : 1..clock]
      BY <2>1
    <3> QED
      BY <3>1, <3>2, Zenon DEF TypeOK
  <2>3. pc' \in [Requests -> Busy \cup {"idle", "done", "dead"}]
    BY <1>4 DEF Insert, TypeOK, Goto, Busy
  <2> QED
    BY <1>4, <2>2, <2>3 DEF Insert, TypeOK, files, asked
<1>5. ASSUME NEW r \in Posts, FindExisting(r) \/ Accept(r) PROVE TypeOK'
  BY <1>5 DEF FindExisting, Accept, TypeOK, Goto, Answer, Busy, tables, files, asked
<1>6. ASSUME NEW r \in Posts, Cleanup(r) PROVE TypeOK'
  BY <1>6 DEF Cleanup, TypeOK, Goto, Answer, Busy, tables, asked
<1>7. ASSUME NEW r \in Counts, NEW i \in Items, NEW n \in CountedQty, StartCount(r, i, n)
      PROVE  TypeOK'
  <2>1. counted' \in [Counts -> [item : Items, qty : CountedQty] \cup {Nothing}]
    <3>1. [item |-> i, qty |-> n] \in [item : Items, qty : CountedQty]
      OBVIOUS
    <3> QED
      BY <1>7, <3>1, Zenon DEF StartCount, TypeOK
  <2>2. pc' \in [Requests -> Busy \cup {"idle", "done", "dead"}]
        /\ reply' \in [Requests -> {"", "refused", "created", "existing", "error",
                                    "counted", "not found"}]
    BY <1>7 DEF StartCount, TypeOK, Goto, Answer, Busy
  <2>3. knew' \in [Requests -> SUBSET Requests]
    BY <1>7 DEF StartCount, TypeOK, Send, Answered
  <2> QED
    BY <1>7, <2>1, <2>2, <2>3 DEF StartCount, TypeOK, tables, files
<1>8. ASSUME NEW r \in Counts, Measure(r) \/ ShowCount(r) PROVE TypeOK'
  BY <1>8 DEF Measure, ShowCount, TypeOK, Goto, Answer, Busy, tables, files, asked
<1>9. ASSUME NEW r \in Counts, StoreCount(r) PROVE TypeOK'
  <2>1. began[r] \in 1..clock /\ counted[r] \in [item : Items, qty : Nat]
    <3>1. began[r] \in 0..clock /\ clock \in Nat
      BY DEF TypeOK
    <3>2. began[r] # 0
      BY <1>9, Zenon DEF StoreCount, ClockInv, OrderInv
    <3>3. counted[r] \in [item : Items, qty : Nat]
      BY <1>9 DEF StoreCount, BooksInv, CountInv
    <3> QED
      BY <3>1, <3>2, <3>3
  <2>2. counts' \subseteq [item : Items, qty : Nat, by : Counts, at : 1..clock]
    <3> DEFINE row == [item |-> counted[r].item, qty |-> counted[r].qty,
                       by |-> r, at |-> began[r]]
    <3>1. counts' \subseteq counts \cup {row}
      BY <1>9, Zenon DEF StoreCount
    <3>2. row \in [item : Items, qty : Nat, by : Counts, at : 1..clock]
      BY <2>1
    <3> QED
      BY <3>1, <3>2, Zenon DEF TypeOK
  <2>3. pc' \in [Requests -> Busy \cup {"idle", "done", "dead"}]
        /\ reply' \in [Requests -> {"", "refused", "created", "existing", "error",
                                    "counted", "not found"}]
    BY <1>9 DEF StoreCount, TypeOK, Goto, Answer, Busy
  <2> QED
    BY <1>9, <2>2, <2>3 DEF StoreCount, TypeOK, files, asked
<1>10. CASE ReadSpent \/ ReadSummary \/ ReadList
  BY <1>10, Zenon DEF ReadSpent, ReadSummary, ReadList, Look, TypeOK, tables, files, asked
<1>11. CASE Crash
  BY <1>11 DEF Crash, TypeOK, tables, asked
<1>12. CASE UNCHANGED vars
  BY <1>12 DEF TypeOK, vars, asked
<1> QED
  BY <1>1, <1>2, <1>3, <1>4, <1>5, <1>6, <1>7, <1>8, <1>9, <1>10, <1>11, <1>12
  DEF Next, HandlePost, HandleCount

-----------------------------------------------------------------------------
(* The books: rows, and what the requests know of them.                    *)

\* Nothing that a request to record a purchase knows is lost on the way.
LEMMA PostInvStays ==
  ASSUME NEW r \in Posts, PostInv(r), purchases \subseteq purchases',
         pc'[r] = pc[r], key'[r] = key[r], reply'[r] = reply[r], before'[r] = before[r]
  PROVE  PostInv(r)'
BY DEF PostInv, Known

LEMMA BooksKeep ==
  ASSUME TypeOK, BooksInv, ClockInv, HasNewest, [Next]_vars PROVE BooksInv'
<1> USE DEF Requests
<1>0. /\ \A r \in Posts : PostInv(r)
      /\ \A r \in Counts : CountInv(r)
      /\ \A p \in purchases : PurchaseInv(p)
      /\ \A c \in counts : CountedInv(c)
      /\ OnePurchasePerKey
      /\ \A p \in purchases : p.by \in Posts
      /\ \A c \in counts : c.by \in Counts
  BY DEF BooksInv, TypeOK
<1>1. ASSUME NEW r \in Posts, NEW k \in Keys, Post(r, k) PROVE BooksInv'
  <2>0. pc[r] = "idle" /\ UNCHANGED <<purchases, counts, counted, began, before>>
        /\ pc'[r] \in {"posted", "done"} /\ reply'[r] \in {reply[r], "refused"} /\ key'[r] = k
        /\ (\A q \in Requests \ {r} : pc'[q] = pc[q] /\ reply'[q] = reply[q])
        /\ \A q \in Posts \ {r} : key'[q] = key[q]
    BY <1>1 DEF Post, Goto, Answer, TypeOK, tables
  <2>1. \A q \in Posts : PostInv(q)'
    <3>1. ASSUME NEW q \in Posts \ {r} PROVE PostInv(q)'
      BY <2>0, <1>0, PostInvStays
    <3>2. PostInv(r)'
      BY <2>0, <1>0 DEF PostInv, ClockInv, OrderInv
    <3> QED
      BY <3>1, <3>2
  <2>2. \A q \in Counts : CountInv(q)'
    BY <2>0, <1>0, Distinct DEF CountInv
  <2>3. \A p \in purchases' : PurchaseInv(p)'
    BY <2>0, <1>0 DEF PurchaseInv, Past
  <2>4. \A c \in counts' : CountedInv(c)'
    BY <2>0, <1>0, Distinct DEF CountedInv
  <2> QED
    BY <2>0, <1>0, <2>1, <2>2, <2>3, <2>4 DEF BooksInv, OnePurchasePerKey
<1>2. ASSUME NEW r \in Posts, Prepare(r) PROVE BooksInv'
  <2>0. pc[r] = "posted" /\ UNCHANGED <<purchases, counts, counted, key, began, reply>>
        /\ pc'[r] \in {"ready", "failed"}
        /\ before'[r] \in {Nothing, Newest(Form[key[r]].item)}
        /\ (\A q \in Requests \ {r} : pc'[q] = pc[q])
        /\ \A q \in Posts \ {r} : before'[q] = before[q]
    BY <1>2 DEF Prepare, Goto, TypeOK, tables, asked
  <2>1. \A q \in Posts : PostInv(q)'
    <3>1. ASSUME NEW q \in Posts \ {r} PROVE PostInv(q)'
      BY <2>0, <1>0, PostInvStays
    <3>2. PostInv(r)'
      <4>1. key[r] \in Keys /\ Form[key[r]].item \in Items /\ key[r] # Nothing
        BY <2>0, <1>0, FormType, Distinct DEF PostInv
      <4>2. Newest(Form[key[r]].item) = Nothing \/ Known(Newest(Form[key[r]].item))
        BY <4>1, NewestIsOne
      <4>3. reply[r] = ""
        BY <2>0 DEF ClockInv, OrderInv
      <4> QED
        BY <2>0, <4>1, <4>2, <4>3 DEF PostInv, Known
    <3> QED
      BY <3>1, <3>2
  <2>2. \A q \in Counts : CountInv(q)'
    BY <2>0, <1>0, Distinct DEF CountInv
  <2>3. \A p \in purchases' : PurchaseInv(p)'
    BY <2>0, <1>0 DEF PurchaseInv, Past
  <2>4. \A c \in counts' : CountedInv(c)'
    BY <2>0, <1>0, Distinct DEF CountedInv
  <2> QED
    BY <2>0, <1>0, <2>1, <2>2, <2>3, <2>4 DEF BooksInv, OnePurchasePerKey
<1>3. ASSUME NEW r \in Requests, Begin(r) PROVE BooksInv'
  <2>0. pc[r] = "ready" /\ UNCHANGED <<purchases, counts, counted, key, reply, before>>
        /\ pc'[r] = "begun"
        /\ \A q \in Requests \ {r} : pc'[q] = pc[q] /\ began'[q] = began[q]
    BY <1>3 DEF Begin, Goto, TypeOK, tables, asked
  <2>1. \A q \in Posts : PostInv(q)'
    <3>1. ASSUME NEW q \in Posts, q # r PROVE PostInv(q)'
      BY <2>0, <1>0, <3>1, PostInvStays
    <3>2. CASE r \in Posts
      <4>1. PostInv(r)'
        BY <2>0, <1>0, <3>2 DEF PostInv, Known
      <4> QED
        BY <3>1, <4>1
    <3> QED
      BY <3>1, <3>2
  <2>2. \A q \in Counts : CountInv(q)'
    BY <2>0, <1>0 DEF CountInv
  <2>3. \A p \in purchases' : PurchaseInv(p)'
    BY <2>0, <1>0 DEF PurchaseInv, Past
  <2>4. \A c \in counts' : CountedInv(c)'
    BY <2>0, <1>0 DEF CountedInv
  <2> QED
    BY <2>0, <1>0, <2>1, <2>2, <2>3, <2>4 DEF BooksInv, OnePurchasePerKey
<1>4. ASSUME NEW r \in Posts, Insert(r) PROVE BooksInv'
  <2>0. pc[r] = "begun" /\ UNCHANGED <<counts, counted, key, reply, before, began>>
        /\ pc'[r] \in {"stored", "conflict", "failed"}
        /\ \A q \in Requests \ {r} : pc'[q] = pc[q]
        /\ reply[r] = ""
    BY <1>4 DEF Insert, Goto, TypeOK, asked, ClockInv, OrderInv
  <2> DEFINE row == [key |-> key[r], by |-> r, at |-> began[r]]
  <2>a. \/ ~Known(key[r]) /\ purchases' = purchases \cup {row} /\ pc'[r] # "conflict"
        \/ Known(key[r]) /\ purchases' = purchases /\ pc'[r] = "conflict"
        \/ purchases' = purchases /\ pc'[r] = "failed"
    BY <1>4 DEF Insert, Goto, TypeOK
  <2>1. \A q \in Posts : PostInv(q)'
    <3>1. ASSUME NEW q \in Posts \ {r} PROVE PostInv(q)'
      <4>1. purchases \subseteq purchases'
        BY <2>a, Zenon
      <4> QED
        BY <2>0, <4>1, <1>0, PostInvStays
    <3>2. PostInv(r)'
      <4>1. PostInv(r) /\ row.key = key[r] /\ row.by = r
        BY <1>0
      <4>2. CASE ~Known(key[r]) /\ purchases' = purchases \cup {row} /\ pc'[r] # "conflict"
        <5>1. row \in purchases'
          BY <4>2
        <5> HIDE DEF row
        <5> QED
          BY <2>0, <4>1, <4>2, <5>1 DEF PostInv
      <4>3. CASE Known(key[r]) /\ purchases' = purchases /\ pc'[r] = "conflict"
        <5>1. PICK p \in purchases : p.key = key[r]
          BY <4>3 DEF Known
        <5>2. p.by # r
          BY <5>1, <2>0, <1>0 DEF PurchaseInv, Past
        <5> QED
          BY <2>0, <4>1, <4>3, <5>1, <5>2 DEF PostInv
      <4>4. CASE purchases' = purchases /\ pc'[r] = "failed"
        BY <2>0, <4>1, <4>4 DEF PostInv
      <4> QED
        BY <2>a, <4>2, <4>3, <4>4
    <3> QED
      BY <3>1, <3>2
  <2>2. \A q \in Counts : CountInv(q)'
    BY <2>0, <1>0, Distinct DEF CountInv
  <2>3. \A p \in purchases' : PurchaseInv(p)'
    <3>1. \A p \in purchases : PurchaseInv(p)'
      BY <2>0, <1>0 DEF PurchaseInv, Past
    <3>2. row.by = r /\ row.key = key[r] /\ row.at = began[r]
      OBVIOUS
    <3>3. pc'[r] \in Past \/ purchases' = purchases
      BY <2>0, <2>a DEF Past
    <3> HIDE DEF row
    <3> QED
      BY <2>0, <2>a, <3>1, <3>2, <3>3 DEF PurchaseInv
  <2>4. \A c \in counts' : CountedInv(c)'
    BY <2>0, <1>0, Distinct DEF CountedInv
  <2>5. OnePurchasePerKey'
    <3>1. row.key = key[r]
      OBVIOUS
    <3> HIDE DEF row
    <3> QED
      BY <2>a, <3>1, <1>0 DEF OnePurchasePerKey, Known
  <2> QED
    BY <2>1, <2>2, <2>3, <2>4, <2>5 DEF BooksInv
<1>5. ASSUME NEW r \in Posts, FindExisting(r) \/ Accept(r) \/ Cleanup(r) PROVE BooksInv'
  <2>0. /\ UNCHANGED <<purchases, counts, counted, key, began>>
        /\ pc[r] \in {"conflict", "stored", "failed", "overtaken"}
        /\ pc'[r] \in {"overtaken", "failed", "done"}
        /\ pc'[r] = "overtaken" => pc[r] = "conflict" /\ reply'[r] = ""
        /\ pc'[r] = "failed" => reply'[r] = ""
        /\ pc'[r] = "done" => \/ pc[r] = "stored" /\ reply'[r] = "created" /\ before'[r] = before[r]
                              \/ reply'[r] = "error"
                              \/ pc[r] = "overtaken" /\ reply'[r] = "existing" /\ before'[r] = Nothing
        /\ \A q \in Requests \ {r} : pc'[q] = pc[q] /\ reply'[q] = reply[q]
        /\ \A q \in Posts \ {r} : before'[q] = before[q]
    <3>1. CASE FindExisting(r)
      BY <3>1 DEF FindExisting, Goto, TypeOK, tables, asked, ClockInv, OrderInv
    <3>2. CASE Accept(r)
      BY <3>2 DEF Accept, Answer, Goto, TypeOK, tables, asked
    <3>3. CASE Cleanup(r)
      BY <3>3 DEF Cleanup, Answer, Goto, TypeOK, tables, asked
    <3> QED
      BY <1>5, <3>1, <3>2, <3>3
  <2>1. \A q \in Posts : PostInv(q)'
    <3>1. ASSUME NEW q \in Posts \ {r} PROVE PostInv(q)'
      BY <2>0, <1>0, PostInvStays
    <3>2. PostInv(r)'
      <4>0. PostInv(r) /\ pc[r] # "idle"
        BY <2>0, <1>0
      <4>1. PostInv(r) /\ key[r] \in Keys /\ key[r] # Nothing
        BY <4>0, Distinct DEF PostInv
      <4> QED
        BY <2>0, <4>1 DEF PostInv
    <3> QED
      BY <3>1, <3>2
  <2>2. \A q \in Counts : CountInv(q)'
    BY <2>0, <1>0, Distinct DEF CountInv
  <2>3. \A p \in purchases' : PurchaseInv(p)'
    BY <2>0, <1>0 DEF PurchaseInv, Past
  <2>4. \A c \in counts' : CountedInv(c)'
    BY <2>0, <1>0, Distinct DEF CountedInv
  <2> QED
    BY <2>0, <1>0, <2>1, <2>2, <2>3, <2>4 DEF BooksInv, OnePurchasePerKey
<1>6. ASSUME NEW r \in Counts, NEW i \in Items, NEW n \in CountedQty, StartCount(r, i, n)
      PROVE  BooksInv'
  <2>0. /\ UNCHANGED <<purchases, counts, key, began, before>>
        /\ pc[r] = "idle" /\ pc'[r] \in {"counting", "done"}
        /\ pc'[r] = "counting" => n >= 0
        /\ counted'[r] = [item |-> i, qty |-> n]
        /\ \A q \in Requests \ {r} : pc'[q] = pc[q] /\ reply'[q] = reply[q]
        /\ \A q \in Counts \ {r} : counted'[q] = counted[q]
    BY <1>6 DEF StartCount, Answer, Goto, TypeOK, tables
  <2>1. \A q \in Posts : PostInv(q)'
    BY <2>0, <1>0, PostInvStays, Distinct
  <2>2. \A q \in Counts : CountInv(q)'
    <3>1. n \in Int
      BY NumbersType
    <3> QED
      BY <2>0, <3>1, <1>0 DEF CountInv
  <2>3. \A p \in purchases' : PurchaseInv(p)'
    BY <2>0, <1>0, Distinct DEF PurchaseInv
  <2>4. \A c \in counts' : CountedInv(c)'
    BY <2>0, <1>0 DEF CountedInv
  <2> QED
    BY <2>0, <1>0, <2>1, <2>2, <2>3, <2>4 DEF BooksInv, OnePurchasePerKey
<1>7. ASSUME NEW r \in Counts, Measure(r) \/ StoreCount(r) \/ ShowCount(r) PROVE BooksInv'
  <2>0. /\ UNCHANGED <<purchases, counted, key, began, before>>
        /\ pc[r] \in {"counting", "begun", "noted"}
        /\ pc'[r] \in {"ready", "noted", "done"}
        /\ \A q \in Requests \ {r} : pc'[q] = pc[q] /\ reply'[q] = reply[q]
    <3>1. CASE Measure(r)
      BY <3>1 DEF Measure, Answer, Goto, TypeOK, tables, asked
    <3>2. CASE StoreCount(r)
      BY <3>2 DEF StoreCount, Answer, Goto, TypeOK, asked
    <3>3. CASE ShowCount(r)
      BY <3>3 DEF ShowCount, Answer, Goto, TypeOK, tables, asked
    <3> QED
      BY <1>7, <3>1, <3>2, <3>3
  <2>1. \A q \in Posts : PostInv(q)'
    BY <2>0, <1>0, PostInvStays, Distinct
  <2>2. \A q \in Counts : CountInv(q)'
    BY <2>0, <1>0 DEF CountInv
  <2>3. \A p \in purchases' : PurchaseInv(p)'
    BY <2>0, <1>0, Distinct DEF PurchaseInv
  <2>4. \A c \in counts' : CountedInv(c)'
    <3> DEFINE row == [item |-> counted[r].item, qty |-> counted[r].qty,
                       by |-> r, at |-> began[r]]
    <3>1. counts' = counts \/ (counts' = counts \cup {row} /\ pc'[r] \in {"noted", "done"})
      <4>1. CASE Measure(r)
        BY <4>1 DEF Measure, tables
      <4>2. CASE StoreCount(r)
        BY <4>2 DEF StoreCount, Answer, Goto, TypeOK
      <4>3. CASE ShowCount(r)
        BY <4>3 DEF ShowCount, tables
      <4> QED
        BY <1>7, <4>1, <4>2, <4>3
    <3>2. pc'[r] = "ready" => \A c \in counts : c.by # r
      <4>1. pc'[r] = "ready" => pc[r] = "counting"
        BY <1>7 DEF Measure, StoreCount, ShowCount, Goto, Answer, TypeOK
      <4> QED
        BY <4>1, <1>0 DEF CountedInv
    <3>3. \A c \in counts : CountedInv(c)'
      BY <2>0, <1>0, <3>2 DEF CountedInv
    <3>4. row.by = r /\ row.at = began[r]
      OBVIOUS
    <3> HIDE DEF row
    <3> QED
      BY <2>0, <3>1, <3>3, <3>4 DEF CountedInv
  <2> QED
    BY <2>0, <1>0, <2>1, <2>2, <2>3, <2>4 DEF BooksInv, OnePurchasePerKey
<1>8. CASE ReadSpent \/ ReadSummary \/ ReadList \/ UNCHANGED vars
  <2>0. UNCHANGED <<purchases, counts, pc, key, counted, began, before, reply>>
    BY <1>8 DEF ReadSpent, ReadSummary, ReadList, Look, tables, asked, vars
  <2> QED
    BY <2>0, <1>0 DEF BooksInv, PostInv, CountInv, PurchaseInv, CountedInv,
                      OnePurchasePerKey, Known
<1>9. CASE Crash
  <2>0. /\ UNCHANGED <<purchases, counts, key, counted, began, before, reply>>
        /\ \A r \in Requests : pc'[r] \in {pc[r], "dead"}
        /\ \A r \in Requests : pc[r] = "idle" => pc'[r] = "idle"
    BY <1>9 DEF Crash, tables, asked, Busy
  <2>1. \A q \in Posts : PostInv(q)'
    <3> TAKE q \in Posts
    <3>1. PostInv(q) /\ q \in Requests
      BY <1>0
    <3> QED
      BY <2>0, <3>1 DEF PostInv, Known
  <2>2. \A q \in Counts : CountInv(q)'
    BY <2>0, <1>0 DEF CountInv
  <2>3. \A p \in purchases' : PurchaseInv(p)'
    BY <2>0, <1>0 DEF PurchaseInv, Past
  <2>4. \A c \in counts' : CountedInv(c)'
    BY <2>0, <1>0 DEF CountedInv
  <2> QED
    BY <2>0, <1>0, <2>1, <2>2, <2>3, <2>4 DEF BooksInv, OnePurchasePerKey
<1> QED
  BY <1>1, <1>2, <1>3, <1>4, <1>5, <1>6, <1>7, <1>8, <1>9
  DEF Next, HandlePost, HandleCount

-----------------------------------------------------------------------------
(* Who was answered before whom.                                           *)

\* A request that does not move keeps its place in the order, as long as
\* those who were answered stay answered and no row is added under their keys.
LEMMA OrderStays ==
  ASSUME NEW r \in Requests, OrderInv(r), pc'[r] = pc[r], reply'[r] = reply[r],
         began'[r] = began[r], knew'[r] = knew[r],
         \A q \in Answered : q \in Answered' /\ began'[q] = began[q]
                               /\ (q \in Posts => key'[q] = key[q]),
         \A q \in Answered \cap Posts : \A p \in purchases' \ purchases : p.key # key[q]
  PROVE  OrderInv(r)'
<1>1. \A q \in knew[r] : q \in Answered
  BY DEF OrderInv
<1>2. \A q \in knew'[r] : q \in Answered' /\ (began'[r] # 0 => began'[q] < began'[r])
  BY <1>1 DEF OrderInv
<1>3. ASSUME NEW q \in knew'[r], q \in Posts, began'[r] # 0, NEW p \in purchases', p.key = key'[q]
      PROVE  p.at < began'[r]
  BY <1>1, <1>3 DEF OrderInv
<1> QED
  BY <1>2, <1>3 DEF OrderInv

LEMMA ClockKeeps ==
  ASSUME TypeOK, BooksInv, ClockInv, [Next]_vars PROVE ClockInv'
<1> USE DEF Requests
<1>0. /\ \A r \in Requests : OrderInv(r)
      /\ \A r \in Requests : reply[r] # "" => pc[r] = "done"
      /\ \A r \in Requests : pc[r] = "idle" => began[r] = 0 /\ reply[r] = ""
      /\ \A r \in Answered : r \in Requests /\ pc[r] = "done"
  BY DEF ClockInv, OrderInv, Answered
<1>1. ASSUME NEW r \in Requests, pc[r] = "idle", pc'[r] # "idle", pc'[r] # "begun",
             pc'[r] = "done" \/ reply'[r] = "",
             purchases' = purchases, began' = began, knew'[r] = Answered,
             reply'[r] \notin {"created", "existing", "counted"},
             \A q \in Requests \ {r} : pc'[q] = pc[q] /\ reply'[q] = reply[q] /\ knew'[q] = knew[q],
             \A q \in Posts \ {r} : key'[q] = key[q]
      PROVE  ClockInv'
  <2>1. Answered' = Answered
    BY <1>1, <1>0 DEF Answered
  <2>2. ASSUME NEW q \in Requests, q # r PROVE OrderInv(q)'
    BY <1>1, <1>0, <2>1, <2>2, OrderStays
  <2>3. OrderInv(r)'
    BY <1>1, <1>0, <2>1 DEF OrderInv
  <2> QED
    BY <2>2, <2>3 DEF ClockInv
<1>2. ASSUME NEW r \in Posts, NEW k \in Keys, Post(r, k) PROVE ClockInv'
  BY <1>2, <1>0, <1>1 DEF Post, Send, Goto, Answer, TypeOK, tables
<1>3. ASSUME NEW r \in Counts, NEW i \in Items, NEW n \in CountedQty, StartCount(r, i, n)
      PROVE  ClockInv'
  BY <1>3, <1>0, <1>1 DEF StartCount, Send, Goto, Answer, TypeOK, tables
<1>4. ASSUME NEW r \in Requests, Begin(r) PROVE ClockInv'
  <2>0. /\ pc[r] = "ready" /\ UNCHANGED <<purchases, reply, key, knew>>
        /\ pc'[r] = "begun" /\ began'[r] = clock + 1 /\ reply[r] = ""
        /\ \A q \in Requests \ {r} : pc'[q] = pc[q] /\ began'[q] = began[q]
    BY <1>4, <1>0 DEF Begin, Goto, TypeOK, tables, asked
  <2>1. Answered' = Answered /\ r \notin Answered
    BY <2>0, <1>0 DEF Answered
  <2>2. ASSUME NEW q \in Requests, q # r PROVE OrderInv(q)'
    BY <2>0, <1>0, <2>1, <2>2, OrderStays
  <2>3. OrderInv(r)'
    <3>1. clock \in Nat /\ (\A q \in Requests : began[q] \in 0..clock)
          /\ \A p \in purchases : p.at \in 1..clock
      BY DEF TypeOK
    <3>2. clock + 1 # 0 /\ (\A q \in Requests : began[q] < clock + 1)
          /\ \A p \in purchases : p.at < clock + 1
      BY <3>1
    <3>3. \A q \in knew[r] : q \in Answered /\ q # r
      BY <1>0, <2>1 DEF OrderInv
    <3>4. \A q \in knew'[r] : /\ q \in Answered' /\ began'[q] < began'[r]
                              /\ \A p \in purchases' : p.at < began'[r]
      BY <2>0, <2>1, <3>2, <3>3, <1>0
    <3> QED
      BY <2>0, <3>2, <3>4 DEF OrderInv
  <2> QED
    BY <2>2, <2>3 DEF ClockInv
<1>5. ASSUME NEW r \in Requests, pc[r] \notin {"idle", "done"}, pc'[r] \notin {"idle", "begun"},
             pc'[r] = "done" \/ reply'[r] = "",
             UNCHANGED <<began, knew, key>>,
             purchases' = purchases \/ (r \in Posts /\ ~Known(key[r]) /\ reply'[r] = reply[r] /\
               \A p \in purchases' \ purchases : p.key = key[r]),
             \A q \in Requests \ {r} : pc'[q] = pc[q] /\ reply'[q] = reply[q]
      PROVE  ClockInv'
  <2>1. \A q \in Answered : q \in Answered' /\ q # r
    BY <1>5, <1>0 DEF Answered
  <2>2. ASSUME NEW q \in Answered \cap Posts, NEW p \in purchases' \ purchases
        PROVE  p.key # key[q]
    <3>1. Known(key[q])
      BY DEF Answered, BooksInv, PostInv, Known
    <3> QED
      BY <1>5, <2>2, <3>1
  <2>3. ASSUME NEW q \in Requests, q # r PROVE OrderInv(q)'
    BY <1>5, <1>0, <2>1, <2>2, <2>3, OrderStays
  <2>4. OrderInv(r)'
    <3>1. \A q \in knew[r] : q \in Answered
      BY <1>0 DEF OrderInv
    <3>2. ASSUME NEW q \in knew[r], q \in Posts, NEW p \in purchases', p.key = key[q]
          PROVE  p \in purchases
      BY <3>1, <3>2, <2>2
    <3>3. \A q \in knew[r] : /\ q \in Answered'
                             /\ began[r] # 0 => began[q] < began[r]
                             /\ q \in Posts /\ began[r] # 0 =>
                                  \A p \in purchases' : p.key = key[q] => p.at < began[r]
      BY <1>0, <2>1, <3>1, <3>2 DEF OrderInv
    <3> QED
      BY <1>5, <3>3 DEF OrderInv
  <2> QED
    BY <2>3, <2>4 DEF ClockInv
<1>6. ASSUME NEW r \in Posts,
             Prepare(r) \/ FindExisting(r) \/ Accept(r) \/ Cleanup(r)
      PROVE  ClockInv'
  BY ZenonT(40), <1>6, <1>0, <1>5
  DEF Prepare, FindExisting, Accept, Cleanup, Goto, Answer, TypeOK, tables, asked
<1>7. ASSUME NEW r \in Posts, Insert(r) PROVE ClockInv'
  <2>1. purchases' = purchases \/ (~Known(key[r]) /\ \A p \in purchases' \ purchases : p.key = key[r])
    BY <1>7 DEF Insert
  <2> QED
    BY ZenonT(40), <1>7, <2>1, <1>0, <1>5 DEF Insert, Goto, TypeOK, asked
<1>8. ASSUME NEW r \in Counts, Measure(r) \/ StoreCount(r) \/ ShowCount(r) PROVE ClockInv'
  <2>1. CASE Measure(r)
    BY ZenonT(40), <2>1, <1>0, <1>5 DEF Measure, Goto, Answer, TypeOK, tables, asked
  <2>2. CASE StoreCount(r)
    BY ZenonT(40), <2>2, <1>0, <1>5 DEF StoreCount, Goto, Answer, TypeOK, asked
  <2>3. CASE ShowCount(r)
    BY ZenonT(40), <2>3, <1>0, <1>5 DEF ShowCount, Goto, Answer, TypeOK, tables, asked
  <2> QED
    BY <1>8, <2>1, <2>2, <2>3
<1>9. CASE ReadSpent \/ ReadSummary \/ ReadList \/ UNCHANGED vars
  <2>0. UNCHANGED <<purchases, pc, key, knew, began, reply>>
    BY <1>9 DEF ReadSpent, ReadSummary, ReadList, Look, tables, asked, vars
  <2> QED
    BY <2>0, <1>0 DEF ClockInv, OrderInv, Answered
<1>10. CASE Crash
  <2>0. /\ UNCHANGED <<purchases, key, knew, began, reply>>
        /\ \A r \in Requests : pc[r] \in {"idle", "done"} => pc'[r] = pc[r]
        /\ \A r \in Requests : pc'[r] \in {pc[r], "dead"} /\ (pc'[r] = "dead" => pc[r] # "idle")
    BY <1>10 DEF Crash, tables, asked, Busy
  <2> QED
    BY <2>0, <1>0 DEF ClockInv, OrderInv, Answered
<1> QED
  BY <1>2, <1>3, <1>4, <1>6, <1>7, <1>8, <1>9, <1>10 DEF Next, HandlePost, HandleCount

-----------------------------------------------------------------------------
(* There is a newest purchase of an item, and a last count.                *)

\* What a step adds to the tables: nothing, or one row with the stamp that
\* its request was given.
LEMMA TablesGrow ==
  ASSUME TypeOK, BooksInv, ClockInv, [Next]_vars
  PROVE  /\ \/ purchases' = purchases
            \/ \E k \in Keys, r \in Posts, t \in Nat :
                 purchases' = purchases \cup {[key |-> k, by |-> r, at |-> t]}
         /\ \/ counts' = counts
            \/ \E i \in Items, n \in Nat, r \in Counts, t \in Nat :
                 counts' = counts \cup {[item |-> i, qty |-> n, by |-> r, at |-> t]}
<1> USE DEF Requests
<1>1. CASE UNCHANGED <<purchases, counts>>
  BY <1>1
<1>2. ASSUME NEW r \in Posts, Insert(r)
      PROVE  /\ counts' = counts
             /\ \/ purchases' = purchases
                \/ \E k \in Keys, q \in Posts, t \in Nat :
                     purchases' = purchases \cup {[key |-> k, by |-> q, at |-> t]}
  <2>1. key[r] \in Keys /\ began[r] \in Nat
    BY <1>2, Rows DEF Insert, BooksInv, PostInv
  <2>2. counts' = counts /\ (purchases' = purchases \/
           purchases' = purchases \cup {[key |-> key[r], by |-> r, at |-> began[r]]})
    BY <1>2, Zenon DEF Insert
  <2> QED
    BY <2>1, <2>2, Zenon
<1>3. ASSUME NEW r \in Counts, StoreCount(r)
      PROVE  /\ purchases' = purchases
             /\ \/ counts' = counts
                \/ \E i \in Items, n \in Nat, q \in Counts, t \in Nat :
                     counts' = counts \cup {[item |-> i, qty |-> n, by |-> q, at |-> t]}
  <2>1. counted[r].item \in Items /\ counted[r].qty \in Nat /\ began[r] \in Nat
    <3>1. counted[r] \in [item : Items, qty : Nat]
      BY <1>3 DEF StoreCount, BooksInv, CountInv
    <3> QED
      BY <3>1, Rows
  <2>2. purchases' = purchases /\ (counts' = counts \/
           counts' = counts \cup {[item |-> counted[r].item, qty |-> counted[r].qty,
                                  by |-> r, at |-> began[r]]})
    BY <1>3, Zenon DEF StoreCount
  <2> QED
    BY <2>1, <2>2, Zenon
<1> QED
  BY <1>1, <1>2, <1>3
  DEF Next, HandlePost, HandleCount, Post, Prepare, Begin, FindExisting, Cleanup, Accept,
      StartCount, Measure, ShowCount, ReadSpent, ReadSummary, ReadList, Look, Crash,
      tables, vars

LEMMA NewestKeeps ==
  ASSUME TypeOK, BooksInv, ClockInv, HasNewest, [Next]_vars PROVE HasNewest'
<1>1. CASE purchases' = purchases
  BY <1>1 DEF HasNewest, OfItem
<1>2. ASSUME NEW k \in Keys, NEW r \in Posts, NEW t \in Nat,
             purchases' = purchases \cup {[key |-> k, by |-> r, at |-> t]}
      PROVE  HasNewest'
  <2> DEFINE row == [key |-> k, by |-> r, at |-> t]
             day(p) == Form[p.key].day
             Newer(p, q) == day(q) < day(p) \/ (day(q) = day(p) /\ q.at <= p.at)
  <2> SUFFICES ASSUME NEW i \in Items, OfItem(i)' # {}
               PROVE  \E p \in OfItem(i)' : \A q \in OfItem(i)' : Newer(p, q)
    BY DEF HasNewest
  <2>1. row.key = k /\ row.at = t /\ day(row) \in Int /\ t \in Int
    BY FormType
  <2>2. \A p \in purchases : day(p) \in Int /\ p.at \in Int
    BY FormType, Rows
  <2>3. OfItem(i)' = OfItem(i) \cup (IF Form[k].item = i THEN {row} ELSE {})
    BY <1>2, <2>1 DEF OfItem
  <2>4. OfItem(i) \subseteq purchases
    BY DEF OfItem
  <2>5. OfItem(i) # {} => \E p \in OfItem(i) : \A q \in OfItem(i) : Newer(p, q)
    BY DEF HasNewest
  <2>6. \A p, q, u : day(p) \in Int /\ day(q) \in Int /\ day(u) \in Int
                     /\ p.at \in Int /\ q.at \in Int /\ u.at \in Int =>
          /\ Newer(p, p) /\ (Newer(p, q) \/ Newer(q, p))
          /\ Newer(p, q) /\ Newer(q, u) => Newer(p, u)
    OBVIOUS
  <2> HIDE DEF row, day, Newer
  <2>7. CASE Form[k].item # i
    BY <2>3, <2>5, <2>7
  <2>8. CASE Form[k].item = i /\ OfItem(i) = {}
    BY <2>1, <2>3, <2>6, <2>8
  <2>9. CASE Form[k].item = i /\ OfItem(i) # {}
    <3>1. PICK p \in OfItem(i) : \A q \in OfItem(i) : Newer(p, q)
      BY <2>5, <2>9
    <3>2. OfItem(i)' = OfItem(i) \cup {row}
      BY <2>3, <2>9
    <3>3. CASE Newer(p, row)
      BY <3>1, <3>2, <3>3
    <3>4. CASE Newer(row, p)
      BY <2>1, <2>2, <2>4, <2>6, <3>1, <3>2, <3>4
    <3> QED
      BY <2>1, <2>2, <2>4, <2>6, <3>3, <3>4
  <2> QED
    BY <2>7, <2>8, <2>9
<1> QED
  BY <1>1, <1>2, TablesGrow

LEMMA LastKeeps ==
  ASSUME TypeOK, BooksInv, ClockInv, HasLast, [Next]_vars PROVE HasLast'
<1>1. CASE counts' = counts
  BY <1>1 DEF HasLast, CountsOf
<1>2. ASSUME NEW j \in Items, NEW n \in Nat, NEW r \in Counts, NEW t \in Nat,
             counts' = counts \cup {[item |-> j, qty |-> n, by |-> r, at |-> t]}
      PROVE  HasLast'
  <2> DEFINE row == [item |-> j, qty |-> n, by |-> r, at |-> t]
  <2> SUFFICES ASSUME NEW i \in Items, CountsOf(i)' # {}
               PROVE  \E c \in CountsOf(i)' : \A d \in CountsOf(i)' : d.at <= c.at
    BY DEF HasLast
  <2>1. row.at = t /\ t \in Int
    OBVIOUS
  <2>2. \A c \in CountsOf(i) : c.at \in Int
    BY Rows DEF CountsOf
  <2>3. CountsOf(i)' = CountsOf(i) \cup (IF j = i THEN {row} ELSE {})
    BY <1>2 DEF CountsOf
  <2>4. CountsOf(i) # {} => \E c \in CountsOf(i) : \A d \in CountsOf(i) : d.at <= c.at
    BY DEF HasLast
  <2> HIDE DEF row
  <2>5. CASE j # i
    BY <2>3, <2>4, <2>5
  <2>6. CASE j = i /\ CountsOf(i) = {}
    BY <2>1, <2>3, <2>6
  <2>7. CASE j = i /\ CountsOf(i) # {}
    <3>1. PICK c \in CountsOf(i) : \A d \in CountsOf(i) : d.at <= c.at
      BY <2>4, <2>7
    <3>2. CountsOf(i)' = CountsOf(i) \cup {row}
      BY <2>3, <2>7
    <3>3. CASE row.at <= c.at
      BY <3>1, <3>2, <3>3
    <3>4. CASE c.at <= row.at
      BY <2>1, <2>2, <3>1, <3>2, <3>4
    <3> QED
      BY <2>1, <2>2, <3>3, <3>4
  <2> QED
    BY <2>5, <2>6, <2>7
<1> QED
  BY <1>1, <1>2, TablesGrow

-----------------------------------------------------------------------------
(* The receipts.                                                           *)

\* The receipts of all requests but one are where they were.
LEMMA ReceiptsStay ==
  ASSUME TypeOK, DiskInv, NEW r \in Requests, purchases \subseteq purchases',
         \A q \in Requests \ {r} : pc'[q] = pc[q] /\ reply'[q] = reply[q],
         \A q \in Posts \ {r} : /\ key'[q] = key[q]
                                /\ (q \in disk' <=> q \in disk)
                                /\ q \in strays => q \in strays',
         disk' \subseteq Posts,
         r \in Posts => ReceiptInv(r)' /\
           (r \in disk' => \/ pc'[r] \in Busy \/ r \in strays'
                           \/ \E p \in purchases' : p.by = r)
  PROVE  DiskInv'
<1> USE DEF Requests
<1>1. ASSUME NEW q \in Posts PROVE ReceiptInv(q)'
  <2>1. CASE q = r
    BY <2>1, Zenon
  <2>2. CASE q # r
    <3>1. q \in Requests \ {r} /\ q \in Posts \ {r} /\ ReceiptInv(q)
      BY <2>2 DEF DiskInv
    <3>2. /\ pc'[q] = pc[q] /\ reply'[q] = reply[q] /\ key'[q] = key[q]
          /\ (q \in disk' <=> q \in disk)
      BY <3>1, Zenon
    <3> QED
      BY <3>1, <3>2, Zenon DEF ReceiptInv
  <2> QED
    BY <2>1, <2>2
<1>2. ASSUME NEW q \in disk'
      PROVE  \/ pc'[q] \in Busy \/ q \in strays' \/ \E p \in purchases' : p.by = q
  <2>1. CASE q = r
    BY <1>2, <2>1
  <2>2. CASE q # r
    <3>1. q \in Requests \ {r} /\ q \in Posts \ {r} /\ q \in disk
      BY <1>2, <2>2
    <3>2. pc'[q] = pc[q] /\ (q \in strays => q \in strays')
      BY <3>1, Zenon
    <3>3. pc[q] \in Busy \/ q \in strays \/ \E p \in purchases : p.by = q
      BY <3>1 DEF DiskInv, ReceiptsAccounted
    <3> QED
      BY <3>2, <3>3
  <2> QED
    BY <2>1, <2>2
<1> QED
  BY <1>1, <1>2 DEF DiskInv, ReceiptsAccounted

LEMMA DiskKeeps ==
  ASSUME TypeOK, BooksInv, ClockInv, HasNewest, DiskInv, [Next]_vars PROVE DiskInv'
<1> USE DEF Requests
<1>0. /\ \A r \in Posts : PostInv(r) /\ ReceiptInv(r)
      /\ \A r \in Requests : reply[r] # "" => pc[r] = "done"
      /\ \A r \in disk : pc[r] \in Busy \/ r \in strays \/ \E p \in purchases : p.by = r
      /\ disk' \subseteq Posts /\ disk \subseteq Posts
  BY TypeKeeps DEF BooksInv, ClockInv, OrderInv, DiskInv, ReceiptsAccounted, TypeOK
<1>1. ASSUME NEW r \in Posts, NEW k \in Keys, Post(r, k) PROVE DiskInv'
  <2>0. /\ UNCHANGED <<purchases, disk, strays>> /\ pc[r] = "idle"
        /\ pc'[r] \in {"posted", "done"} /\ reply'[r] \in {"", "refused"}
        /\ \A q \in Requests \ {r} : pc'[q] = pc[q] /\ reply'[q] = reply[q]
        /\ \A q \in Posts \ {r} : key'[q] = key[q]
    BY <1>1, <1>0 DEF Post, Goto, Answer, TypeOK, tables, files
  <2>1. ReceiptInv(r)' /\ (r \in disk => pc[r] \notin Busy)
    BY <2>0 DEF ReceiptInv, Busy
  <2> QED
    BY <2>0, <2>1, <1>0, ReceiptsStay
<1>2. ASSUME NEW r \in Posts, Prepare(r) PROVE DiskInv'
  <2>0. /\ UNCHANGED <<purchases, strays, key, reply>> /\ pc[r] = "posted" /\ reply[r] = ""
        /\ pc'[r] \in {"ready", "failed"}
        /\ disk' = disk \/ disk' = disk \cup {r}
        /\ pc'[r] = "ready" /\ Form[key[r]].receipt => r \in disk'
        /\ \A q \in Requests \ {r} : pc'[q] = pc[q]
    BY ZenonT(40), <1>2, <1>0 DEF Prepare, Goto, TypeOK, tables, asked
  <2>1. ReceiptInv(r)' /\ pc'[r] \in Busy
    BY <2>0 DEF ReceiptInv, Busy
  <2> QED
    BY <2>0, <2>1, <1>0, ReceiptsStay
<1>3. ASSUME NEW r \in Requests, Begin(r) \/ (r \in Posts /\ (Insert(r) \/ FindExisting(r) \/ Accept(r)))
      PROVE  DiskInv'
  <2>0. /\ purchases \subseteq purchases' /\ UNCHANGED <<disk, strays, key>>
        /\ pc'[r] \in {"begun", "stored"} \/ reply'[r] = "created" =>
             pc[r] \in {"ready", "begun", "stored"}
        /\ pc'[r] \in Busy \/ (pc[r] = "stored" /\ r \in Posts)
        /\ pc'[r] # "ready"
        /\ \A q \in Requests \ {r} : pc'[q] = pc[q] /\ reply'[q] = reply[q]
    <3>1. CASE Begin(r)
      BY <3>1, <1>0 DEF Begin, Goto, TypeOK, tables, files, asked, Busy
    <3>2. CASE r \in Posts /\ Insert(r)
      BY <3>2, <1>0 DEF Insert, Goto, TypeOK, files, asked, Busy
    <3>3. CASE r \in Posts /\ FindExisting(r)
      BY <3>3, <1>0 DEF FindExisting, Goto, TypeOK, tables, files, asked, Busy
    <3>4. CASE r \in Posts /\ Accept(r)
      BY <3>4, <1>0 DEF Accept, Goto, Answer, TypeOK, tables, files, asked
    <3> QED
      BY <1>3, <3>1, <3>2, <3>3, <3>4
  <2>1. r \in Posts => ReceiptInv(r)'
    BY <2>0, <1>0 DEF ReceiptInv
  <2>2. pc[r] = "stored" /\ r \in Posts => \E p \in purchases' : p.by = r
    BY <2>0, <1>0 DEF PostInv
  <2> QED
    BY <2>0, <2>1, <2>2, <1>0, ReceiptsStay
<1>4. ASSUME NEW r \in Posts, Cleanup(r) PROVE DiskInv'
  <2>0. /\ UNCHANGED <<purchases, key>> /\ pc'[r] = "done" /\ reply'[r] \in {"error", "existing"}
        /\ \A q \in Requests \ {r} : pc'[q] = pc[q] /\ reply'[q] = reply[q]
        /\ r \in disk' => r \in strays'
        /\ \A q \in Posts \ {r} : (q \in disk' <=> q \in disk) /\ (q \in strays => q \in strays')
    BY <1>4 DEF Cleanup, Goto, Answer, TypeOK, tables, asked
  <2>1. ReceiptInv(r)'
    BY <2>0 DEF ReceiptInv
  <2> QED
    BY <2>0, <2>1, <1>0, ReceiptsStay
<1>5. ASSUME NEW r \in Counts, NEW i \in Items, NEW n \in CountedQty, StartCount(r, i, n)
      PROVE  DiskInv'
  <2>0. /\ UNCHANGED <<purchases, disk, strays, key>>
        /\ \A q \in Requests \ {r} : pc'[q] = pc[q] /\ reply'[q] = reply[q]
    BY <1>5 DEF StartCount, Goto, Answer, TypeOK, tables, files
  <2> QED
    BY <2>0, <1>0, Distinct, ReceiptsStay
<1>6. ASSUME NEW r \in Counts, Measure(r) \/ StoreCount(r) \/ ShowCount(r) PROVE DiskInv'
  <2>0. /\ UNCHANGED <<purchases, disk, strays, key>>
        /\ \A q \in Requests \ {r} : pc'[q] = pc[q] /\ reply'[q] = reply[q]
    <3>1. CASE Measure(r)
      BY <3>1 DEF Measure, Goto, Answer, TypeOK, tables, files, asked
    <3>2. CASE StoreCount(r)
      BY <3>2 DEF StoreCount, Goto, Answer, TypeOK, files, asked
    <3>3. CASE ShowCount(r)
      BY <3>3 DEF ShowCount, Goto, Answer, TypeOK, tables, files, asked
    <3> QED
      BY <1>6, <3>1, <3>2, <3>3
  <2> QED
    BY <2>0, <1>0, Distinct, ReceiptsStay
<1>7. CASE ReadSpent \/ ReadSummary \/ ReadList \/ UNCHANGED vars
  <2>0. UNCHANGED <<purchases, pc, key, disk, strays, reply>>
    BY <1>7 DEF ReadSpent, ReadSummary, ReadList, Look, tables, files, asked, vars
  <2> QED
    BY <2>0, <1>0 DEF DiskInv, ReceiptInv, ReceiptsAccounted
<1>8. CASE Crash
  <2>0. /\ UNCHANGED <<purchases, disk, key, reply>>
        /\ \A r \in Requests : pc'[r] \in {pc[r], "dead"}
        /\ \A r \in disk : pc[r] \in Busy => r \in strays'
        /\ strays \subseteq strays'
    BY <1>8 DEF Crash, tables, asked, TypeOK
  <2>1. ASSUME NEW r \in Posts PROVE ReceiptInv(r)'
    BY <2>0, <1>0 DEF ReceiptInv
  <2>2. ReceiptsAccounted'
    BY <2>0, <1>0 DEF ReceiptsAccounted
  <2> QED
    BY <2>1, <2>2 DEF DiskInv
<1> QED
  BY <1>1, <1>2, <1>3, <1>4, <1>5, <1>6, <1>7, <1>8 DEF Next, HandlePost, HandleCount

-----------------------------------------------------------------------------
(* Sums.                                                                   *)

\* What x stands for n times is finite.
LEMMA UnitsFinite ==
  ASSUME NEW x, NEW n \in Int PROVE IsFiniteSet(Units(x, n))
<1>1. IsFiniteSet(1..n)
  BY FS_Interval
<1>2. IsFiniteSet({x})
  BY FS_Singleton, Zenon
<1> QED
  BY <1>1, <1>2, FS_Product DEF Units

\* So are sums over finite sets.
LEMMA SumFinite ==
  ASSUME NEW S, IsFiniteSet(S), NEW part \in [S -> Int]
  PROVE  IsFiniteSet(UNION {Units(x, part[x]) : x \in S})
<1> DEFINE f == [x \in S |-> Units(x, part[x])]
           T == {Units(x, part[x]) : x \in S}
<1>1. f \in Surjection(S, T)
  BY DEF Surjection
<1>2. IsFiniteSet(T)
  BY <1>1, FS_Surjection
<1>3. \A t \in T : IsFiniteSet(t)
  BY UnitsFinite
<1> HIDE DEF T
<1>4. IsFiniteSet(UNION T)
  BY <1>2, <1>3, FS_UNION
<1> QED
  BY <1>4 DEF T

\* Forms that were not refused have a quantity and cost nothing less than 0.
LEMMA CostType ==
  ASSUME NEW k \in Keys, Acceptable(Form[k])
  PROVE  TotalCost(k) \in Nat /\ Form[k].qty \in Nat /\ Form[k].qty >= 1
<1>1. /\ MaxInt \in Nat /\ Form[k].qty \in 1..MaxInt /\ Form[k].price \in 0..MaxInt
      /\ Form[k].shipping \in 0..MaxInt
  BY NumbersType DEF Acceptable
<1>2. Form[k].qty \in Nat /\ Form[k].price \in Nat /\ Form[k].shipping \in Nat /\ Form[k].qty >= 1
  BY <1>1
<1>3. ASSUME NEW a \in Nat, NEW b \in Nat PROVE a * b \in Nat
  OBVIOUS
<1>4. Form[k].price * Form[k].qty \in Nat
  BY <1>2, <1>3
<1> QED
  BY <1>2, <1>4 DEF TotalCost

\* What a number of pieces has cost, shared out among them, is what it has
\* cost, however the quotient is rounded.
LEMMA ShareOfAll ==
  ASSUME NEW s \in Nat, NEW b \in Nat, b >= 1
  PROVE  (s * b + (b \div 2)) \div b = s
<1> DEFINE half == b \div 2
<1>1. half \in Int /\ 0 <= half /\ half < b
  OBVIOUS
<1> HIDE DEF half
<1> DEFINE x == s * b + half
           q == x \div b
<1>2. x \in Int /\ s * b \in Int
  BY <1>1
<1>3. q \in Int /\ b * q <= x /\ x < b * q + b
  <2>1. x \div b \in Int /\ x % b \in 0..(b - 1) /\ x = b * (x \div b) + (x % b)
    <3> HIDE DEF x
    <3> QED
      BY <1>2
  <2> HIDE DEF x
  <2> QED
    BY <1>2, <2>1
<1>4. x = b * s + half
  <2>1. s * b = b * s
    OBVIOUS
  <2> QED
    BY <2>1
<1> HIDE DEF q, x
<1>5. ~ q >= s + 1
  <2> SUFFICES ASSUME q >= s + 1 PROVE FALSE
    OBVIOUS
  <2>1. b * (q - (s + 1)) >= 0 /\ b * (q - (s + 1)) = b * q - b * s - b
    BY <1>3
  <2> QED
    BY <1>1, <1>3, <1>4, <2>1
<1>6. ~ q <= s - 1
  <2> SUFFICES ASSUME q <= s - 1 PROVE FALSE
    OBVIOUS
  <2>1. b * ((s - 1) - q) >= 0 /\ b * ((s - 1) - q) = b * s - b - b * q
    BY <1>3
  <2> QED
    BY <1>1, <1>3, <1>4, <2>1
<1>7. q = s
  BY <1>3, <1>5, <1>6
<1> QED
  BY <1>7 DEF q, x, half

-----------------------------------------------------------------------------
(* The inventory screen.                                                   *)

\* The books are finite, and hold what was not refused.
BoughtInv ==
  /\ IsFiniteSet(purchases)
  /\ \A r \in Posts : pc[r] \in Busy => Acceptable(Form[key[r]])
  /\ \A p \in purchases : Acceptable(Form[p.key])

\* What was spent is in the books when the list is summed up.
ScreenInv ==
  /\ screen \in [at : {"closed", "failed", "spent", "summed", "shown"},
                 spent : Nat, items : Nat, value : Nat, list : SUBSET Items]
  /\ screen.at = "spent" => screen.spent <= Cardinality(Won(purchases))
  /\ screen.at \in {"summed", "shown"} /\ counts = {} => screen.spent <= screen.value

LEMMA WonFinite ==
  ASSUME TypeOK, BoughtInv, NEW rows \in SUBSET purchases
  PROVE  /\ IsFiniteSet(Won(rows)) /\ Cardinality(Won(rows)) \in Nat
         /\ IsFiniteSet(Pieces(rows)) /\ Cardinality(Pieces(rows)) \in Nat
<1>1. IsFiniteSet(rows)
  BY FS_Subset DEF BoughtInv
<1>2. \A p \in rows : TotalCost(p.key) \in Int /\ Form[p.key].qty \in Int
  BY Rows, CostType DEF BoughtInv
<1> DEFINE cost == [p \in rows |-> TotalCost(p.key)]
           qty  == [p \in rows |-> Form[p.key].qty]
<1>3. cost \in [rows -> Int] /\ qty \in [rows -> Int]
  BY <1>2
<1>4. Won(rows) = UNION {Units(p, cost[p]) : p \in rows} /\ Pieces(rows) = UNION {Units(p, qty[p]) : p \in rows}
  BY DEF Won, Pieces
<1> HIDE DEF cost, qty
<1>5. IsFiniteSet(Won(rows)) /\ IsFiniteSet(Pieces(rows))
  BY <1>1, <1>3, <1>4, SumFinite
<1> QED
  BY <1>5, FS_CardinalityType

LEMMA AllFinite == TypeOK /\ BoughtInv => IsFiniteSet(Won(purchases))
BY WonFinite

\* An item is listed because something of it was bought.
LEMMA BoughtSome ==
  ASSUME TypeOK, BoughtInv, NEW i \in Listed PROVE Bought(i) >= 1
<1>1. OfItem(i) \in SUBSET purchases
  BY DEF OfItem
<1>2. Bought(i) \in Nat /\ IsFiniteSet(Pieces(OfItem(i)))
  BY <1>1, WonFinite DEF Bought
<1>3. Pieces(OfItem(i)) # {}
  <2>1. PICK p \in OfItem(i) : TRUE
    BY DEF Listed
  <2>2. 1 \in 1..Form[p.key].qty
    BY Rows, CostType DEF OfItem, BoughtInv
  <2>3. <<p, 1>> \in Pieces(OfItem(i))
    BY <2>2 DEF Pieces, Units
  <2> QED
    BY <2>3
<1> QED
  BY <1>2, <1>3, FS_EmptySet DEF Bought

\* Of an item nobody has counted all is there, and worth what it has cost.
LEMMA WorthItsCost ==
  ASSUME TypeOK, BoughtInv, counts = {}, NEW i \in Listed
  PROVE  Value(i) = Spent(i) /\ Spent(i) \in Nat
<1>1. OfItem(i) \in SUBSET purchases
  BY DEF OfItem
<1>2. Spent(i) \in Nat /\ Bought(i) \in Nat
  BY <1>1, WonFinite DEF Spent, Bought
<1>4. Bought(i) >= 1
  BY BoughtSome
<1>5. OnHand(i) = Bought(i)
  BY DEF OnHand, CountsOf
<1>6. Value(i) = (Spent(i) * Bought(i) + (Bought(i) \div 2)) \div Bought(i)
  BY <1>2, <1>4, <1>5 DEF Value
<1> QED
  BY <1>2, <1>4, <1>6, ShareOfAll

\* The last count is one of the counts.
LEMMA LastIsOne ==
  ASSUME TypeOK, HasLast, NEW i \in Items, CountsOf(i) # {}
  PROVE  LastCount(i) \in CountsOf(i) /\ LastCount(i).qty \in Nat
<1>1. \E c \in CountsOf(i) : \A d \in CountsOf(i) : d.at <= c.at
  BY Zenon DEF HasLast
<1>2. LastCount(i) \in CountsOf(i)
  BY <1>1, Zenon DEF LastCount
<1> QED
  BY <1>2, Rows DEF CountsOf

LEMMA ListedFinite ==
  ASSUME TypeOK, BoughtInv PROVE IsFiniteSet(Listed) /\ Cardinality(Listed) \in Nat
<1> DEFINE item == [p \in purchases |-> Form[p.key].item]
<1>1. Listed = {Form[p.key].item : p \in purchases}
  BY Rows, FormType DEF Listed, OfItem
<1>2. item \in Surjection(purchases, Listed)
  BY <1>1 DEF Surjection
<1>3. IsFiniteSet(Listed)
  BY <1>2, FS_Surjection DEF BoughtInv
<1> QED
  BY <1>3, FS_CardinalityType

\* An item's value is a number, whatever has been counted.
LEMMA ValueType ==
  ASSUME TypeOK, BoughtInv, HasLast, NEW i \in Listed PROVE Value(i) \in Int
<1>1. OfItem(i) \in SUBSET purchases /\ i \in Items
  BY DEF OfItem, Listed
<1>2. Spent(i) \in Nat /\ Bought(i) \in Nat
  BY <1>1, WonFinite DEF Spent, Bought
<1>3. OnHand(i) \in Int
  <2>1. CASE CountsOf(i) = {}
    BY <1>2, <2>1 DEF OnHand
  <2>2. CASE CountsOf(i) # {}
    <3>1. LastCount(i).qty \in Nat
      BY <1>1, <2>2, LastIsOne
    <3>2. Since(i) \in SUBSET purchases
      BY <1>1 DEF Since
    <3>3. Cardinality(Pieces(Since(i))) \in Nat
      BY <3>2, WonFinite
    <3> QED
      BY <2>2, <3>1, <3>3 DEF OnHand
  <2> QED
    BY <2>1, <2>2
<1>4. Bought(i) >= 1
  BY BoughtSome
<1>5. Spent(i) * OnHand(i) + (Bought(i) \div 2) \in Int
  BY <1>2, <1>3
<1>6. (Spent(i) * OnHand(i) + (Bought(i) \div 2)) \div Bought(i) \in Int
  <2> DEFINE x == Spent(i) * OnHand(i) + (Bought(i) \div 2)
  <2>1. x \in Int
    BY <1>5
  <2> HIDE DEF x
  <2>2. x \div Bought(i) \in Int
    BY <1>2, <1>4, <2>1
  <2> QED
    BY <2>2 DEF x
<1> QED
  BY <1>6 DEF Value

LEMMA StockFinite ==
  ASSUME TypeOK, BoughtInv, HasLast PROVE IsFiniteSet(Stock) /\ StockValue \in Nat
<1> DEFINE value == [i \in Listed |-> Value(i)]
<1>1. value \in [Listed -> Int]
  BY ValueType
<1>2. Stock = UNION {Units(i, value[i]) : i \in Listed}
  BY DEF Stock
<1> HIDE DEF value
<1>3. IsFiniteSet(Stock)
  BY <1>1, <1>2, ListedFinite, SumFinite
<1> QED
  BY <1>3, FS_CardinalityType DEF StockValue

\* While nothing has been counted, the stock is worth what was spent on it.
LEMMA StockIsWorthIt ==
  ASSUME TypeOK, BoughtInv, HasLast, counts = {}
  PROVE  Cardinality(Won(purchases)) <= StockValue
<1>2. \A i \in Listed : Value(i) = Spent(i) /\ Spent(i) \in Nat
  BY WorthItsCost
<1>3. IsFiniteSet(Stock)
  BY StockFinite
<1> DEFINE numbering == [i \in Listed |-> CHOOSE f : f \in Surjection(1..Spent(i), Won(OfItem(i)))]
<1>4. ASSUME NEW i \in Listed PROVE numbering[i] \in Surjection(1..Spent(i), Won(OfItem(i)))
  <2>1. OfItem(i) \in SUBSET purchases
    BY DEF OfItem
  <2>2. ExistsBijection(1..Spent(i), Won(OfItem(i)))
    BY <2>1, WonFinite, FS_CardinalityType DEF Spent
  <2>3. \E f : f \in Surjection(1..Spent(i), Won(OfItem(i)))
    BY <2>2 DEF ExistsBijection, Bijection
  <2> QED
    BY <2>3
<1> HIDE DEF numbering
<1> DEFINE total == [u \in Stock |-> numbering[u[1]][u[2]]]
<1>5. ASSUME NEW u \in Stock PROVE total[u] \in Won(purchases)
  <2>1. PICK i \in Listed : u \in Units(i, Value(i))
    BY DEF Stock
  <2>2. u[1] = i /\ u[2] \in 1..Spent(i)
    BY <1>2, <2>1 DEF Units
  <2>3. numbering[i][u[2]] \in Won(OfItem(i))
    BY <1>4, <2>2 DEF Surjection
  <2> QED
    BY <2>2, <2>3 DEF Won, OfItem
<1>6. ASSUME NEW w \in Won(purchases) PROVE \E u \in Stock : total[u] = w
  <2>1. PICK p \in purchases : w \in Units(p, TotalCost(p.key))
    BY DEF Won
  <2> DEFINE i == Form[p.key].item
  <2>2. i \in Listed /\ w \in Won(OfItem(i))
    BY <2>1, Rows, FormType DEF Listed, OfItem, Won
  <2>3. PICK n \in 1..Spent(i) : numbering[i][n] = w
    BY <1>4, <2>2 DEF Surjection
  <2>4. <<i, n>> \in Stock
    BY <1>2, <2>2 DEF Stock, Units
  <2> QED
    BY <2>3, <2>4
<1>7. total \in Surjection(Stock, Won(purchases))
  BY <1>5, <1>6 DEF Surjection
<1> QED
  BY <1>3, <1>7, FS_Surjection DEF StockValue

\* The books stay finite, and take in only what was not refused.
LEMMA BoughtKeeps ==
  ASSUME TypeOK, BooksInv, BoughtInv, [Next]_vars PROVE BoughtInv'
<1> USE DEF Requests
<1>0. /\ pc \in [Requests -> Busy \cup {"idle", "done", "dead"}] /\ key \in [Posts -> Keys \cup {Nothing}]
      /\ Posts \cap Counts = {}
  BY Distinct DEF TypeOK
<1>1. ASSUME UNCHANGED <<purchases, key>>, \A q \in Posts : pc'[q] \in Busy => pc[q] \in Busy
      PROVE  BoughtInv'
  BY <1>1 DEF BoughtInv, Acceptable
<1>2. ASSUME NEW r \in Posts, NEW k \in Keys, Post(r, k) PROVE BoughtInv'
  <2>1. /\ purchases' = purchases /\ key' = [key EXCEPT ![r] = k]
        /\ pc'[r] \in Busy => Acceptable(Form[k])
        /\ \A q \in Posts \ {r} : pc'[q] = pc[q]
    BY <1>0, <1>2 DEF Post, Goto, Answer, tables, Busy
  <2> QED
    BY <1>0, <2>1 DEF BoughtInv, Acceptable
<1>3. ASSUME NEW r \in Posts, Insert(r) PROVE BoughtInv'
  <2> DEFINE row == [key |-> key[r], by |-> r, at |-> began[r]]
  <2>1. /\ pc[r] = "begun" /\ key' = key /\ \A q \in Posts : pc'[q] \in Busy => pc[q] \in Busy
        /\ purchases' \in {purchases, purchases \cup {row}}
    BY <1>0, <1>3 DEF Insert, Goto, asked, Busy
  <2>2. Acceptable(Form[row.key])
    BY <2>1 DEF BoughtInv, Busy
  <2> HIDE DEF row
  <2>3. IsFiniteSet(purchases')
    BY <2>1, FS_AddElement DEF BoughtInv
  <2> QED
    BY <2>1, <2>2, <2>3 DEF BoughtInv, Acceptable
<1>4. ASSUME NEW r \in Posts, Prepare(r) \/ Begin(r) \/ FindExisting(r) \/ Cleanup(r) \/ Accept(r)
      PROVE  BoughtInv'
  <2>1. UNCHANGED <<purchases, key>>
    BY <1>4 DEF Prepare, Begin, FindExisting, Cleanup, Accept, tables, asked
  <2>2. pc[r] \in Busy /\ \A q \in Posts \ {r} : pc'[q] = pc[q]
    BY <1>0, <1>4 DEF Prepare, Begin, FindExisting, Cleanup, Accept, Goto, Answer, Busy
  <2> QED
    BY <1>1, <2>1, <2>2
<1>5. ASSUME NEW r \in Counts, HandleCount(r) PROVE BoughtInv'
  <2>1. UNCHANGED <<purchases, key>>
    BY <1>5 DEF HandleCount, StartCount, Measure, Begin, StoreCount, ShowCount, tables, asked
  <2>2. \A q \in Posts : pc'[q] = pc[q]
    BY <1>0, <1>5 DEF HandleCount, StartCount, Measure, Begin, StoreCount, ShowCount, Goto, Answer
  <2> QED
    BY <1>1, <2>1, <2>2
<1>6. CASE ReadSpent \/ ReadSummary \/ ReadList \/ UNCHANGED vars
  <2>1. UNCHANGED <<purchases, key, pc>>
    BY <1>6 DEF ReadSpent, ReadSummary, ReadList, Look, vars, tables, asked
  <2> QED
    BY <1>1, <2>1
<1>7. CASE Crash
  <2>1. UNCHANGED <<purchases, key>> /\ \A q \in Posts : pc'[q] \in Busy => pc[q] \in Busy
    BY <1>0, <1>7 DEF Crash, tables, asked
  <2> QED
    BY <1>1, <2>1
<1> QED
  BY <1>2, <1>3, <1>4, <1>5, <1>6, <1>7 DEF Next, HandlePost

LEMMA ScreenKeeps ==
  ASSUME TypeOK, TypeOK', BooksInv, BoughtInv, BoughtInv', ClockInv, HasLast, ScreenInv, [Next]_vars
  PROVE  ScreenInv'
<1> DEFINE seen == [at : {"closed", "failed", "spent", "summed", "shown"},
                    spent : Nat, items : Nat, value : Nat, list : SUBSET Items]
<1>0. screen \in seen
  BY DEF ScreenInv
<1>1. Cardinality(Won(purchases)) \in Nat /\ Cardinality(Won(purchases')) \in Nat
      /\ Cardinality(Won(purchases)) <= Cardinality(Won(purchases'))
  <2>1. purchases \subseteq purchases' /\ Won(purchases) \in SUBSET Won(purchases')
    BY TablesGrow DEF Won
  <2>2. IsFiniteSet(Won(purchases)) /\ IsFiniteSet(Won(purchases'))
    <3>1. (TypeOK /\ BoughtInv => IsFiniteSet(Won(purchases)))'
      BY AllFinite, PTL
    <3>2. IsFiniteSet(Won(purchases))' = IsFiniteSet(Won(purchases'))
      BY DEF Won
    <3> QED
      BY <3>1, <3>2, AllFinite
  <2> QED
    BY <2>1, <2>2, FS_CardinalityType, FS_Subset
<1>2. counts' = {} => counts = {}
  BY TablesGrow
<1>3. CASE screen' = screen
  BY <1>0, <1>1, <1>2, <1>3 DEF ScreenInv
<1>4. ASSUME screen' = [NoScreen EXCEPT !.at = "failed"] PROVE ScreenInv'
  BY <1>4 DEF NoScreen, ScreenInv
<1>5. CASE ReadSpent
  <2>1. CASE screen' = [screen EXCEPT !.at = "spent", !.spent = SpentMonth]
    <3>1. ThisMonth \in SUBSET purchases /\ Won(ThisMonth) \in SUBSET Won(purchases)
      BY DEF ThisMonth, Won
    <3>2. SpentMonth \in Nat /\ SpentMonth <= Cardinality(Won(purchases))
      BY <3>1, WonFinite, FS_Subset DEF SpentMonth
    <3>3. screen' \in seen /\ screen'.at = "spent" /\ screen'.spent = SpentMonth
      BY <1>0, <2>1, <3>2
    <3> QED
      BY <1>1, <3>2, <3>3 DEF ScreenInv
  <2> QED
    BY <1>4, <1>5, <2>1 DEF ReadSpent, Look
<1>6. CASE ReadSummary
  <2>1. CASE screen' = [screen EXCEPT !.at = "summed", !.items = Cardinality(Listed), !.value = StockValue]
    <3>1. Cardinality(Listed) \in Nat /\ StockValue \in Nat
      BY ListedFinite, StockFinite
    <3>2. screen' \in seen /\ screen'.at = "summed" /\ screen'.value = StockValue /\ screen'.spent = screen.spent
      BY <1>0, <2>1, <3>1
    <3>3. screen.spent <= Cardinality(Won(purchases))
      BY <1>6 DEF ReadSummary, ScreenInv
    <3>4. counts = {} => Cardinality(Won(purchases)) <= StockValue
      BY StockIsWorthIt
    <3> QED
      BY <1>0, <1>1, <1>2, <3>1, <3>2, <3>3, <3>4 DEF ScreenInv
  <2> QED
    BY <1>4, <1>6, <2>1 DEF ReadSummary, Look
<1>7. CASE ReadList
  <2>1. CASE screen' = [screen EXCEPT !.at = "shown", !.list = Listed]
    <3>1. Listed \subseteq Items
      BY DEF Listed
    <3>2. screen' \in seen /\ screen'.at = "shown" /\ screen'.value = screen.value /\ screen'.spent = screen.spent
      BY <1>0, <2>1, <3>1
    <3>3. screen.at = "summed"
      BY <1>7 DEF ReadList
    <3> QED
      BY <1>2, <3>2, <3>3 DEF ScreenInv
  <2> QED
    BY <1>4, <1>7, <2>1 DEF ReadList, Look
<1>8. ASSUME NEW r \in Requests, (r \in Posts /\ HandlePost(r)) \/ (r \in Counts /\ HandleCount(r))
      PROVE  screen' = screen
  BY <1>8 DEF HandlePost, Post, Prepare, Begin, Insert, FindExisting, Cleanup, Accept,
              HandleCount, StartCount, Measure, StoreCount, ShowCount
<1>9. Crash \/ UNCHANGED vars => screen' = screen
  BY DEF Crash, vars
<1> QED
  BY <1>3, <1>5, <1>6, <1>7, <1>8, <1>9 DEF Next, Requests

-----------------------------------------------------------------------------
(* The results.                                                            *)

\* Every reachable state satisfies the inductive invariant.
THEOREM Invariant == Spec => []IInv
<1>1. Init => IInv
  BY InitHolds
<1>2. IInv /\ [Next]_vars => IInv'
  BY TypeKeeps, BooksKeep, ClockKeeps, NewestKeeps, LastKeeps, DiskKeeps DEF IInv
<1> QED
  BY <1>1, <1>2, PTL DEF Spec

\* Tables, disk and handlers of the inventory keep their types.
THEOREM TypesHold == Spec => []TypeOK
BY Invariant, PTL DEF IInv

\* However often a form is sent, its purchase is in the books once.
THEOREM OnePurchaseHolds == Spec => []OnePurchasePerKey
<1>1. IInv => OnePurchasePerKey
  BY DEF IInv, BooksInv
<1> QED
  BY <1>1, Invariant, PTL

\* Whoever is told "recorded" or "recorded before" finds his purchase in the
\* books, and its price has not been compared with itself.
THEOREM AnswersHold == Spec => []PostsAnsweredTruly
<1>1. IInv => PostsAnsweredTruly
  BY DEF IInv, BooksInv, PostInv, PostsAnsweredTruly
<1> QED
  BY <1>1, Invariant, PTL

\* The receipt of a recorded purchase is never deleted, and no file is left
\* that nobody answers for.
THEOREM ReceiptsHold == Spec => []ReceiptsKept
<1>1. IInv => ReceiptsKept
  BY DEF IInv, DiskInv, ReceiptInv, ReceiptsKept
<1> QED
  BY <1>1, Invariant, PTL

\* The books are finite, hold what was not refused, and what the screen shows
\* is in them.
THEOREM ScreenHolds == Spec => [](BoughtInv /\ ScreenInv)
<1>1. Init => BoughtInv /\ ScreenInv
  <2> SUFFICES ASSUME Init PROVE BoughtInv /\ ScreenInv
    OBVIOUS
  <2>1. BoughtInv
    BY FS_EmptySet DEF Init, BoughtInv, Busy, Requests
  <2>2. ScreenInv
    BY DEF Init, ScreenInv, NoScreen
  <2> QED
    BY <2>1, <2>2
<1>2. IInv /\ IInv' /\ BoughtInv /\ ScreenInv /\ [Next]_vars => BoughtInv' /\ ScreenInv'
  BY BoughtKeeps, ScreenKeeps DEF IInv
<1> QED
  BY Invariant, <1>1, <1>2, PTL DEF Spec

\* The screen never shows more spent this month than what the stock is worth,
\* while nothing has been counted, whatever is bought between its queries.
THEOREM SpentHolds == Spec => []SpentIsInStock
<1>1. ScreenInv => SpentIsInStock
  BY DEF ScreenInv, SpentIsInStock
<1> QED
  BY ScreenHolds, <1>1, PTL

\* The quantity on hand is that of the last count, and of what was bought
\* since, whatever purchases and counts overlap.
THEOREM QuantityHolds == Spec => []QuantityFollowsShelf
<1>1. ASSUME IInv PROVE QuantityFollowsShelf
  <2> SUFFICES ASSUME NEW i \in Items, CountsOf(i) # {}
               PROVE  /\ \A c \in CountsOf(i) : LastCount(i).by \notin knew[c.by]
                      /\ \A p \in OfItem(i) : LastCount(i).by \in knew[p.by] => p \in Since(i)
                      /\ \A p \in Since(i) :
                           ~\E r \in knew[LastCount(i).by] \cap Posts : key[r] = p.key
    <3>1. \A c \in counts : c.item \in Items /\ c \in CountsOf(c.item)
      BY <1>1, Rows DEF IInv, CountsOf
    <3> QED
      BY <3>1 DEF QuantityFollowsShelf
  <2> DEFINE last == LastCount(i)
  <2>1. last \in CountsOf(i) /\ \A d \in CountsOf(i) : d.at <= last.at
    <3>1. \E c \in CountsOf(i) : \A d \in CountsOf(i) : d.at <= c.at
      BY <1>1, Zenon DEF IInv, HasLast
    <3> QED
      BY <3>1, Zenon DEF LastCount
  <2> HIDE DEF last
  <2>2. \A c \in CountsOf(i) : /\ c.by \in Requests /\ c.at = began[c.by]
                               /\ c.at \in Nat /\ c.at # 0
    BY <1>1, Rows DEF CountsOf, IInv, BooksInv, CountedInv, Requests
  <2>3. \A p \in purchases : /\ p.by \in Requests /\ p.at = began[p.by]
                             /\ p.at \in Nat /\ p.at # 0
    BY <1>1, Rows DEF IInv, BooksInv, PurchaseInv, Requests
  <2>4. \A r \in Requests : began[r] # 0 =>
          \A q \in knew[r] :
            /\ began[q] < began[r]
            /\ q \in Posts => \A p \in purchases : p.key = key[q] => p.at < began[r]
    BY <1>1, Zenon DEF IInv, ClockInv, OrderInv
  <2>5. ASSUME NEW c \in CountsOf(i) PROVE last.by \notin knew[c.by]
    BY <2>1, <2>2, <2>4
  <2>6. ASSUME NEW p \in OfItem(i), last.by \in knew[p.by] PROVE p \in Since(i)
    BY <2>1, <2>2, <2>3, <2>4, <2>6 DEF last, Since, OfItem
  <2>7. ASSUME NEW p \in Since(i), NEW r \in knew[last.by] \cap Posts, key[r] = p.key PROVE FALSE
    <3>1. p \in purchases /\ last.at < p.at
      BY DEF Since, OfItem, last
    <3> QED
      BY <2>1, <2>2, <2>3, <2>4, <2>7, <3>1
  <2> QED
    BY <2>5, <2>6, <2>7 DEF last
<1> QED
  BY <1>1, Invariant, PTL
=============================================================================
