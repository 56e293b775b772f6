------------------------------ MODULE Inventory ------------------------------
(***************************************************************************)
(* The stock ledger of one shop: purchases that are posted, resent under   *)
(* the same idempotency key and stored beside their receipt's file, counts *)
(* of what is left, and the quantities and sums that are worked out from   *)
(* both tables whenever somebody looks (internal/store/inventory.go,       *)
(* internal/httpapi/admin_inventory.go, internal/domain/purchase.go).      *)
(*                                                                         *)
(* Nothing is ever changed or deleted in either table.  A row's created_at *)
(* is the moment its statement began, not the one it committed: requests   *)
(* overlap, and the later stamp may be visible first.                      *)
(***************************************************************************)
EXTENDS Integers, FiniteSets

CONSTANTS
  Posts,     \* requests to record a purchase
  Counts,    \* requests to record a count
  Keys,      \* idempotency keys, one per form the owner opened
  Items,     \* name keys: what a name is without its spaces and capitals
  Form,      \* key -> what the form sends
  CountedQty,\* quantities somebody may type in after counting
  Today, Oldest, Skew, \* the day, how far back a purchase may be, how far ahead
  MaxInt,    \* the largest int4
  Nothing

Requests == Posts \cup Counts

ASSUME FormType ==
  Form \in [Keys -> [item : Items, qty : Int, price : Int, shipping : Int,
                     day : Int, receipt : BOOLEAN]]
ASSUME Distinct == Posts \cap Counts = {} /\ Nothing \notin Keys \cup Items
ASSUME NumbersType ==
  /\ Today \in Int /\ Oldest \in Nat /\ Skew \in Nat /\ MaxInt \in Nat
  /\ CountedQty \subseteq Int

VARIABLES
  clock,      \* the last stamp a statement has been given
  purchases,  \* table purchases: rows [key, by, at]
  counts,     \* table inventory_adjustments: rows [item, qty, by, at]
  disk,       \* posts whose receipt is on disk
  strays,     \* receipts left by a crash or a deletion that failed
  pc,         \* request -> where its handler stands
  key,        \* post -> its Idempotency-Key
  counted,    \* count -> the item and the quantity it is about
  began,      \* request -> the stamp of its statement
  before,     \* post -> key of the purchase its price is compared with
  reply,      \* request -> the answer
  knew,       \* request -> the requests answered before it was sent
  screen      \* the inventory screen as far as it has been read

asked == <<key, counted, knew>>
vars  == <<clock, purchases, counts, disk, strays, pc, asked, began, before,
           reply, screen>>

-----------------------------------------------------------------------------
(* What the queries work out.                                              *)

TotalCost(k) == Form[k].price * Form[k].qty + Form[k].shipping

\* A sum is a number of units: n of them for each x.
Units(x, n)  == {x} \X (1..n)
Pieces(rows) == UNION {Units(p, Form[p.key].qty) : p \in rows}
Won(rows)    == UNION {Units(p, TotalCost(p.key)) : p \in rows}

OfItem(i)    == {p \in purchases : Form[p.key].item = i}
Bought(i)    == Cardinality(Pieces(OfItem(i)))
Spent(i)     == Cardinality(Won(OfItem(i)))
CountsOf(i)  == {c \in counts : c.item = i}

\* DISTINCT ON (name_key) ... ORDER BY created_at DESC: the last count.
LastCount(i) == CHOOSE c \in CountsOf(i) : \A d \in CountsOf(i) : d.at <= c.at

\* Fault: what came in after a count is decided by the day of the purchase.
SinceByDay(i) == {p \in OfItem(i) : Form[p.key].day > Today - 1}

\* What came in after the last count: p.created_at > c.created_at.
Since(i) == {p \in OfItem(i) : p.at > LastCount(i).at}

OnHand(i) ==
  IF CountsOf(i) = {} THEN Bought(i)
  ELSE LastCount(i).qty + Cardinality(Pieces(Since(i)))

\* ValueKRW: the share of the money spent that is still there, rounded.
Value(i) ==
  IF OnHand(i) <= 0 THEN 0
  ELSE (Spent(i) * OnHand(i) + Bought(i) \div 2) \div Bought(i)

Listed == {i \in Items : OfItem(i) # {}}

\* unit_price_krw * qty + shipping_krw is int4 arithmetic: a line that is too
\* large makes every query fail that sums it up.
Readable(i) == \A p \in OfItem(i) : TotalCost(p.key) <= MaxInt

\* ListPurchases(item, 1): the newest by purchased_at, then created_at.
Newest(i) ==
  IF OfItem(i) = {} THEN Nothing
  ELSE (CHOOSE p \in OfItem(i) : \A q \in OfItem(i) :
          \/ Form[q.key].day < Form[p.key].day
          \/ Form[q.key].day = Form[p.key].day /\ q.at <= p.at).key

Known(k) == \E p \in purchases : p.key = k

-----------------------------------------------------------------------------
Goto(r, here) == pc' = [pc EXCEPT ![r] = here]

Answer(r, code) ==
  /\ Goto(r, "done")
  /\ reply' = [reply EXCEPT ![r] = code]

Answered == {r \in Requests : reply[r] \in {"created", "existing", "counted"}}

Send(r) == knew' = [knew EXCEPT ![r] = Answered]

tables == <<purchases, counts>>
files  == <<disk, strays>>

\* ValidatePurchase, and int4 columns that take what was typed in.
Acceptable(f) ==
  /\ f.qty \in 1..MaxInt /\ f.price \in 0..MaxInt /\ f.shipping \in 0..MaxInt
  /\ f.day <= Today + Skew /\ f.day >= Today - Oldest

\* A form is posted; parsePurchaseForm refuses it or not.
Post(r, k) ==
  /\ pc[r] = "idle"
  /\ key' = [key EXCEPT ![r] = k] /\ Send(r)
  /\ \/ Acceptable(Form[k]) /\ Goto(r, "posted") /\ reply' = reply
     \/ ~Acceptable(Form[k]) /\ Answer(r, "refused")
  /\ UNCHANGED <<clock, tables, files, counted, began, before, screen>>

\* The price of the time before is read for the comparison (an error is no
\* obstacle), and writePhotos puts the receipt, if there is one, under a name
\* that nobody else knows yet; the post fails if it cannot.
Prepare(r) ==
  /\ pc[r] = "posted"
  /\ \E k \in {Nothing, Newest(Form[key[r]].item)} : before' = [before EXCEPT ![r] = k]
  /\ \/ disk' = disk \cup (IF Form[key[r]].receipt THEN {r} ELSE {}) /\ Goto(r, "ready")
     \/ Form[key[r]].receipt /\ disk' = disk /\ Goto(r, "failed")
  /\ UNCHANGED <<clock, tables, strays, asked, began, reply, screen>>

\* The INSERT begins: now() is this moment, however long it takes.
Begin(r) ==
  /\ pc[r] = "ready"
  /\ clock' = clock + 1
  /\ began' = [began EXCEPT ![r] = clock + 1]
  /\ Goto(r, "begun")
  /\ UNCHANGED <<tables, files, asked, before, reply, screen>>

\* Fault: an INSERT that fails is taken for one that found no conflict.
InsertFailureUnnoticed(r) ==
  /\ pc[r] = "begun" /\ r \in Posts
  /\ \/ /\ ~Known(key[r])
        /\ purchases' = purchases \cup {[key |-> key[r], by |-> r, at |-> began[r]]}
        /\ Goto(r, "stored")
     \/ Known(key[r]) /\ Goto(r, "conflict") /\ UNCHANGED purchases
     \/ Goto(r, "stored") /\ UNCHANGED purchases
  /\ UNCHANGED <<clock, counts, files, asked, began, before, reply, screen>>

\* ON CONFLICT DO NOTHING, committed by itself.  The row may be there and its
\* acknowledgement lost, or the statement may have failed.
Insert(r) ==
  /\ pc[r] = "begun" /\ r \in Posts
  /\ \/ /\ ~Known(key[r])
        /\ purchases' = purchases \cup {[key |-> key[r], by |-> r, at |-> began[r]]}
        /\ (Goto(r, "stored") \/ Goto(r, "failed"))
     \/ Known(key[r]) /\ Goto(r, "conflict") /\ UNCHANGED purchases
     \/ Goto(r, "failed") /\ UNCHANGED purchases
  /\ UNCHANGED <<clock, counts, files, asked, began, before, reply, screen>>

\* purchaseByIdempotencyKey finds the row that was in the way, or fails.
FindExisting(r) ==
  /\ pc[r] = "conflict"
  /\ \/ Known(key[r]) /\ Goto(r, "overtaken")
     \/ Goto(r, "failed")
  /\ UNCHANGED <<clock, tables, files, asked, began, before, reply, screen>>

\* Fault: the receipt stored under the key goes, not the one just written.
CleanupOfRow(r) ==
  /\ pc[r] \in {"failed", "overtaken"}
  /\ LET gone == {q \in disk : key[q] = key[r]} IN
     disk' = disk \ gone /\ strays' = strays \ gone
  /\ Answer(r, IF pc[r] = "failed" THEN "error" ELSE "existing")
  /\ before' = [before EXCEPT ![r] = Nothing]
  /\ UNCHANGED <<clock, tables, asked, began, screen>>

\* cleanupPhotos deletes what this post wrote, as far as it can.  A form that
\* was there already is answered 200, without a comparison.
Cleanup(r) ==
  /\ pc[r] \in {"failed", "overtaken"}
  /\ \E gone \in SUBSET (disk \cap {r}) :
       disk' = disk \ gone /\ strays' = (strays \cup (disk \cap {r})) \ gone
  /\ Answer(r, IF pc[r] = "failed" THEN "error" ELSE "existing")
  /\ before' = [before EXCEPT ![r] = Nothing]
  /\ UNCHANGED <<clock, tables, asked, began, screen>>

\* 201.  An error of the quantity's query is no obstacle.
Accept(r) ==
  /\ pc[r] = "stored"
  /\ Answer(r, "created")
  /\ UNCHANGED <<clock, tables, files, asked, began, before, screen>>

-----------------------------------------------------------------------------
(* handleCountInventory and AdjustInventory.                               *)

\* ValidateAdjustment: nobody counts fewer than none.
StartCount(r, i, n) ==
  /\ pc[r] = "idle"
  /\ counted' = [counted EXCEPT ![r] = [item |-> i, qty |-> n]] /\ Send(r)
  /\ \/ n >= 0 /\ Goto(r, "counting") /\ reply' = reply
     \/ n < 0 /\ Answer(r, "refused")
  /\ UNCHANGED <<clock, tables, files, key, began, before, screen>>

\* InventoryItem, for the difference that is noted beside the count.
Measure(r) ==
  /\ pc[r] = "counting"
  /\ LET i == counted[r].item IN
     \/ i \in Listed /\ Readable(i) /\ Goto(r, "ready") /\ reply' = reply
     \/ i \notin Listed /\ Answer(r, "not found")
     \/ ~Readable(i) /\ Answer(r, "error")
  /\ UNCHANGED <<clock, tables, files, asked, began, before, screen>>

\* The INSERT commits, is not acknowledged, or fails.
StoreCount(r) ==
  /\ pc[r] = "begun" /\ r \in Counts
  /\ \/ /\ counts' = counts \cup {[item |-> counted[r].item, qty |-> counted[r].qty,
                                   by |-> r, at |-> began[r]]}
        /\ \/ Goto(r, "noted") /\ reply' = reply
           \/ Answer(r, "error")
     \/ counts' = counts /\ Answer(r, "error")
  /\ UNCHANGED <<clock, purchases, files, asked, began, before, screen>>

\* The item is read again for the answer.
ShowCount(r) ==
  /\ pc[r] = "noted"
  /\ \/ Readable(counted[r].item) /\ Answer(r, "counted")
     \/ Answer(r, "error")
  /\ UNCHANGED <<clock, tables, files, asked, began, before, screen>>

-----------------------------------------------------------------------------
(* handleInventory: three queries, one after the other.                    *)

NoScreen == [at |-> "closed", spent |-> 0, items |-> 0, value |-> 0, list |-> {}]

ThisMonth  == {p \in purchases : Form[p.key].day >= Today}
SpentMonth == Cardinality(Won(ThisMonth))
Stock      == UNION {Units(i, Value(i)) : i \in Listed}
StockValue == Cardinality(Stock)

\* A query gives what it is asked for, or fails: it must if a line of its rows
\* is too large.
Look(rows, seen) ==
  /\ \/ (\A p \in rows : TotalCost(p.key) <= MaxInt) /\ screen' = seen
     \/ screen' = [NoScreen EXCEPT !.at = "failed"]
  /\ UNCHANGED <<clock, tables, files, pc, asked, began, before, reply>>

\* Fault: this month's spending is read after the list.
ReadSpentLast ==
  /\ screen.at = "summed"
  /\ Look(purchases, [screen EXCEPT !.at = "shown", !.list = Listed, !.spent = SpentMonth])

ReadSpent ==
  /\ screen.at = "closed"
  /\ Look(ThisMonth, [screen EXCEPT !.at = "spent", !.spent = SpentMonth])

\* The summary reads the list for itself,
ReadSummary ==
  /\ screen.at = "spent"
  /\ Look(purchases, [screen EXCEPT !.at = "summed", !.items = Cardinality(Listed),
                                    !.value = StockValue])

\* and the handler reads it again.
ReadList ==
  /\ screen.at = "summed"
  /\ Look(purchases, [screen EXCEPT !.at = "shown", !.list = Listed])

-----------------------------------------------------------------------------
Busy == {"posted", "ready", "begun", "stored", "conflict", "failed",
         "overtaken", "counting", "noted"}

\* The API process dies under its requests.
Crash ==
  /\ \E r \in Requests : pc[r] \in Busy
  /\ pc' = [r \in Requests |-> IF pc[r] \in Busy THEN "dead" ELSE pc[r]]
  /\ strays' = strays \cup {r \in disk : pc[r] \in Busy}
  /\ UNCHANGED <<clock, tables, disk, asked, began, before, reply, screen>>

Init ==
  /\ clock = 0 /\ purchases = {} /\ counts = {} /\ disk = {} /\ strays = {}
  /\ pc = [r \in Requests |-> "idle"]
  /\ key = [r \in Posts |-> Nothing]
  /\ counted = [r \in Counts |-> Nothing]
  /\ began = [r \in Requests |-> 0]
  /\ before = [r \in Posts |-> Nothing]
  /\ reply = [r \in Requests |-> ""]
  /\ knew = [r \in Requests |-> {}]
  /\ screen = NoScreen

HandlePost(r) ==
  \/ \E k \in Keys : Post(r, k)
  \/ Prepare(r) \/ Begin(r) \/ Insert(r)
  \/ FindExisting(r) \/ Cleanup(r) \/ Accept(r)

HandleCount(r) ==
  \/ \E i \in Items, n \in CountedQty : StartCount(r, i, n)
  \/ Measure(r) \/ Begin(r) \/ StoreCount(r) \/ ShowCount(r)

Next ==
  \/ \E r \in Posts : HandlePost(r)
  \/ \E r \in Counts : HandleCount(r)
  \/ ReadSpent \/ ReadSummary \/ ReadList
  \/ Crash

Spec == Init /\ [][Next]_vars

-----------------------------------------------------------------------------
(* What must hold.                                                         *)

\* The variables hold what the tables, the disk and the handlers can hold.
TypeOK ==
  /\ clock \in Nat
  /\ purchases \subseteq [key : Keys, by : Posts, at : 1..clock]
  /\ counts \subseteq [item : Items, qty : Nat, by : Counts, at : 1..clock]
  /\ disk \subseteq Posts /\ strays \subseteq disk
  /\ pc \in [Requests -> Busy \cup {"idle", "done", "dead"}]
  /\ key \in [Posts -> Keys \cup {Nothing}]
  /\ counted \in [Counts -> [item : Items, qty : CountedQty] \cup {Nothing}]
  /\ began \in [Requests -> 0..clock]
  /\ before \in [Posts -> Keys \cup {Nothing}]
  /\ reply \in [Requests -> {"", "refused", "created", "existing", "error",
                             "counted", "not found"}]
  /\ knew \in [Requests -> SUBSET Requests]

\* A form that is sent twice does not turn 60 dolls into 120
\* (inventory.go:65-68): one row per key.
OnePurchasePerKey == \A p, q \in purchases : p.key = q.key => p = q

\* The owner is told "recorded" or "recorded before" of a purchase that is in
\* the books with the key he sent, under his own request or another's, and the
\* price it is compared with is never its own
\* (admin_inventory.go:154-155,185-196).
PostsAnsweredTruly ==
  \A r \in Posts :
    /\ reply[r] = "created" => \E p \in purchases : p.key = key[r] /\ p.by = r
    /\ reply[r] = "existing" => \E p \in purchases : p.key = key[r] /\ p.by # r
    /\ reply[r] \in {"created", "existing"} => before[r] # key[r]

\* A receipt on disk belongs to a request under way or to a purchase, or is
\* one that a crash or a failed deletion left.
ReceiptsAccounted ==
  \A r \in disk : \/ pc[r] \in Busy \/ r \in strays
                  \/ \E p \in purchases : p.by = r

\* The evidence of a purchase that was answered "recorded" is never deleted
\* (0005_inventory.sql:34-35), whatever other requests with its key clean up,
\* and no file is left that nobody answers for (admin_inventory.go:188-191).
ReceiptsKept ==
  /\ ReceiptsAccounted
  /\ \A r \in Posts : reply[r] = "created" /\ Form[key[r]].receipt => r \in disk

\* The quantity on hand starts from a count that no other one came after, and
\* adds what was bought once that count had been answered and nothing that was
\* in the books before it was asked for (inventory.go:204-211).
QuantityFollowsShelf ==
  \A i \in {c.item : c \in counts} :
    /\ \A c \in CountsOf(i) : LastCount(i).by \notin knew[c.by]
    /\ \A p \in OfItem(i) : LastCount(i).by \in knew[p.by] => p \in Since(i)
    /\ \A p \in Since(i) : ~\E r \in knew[LastCount(i).by] \cap Posts : key[r] = p.key

\* The screen never shows more spent this month than what the stock is worth,
\* while nothing has been sold, though a purchase may come between its queries.
SpentIsInStock ==
  screen.at = "shown" /\ counts = {} => screen.spent <= screen.value

=============================================================================
