------------------------------- MODULE Screens -------------------------------
(***************************************************************************)
(* What an owner is shown of his claims while they keep coming in and are  *)
(* decided: the list, read page after page with a cursor; the home screen, *)
(* read with two queries; the settlement of a period, read with three; and *)
(* the figures by day (internal/store/query.go, home.go, settlement.go,    *)
(* stats.go, internal/httpapi/admin_claims.go, admin_home.go,              *)
(* admin_settlement.go, admin_machines.go).                                *)
(*                                                                         *)
(* A screen changes nothing, so one that is opened at any moment stands    *)
(* for all.  Each of its steps is one query, and sees what has been        *)
(* committed by then.                                                      *)
(***************************************************************************)
EXTENDS Integers, FiniteSets, Sequences, FiniteSetsExt, Clock

CONSTANTS
  Claims,     \* ids, which order claims of the same moment
  Machines,
  Active,     \* those that are switched on
  Arriving,   \* the statuses a claim may begin with
  MachineOf,  \* claim -> its machine
  Asked,      \* claim -> amount_krw
  Filters,    \* sets of statuses the list may be asked for
  Limit,      \* claims to a page
  DayLength,  \* ticks to a day of the server's clock (UTC)
  ZoneShift,  \* how far the Korean day is ahead of it
  Lag         \* how long the transaction of a claim may take

Statuses == {"absent", "pending", "needs_review", "on_hold", "approved",
             "rejected", "paid"}

ClaimsOk ==
  /\ Claims \subseteq Nat /\ IsFiniteSet(Claims)
  /\ Active \subseteq Machines /\ Arriving \subseteq {"pending", "needs_review"}
  /\ MachineOf \in [Claims -> Machines] /\ Asked \in [Claims -> Nat \ {0}]
  /\ Filters \subseteq SUBSET (Statuses \ {"absent"})
NumbersOk ==
  /\ Limit \in Nat \ {0} /\ DayLength \in Nat \ {0} /\ MaxNow \in Nat \ {0}
  /\ ZoneShift \in Nat /\ Lag \in Nat
ASSUME SettingOk == ClaimsOk /\ NumbersOk

VARIABLES
  row,      \* table claims, with the time of approval that the log has
  till,     \* Korean day -> money that went out on it
  screen    \* what has been read of the screen that is open

vars == <<now, row, till, screen>>

Open == {"pending", "needs_review", "on_hold"}

Absent == [status |-> "absent", at |-> 0, approvedAt |-> 0, paidAt |-> 0, paid |-> 0]

Stored == {c \in Claims : row[c].status # "absent"}
In(st) == {c \in Claims : row[c].status \in st}

Day(t)       == t \div DayLength
KoreanDay(t) == (t + ZoneShift) \div DayLength
Days         == 0..KoreanDay(MaxNow)

\* A sum is a number of units: f[x] of them for each x.
Units(f) == UNION {{x} \X (1..f[x]) : x \in DOMAIN f}
Total(f) == Cardinality(Units(f))

\* COALESCE(paid_amount_krw, amount_krw) FILTER (WHERE status='paid').
PaidOut(c)     == IF row[c].status = "paid" THEN row[c].paid ELSE 0
\* amount_krw FILTER (WHERE status='paid').
AskedOfPaid(c) == IF row[c].status = "paid" THEN Asked[c] ELSE 0

MoneyOut(cs) == Total([c \in cs |-> PaidOut(c)])

\* A line of the settlement.
Line(cs) == [claims |-> Cardinality(cs),
             paid   |-> Total([c \in cs |-> AskedOfPaid(c)])]

-----------------------------------------------------------------------------
(* What happens to the tables meanwhile.                                   *)

Closed == [kind |-> "closed", done |-> FALSE, still |-> TRUE, filter |-> {},
           cursor |-> <<>>, due |-> {}, shown |-> {}, again |-> FALSE,
           promised |-> {}, oldest |-> 0, from |-> 0, to |-> 0,
           sums |-> <<>>]

\* Time and the tables move on: a screen that is complete has been looked at,
\* and one that is not is no longer of one moment, nor are all its claims
\* what was asked for any more.
Moved ==
  screen' = IF screen.kind = "closed" \/ screen.done THEN Closed
            ELSE [screen EXCEPT !.still = FALSE,
                                !.due = {c \in @ : row'[c].status \in screen.filter}]

\* A claim's created_at is the start of the transaction that commits now.
Arrive(c) ==
  /\ row[c] = Absent
  /\ \E t \in (now - Lag)..now, s \in Arriving :
       /\ t > 0
       /\ row' = [row EXCEPT ![c].status = s, ![c].at = t]
  /\ Moved /\ UNCHANGED <<now, till>>

Hold(c) ==
  /\ row[c].status \in {"pending", "needs_review"}
  /\ row' = [row EXCEPT ![c].status = "on_hold"]
  /\ Moved /\ UNCHANGED <<now, till>>

Approve(c) ==
  /\ row[c].status \in Open
  /\ row' = [row EXCEPT ![c].status = "approved", ![c].approvedAt = now]
  /\ Moved /\ UNCHANGED <<now, till>>

Reject(c) ==
  /\ row[c].status \in Open \cup {"approved"}
  /\ row' = [row EXCEPT ![c].status = "rejected"]
  /\ Moved /\ UNCHANGED <<now, till>>

\* The whole amount or a part of it is sent.
Pay(c) ==
  /\ row[c].status = "approved"
  /\ \E n \in 1..Asked[c] :
       /\ row' = [row EXCEPT ![c].status = "paid", ![c].paidAt = now, ![c].paid = n]
       /\ till' = [till EXCEPT ![KoreanDay(now)] = @ + n]
  /\ Moved /\ UNCHANGED now

Tick ==
  /\ now < MaxNow
  /\ now' = now + 1
  /\ UNCHANGED <<row, till>> /\ Moved

Show(s) == screen' = s /\ UNCHANGED <<now, row, till>>

-----------------------------------------------------------------------------
(* handleListClaims and ListClaims: the newest first.                      *)

\* (created_at, id) as the cursor holds it.
Place(c) == <<row[c].at, c>>
Below(p, q) == p[1] < q[1] \/ (p[1] = q[1] /\ p[2] < q[2])

\* Fault: the cursor is the time alone.
OlderThan(f, cursor) ==
  {c \in In(f) : cursor # <<>> => row[c].at < cursor[1]}

\* (c.created_at, c.id) < cursor, among the statuses asked for.
Rest(f, cursor) ==
  {c \in In(f) : cursor # <<>> => Below(Place(c), cursor)}

\* LIMIT limit+1: one more than the page says whether there is a next one.
Page(rest) ==
  {c \in rest : Cardinality({d \in rest : Below(Place(c), Place(d))}) < Limit}

Last(page) == CHOOSE c \in page : \A d \in page : ~Below(Place(d), Place(c))

Turn(s) ==
  LET rest == Rest(s.filter, s.cursor)
      page == Page(rest)
      more == Cardinality(rest) > Limit
  IN Show([s EXCEPT !.shown = @ \cup page,
                    !.again = @ \/ page \cap s.shown # {},
                    !.cursor = IF more THEN Place(Last(page)) ELSE @,
                    !.done = ~more])

OpenList(f) ==
  /\ screen.kind = "closed"
  /\ Turn([Closed EXCEPT !.kind = "list", !.filter = f, !.due = In(f)])

NextPage ==
  /\ screen.kind = "list" /\ ~screen.done
  /\ Turn(screen)

-----------------------------------------------------------------------------
(* handleHome and HomeSummaryFor.                                          *)

PaidToday == {c \in In({"paid"}) : KoreanDay(row[c].paidAt) = KoreanDay(now)}

\* Fault: the day's payments are summed by what was asked.
OpenHomeAsked ==
  /\ screen.kind = "closed"
  /\ Show([Closed EXCEPT !.kind = "home", !.promised = In({"approved"}),
             !.to = KoreanDay(now), !.sums = <<Line(PaidToday).paid>>,
             !.done = In({"approved"}) = {}])

\* The counts and sums of this moment.  How many claims are approved decides
\* whether a second query is made.
OpenHome ==
  /\ screen.kind = "closed"
  /\ Show([Closed EXCEPT !.kind = "home", !.promised = In({"approved"}),
             !.to = KoreanDay(now), !.sums = <<MoneyOut(PaidToday)>>,
             !.done = In({"approved"}) = {}])

\* Fault: every approval in the log is looked at.
Approvals == {row[c].approvedAt : c \in Claims} \ {0}

\* The log's approvals of the claims that are approved now.
PendingApprovals == {row[c].approvedAt : c \in In({"approved"})}

\* MIN over no row is NULL.
ReadOldest ==
  /\ screen.kind = "home" /\ ~screen.done
  /\ Show([screen EXCEPT !.done = TRUE,
             !.oldest = IF PendingApprovals = {} THEN 0 ELSE Min(PendingApprovals)])

-----------------------------------------------------------------------------
(* handleSettlement and SettlementFor; handleDailyStats and DailyStats.    *)

Between(f, t) == {c \in Stored : Day(row[c].at) \in f..t}

\* The totals of the days from f to t, by the day a claim came in on.
OpenSettlement(f, t) ==
  /\ screen.kind = "closed" /\ f <= t /\ t <= Day(now)
  /\ Show([Closed EXCEPT !.kind = "settlement", !.from = f, !.to = t,
                          !.sums = <<Line(Between(f, t))>>])

\* Fault: a claim is put on the line of its Korean day.
ReadDaysOfZone ==
  /\ screen.kind = "settlement" /\ Len(screen.sums) = 1
  /\ Show([screen EXCEPT !.sums = <<@[1],
             [d \in screen.from..screen.to |->
                Line({c \in Stored : KoreanDay(row[c].at) = d})]>>])

\* One line for each day of the period, the empty ones included.
ReadDays ==
  /\ screen.kind = "settlement" /\ Len(screen.sums) = 1
  /\ Show([screen EXCEPT !.sums = <<@[1],
             [d \in screen.from..screen.to |-> Line(Between(d, d))]>>])

\* One line for each machine that is switched on.
ReadMachines ==
  /\ screen.kind = "settlement" /\ Len(screen.sums) = 2
  /\ Show([screen EXCEPT !.done = TRUE, !.sums = <<@[1], @[2],
             [m \in Active |->
                Line({c \in Between(screen.from, screen.to) : MachineOf[c] = m})]>>])

\* Everything sent for the claims of each day up to today, in one query.
OpenStats ==
  /\ screen.kind = "closed"
  /\ Show([Closed EXCEPT !.kind = "stats", !.done = TRUE, !.to = Day(now),
             !.sums = <<[d \in 0..Day(now) |-> MoneyOut(Between(d, d))]>>])

-----------------------------------------------------------------------------
Init ==
  /\ now = 1
  /\ row = [c \in Claims |-> Absent]
  /\ till = [d \in Days |-> 0]
  /\ screen = Closed

Desk ==
  \/ \E c \in Claims : Arrive(c) \/ Hold(c) \/ Approve(c) \/ Reject(c) \/ Pay(c)

Next ==
  \/ Desk \/ Tick
  \/ \E f \in Filters : OpenList(f)
  \/ NextPage \/ OpenHome \/ ReadOldest
  \/ \E f, t \in 0..Day(MaxNow) : OpenSettlement(f, t)
  \/ ReadDays \/ ReadMachines \/ OpenStats

Spec == Init /\ [][Next]_vars

-----------------------------------------------------------------------------
(* What must hold.                                                         *)

\* The variables hold what the tables hold, and a screen what it shows.
TypeOK ==
  /\ now \in 1..MaxNow
  /\ row \in [Claims -> [status : Statuses, at : 0..MaxNow, approvedAt : 0..MaxNow,
                         paidAt : 0..MaxNow, paid : Nat]]
  /\ till \in [Days -> Nat]
  /\ DOMAIN screen = DOMAIN Closed
  /\ screen.kind \in {"closed", "list", "home", "settlement", "stats"}
  /\ screen.done \in BOOLEAN /\ screen.still \in BOOLEAN

\* Whoever turns all the pages has seen every claim that was there when he
\* began and has been what he asked for all along, though others have come and
\* gone.
PagesMissNone ==
  screen.kind = "list" /\ screen.done => screen.due \subseteq screen.shown

\* The pages show each of those claims, and no claim twice, though newer ones
\* push it down the list (query.go:48-100).
PagesShowEachOnce == PagesMissNone /\ ~screen.again

\* The home screen and the figures by day show the money that went out: that
\* of the Korean day on the one, all of it on the other.
ScreensShowMoneyOut ==
  screen.still /\ screen.kind \in {"home", "stats"} =>
    IF screen.kind = "home" THEN screen.sums[1] = till[screen.to]
    ELSE Total(screen.sums[1]) = Total(till)

\* "The oldest has been waiting since" is never later than the approval of a
\* claim that was counted as promised and still is, nor the time of a claim
\* that nobody waits for (home.go:76-82).
OldestPromiseShown ==
  screen.kind = "home" /\ screen.done =>
    /\ \A c \in screen.promised \cap In({"approved"}) :
         screen.oldest \in 1..row[c].approvedAt
    /\ screen.still /\ screen.oldest # 0 =>
         \E c \in In({"approved"}) : row[c].approvedAt = screen.oldest

\* The sum of lines, and one that is no larger than another.
AddedUp(lines) ==
  [claims |-> Total([x \in DOMAIN lines |-> lines[x].claims]),
   paid   |-> Total([x \in DOMAIN lines |-> lines[x].paid])]
AtMost(k, l) == k.claims <= l.claims /\ k.paid <= l.paid

\* The lines by day and by machine never add up to less than the totals above
\* them, and to the same if nothing was committed between the queries
\* (settlement_integration_test.go:97-103) - unless a machine is off.
SettlementAddsUp ==
  screen.kind = "settlement" /\ screen.done =>
    LET total    == screen.sums[1]
        days     == AddedUp(screen.sums[2])
        machines == AddedUp(screen.sums[3])
    IN /\ AtMost(total, days)
       /\ Active = Machines => AtMost(days, machines)
       /\ screen.still => total = days /\ (Active = Machines => days = machines)

\* What the comment on the settlement's lines says: they are the money that
\* went out (settlement.go:27).
SettlementIsMoneyOut ==
  screen.kind = "settlement" /\ screen.still /\ screen.from = 0 /\ screen.to = Day(now) =>
    screen.sums[1].paid = Total(till)
=============================================================================
