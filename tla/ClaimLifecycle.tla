--------------------------- MODULE ClaimLifecycle ---------------------------
(***************************************************************************)
(* The life of a refund claim after the intake: the claims table, its      *)
(* audit log claim_events, and the admin requests that read a row, decide  *)
(* in memory and write back under a compare-and-swap on the status         *)
(* (internal/domain/claim.go, internal/store/claim.go,                     *)
(* internal/httpapi/admin_claims.go).                                      *)
(*                                                                         *)
(* One element of Requests is one HTTP request: it is used once.  Every    *)
(* step is one statement or one transaction of Postgres, or the handler's  *)
(* own computation between two of them.                                    *)
(***************************************************************************)
EXTENDS Integers

CONSTANTS
  Claims,       \* ids of claims of one shop
  Requests,     \* HTTP requests to the admin API
  Staff,        \* ids of accounts of the shop
  Link,         \* the actor of a request that carries a link token only
  Customer,     \* the actor of a create event
  Nobody,       \* a NULL actor id, an empty name
  Amounts,      \* amounts customers ask for
  SentAmounts   \* values of "amountKrw" in a mark-paid body

ASSUME ActorsDistinct ==
  /\ Link \notin Staff /\ Customer \notin Staff /\ Nobody \notin Staff
  /\ Link # Customer /\ Link # Nobody /\ Customer # Nobody

\* ValidateAmount admits positive amounts only (CHECK (amount_krw > 0)).
ASSUME AmountsPositive == Amounts \subseteq Nat \ {0} /\ SentAmounts \subseteq Int

VARIABLES
  row,      \* table claims: claim -> row
  events,   \* table claim_events: a set of rows, ordered by their time `at`
  clock,    \* the time.Now() last read by the API process
  pc,       \* request -> where its handler stands
  job,      \* request -> what it asks for
  mem,      \* request -> the handler's copy of the row
  ev,       \* request -> the event Transition has returned
  reply,    \* request -> the answer sent
  names     \* request -> the names of approver and payer a detail shows

vars == <<row, events, clock, pc, job, mem, ev, reply, names>>

-----------------------------------------------------------------------------
(* Statuses and the transition table.                                      *)

Waiting  == {"pending", "needs_review", "on_hold"}
Terminal == {"paid", "rejected"}
Statuses == Waiting \cup {"approved"} \cup Terminal

transitions ==
  [s \in Statuses |->
     CASE s = "pending"      -> {"needs_review", "on_hold", "approved", "rejected"}
       [] s = "needs_review" -> {"on_hold", "approved", "rejected"}
       [] s = "on_hold"      -> {"needs_review", "approved", "rejected"}
       [] s = "approved"     -> {"paid", "rejected"}
       [] OTHER              -> {}]

Payments      == {"cash", "card", "unknown"}
PayoutMethods == {"deeplink", "manual", "card_void"}
Methods       == PayoutMethods \cup {""}

\* The status each admin endpoint asks for, and the two that only read.
Targets == {"approved", "rejected", "on_hold", "paid"}
Views   == {"detail", "payout_links"}

\* A time of 0, a method of "" and a paid amount of 0 are SQL's NULLs.
Rows == [status : Statuses \cup {"absent"}, payment : Payments, amount : Nat,
         resolvedAt : Nat, paidAt : Nat, method : Methods,
         paidAmount : Nat, resolvedBy : Staff \cup {Nobody}]

NoRow == [status |-> "absent", payment |-> "unknown", amount |-> 0,
          resolvedAt |-> 0, paidAt |-> 0, method |-> "", paidAmount |-> 0,
          resolvedBy |-> Nobody]

Actors == Staff \cup {Link}

Events == [claim : Claims, actor : Actors \cup {Customer},
           action : {"create", "transition", "view_contact"},
           from : Statuses \cup {""}, to : Statuses \cup {""}, at : Nat]

NewEvent(c, who, action, from, to, t) ==
  [claim |-> c, actor |-> who, action |-> action, from |-> from, to |-> to, at |-> t]

NoJob   == [claim |-> Nobody, actor |-> Nobody, to |-> ""]
NoEvent == [claim |-> Nobody, actor |-> Nobody, action |-> "", from |-> "",
            to |-> "", at |-> 0]
NoNames == [approvedBy |-> Nobody, paidBy |-> Nobody]

-----------------------------------------------------------------------------
(* The intake's last step: CreateClaim's transaction inserts the row and   *)
(* its create event.  Evaluate has chosen the status, never a decided one. *)

CreateClaim(c) ==
  /\ row[c] = NoRow
  /\ \E s \in Waiting, p \in Payments, a \in Amounts :
       /\ row' = [row EXCEPT ![c] =
                    [NoRow EXCEPT !.status = s, !.payment = p, !.amount = a]]
       /\ events' = events \cup {NewEvent(c, Customer, "create", "", s, clock + 1)}
  /\ clock' = clock + 1
  /\ UNCHANGED <<pc, job, mem, ev, reply, names>>

-----------------------------------------------------------------------------
(* handleApprove, handleReject, handleHold, handleMarkPaid.                *)

\* The handler writes its answer and returns: its locals are gone.  The
\* event of a change answered 200 is kept, for the properties only.
Answer(r, code) ==
  /\ pc' = [pc EXCEPT ![r] = "done"]
  /\ reply' = [reply EXCEPT ![r] = code]
  /\ job' = [job EXCEPT ![r] = NoJob]
  /\ mem' = [mem EXCEPT ![r] = NoRow]
  /\ names' = [names EXCEPT ![r] = NoNames]
  /\ ev' = [ev EXCEPT ![r] = IF code = "ok" THEN @ ELSE NoEvent]

\* ClaimByID: the first query of any request reads the claim's row, or
\* there is none and the answer is 404.
ReadClaim(r) ==
  /\ pc[r] = "new"
  /\ \E c \in Claims :
       \/ /\ row[c] # NoRow
          /\ \E who \in Actors, to \in Targets \cup Views :
               job' = [job EXCEPT ![r] = [claim |-> c, actor |-> who, to |-> to]]
          /\ mem' = [mem EXCEPT ![r] = row[c]]
          /\ pc' = [pc EXCEPT ![r] = "read"]
          /\ UNCHANGED <<ev, reply, names>>
       \/ row[c] = NoRow /\ Answer(r, "not_found")
  /\ UNCHANGED <<row, events, clock>>

\* Fault: a card payment may be recorded as a transfer.
AnyMethodFits(payment, method) == method # ""

\* A card payment is undone at the terminal, everything else is a transfer.
MethodFits(payment, method) ==
  IF payment = "card" THEN method = "card_void" ELSE method \in {"deeplink", "manual"}

\* 0 means "what was asked".
PaidAmount(c, sent) == IF sent = 0 THEN c.amount ELSE sent

\* Fault: no upper bound.
PayoutUnboundedAbove(c, method, sent) ==
  MethodFits(c.payment, method) /\ PaidAmount(c, sent) > 0

\* handleMarkPaid's checks on the body, made before the status is looked at.
PayoutAccepted(c, method, sent) ==
  MethodFits(c.payment, method) /\ PaidAmount(c, sent) \in 1..c.amount

\* Claim.Transition on the handler's copy, stamped with time t.
Transition(c, to, t) ==
  [c EXCEPT !.status = to,
            !.resolvedAt = IF to \in Terminal THEN t ELSE @,
            !.paidAt = IF to = "paid" THEN t ELSE @]

Decide(r, method, sent) ==
  LET to == job[r].to
      c  == IF to = "paid"
              THEN [mem[r] EXCEPT !.method = method,
                                  !.paidAmount = PaidAmount(mem[r], sent)]
              ELSE mem[r]
  IN /\ pc[r] = "read" /\ to \in Targets
     /\ to = "paid" => PayoutAccepted(mem[r], method, sent)
     /\ to \in transitions[mem[r].status]
     /\ mem' = [mem EXCEPT ![r] = Transition(c, to, clock + 1)]
     /\ ev' = [ev EXCEPT ![r] = NewEvent(job[r].claim, job[r].actor, "transition",
                                         mem[r].status, to, clock + 1)]
     /\ clock' = clock + 1
     /\ pc' = [pc EXCEPT ![r] = "decided"]
     /\ UNCHANGED <<row, events, job, reply, names>>

\* 400 for the body, otherwise 409 invalid_transition: nothing was written.
Refuse(r, method, sent) ==
  LET bad == job[r].to = "paid" /\ ~PayoutAccepted(mem[r], method, sent)
  IN /\ pc[r] = "read" /\ job[r].to \in Targets
     /\ bad \/ job[r].to \notin transitions[mem[r].status]
     /\ Answer(r, IF bad THEN "bad_request" ELSE "invalid_transition")
     /\ UNCHANGED <<row, events, clock>>

\* Fault: resolved_by = $6 without the COALESCE.
UpdatedForgetful(old, c, who) ==
  [c EXCEPT !.resolvedBy = IF who \in Staff THEN who ELSE Nobody]

\* The SET list of the UPDATE: NULLs, "" and 0 keep what the row has.
Updated(old, c, who) ==
  [old EXCEPT !.status = c.status,
              !.resolvedAt = IF c.resolvedAt = 0 THEN @ ELSE c.resolvedAt,
              !.paidAt = IF c.paidAt = 0 THEN @ ELSE c.paidAt,
              !.method = IF c.method = "" THEN @ ELSE c.method,
              !.paidAmount = IF c.paidAmount = 0 THEN @ ELSE c.paidAmount,
              !.resolvedBy = IF who \in Staff THEN who ELSE @]

\* Fault: the UPDATE without its condition on the status.
ApplyBlind(r) ==
  /\ pc[r] = "decided"
  /\ row' = [row EXCEPT ![job[r].claim] = Updated(@, mem[r], ev[r].actor)]
  /\ events' = events \cup {ev[r]}
  /\ Answer(r, "ok")
  /\ UNCHANGED clock

\* ApplyTransition found the status it expected and committed row and
\* event together.  The answer is 200, or 500 if the commit's own
\* acknowledgement was lost.
Apply(r) ==
  LET c == job[r].claim
  IN /\ pc[r] = "decided"
     /\ row[c].status = ev[r].from
     /\ row' = [row EXCEPT ![c] = Updated(@, mem[r], ev[r].actor)]
     /\ events' = events \cup {ev[r]}
     /\ \E code \in {"ok", "error"} : Answer(r, code)
     /\ UNCHANGED clock

\* Fault: RowsAffected is not looked at.
ApplyUnnoticed(r) ==
  /\ pc[r] = "decided"
  /\ row[job[r].claim].status # ev[r].from
  /\ Answer(r, "ok")
  /\ UNCHANGED <<row, events, clock>>

\* Somebody else was first: no row matched, 409 stale.
ApplyStale(r) ==
  /\ pc[r] = "decided"
  /\ row[job[r].claim].status # ev[r].from
  /\ Answer(r, "stale")
  /\ UNCHANGED <<row, events, clock>>

\* A query failed, the transaction was rolled back or the process died.
Fail(r) ==
  /\ pc[r] # "done"
  /\ Answer(r, "error")
  /\ UNCHANGED <<row, events, clock>>

-----------------------------------------------------------------------------
(* handleClaimDetail and handlePayoutLinks.                                *)

StatusEvents(c) == {e \in events : e.claim = c /\ e.action # "view_contact"}

\* Fault: an actor without an account has no name.
LastAccount(c, to) ==
  LET hits == {e \in StatusEvents(c) : e.to = to /\ e.actor \in Staff}
  IN IF hits = {} THEN Nobody ELSE (CHOOSE e \in hits : TRUE).actor

\* The actor of the last transition of c to `to`, as ClaimByID's loop over
\* eventsFor leaves it in ApprovedBy and PaidBy.
LastActor(c, to) ==
  LET hits == {e \in StatusEvents(c) : e.action = "transition" /\ e.to = to}
  IN IF hits = {} THEN Nobody
     ELSE (CHOOSE e \in hits : \A f \in hits : f.at <= e.at).actor

\* eventsFor: a later query than the one that read the row.
ListEvents(r) ==
  LET c == job[r].claim
  IN /\ pc[r] = "read" /\ job[r].to \in Views
     /\ names' = [names EXCEPT ![r] = [approvedBy |-> LastActor(c, "approved"),
                                       paidBy |-> LastActor(c, "paid")]]
     /\ pc' = [pc EXCEPT ![r] = "listed"]
     /\ UNCHANGED <<row, events, clock, job, mem, ev, reply>>

\* The reading is logged if it can be, and answered in any case; payout
\* links are only given for a claim that was approved when it was read.
FinishView(r) ==
  LET c == job[r].claim
  IN /\ pc[r] = "listed"
     /\ \/ /\ events' = events \cup
                {NewEvent(c, job[r].actor, "view_contact", "", "", clock + 1)}
           /\ clock' = clock + 1
        \/ UNCHANGED <<events, clock>>
     /\ Answer(r, IF job[r].to = "payout_links" /\ mem[r].status # "approved"
                    THEN "not_approved" ELSE "ok")
     /\ UNCHANGED row

-----------------------------------------------------------------------------
Init ==
  /\ row = [c \in Claims |-> NoRow]
  /\ events = {}
  /\ clock = 0
  /\ pc = [r \in Requests |-> "new"]
  /\ job = [r \in Requests |-> NoJob]
  /\ mem = [r \in Requests |-> NoRow]
  /\ ev = [r \in Requests |-> NoEvent]
  /\ reply = [r \in Requests |-> ""]
  /\ names = [r \in Requests |-> NoNames]

Handle(r) ==
  \/ ReadClaim(r)
  \/ \E method \in Methods, sent \in SentAmounts :
       Decide(r, method, sent) \/ Refuse(r, method, sent)
  \/ Apply(r) \/ ApplyStale(r) \/ Fail(r)
  \/ ListEvents(r) \/ FinishView(r)

Next ==
  \/ \E c \in Claims : CreateClaim(c)
  \/ \E r \in Requests : Handle(r)

Spec == Init /\ [][Next]_vars

-----------------------------------------------------------------------------
(* Correctness.                                                            *)

Jobs  == [claim : Claims, actor : Actors, to : Targets \cup Views] \cup {NoJob}
Codes == {"", "ok", "error", "stale", "not_found", "not_approved",
          "bad_request", "invalid_transition"}
PCs   == {"new", "read", "decided", "listed", "done"}

\* Rows, events and the handlers' copies keep the shape of their tables.
TypeOK ==
  /\ row \in [Claims -> Rows]
  /\ events \subseteq Events
  /\ clock \in Nat
  /\ pc \in [Requests -> PCs]
  /\ job \in [Requests -> Jobs]
  /\ mem \in [Requests -> Rows]
  /\ ev \in [Requests -> Events \cup {NoEvent}]
  /\ reply \in [Requests -> Codes]
  /\ names \in [Requests -> [approvedBy : Actors \cup {Customer, Nobody},
                             paidBy : Actors \cup {Customer, Nobody}]]

\* The log of c, read in the order eventsFor reads it, is one unbroken chain
\* of status changes, and the row's status is the newest of them.
Chained(c) ==
  LET log == StatusEvents(c)
      Follows(f, e) == /\ e.at < f.at /\ e.to = f.from
                       /\ ~\E g \in log : e.at < g.at /\ g.at < f.at
  IN /\ \A f \in log : f.action = "transition" => \E e \in log : Follows(f, e)
     /\ row[c] # NoRow =>
          \E f \in log : f.to = row[c].status /\ \A g \in log : g.at <= f.at

\* Row and log never part, whatever requests raced and although an event's
\* time is taken before its transaction commits (the promise of
\* ApplyTransition).
AuditChain == \A c \in Claims : Chained(c)

\* No two transitions of a claim to "paid" are ever recorded: the double
\* refund the transition table is there to prevent.
PaidOnce ==
  \A c \in Claims : \A e, f \in StatusEvents(c) :
    e.to = "paid" /\ f.to = "paid" => e = f

\* A terminal takes card payments back and nothing else.
TrueChannel(payment, method) ==
  method \in PayoutMethods /\ (payment = "card" <=> method = "card_void")

\* A paid row says how and how much, by a method that fits the payment and
\* within the amount asked, at the time its event says; a row that is not
\* paid says nothing of the kind, even if it was once approved.
LedgerFits(c) ==
  /\ row[c].status = "paid" =>
       /\ TrueChannel(row[c].payment, row[c].method)
       /\ row[c].paidAmount \in 1..row[c].amount
       /\ \E e \in StatusEvents(c) :
            e.to = "paid" /\ e.at = row[c].paidAt /\ e.at = row[c].resolvedAt
  /\ row[c].status = "rejected" =>
       \E e \in StatusEvents(c) : e.to = "rejected" /\ e.at = row[c].resolvedAt
  /\ row[c].status # "paid" =>
       row[c].paidAt = 0 /\ row[c].paidAmount = 0 /\ row[c].method = ""
  /\ row[c].status \notin Terminal => row[c].resolvedAt = 0

\* What the row says of a decision is what the log says of it.
LedgerMatchesLog == \A c \in Claims : LedgerFits(c)

\* resolved_by is the account behind the newest status change an account
\* made: a change through a link leaves the earlier account in place.
ResolverFits(c) ==
  LET own == {e \in StatusEvents(c) : e.actor \in Staff}
  IN \/ own = {} /\ row[c].resolvedBy = Nobody
     \/ \E e \in own : e.actor = row[c].resolvedBy /\ \A f \in own : f.at <= e.at

\* It holds of every claim, whoever raced for it.
ResolverIsLastAccount == \A c \in Claims : ResolverFits(c)

\* A detail that shows a claim as approved or paid names who did it, though
\* row and log are read by separate queries outside a transaction.
DetailNamesItsDecider ==
  \A r \in Requests :
    pc[r] = "listed" =>
      /\ mem[r].status = "approved" => names[r].approvedBy # Nobody
      /\ mem[r].status = "paid" => names[r].paidBy # Nobody

\* A request that was answered 200 changed the claim itself: no two of them
\* share an event, and the event is in the log under its own actor.
OkMeansRecorded ==
  \A r \in Requests :
    reply[r] = "ok" /\ ev[r] # NoEvent =>
      /\ ev[r] \in events
      /\ \A q \in Requests \ {r} : ev[q] # ev[r]

\* No step of anyone changes a paid or rejected claim's row in any column.
TerminalIsFinal ==
  [][\A c \in Claims : row[c].status \in Terminal => row'[c] = row[c]]_row

\* Requests and reviews aside, the store keeps the book of RefundBook.
BookStage(s) ==
  IF s = "absent" THEN "unopened" ELSE IF s \in Waiting THEN "open" ELSE s

Entry(c) == [stage |-> BookStage(c.status), due |-> c.amount, out |-> c.paidAmount]
BookView == [c \in Claims |-> Entry(row[c])]

Book == INSTANCE RefundBook WITH book <- BookView

\* Every behaviour of the racing handlers is one of the abstract book:
\* opened once, approved before paid, paid once and within the amount.
ImplementsBook == Book!Spec
=============================================================================
