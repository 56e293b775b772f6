------------------------------- MODULE Market -------------------------------
(***************************************************************************)
(* The second-hand market between shops: listings that their owner takes   *)
(* down, that expire, or that are removed when enough other shops report   *)
(* them; and telephone numbers, which a shop may open a few times a day    *)
(* and never without a row in the log (internal/store/listing.go,          *)
(* internal/httpapi/admin_market.go, internal/domain/listing.go).          *)
(*                                                                         *)
(* A handler looks at the listing first and acts in later statements.  In  *)
(* the transaction of a report the UPDATE of the count locks the listing   *)
(* until the commit, so count, removal and commit are one step.  Requests  *)
(* that are turned away or fail without a write are no steps but Leave.    *)
(***************************************************************************)
EXTENDS Integers, FiniteSets

CONSTANTS
  Shops,
  Listings,
  Handlers,            \* requests served at the same time
  Nobody,              \* no shop, no listing
  ListingReportLimit,
  ListingDays,         \* how long a listing stays up, in ticks
  contactsPerDay,
  DayLength,           \* ticks of a day
  MaxNow               \* bound of the clock

ASSUME NobodyNew == Nobody \notin Shops \cup Listings
ASSUME HandlersFinite == IsFiniteSet(Handlers)
ASSUME LimitsType ==
  /\ ListingReportLimit \in Nat \ {0} /\ contactsPerDay \in Nat \ {0}
  /\ DayLength \in Nat \ {0} /\ ListingDays \in Nat /\ MaxNow \in Nat

VARIABLES
  now,       \* the clock
  listing,   \* table listings: listing -> row
  reports,   \* table listing_reports: a set of [listing, shop], unique
  contacts,  \* table listing_contacts: shop -> listing -> time -> rows
  pc,        \* handler -> where it stands
  job,       \* handler -> who asks about what, and when the request came
  shown      \* shop -> listing -> how often its number was answered

vars == <<now, listing, reports, contacts, pc, job, shown>>

-----------------------------------------------------------------------------
Times == 0..MaxNow
NoJob == [shop |-> Nobody, listing |-> Nobody, at |-> 0]

Absent == [owner |-> Nobody, status |-> "absent", count |-> 0, expires |-> 0]
Posted(s) == [owner |-> s, status |-> "open", count |-> 0, expires |-> now + ListingDays]

Goto(h, here) == pc' = [pc EXCEPT ![h] = here]

\* The handler answers, or a statement of it fails: a transaction that is
\* still open is rolled back.
Return(h) == Goto(h, "idle") /\ job' = [job EXCEPT ![h] = NoJob]

Leave(h) ==
  /\ pc[h] # "idle"
  /\ Return(h)
  /\ UNCHANGED <<now, listing, reports, contacts, shown>>

-----------------------------------------------------------------------------
(* handleCreateListing, handleCloseListing.                                *)

\* A shop that has registered its region and number posts a listing.
CreateListing(s, l) ==
  /\ listing[l] = Absent
  /\ listing' = [listing EXCEPT ![l] = Posted(s)]
  /\ UNCHANGED <<now, reports, contacts, pc, job, shown>>

\* One UPDATE of the owner's own listing, if it is still open.
CloseListing(l) ==
  /\ listing[l].status = "open"
  /\ listing' = [listing EXCEPT ![l].status = "closed"]
  /\ UNCHANGED <<now, reports, contacts, pc, job, shown>>

-----------------------------------------------------------------------------
(* ListingByID, the first query of the handlers below.                     *)

\* Another shop's listing is found while it is open and has not expired;
\* one's own is found and turned away.
Found(s, l) ==
  listing[l].owner # s /\ listing[l].status = "open" /\ listing[l].expires > now

ListingByID(h, s, l, here) ==
  /\ pc[h] = "idle" /\ Found(s, l)
  /\ Goto(h, here)
  /\ job' = [job EXCEPT ![h] = [shop |-> s, listing |-> l, at |-> now]]
  /\ UNCHANGED <<now, listing, reports, contacts, shown>>

-----------------------------------------------------------------------------
(* handleListingContact.                                                   *)

DayStart(t) == t - (t % DayLength)

\* The rows of a shop about a listing, those of each time numbered.
RowsOf(s, l, times) == UNION {{<<l, t>>} \X (1..contacts[s][l][t]) : t \in times}
Rows(s, times)      == UNION {RowsOf(s, l, times) : l \in Listings}

\* Rows since the midnight before the request came.
ContactsTodayFor(h) == Cardinality(Rows(job[h].shop, DayStart(job[h].at)..now))

\* Fault: the limit itself is let pass.
CountTooFar(h) ==
  /\ pc[h] = "contact"
  /\ ContactsTodayFor(h) <= contactsPerDay
  /\ Goto(h, "allowed")
  /\ UNCHANGED <<now, listing, reports, contacts, job, shown>>

CountContacts(h) ==
  /\ pc[h] = "contact"
  /\ ContactsTodayFor(h) < contactsPerDay
  /\ Goto(h, "allowed")
  /\ UNCHANGED <<now, listing, reports, contacts, job, shown>>

Log(s, l)  == contacts' = [contacts EXCEPT ![s][l][now] = @ + 1]
Show(s, l) == shown' = [shown EXCEPT ![s][l] = @ + 1]

\* ContactFor writes the row and gives the number, whatever has become of
\* the listing; if the answer of the INSERT is lost, it does not.
ContactFor(h) ==
  /\ pc[h] = "allowed"
  /\ Log(job[h].shop, job[h].listing)
  /\ Show(job[h].shop, job[h].listing) \/ UNCHANGED shown
  /\ Return(h)
  /\ UNCHANGED <<now, listing, reports>>

-----------------------------------------------------------------------------
(* handleReportListing.                                                    *)

Report(h) == [listing |-> job[h].listing, shop |-> job[h].shop]

\* Fault: no unique index on (listing_id, reporter_store_id).
InsertReportAgain(h) ==
  /\ pc[h] = "report"
  /\ Goto(h, "reported") /\ job' = job
  /\ UNCHANGED <<now, listing, reports, contacts, shown>>

\* The INSERT waits for an open transaction with the same row, and does
\* nothing if the shop has reported the listing before.
InsertReport(h) ==
  /\ pc[h] = "report"
  /\ ~\E g \in Handlers : pc[g] = "reported" /\ Report(g) = Report(h)
  /\ IF Report(h) \in reports
       THEN Return(h)
       ELSE Goto(h, "reported") /\ job' = job
  /\ UNCHANGED <<now, listing, reports, contacts, shown>>

\* Fault: the removal does not look at the status.
RemovedAnyway(row, n) ==
  [row EXCEPT !.count = n, !.status = IF n >= ListingReportLimit THEN "removed" ELSE @]

\* The count goes up, and at the limit an open listing is removed.
Removed(row, n) ==
  [row EXCEPT !.count = n,
              !.status = IF n >= ListingReportLimit /\ @ = "open" THEN "removed" ELSE @]

CommitReport(h) ==
  LET l == job[h].listing
  IN /\ pc[h] = "reported"
     /\ reports' = reports \cup {Report(h)}
     /\ listing' = [listing EXCEPT ![l] = Removed(@, @.count + 1)]
     /\ Return(h)
     /\ UNCHANGED <<now, contacts, shown>>

-----------------------------------------------------------------------------
Tick ==
  /\ now < MaxNow
  /\ now' = now + 1
  /\ UNCHANGED <<listing, reports, contacts, pc, job, shown>>

Init ==
  /\ now = 0
  /\ listing = [l \in Listings |-> Absent]
  /\ reports = {}
  /\ contacts = [s \in Shops |-> [l \in Listings |-> [t \in Times |-> 0]]]
  /\ pc = [h \in Handlers |-> "idle"]
  /\ job = [h \in Handlers |-> NoJob]
  /\ shown = [s \in Shops |-> [l \in Listings |-> 0]]

Handle(h) ==
  \/ \E s \in Shops, l \in Listings, here \in {"contact", "report"} :
       ListingByID(h, s, l, here)
  \/ CountContacts(h) \/ ContactFor(h) \/ InsertReport(h) \/ CommitReport(h) \/ Leave(h)

Next ==
  \/ \E s \in Shops, l \in Listings : CreateListing(s, l)
  \/ \E l \in Listings : CloseListing(l)
  \/ \E h \in Handlers : Handle(h)
  \/ Tick

Spec == Init /\ [][Next]_vars

-----------------------------------------------------------------------------
(* Correctness.                                                            *)

\* Rows and handlers keep their types, and no handler works on a listing
\* of its own shop.
TypeOK ==
  /\ now \in Times
  /\ listing \in [Listings ->
       [owner : Shops, status : {"open", "closed", "removed"}, count : Nat, expires : Nat]
         \cup {Absent}]
  /\ reports \subseteq [listing : Listings, shop : Shops]
  /\ contacts \in [Shops -> [Listings -> [Times -> Nat]]]
  /\ pc \in [Handlers -> {"idle", "contact", "allowed", "report", "reported"}]
  /\ job \in [Handlers -> [shop : Shops, listing : Listings, at : 0..now] \cup {NoJob}]
  /\ \A h \in Handlers :
       pc[h] # "idle" =>
         job[h] # NoJob /\ listing[job[h].listing].owner \notin {job[h].shop, Nobody}
  /\ shown \in [Shops -> [Listings -> Nat]]

Reporters(l) == {r.shop : r \in {r \in reports : r.listing = l}}

\* A listing is down by reports exactly when ListingReportLimit different
\* shops, none of them its owner, have reported it and its owner had not taken
\* it down before: no shop does it alone by pressing the button again or twice
\* at once, and no listing stays up because reports raced (listing.go:280-281).
ReportsDecide ==
  \A l \in Listings :
    LET many == Cardinality(Reporters(l)) >= ListingReportLimit
    IN /\ listing[l].status = "removed" => many
       /\ listing[l].status = "open" => ~many
       /\ listing[l].owner \notin Reporters(l)

\* What its owner has taken down stays as he left it: a report that was on
\* its way does not turn it into a listing removed for abuse.
ClosedStaysClosed ==
  [][\A l \in Listings : listing[l].status = "closed" => listing'[l].status = "closed"]_vars

\* No number is given without a row that says who has seen it, also when the
\* answer of the INSERT is lost (listing.go:248-252).
NumberIsLogged ==
  \A s \in Shops, l \in Listings :
    shown[s][l] <= Cardinality(RowsOf(s, l, Times))

Day(d) == (d * DayLength)..((d + 1) * DayLength - 1) \cap Times

\* A shop opens at most contactsPerDay numbers between two midnights, but for
\* the requests it has under way at the same time (admin_market.go:14): that
\* many rows are written, and none of the numbers goes without one.
ContactsBounded ==
  /\ NumberIsLogged
  /\ \A s \in Shops, d \in 0..(MaxNow \div DayLength) :
       Cardinality(Rows(s, Day(d))) <= contactsPerDay + Cardinality(Handlers) - 1
=============================================================================
