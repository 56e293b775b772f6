---------------------------- MODULE Market_proofs ----------------------------
(***************************************************************************)
(* What TLAPS proves of Market, for any number of shops, listings and      *)
(* requests, and any limits.                                               *)
(*                                                                         *)
(* The argument.  The unique index lets one open transaction at a time     *)
(* hold the report of a shop on a listing, and none if the report is there *)
(* already; so the count of a listing is the number of shops that have     *)
(* reported it, and an open listing is removed by the very report that     *)
(* reaches the limit.  Whoever works on a listing is not its owner, since  *)
(* an owner never changes.  Whoever passes the limit of the day has seen   *)
(* fewer rows than it allows, from a midnight on that is no later than     *)
(* this day's; so at most the requests under way write rows beyond it.     *)
(***************************************************************************)
EXTENDS Market, FiniteSetTheorems, TLAPS

\* The count of a listing is the number of its reporters, and its status is
\* what the count and its owner made of it.
ListingInv(l) ==
  /\ IsFiniteSet(Reporters(l))
  /\ listing[l].count = Cardinality(Reporters(l))
  /\ listing[l].status = "removed" => listing[l].count >= ListingReportLimit
  /\ listing[l].status \in {"open", "absent"} => listing[l].count < ListingReportLimit
  /\ listing[l].owner \notin Reporters(l)

\* A report that will be counted is not in the table, and no other request
\* is about to count it.
HandlerInv(h) ==
  pc[h] = "reported" =>
    /\ Report(h) \notin reports
    /\ \A g \in Handlers : pc[g] = "reported" /\ Report(g) = Report(h) => g = h

\* The requests of a shop that have passed the limit and write their row next.
Under(s) == {h \in Handlers : pc[h] = "allowed" /\ job[h].shop = s}

\* Numbers have their rows, and a day has no more of them than were let pass
\* below the limit, together with those that still will be written.
ContactInv(s) ==
  /\ IsFiniteSet(Rows(s, Times))
  /\ \A l \in Listings, t \in Times : t > now => contacts[s][l][t] = 0
  /\ \A l \in Listings : shown[s][l] <= Cardinality(RowsOf(s, l, Times))
  /\ \A d \in Nat :
       Cardinality(Rows(s, Day(d)))
         + (IF now < (d + 1) * DayLength THEN Cardinality(Under(s)) ELSE 0)
         <= contactsPerDay + Cardinality(Handlers) - 1

IInv ==
  /\ TypeOK
  /\ \A l \in Listings : ListingInv(l)
  /\ \A h \in Handlers : HandlerInv(h)
  /\ \A s \in Shops : ContactInv(s)

Row == [owner : Shops, status : {"open", "closed", "removed"}, count : Nat, expires : Nat]
Job == [shop : Shops, listing : Listings, at : 0..now]

-----------------------------------------------------------------------------
LEMMA InitHolds == Init => IInv
<1>0. 0 \in Nat /\ 0 \in Times /\ MaxNow \in Nat /\ 0 < ListingReportLimit
  BY LimitsType DEF Times
<1> SUFFICES ASSUME Init PROVE IInv
  OBVIOUS
<1> USE DEF Init
<1>1. TypeOK
  <2>1. now \in Times
    BY <1>0, Zenon
  <2>2. contacts \in [Shops -> [Listings -> [Times -> Nat]]]
    BY <1>0
  <2>3. shown \in [Shops -> [Listings -> Nat]]
    BY <1>0
  <2> QED
    BY <2>1, <2>2, <2>3 DEF TypeOK
<1>2. ASSUME NEW l \in Listings PROVE ListingInv(l)
  <2>1. Reporters(l) = {} /\ listing[l] = Absent
    BY DEF Reporters
  <2>2. Cardinality({}) = 0 /\ IsFiniteSet({})
    BY FS_EmptySet
  <2> HIDE DEF Init
  <2> QED
    BY <1>0, <2>1, <2>2 DEF ListingInv, Absent
<1>3. ASSUME NEW h \in Handlers PROVE HandlerInv(h)
  BY DEF HandlerInv
<1>4. ASSUME NEW s \in Shops PROVE ContactInv(s)
  <2>1. \A l \in Listings, t \in Times : contacts[s][l][t] = 0
    OBVIOUS
  <2>2. 1..0 = {}
    OBVIOUS
  <2>3. \A T \in SUBSET Times : Rows(s, T) = {} /\ \A l \in Listings : RowsOf(s, l, T) = {}
    BY <2>1, <2>2 DEF Rows, RowsOf
  <2>4. Cardinality({}) = 0 /\ IsFiniteSet({})
    BY FS_EmptySet
  <2>5. Under(s) = {}
    BY DEF Under
  <2>6. \A d \in Nat : Day(d) \in SUBSET Times
    BY DEF Day
  <2>7. /\ \A d \in Nat : Cardinality(Rows(s, Day(d))) = 0
        /\ \A l \in Listings : Cardinality(RowsOf(s, l, Times)) = 0
        /\ IsFiniteSet(Rows(s, Times)) /\ Cardinality(Under(s)) = 0
    BY <2>3, <2>4, <2>5, <2>6
  <2>8. contactsPerDay \in Nat \ {0} /\ Cardinality(Handlers) \in Nat
    BY LimitsType, HandlersFinite, FS_CardinalityType
  <2>9. \A l \in Listings : shown[s][l] = 0
    OBVIOUS
  <2> HIDE DEF Init
  <2> QED
    BY <2>1, <2>7, <2>8, <2>9 DEF ContactInv
<1> QED
  BY <1>1, <1>2, <1>3, <1>4 DEF IInv

\* A request under way asks for a shop about a listing of another shop.
LEMMA JobIsDone ==
  ASSUME TypeOK, NEW h \in Handlers, pc[h] # "idle"
  PROVE  /\ job[h] \in Job /\ job[h].shop \in Shops /\ job[h].listing \in Listings
         /\ listing[job[h].listing] \in Row
         /\ listing[job[h].listing].owner # job[h].shop
<1>1. job[h] \in Job \cup {NoJob}
  BY DEF TypeOK, Job
<1>2. listing[job[h].listing].owner \notin {job[h].shop, Nobody}
  BY DEF TypeOK
<1>3. job[h] # NoJob
  BY DEF TypeOK
<1>4. job[h] \in Job
  BY <1>1, <1>3
<1>5. listing[job[h].listing] \in Row \cup {Absent}
  BY <1>4 DEF TypeOK, Row, Job
<1>6. listing[job[h].listing] # Absent
  BY <1>2 DEF Absent
<1> QED
  BY <1>2, <1>4, <1>5, <1>6 DEF Job

\* What a report makes of a row.
LEMMA RemovedIsRow ==
  ASSUME NEW row \in Row, NEW n \in Nat
  PROVE  /\ Removed(row, n) \in Row
         /\ Removed(row, n).owner = row.owner /\ Removed(row, n).count = n
         /\ Removed(row, n).status = IF n >= ListingReportLimit /\ row.status = "open"
                                     THEN "removed" ELSE row.status
<1>1. CASE n >= ListingReportLimit /\ row.status = "open"
  BY <1>1 DEF Removed, Row
<1>2. CASE ~(n >= ListingReportLimit /\ row.status = "open")
  BY <1>2 DEF Removed, Row
<1> QED
  BY <1>1, <1>2

-----------------------------------------------------------------------------
(* The types.                                                              *)

LEMMA TypeKeeps ==
  ASSUME TypeOK, [Next]_vars PROVE TypeOK'
<1>0. /\ now \in Nat /\ MaxNow \in Nat /\ ListingDays \in Nat /\ now \in Times
      /\ listing \in [Listings -> Row \cup {Absent}]
      /\ reports \subseteq [listing : Listings, shop : Shops]
      /\ contacts \in [Shops -> [Listings -> [Times -> Nat]]]
      /\ pc \in [Handlers -> {"idle", "contact", "allowed", "report", "reported"}]
      /\ job \in [Handlers -> Job \cup {NoJob}]
      /\ \A h \in Handlers : pc[h] # "idle" =>
           job[h] # NoJob /\ listing[job[h].listing].owner \notin {job[h].shop, Nobody}
      /\ shown \in [Shops -> [Listings -> Nat]]
  BY LimitsType DEF TypeOK, Times, Row, Job
<1>a. \A h \in Handlers : pc[h] # "idle" =>
        job[h] \in Job /\ job[h].shop \in Shops /\ job[h].listing \in Listings
  BY JobIsDone
<1> DEFINE Typed ==
      /\ listing' \in [Listings -> Row \cup {Absent}]
      /\ reports' \subseteq [listing : Listings, shop : Shops]
      /\ pc' \in [Handlers -> {"idle", "contact", "allowed", "report", "reported"}]
      /\ job' \in [Handlers -> Job \cup {NoJob}]
      /\ \A h \in Handlers : pc'[h] # "idle" =>
           job'[h] # NoJob /\ listing'[job'[h].listing].owner \notin {job'[h].shop, Nobody}
<1>b. ASSUME now' = now, Typed, contacts' \in [Shops -> [Listings -> [Times -> Nat]]],
             shown' \in [Shops -> [Listings -> Nat]]
      PROVE  TypeOK'
  BY <1>0, <1>b DEF TypeOK, Row, Job
<1> HIDE DEF Typed
\* A row that keeps its owner disturbs nobody's request.
<1>c. ASSUME NEW l \in Listings, NEW row \in Row, row.owner = listing[l].owner \/ listing[l] = Absent,
             listing' = [listing EXCEPT ![l] = row], UNCHANGED <<now, reports, contacts, pc, job, shown>>
      PROVE  TypeOK'
  <2>1. listing' \in [Listings -> Row \cup {Absent}]
    BY <1>0, <1>c
  <2>2. ASSUME NEW h \in Handlers, pc[h] # "idle"
        PROVE  job[h] # NoJob /\ listing'[job[h].listing].owner \notin {job[h].shop, Nobody}
    <3>1. listing[job[h].listing] # Absent
      BY <1>0, <2>2 DEF Absent
    <3> QED
      BY <1>0, <1>a, <1>c, <2>2, <3>1
  <2>3. Typed
    BY <1>0, <1>c, <2>1, <2>2 DEF Typed
  <2> QED
    BY <1>b, <1>c, <2>3, <1>0
<1>1. ASSUME NEW s \in Shops, NEW l \in Listings, CreateListing(s, l) PROVE TypeOK'
  <2>1. Posted(s) \in Row
    BY <1>0 DEF Posted, Row
  <2> QED
    BY <1>1, <1>c, <2>1 DEF CreateListing
<1>2. ASSUME NEW l \in Listings, CloseListing(l) PROVE TypeOK'
  <2>1. listing[l] \in Row
    BY <1>0, <1>2 DEF CloseListing, Absent
  <2>2. [listing[l] EXCEPT !.status = "closed"] \in Row
        /\ [listing[l] EXCEPT !.status = "closed"].owner = listing[l].owner
    BY <2>1 DEF Row
  <2>3. listing' = [listing EXCEPT ![l] = [listing[l] EXCEPT !.status = "closed"]]
    BY <1>2 DEF CloseListing
  <2> QED
    BY <1>2, <1>c, <2>2, <2>3 DEF CloseListing
<1>3. ASSUME NEW h \in Handlers, NEW s \in Shops, NEW l \in Listings,
             NEW here \in {"contact", "report"}, ListingByID(h, s, l, here)
      PROVE  TypeOK'
  <2> DEFINE new == [shop |-> s, listing |-> l, at |-> now]
  <2>1. new \in Job /\ new.shop = s /\ new.listing = l /\ new # NoJob
    BY <1>0, NobodyNew DEF Job, NoJob
  <2>2. listing[l].owner \notin {s, Nobody}
    <3>1. listing[l] \in Row
      BY <1>0, <1>3 DEF ListingByID, Found, Absent
    <3> QED
      BY <1>3, <3>1, NobodyNew DEF ListingByID, Found, Row
  <2>3. job' = [job EXCEPT ![h] = new] /\ pc' = [pc EXCEPT ![h] = here]
        /\ UNCHANGED <<now, listing, reports, contacts, shown>>
    BY <1>3 DEF ListingByID, Goto
  <2> HIDE DEF new
  <2>4. Typed
    BY <1>0, <2>1, <2>2, <2>3 DEF Typed
  <2> QED
    BY <1>b, <2>3, <2>4, <1>0
<1>d. ASSUME NEW h \in Handlers, Return(h), UNCHANGED <<listing>>,
             reports' \subseteq [listing : Listings, shop : Shops]
      PROVE  Typed
  BY <1>0, <1>d DEF Typed, Return, Goto
<1>4. ASSUME NEW h \in Handlers, CountContacts(h) PROVE TypeOK'
  <2>1. Typed
    BY <1>0, <1>4 DEF Typed, CountContacts, Goto
  <2> QED
    BY <1>b, <1>4, <2>1, <1>0 DEF CountContacts
<1>5. ASSUME NEW h \in Handlers, ContactFor(h) PROVE TypeOK'
  <2>0. job[h].shop \in Shops /\ job[h].listing \in Listings
    BY <1>5, <1>a DEF ContactFor
  <2>1. Typed
    BY <1>0, <1>5, <1>d DEF ContactFor
  <2>2. contacts' \in [Shops -> [Listings -> [Times -> Nat]]]
    BY <1>0, <1>5, <2>0 DEF ContactFor, Log
  <2>3. shown' \in [Shops -> [Listings -> Nat]]
    <3>1. CASE UNCHANGED shown
      BY <1>0, <3>1
    <3>2. CASE Show(job[h].shop, job[h].listing)
      BY <1>0, <2>0, <3>2 DEF Show
    <3> QED
      BY <1>5, <3>1, <3>2 DEF ContactFor
  <2> QED
    BY <1>b, <1>5, <2>1, <2>2, <2>3 DEF ContactFor
<1>6. ASSUME NEW h \in Handlers, InsertReport(h) PROVE TypeOK'
  <2>1. Typed
    <3>1. CASE Report(h) \in reports
      BY <1>0, <1>6, <1>d, <3>1 DEF InsertReport
    <3>2. CASE Report(h) \notin reports
      BY <1>0, <1>6, <3>2 DEF Typed, InsertReport, Goto
    <3> QED
      BY <3>1, <3>2
  <2> QED
    BY <1>b, <1>6, <2>1, <1>0 DEF InsertReport
<1>7. ASSUME NEW h \in Handlers, CommitReport(h) PROVE TypeOK'
  <2> DEFINE l == job[h].listing
             row == Removed(listing[l], listing[l].count + 1)
  <2>0. l \in Listings /\ job[h].shop \in Shops /\ listing[l] \in Row
    BY <1>7, JobIsDone DEF CommitReport
  <2>1. row \in Row /\ row.owner = listing[l].owner
    <3>1. listing[l].count + 1 \in Nat
      BY <2>0 DEF Row
    <3> QED
      BY <2>0, <3>1, RemovedIsRow
  <2>2. listing' = [listing EXCEPT ![l] = row]
    BY <1>7, <1>0 DEF CommitReport
  <2>3. reports' \subseteq [listing : Listings, shop : Shops]
    BY <1>0, <1>7, <2>0 DEF CommitReport, Report
  <2>4. pc' = [pc EXCEPT ![h] = "idle"] /\ job' = [job EXCEPT ![h] = NoJob]
        /\ UNCHANGED <<now, contacts, shown>>
    BY <1>7 DEF CommitReport, Return, Goto
  <2> HIDE DEF row, l
  <2>5. \A m \in Listings : listing'[m].owner = listing[m].owner
    BY <1>0, <2>1, <2>2
  <2>6. listing' \in [Listings -> Row \cup {Absent}]
    BY <1>0, <2>1, <2>2
  <2>7. Typed
    BY <1>0, <1>a, <2>3, <2>4, <2>5, <2>6 DEF Typed
  <2> QED
    BY <1>b, <2>4, <2>7, <1>0
<1>8. ASSUME NEW h \in Handlers, Leave(h) PROVE TypeOK'
  <2>1. Typed
    BY <1>0, <1>8, <1>d DEF Leave
  <2> QED
    BY <1>b, <1>8, <2>1, <1>0 DEF Leave
<1>9. CASE Tick
  <2>1. now' \in Times /\ now' = now + 1 /\ 0..now \subseteq 0..now'
    BY <1>0, <1>9 DEF Tick, Times
  <2>2. [shop : Shops, listing : Listings, at : 0..now]
          \subseteq [shop : Shops, listing : Listings, at : 0..now']
    BY <2>1
  <2>3. job' \in [Handlers -> [shop : Shops, listing : Listings, at : 0..now'] \cup {NoJob}]
    BY <1>0, <1>9, <2>2 DEF Tick, Job
  <2> QED
    BY <1>0, <1>9, <2>1, <2>3 DEF Tick, TypeOK, Row
<1>10. CASE UNCHANGED vars
  BY <1>10 DEF vars, TypeOK
<1> QED
  BY <1>1, <1>2, <1>3, <1>4, <1>5, <1>6, <1>7, <1>8, <1>9, <1>10 DEF Next, Handle

-----------------------------------------------------------------------------
(* The reports.                                                            *)

\* A listing whose count, status and owner stay and whose reporters stay
\* keeps its invariant.
LEMMA ListingStays ==
  ASSUME NEW l \in Listings, ListingInv(l), Reporters(l)' = Reporters(l), listing'[l] = listing[l]
  PROVE  ListingInv(l)'
BY DEF ListingInv

LEMMA HandlersStay ==
  ASSUME NEW h \in Handlers, \A g \in Handlers : HandlerInv(g), reports' = reports,
         \A g \in Handlers \ {h} : pc'[g] = pc[g] /\ job'[g] = job[g],
         pc'[h] # "reported" \/ (pc'[h] = pc[h] /\ job'[h] = job[h]),
         NEW g \in Handlers
  PROVE  HandlerInv(g)'
BY DEF HandlerInv, Report

LEMMA ReportsKeep ==
  ASSUME TypeOK, \A l \in Listings : ListingInv(l), \A h \in Handlers : HandlerInv(h), [Next]_vars
  PROVE  (\A l \in Listings : ListingInv(l)') /\ \A h \in Handlers : HandlerInv(h)'
<1>0. /\ listing \in [Listings -> Row \cup {Absent}]
      /\ reports \subseteq [listing : Listings, shop : Shops]
      /\ pc \in [Handlers -> {"idle", "contact", "allowed", "report", "reported"}]
      /\ job \in [Handlers -> Job \cup {NoJob}]
      /\ ListingReportLimit \in Nat \ {0}
  BY LimitsType DEF TypeOK, Row, Job
<1>1. ASSUME UNCHANGED <<listing, reports>>, NEW l \in Listings PROVE ListingInv(l)'
  BY <1>1, ListingStays DEF Reporters
<1>2. ASSUME UNCHANGED <<reports, pc, job>>, NEW h \in Handlers PROVE HandlerInv(h)'
  BY <1>2 DEF HandlerInv, Report
<1>3. ASSUME NEW s \in Shops, NEW l \in Listings, CreateListing(s, l)
      PROVE  (\A m \in Listings : ListingInv(m)') /\ \A h \in Handlers : HandlerInv(h)'
  <2>1. \A m \in Listings : Reporters(m)' = Reporters(m)
    BY <1>3 DEF CreateListing, Reporters
  <2>2. ASSUME NEW m \in Listings \ {l} PROVE ListingInv(m)'
    BY <1>0, <1>3, <2>1, ListingStays DEF CreateListing
  <2>3. ListingInv(l)'
    <3>1. listing[l].count = 0 /\ listing'[l].count = 0 /\ listing'[l].status = "open"
          /\ listing'[l].owner = s
      BY <1>0, <1>3 DEF CreateListing, Absent, Posted
    <3>2. Reporters(l) = {}
      <4>1. IsFiniteSet(Reporters(l)) /\ Cardinality(Reporters(l)) = 0
        BY <3>1 DEF ListingInv
      <4> QED
        BY <4>1, FS_EmptySet
    <3> QED
      BY <1>0, <2>1, <3>1, <3>2 DEF ListingInv
  <2> QED
    BY <1>2, <1>3, <2>2, <2>3 DEF CreateListing
<1>4. ASSUME NEW l \in Listings, CloseListing(l)
      PROVE  (\A m \in Listings : ListingInv(m)') /\ \A h \in Handlers : HandlerInv(h)'
  <2>1. \A m \in Listings : Reporters(m)' = Reporters(m)
    BY <1>4 DEF CloseListing, Reporters
  <2>2. ASSUME NEW m \in Listings \ {l} PROVE ListingInv(m)'
    BY <1>0, <1>4, <2>1, ListingStays DEF CloseListing
  <2>3. listing'[l].status = "closed" /\ listing'[l].count = listing[l].count
        /\ listing'[l].owner = listing[l].owner
    <3>1. listing[l] \in Row
      BY <1>0, <1>4 DEF CloseListing, Absent
    <3> QED
      BY <1>0, <1>4, <3>1 DEF CloseListing, Row
  <2>4. ListingInv(l)'
    BY <2>1, <2>3 DEF ListingInv
  <2> QED
    BY <1>2, <1>4, <2>2, <2>4 DEF CloseListing
<1>5. ASSUME NEW h \in Handlers, NEW s \in Shops, NEW l \in Listings,
             NEW here \in {"contact", "report"}, ListingByID(h, s, l, here), NEW g \in Handlers
      PROVE  HandlerInv(g)'
  BY <1>0, <1>5, HandlersStay DEF ListingByID, Goto
<1>6. ASSUME NEW h \in Handlers, CountContacts(h) \/ ContactFor(h) \/ Leave(h), NEW g \in Handlers
      PROVE  HandlerInv(g)'
  BY <1>0, <1>6, HandlersStay DEF CountContacts, ContactFor, Leave, Return, Goto
<1>7. ASSUME NEW h \in Handlers, InsertReport(h), NEW g \in Handlers PROVE HandlerInv(g)'
  <2>1. CASE Report(h) \in reports
    BY <1>0, <1>7, <2>1, HandlersStay DEF InsertReport, Return, Goto
  <2>2. CASE Report(h) \notin reports
    <3>1. /\ UNCHANGED <<reports, job>> /\ pc'[h] = "reported"
          /\ \A q \in Handlers \ {h} : pc'[q] = pc[q]
          /\ \A q \in Handlers : pc[q] = "reported" => Report(q) # Report(h)
      BY <1>0, <1>7, <2>2 DEF InsertReport, Goto
    <3> QED
      BY <2>2, <3>1 DEF HandlerInv, Report
  <2> QED
    BY <2>1, <2>2
<1>8. ASSUME NEW h \in Handlers, CommitReport(h)
      PROVE  (\A m \in Listings : ListingInv(m)') /\ \A g \in Handlers : HandlerInv(g)'
  <2> DEFINE l == job[h].listing
             s == job[h].shop
             row == Removed(listing[l], listing[l].count + 1)
  <2>0. /\ l \in Listings /\ s \in Shops /\ listing[l] \in Row /\ listing[l].owner # s
        /\ pc[h] = "reported"
    BY <1>8, JobIsDone DEF CommitReport
  <2>1. /\ listing' = [listing EXCEPT ![l] = row]
        /\ reports' = reports \cup {[listing |-> l, shop |-> s]}
        /\ pc' = [pc EXCEPT ![h] = "idle"] /\ job' = [job EXCEPT ![h] = NoJob]
    BY <1>0, <1>8 DEF CommitReport, Return, Goto, Report
  <2>2. [listing |-> l, shop |-> s] \notin reports
    BY <2>0 DEF HandlerInv, Report
  <2>3. /\ row.count = listing[l].count + 1 /\ row.owner = listing[l].owner
        /\ row.status = IF row.count >= ListingReportLimit /\ listing[l].status = "open"
                         THEN "removed" ELSE listing[l].status
    <3>1. listing[l].count + 1 \in Nat
      BY <2>0 DEF Row
    <3> QED
      BY <2>0, <3>1, RemovedIsRow
  <2> HIDE DEF row
  <2>4. ASSUME NEW m \in Listings \ {l} PROVE ListingInv(m)'
    <3>1. Reporters(m)' = Reporters(m)
      BY <2>1 DEF Reporters
    <3> QED
      BY <1>0, <2>1, <3>1, ListingStays
  <2>5. ASSUME NEW m \in Listings, m = l PROVE ListingInv(m)'
    <3>1. Reporters(m)' = Reporters(m) \cup {s} /\ s \notin Reporters(m)
      <4>1. \A r \in reports : r = [listing |-> r.listing, shop |-> r.shop]
        BY <1>0
      <4>2. \A x : x \in Reporters(m)' <=> \E r \in reports' : r.listing = m /\ r.shop = x
        BY DEF Reporters
      <4>3. \A x : x \in Reporters(m) <=> \E r \in reports : r.listing = m /\ r.shop = x
        BY DEF Reporters
      <4> QED
        BY <2>1, <2>2, <2>5, <4>1, <4>2, <4>3
    <3>2. /\ IsFiniteSet(Reporters(m)')
          /\ Cardinality(Reporters(m)') = listing[m].count + 1
      <4>1. IsFiniteSet(Reporters(m)) /\ Cardinality(Reporters(m)) = listing[m].count
        BY DEF ListingInv
      <4>2. /\ IsFiniteSet(Reporters(m) \cup {s})
            /\ Cardinality(Reporters(m) \cup {s}) = Cardinality(Reporters(m)) + 1
        BY <3>1, <4>1, FS_AddElement, Zenon
      <4> QED
        BY <3>1, <4>1, <4>2
    <3>3. listing'[m] = row /\ listing[m] \in Row
      BY <1>0, <2>0, <2>1, <2>5
    <3>4. listing[m].status = "open" => listing[m].count < ListingReportLimit
      BY DEF ListingInv
    <3>5. listing[m].status = "removed" => listing[m].count >= ListingReportLimit
      BY DEF ListingInv
    <3>6. row.owner \notin Reporters(m)'
      BY <2>0, <2>3, <2>5, <3>1 DEF ListingInv
    <3>7. /\ row.status = "removed" => row.count >= ListingReportLimit
          /\ row.status \in {"open", "absent"} => row.count < ListingReportLimit
      BY <1>0, <2>3, <2>5, <3>3, <3>4, <3>5 DEF Row
    <3> QED
      BY <2>3, <2>5, <3>2, <3>3, <3>6, <3>7 DEF ListingInv
  <2>6. ASSUME NEW g \in Handlers PROVE HandlerInv(g)'
    <3>1. pc'[g] = "reported" =>
            g # h /\ pc[g] = "reported" /\ job'[g] = job[g] /\ Report(g) # Report(h)
      BY <1>0, <2>0, <2>1 DEF HandlerInv
    <3>2. \A q \in Handlers : pc'[q] = "reported" => pc[q] = "reported" /\ job'[q] = job[q]
      BY <1>0, <2>1
    <3>3. reports' = reports \cup {Report(h)}
      BY <1>8 DEF CommitReport
    <3> QED
      BY <3>1, <3>2, <3>3 DEF HandlerInv, Report
  <2> QED
    BY <2>4, <2>5, <2>6
<1> QED
  BY <1>1, <1>2, <1>3, <1>4, <1>5, <1>6, <1>7, <1>8
  DEF Next, Handle, ListingByID, CountContacts, ContactFor, InsertReport, Leave, Tick, vars

-----------------------------------------------------------------------------
(* The numbers.                                                            *)

LEMMA RowsAre ==
  ASSUME NEW l, NEW T, NEW c, NEW z
  PROVE  z \in UNION {{<<l, t>>} \X (1..c[t]) : t \in T}
           <=> \E t \in T : \E n \in 1..c[t] : z = <<<<l, t>>, n>>
OBVIOUS

LEMMA UnderFinite ==
  \A s : IsFiniteSet(Under(s)) /\ Cardinality(Under(s)) \in 0..Cardinality(Handlers)
<1> SUFFICES ASSUME NEW s
             PROVE  IsFiniteSet(Under(s)) /\ Cardinality(Under(s)) \in 0..Cardinality(Handlers)
  OBVIOUS
<1>1. Under(s) \in SUBSET Handlers
  BY DEF Under
<1>2. IsFiniteSet(Under(s)) /\ Cardinality(Under(s)) <= Cardinality(Handlers)
  BY <1>1, HandlersFinite, FS_Subset
<1> QED
  BY <1>2, HandlersFinite, FS_CardinalityType

LEMMA RowsFinite ==
  ASSUME NEW s, IsFiniteSet(Rows(s, Times)), NEW T \in SUBSET Times
  PROVE  /\ IsFiniteSet(Rows(s, T)) /\ Cardinality(Rows(s, T)) \in Nat
         /\ \A R \in SUBSET Rows(s, T) : /\ IsFiniteSet(R) /\ Cardinality(R) \in Nat
                                         /\ Cardinality(R) <= Cardinality(Rows(s, T))
<1>1. Rows(s, T) \in SUBSET Rows(s, Times)
  BY DEF Rows, RowsOf
<1>2. IsFiniteSet(Rows(s, T)) /\ Cardinality(Rows(s, T)) \in Nat
  BY <1>1, FS_Subset, FS_CardinalityType
<1>3. ASSUME NEW R \in SUBSET Rows(s, T)
      PROVE  IsFiniteSet(R) /\ Cardinality(R) \in Nat /\ Cardinality(R) <= Cardinality(Rows(s, T))
  BY <1>2, <1>3, FS_Subset, FS_CardinalityType
<1> QED
  BY <1>2, <1>3

\* The row that is written is a new one, and the only one.
LEMMA LogAdds ==
  ASSUME TypeOK, NEW s \in Shops, NEW l \in Listings, Log(s, l)
  PROVE  LET new == <<<<l, now>>, contacts[s][l][now] + 1>> IN
         \A T \in SUBSET Times :
           /\ \A m \in Listings :
                RowsOf(s, m, T)' = IF m = l /\ now \in T THEN RowsOf(s, m, T) \cup {new}
                                                         ELSE RowsOf(s, m, T)
           /\ \A m \in Listings : new \notin RowsOf(s, m, T)
           /\ \A x \in Shops \ {s}, m \in Listings : RowsOf(x, m, T)' = RowsOf(x, m, T)
<1> DEFINE k == contacts[s][l][now]
           new == <<<<l, now>>, k + 1>>
<1>1. /\ now \in Times /\ k \in Nat /\ contacts \in [Shops -> [Listings -> [Times -> Nat]]]
      /\ contacts' = [contacts EXCEPT ![s][l][now] = k + 1]
  BY DEF TypeOK, Log
<1>2. /\ \A x \in Shops \ {s} : contacts'[x] = contacts[x]
      /\ \A m \in Listings \ {l} : contacts'[s][m] = contacts[s][m]
      /\ \A t \in Times \ {now} : contacts'[s][l][t] = contacts[s][l][t]
      /\ contacts'[s][l][now] = k + 1
  <2>1. contacts' = [contacts EXCEPT ![s] = [contacts[s] EXCEPT ![l] =
                       [contacts[s][l] EXCEPT ![now] = k + 1]]]
    BY <1>1
  <2>2. /\ DOMAIN contacts = Shops /\ DOMAIN contacts[s] = Listings
        /\ DOMAIN contacts[s][l] = Times
    BY <1>1
  <2> HIDE DEF k
  <2>3. /\ \A x \in Shops \ {s} : contacts'[x] = contacts[x]
        /\ contacts'[s] = [contacts[s] EXCEPT ![l] = [contacts[s][l] EXCEPT ![now] = k + 1]]
    BY <2>1, <2>2
  <2>4. /\ \A m \in Listings \ {l} : contacts'[s][m] = contacts[s][m]
        /\ contacts'[s][l] = [contacts[s][l] EXCEPT ![now] = k + 1]
    BY <2>2, <2>3
  <2> QED
    BY <1>1, <2>2, <2>3, <2>4
<1>3. 1..(k + 1) = (1..k) \cup {k + 1} /\ k + 1 \notin 1..k
  <2> HIDE DEF k, new
  <2>1. k \in Nat
    BY <1>1
  <2> QED
    BY <2>1
<1> SUFFICES ASSUME NEW T \in SUBSET Times
    PROVE  /\ \A m \in Listings :
                RowsOf(s, m, T)' = IF m = l /\ now \in T THEN RowsOf(s, m, T) \cup {new}
                                                         ELSE RowsOf(s, m, T)
           /\ \A m \in Listings : new \notin RowsOf(s, m, T)
           /\ \A x \in Shops \ {s}, m \in Listings : RowsOf(x, m, T)' = RowsOf(x, m, T)
  OBVIOUS
<1>4. ASSUME NEW x \in Shops \ {s}, NEW m \in Listings PROVE RowsOf(x, m, T)' = RowsOf(x, m, T)
  BY <1>2 DEF RowsOf
<1>5. ASSUME NEW m \in Listings PROVE new \notin RowsOf(s, m, T)
  <2>1. \A t \in T : \A n \in 1..contacts[s][m][t] : new = <<<<m, t>>, n>> => m = l /\ t = now /\ n = k + 1
    OBVIOUS
  <2> HIDE DEF new
  <2>2. new \in RowsOf(s, m, T) => \E t \in T : \E n \in 1..contacts[s][m][t] : new = <<<<m, t>>, n>>
    BY RowsAre DEF RowsOf
  <2> QED
    BY <1>3, <2>1, <2>2
<1>6. ASSUME NEW m \in Listings
      PROVE  RowsOf(s, m, T)' = IF m = l /\ now \in T THEN RowsOf(s, m, T) \cup {new} ELSE RowsOf(s, m, T)
  <2>1. CASE m # l
    BY <1>2, <2>1 DEF RowsOf
  <2>2. CASE now \notin T
    <3>1. \A t \in T : contacts'[s][m][t] = contacts[s][m][t]
      BY <1>2, <2>2
    <3> QED
      BY <2>2, <3>1 DEF RowsOf
  <2>3. CASE m = l /\ now \in T
    <3>1. \A z : z \in RowsOf(s, m, T) <=> \E t \in T : \E n \in 1..contacts[s][l][t] : z = <<<<l, t>>, n>>
      BY <2>3, RowsAre DEF RowsOf
    <3>2. \A z : z \in RowsOf(s, m, T)' <=> \E t \in T : \E n \in 1..contacts'[s][l][t] : z = <<<<l, t>>, n>>
      BY <2>3, RowsAre DEF RowsOf
    <3>3. \A t \in T : \A n : n \in 1..contacts'[s][l][t]
                            <=> n \in 1..contacts[s][l][t] \/ (t = now /\ n = k + 1)
      BY <1>2, <1>3
    <3>4. ASSUME NEW z PROVE z \in RowsOf(s, m, T)' <=> z \in RowsOf(s, m, T) \/ z = new
      BY <2>3, <3>1, <3>2, <3>3
    <3> HIDE DEF new
    <3>5. RowsOf(s, m, T)' = RowsOf(s, m, T) \cup {new}
      BY <3>4
    <3> QED
      BY <2>3, <3>5
  <2> QED
    BY <2>1, <2>2, <2>3
<1> QED
  BY <1>4, <1>5, <1>6

LEMMA LogCounts ==
  ASSUME TypeOK, NEW s \in Shops, NEW l \in Listings, Log(s, l), IsFiniteSet(Rows(s, Times)),
         NEW T \in SUBSET Times
  PROVE  /\ IsFiniteSet(Rows(s, T)')
         /\ Cardinality(Rows(s, T)') = Cardinality(Rows(s, T)) + (IF now \in T THEN 1 ELSE 0)
         /\ \A m \in Listings : Cardinality(RowsOf(s, m, T)')
              = Cardinality(RowsOf(s, m, T)) + (IF m = l /\ now \in T THEN 1 ELSE 0)
<1> DEFINE new == <<<<l, now>>, contacts[s][l][now] + 1>>
<1>1. /\ \A m \in Listings :
           RowsOf(s, m, T)' = IF m = l /\ now \in T THEN RowsOf(s, m, T) \cup {new} ELSE RowsOf(s, m, T)
      /\ \A m \in Listings : new \notin RowsOf(s, m, T)
  BY LogAdds
<1> HIDE DEF new
<1>2. IsFiniteSet(Rows(s, T)) /\ Cardinality(Rows(s, T)) \in Nat
  BY RowsFinite
<1>3. new \notin Rows(s, T)
  BY <1>1 DEF Rows
<1>4. Rows(s, T)' = IF now \in T THEN Rows(s, T) \cup {new} ELSE Rows(s, T)
  BY <1>1 DEF Rows
<1>5. ASSUME NEW m \in Listings
      PROVE  Cardinality(RowsOf(s, m, T)')
               = Cardinality(RowsOf(s, m, T)) + (IF m = l /\ now \in T THEN 1 ELSE 0)
  <2>1. RowsOf(s, m, T) \in SUBSET Rows(s, T)
    BY DEF Rows
  <2>2. IsFiniteSet(RowsOf(s, m, T)) /\ Cardinality(RowsOf(s, m, T)) \in Nat
    BY <2>1, RowsFinite
  <2>3. IF m = l /\ now \in T THEN RowsOf(s, m, T)' = RowsOf(s, m, T) \cup {new}
                              ELSE RowsOf(s, m, T)' = RowsOf(s, m, T)
    BY <1>1
  <2> QED
    BY <1>1, <2>2, <2>3, FS_AddElement
<1> QED
  BY <1>2, <1>3, <1>4, <1>5, FS_AddElement

\* Nothing happens to the numbers, and nobody else has passed the limit.
LEMMA ContactsStay ==
  ASSUME UNCHANGED <<now, contacts, shown>>, NEW s \in Shops, ContactInv(s), Under(s)' \subseteq Under(s)
  PROVE  ContactInv(s)'
<1>1. /\ \A T : Rows(s, T)' = Rows(s, T)
      /\ \A l \in Listings : RowsOf(s, l, Times)' = RowsOf(s, l, Times)
  BY DEF Rows, RowsOf
<1>2. Cardinality(Under(s)') <= Cardinality(Under(s)) /\ Cardinality(Under(s)') \in Nat
      /\ Cardinality(Under(s)) \in Nat
  <2>1. IsFiniteSet(Under(s)) /\ Cardinality(Under(s)) \in Nat
    BY UnderFinite, HandlersFinite, FS_CardinalityType
  <2>2. Under(s)' \in SUBSET Under(s)
    OBVIOUS
  <2> QED
    BY <2>1, <2>2, FS_Subset, FS_CardinalityType
<1>3. ASSUME NEW d \in Nat
      PROVE  Cardinality(Rows(s, Day(d))') + (IF now' < (d + 1) * DayLength THEN Cardinality(Under(s)') ELSE 0)
               <= contactsPerDay + Cardinality(Handlers) - 1
  <2>1. Cardinality(Rows(s, Day(d))) + (IF now < (d + 1) * DayLength THEN Cardinality(Under(s)) ELSE 0)
          <= contactsPerDay + Cardinality(Handlers) - 1
    BY DEF ContactInv
  <2>2. Cardinality(Rows(s, Day(d))) \in Nat /\ Cardinality(Handlers) \in Nat /\ contactsPerDay \in Nat
    BY RowsFinite, HandlersFinite, FS_CardinalityType, LimitsType DEF ContactInv, Day
  <2>3. CASE now < (d + 1) * DayLength
    BY <1>1, <1>2, <2>1, <2>2, <2>3
  <2>4. CASE ~(now < (d + 1) * DayLength)
    BY <1>1, <2>1, <2>4
  <2> QED
    BY <2>3, <2>4
<1> QED
  BY <1>1, <1>3 DEF ContactInv, Day

LEMMA ModSmaller ==
  ASSUME NEW a \in Nat, NEW n \in Nat \ {0} PROVE a % n \in Nat /\ a % n <= a
<1> DEFINE q == a \div n
           m == a % n
<1>1. q \in Int /\ m \in 0..(n - 1) /\ a = n * q + m
  OBVIOUS
<1> HIDE DEF q, m
<1>2. q >= 0
  <2> SUFFICES ASSUME q <= -1 PROVE FALSE
    BY <1>1
  <2>1. n * q <= -n
    BY <1>1
  <2> QED
    BY <1>1, <2>1
<1>3. n * q >= 0
  BY <1>1, <1>2
<1> QED
  BY <1>1, <1>3 DEF m

\* A midnight is not after a later day's.
LEMMA MidnightBefore ==
  ASSUME NEW at \in Nat, NEW d \in Nat, at < (d + 1) * DayLength
  PROVE  DayStart(at) <= d * DayLength
<1>1. DayLength \in Nat /\ DayLength > 0
  BY LimitsType
<1> DEFINE q == at \div DayLength
           m == at % DayLength
<1>2. q \in Int /\ m \in 0..(DayLength - 1) /\ at = DayLength * q + m
  BY <1>1
<1>3. DayStart(at) = DayLength * q
  BY <1>1, <1>2 DEF DayStart
<1> HIDE DEF q, m
<1>4. q <= d
  <2> SUFFICES ASSUME q >= d + 1 PROVE FALSE
    BY <1>2
  <2>1. DayLength * q >= DayLength * (d + 1)
    BY <1>1, <1>2
  <2> QED
    BY <1>1, <1>2, <2>1
<1> QED
  BY <1>1, <1>2, <1>3, <1>4

LEMMA ContactsKeep ==
  ASSUME TypeOK, \A s \in Shops : ContactInv(s), [Next]_vars, NEW s \in Shops
  PROVE  ContactInv(s)'
<1>0. /\ now \in Nat /\ ContactInv(s) /\ DayLength \in Nat \ {0} /\ contactsPerDay \in Nat \ {0}
      /\ pc \in [Handlers -> {"idle", "contact", "allowed", "report", "reported"}]
      /\ job \in [Handlers -> Job \cup {NoJob}]
  BY LimitsType DEF TypeOK, Times, Job
<1>1. /\ Cardinality(Handlers) \in Nat
      /\ \A d \in Nat : Cardinality(Rows(s, Day(d))) \in Nat /\ Day(d) \in SUBSET Times
      /\ \A x : Cardinality(Under(x)) \in 0..Cardinality(Handlers) /\ IsFiniteSet(Under(x))
  BY <1>0, HandlersFinite, FS_CardinalityType, RowsFinite, UnderFinite DEF ContactInv, Day
<1>2. ASSUME NEW h \in Handlers, CountContacts(h) PROVE ContactInv(s)'
  <2>1. /\ pc[h] = "contact" /\ Cardinality(Rows(job[h].shop, DayStart(job[h].at)..now)) < contactsPerDay
        /\ pc' = [pc EXCEPT ![h] = "allowed"] /\ UNCHANGED <<now, listing, reports, contacts, job, shown>>
    BY <1>2 DEF CountContacts, ContactsTodayFor, Goto
  <2>2. CASE job[h].shop # s
    <3>1. Under(s)' \subseteq Under(s)
      BY <1>0, <2>1, <2>2 DEF Under
    <3> QED
      BY <1>0, <2>1, <3>1, ContactsStay
  <2>3. CASE job[h].shop = s
    <3>1. job[h].at \in 0..now
      BY <2>1, JobIsDone DEF Job
    <3>2. /\ \A T : Rows(s, T)' = Rows(s, T)
          /\ \A l \in Listings : RowsOf(s, l, Times)' = RowsOf(s, l, Times)
      BY <2>1 DEF Rows, RowsOf
    <3>3. Cardinality(Under(s)') \in 0..Cardinality(Handlers)
      <4>1. Under(s)' \in SUBSET Handlers
        BY DEF Under
      <4> QED
        BY <4>1, HandlersFinite, FS_Subset, FS_CardinalityType
    <3>4. ASSUME NEW d \in Nat
          PROVE  Cardinality(Rows(s, Day(d))) + (IF now < (d + 1) * DayLength THEN Cardinality(Under(s)') ELSE 0)
                   <= contactsPerDay + Cardinality(Handlers) - 1
      <4>1. CASE ~(now < (d + 1) * DayLength)
        BY <1>0, <4>1 DEF ContactInv
      <4>2. CASE now < (d + 1) * DayLength
        <5>1. DayStart(job[h].at) <= d * DayLength
          <6>1. job[h].at \in Nat /\ job[h].at < (d + 1) * DayLength
            BY <1>0, <3>1, <4>2
          <6> QED
            BY <6>1, MidnightBefore
        <5>2. Rows(s, Day(d)) \in SUBSET Rows(s, DayStart(job[h].at)..now)
          <6>1. ASSUME NEW l \in Listings
                PROVE  RowsOf(s, l, Day(d)) \subseteq RowsOf(s, l, DayStart(job[h].at)..now)
            <7>1. \A t \in Day(d) : t > now => 1..contacts[s][l][t] = {}
              BY <1>0 DEF ContactInv, Day
            <7>2. DayStart(job[h].at) \in Int
              BY <1>0, <3>1 DEF DayStart
            <7>3. \A t \in Day(d) : t <= now => t \in DayStart(job[h].at)..now
              BY <1>0, <5>1, <7>2 DEF Day, Times
            <7>4. \A t \in Day(d) : t <= now \/ t > now
              BY <1>0 DEF Day, Times
            <7> QED
              BY <7>1, <7>3, <7>4 DEF RowsOf
          <6> QED
            BY <6>1 DEF Rows
        <5>3. IsFiniteSet(Rows(s, DayStart(job[h].at)..now))
          <6>1. Rows(s, DayStart(job[h].at)..now) \in SUBSET Rows(s, Times)
            <7>1. now \in Times /\ DayStart(job[h].at) \in Nat
              <8>1. job[h].at \in Nat
                BY <3>1
              <8>2. job[h].at % DayLength <= job[h].at /\ job[h].at % DayLength \in Nat
                BY <1>0, <8>1, ModSmaller
              <8> QED
                BY <8>1, <8>2 DEF DayStart, TypeOK
            <7>2. (DayStart(job[h].at)..now) \subseteq Times
              BY <7>1, LimitsType DEF Times
            <7> QED
              BY <7>2 DEF Rows, RowsOf
          <6> QED
            BY <1>0, <6>1, FS_Subset DEF ContactInv
        <5>4. Cardinality(Rows(s, Day(d))) < contactsPerDay
          <6>1. Cardinality(Rows(s, Day(d))) <= Cardinality(Rows(s, DayStart(job[h].at)..now))
            BY <5>2, <5>3, FS_Subset
          <6>2. Cardinality(Rows(s, DayStart(job[h].at)..now)) \in Nat
            BY <5>3, FS_CardinalityType
          <6> QED
            BY <1>0, <1>1, <2>1, <2>3, <6>1, <6>2
        <5> QED
          BY <1>0, <1>1, <3>3, <4>2, <5>4
      <4> QED
        BY <4>1, <4>2
    <3> QED
      BY <1>0, <2>1, <3>2, <3>4 DEF ContactInv, Day
  <2> QED
    BY <2>2, <2>3
<1>3. ASSUME NEW h \in Handlers, ContactFor(h) PROVE ContactInv(s)'
  <2> DEFINE x == job[h].shop
             l == job[h].listing
  <2>1. /\ pc[h] = "allowed" /\ Log(x, l) /\ (Show(x, l) \/ UNCHANGED shown)
        /\ pc' = [pc EXCEPT ![h] = "idle"] /\ job' = [job EXCEPT ![h] = NoJob] /\ now' = now
    BY <1>3 DEF ContactFor, Return, Goto
  <2>2. x \in Shops /\ l \in Listings
    BY <2>1, JobIsDone
  <2>3. now \in Times /\ shown \in [Shops -> [Listings -> Nat]]
        /\ contacts \in [Shops -> [Listings -> [Times -> Nat]]]
    BY DEF TypeOK
  <2> HIDE DEF x, l
  <2>4. CASE x # s
    <3>1. \A T \in SUBSET Times, m \in Listings : RowsOf(s, m, T)' = RowsOf(s, m, T)
      BY <2>1, <2>2, <2>4, LogAdds
    <3>2. \A T \in SUBSET Times : Rows(s, T)' = Rows(s, T)
      BY <3>1 DEF Rows
    <3>3. contacts'[s] = contacts[s] /\ shown'[s] = shown[s]
      BY <2>1, <2>2, <2>3, <2>4 DEF Log, Show
    <3>4. Under(s)' = Under(s)
      BY <1>0, <2>1, <2>4 DEF Under, x
    <3>5. \A m \in Listings : RowsOf(s, m, Times)' = RowsOf(s, m, Times)
      BY <3>1
    <3>6. \A d \in Nat : Rows(s, Day(d))' = Rows(s, Day(d))
      BY <1>1, <3>2 DEF Day
    <3>7. Rows(s, Times)' = Rows(s, Times)
      BY <3>2
    <3> QED
      BY <1>0, <2>1, <3>3, <3>4, <3>5, <3>6, <3>7 DEF ContactInv
  <2>5. CASE x = s
    <3>1. \A T \in SUBSET Times :
             /\ IsFiniteSet(Rows(s, T)')
             /\ Cardinality(Rows(s, T)') = Cardinality(Rows(s, T)) + (IF now \in T THEN 1 ELSE 0)
             /\ \A m \in Listings : Cardinality(RowsOf(s, m, T)')
                  = Cardinality(RowsOf(s, m, T)) + (IF m = l /\ now \in T THEN 1 ELSE 0)
      BY <1>0, <2>1, <2>2, <2>5, LogCounts DEF ContactInv
    <3>2. ASSUME NEW m \in Listings PROVE shown'[s][m] <= Cardinality(RowsOf(s, m, Times)')
      <4>1. shown[s][m] <= Cardinality(RowsOf(s, m, Times))
        BY <1>0 DEF ContactInv
      <4>2. Cardinality(RowsOf(s, m, Times)') = Cardinality(RowsOf(s, m, Times)) + (IF m = l THEN 1 ELSE 0)
        BY <2>3, <3>1
      <4>3. shown'[s][m] = shown[s][m] \/ (m = l /\ shown'[s][m] = shown[s][m] + 1)
        <5>1. CASE UNCHANGED shown
          BY <5>1
        <5>2. CASE Show(x, l)
          BY <2>2, <2>3, <2>5, <5>2 DEF Show
        <5> QED
          BY <2>1, <5>1, <5>2
      <4>4. shown[s][m] \in Nat /\ Cardinality(RowsOf(s, m, Times)) \in Nat
        <5>1. RowsOf(s, m, Times) \in SUBSET Rows(s, Times)
          BY DEF Rows
        <5> QED
          BY <1>0, <2>3, <5>1, RowsFinite DEF ContactInv
      <4> QED
        BY <4>1, <4>2, <4>3, <4>4
    <3>3. ASSUME NEW m \in Listings, NEW t \in Times, t > now PROVE contacts'[s][m][t] = 0
      <4>1. contacts[s][m][t] = 0 /\ t # now
        BY <1>0, <3>3 DEF ContactInv
      <4>2. contacts'[s][m][t] = contacts[s][m][t]
        BY <2>1, <2>2, <2>3, <2>5, <4>1 DEF Log
      <4> QED
        BY <4>1, <4>2
    <3>4. Cardinality(Under(s)') = Cardinality(Under(s)) - 1
      <4>1. Under(s)' = Under(s) \ {h} /\ h \in Under(s)
        BY <1>0, <2>1, <2>5 DEF Under, x
      <4> QED
        BY <1>1, <4>1, FS_RemoveElement
    <3>5. ASSUME NEW d \in Nat
          PROVE  Cardinality(Rows(s, Day(d))') + (IF now < (d + 1) * DayLength THEN Cardinality(Under(s)') ELSE 0)
                   <= contactsPerDay + Cardinality(Handlers) - 1
      <4>1. Cardinality(Rows(s, Day(d))') = Cardinality(Rows(s, Day(d))) + (IF now \in Day(d) THEN 1 ELSE 0)
        BY <1>1, <3>1 DEF Day
      <4>2. Cardinality(Rows(s, Day(d))) + (IF now < (d + 1) * DayLength THEN Cardinality(Under(s)) ELSE 0)
              <= contactsPerDay + Cardinality(Handlers) - 1
        BY <1>0 DEF ContactInv
      <4>3. now \in Day(d) => now < (d + 1) * DayLength
        BY <1>0 DEF Day
      <4> QED
        BY <1>0, <1>1, <3>4, <4>1, <4>2, <4>3
    <3>6. IsFiniteSet(Rows(s, Times)')
      BY <3>1
    <3> QED
      BY <2>1, <3>2, <3>3, <3>5, <3>6 DEF ContactInv, Day
  <2> QED
    BY <2>4, <2>5
<1>4. CASE Tick
  <2>1. now' = now + 1 /\ UNCHANGED <<contacts, pc, job, shown>>
    BY <1>4 DEF Tick
  <2>2. /\ \A T : Rows(s, T)' = Rows(s, T) /\ Under(s)' = Under(s)
        /\ \A m \in Listings : RowsOf(s, m, Times)' = RowsOf(s, m, Times)
    BY <2>1 DEF Rows, RowsOf, Under
  <2>3. ASSUME NEW d \in Nat
        PROVE  Cardinality(Rows(s, Day(d))) + (IF now' < (d + 1) * DayLength THEN Cardinality(Under(s)) ELSE 0)
                 <= contactsPerDay + Cardinality(Handlers) - 1
    <3>1. Cardinality(Rows(s, Day(d))) + (IF now < (d + 1) * DayLength THEN Cardinality(Under(s)) ELSE 0)
            <= contactsPerDay + Cardinality(Handlers) - 1
      BY <1>0 DEF ContactInv
    <3>2. now' < (d + 1) * DayLength => now < (d + 1) * DayLength
      BY <1>0, <2>1
    <3> QED
      BY <1>0, <1>1, <3>1, <3>2
  <2>4. \A m \in Listings, t \in Times : t > now' => contacts[s][m][t] = 0
    BY <1>0, <2>1 DEF ContactInv, Times
  <2> QED
    BY <1>0, <2>1, <2>2, <2>3, <2>4 DEF ContactInv, Day
<1>5. ASSUME NEW h \in Handlers, UNCHANGED <<now, contacts, shown>>,
             pc'[h] # "allowed", \A g \in Handlers \ {h} : pc'[g] = pc[g] /\ job'[g] = job[g]
      PROVE  ContactInv(s)'
  <2>1. Under(s)' \subseteq Under(s)
    BY <1>5 DEF Under
  <2> QED
    BY <1>0, <1>5, <2>1, ContactsStay
<1>6. ASSUME NEW h \in Handlers, CommitReport(h) \/ Leave(h) PROVE ContactInv(s)'
  BY <1>0, <1>5, <1>6 DEF CommitReport, Leave, Return, Goto
<1>7. ASSUME NEW h \in Handlers, InsertReport(h) PROVE ContactInv(s)'
  <2>1. CASE Report(h) \in reports
    BY <1>0, <1>5, <1>7, <2>1 DEF InsertReport, Return, Goto
  <2>2. CASE Report(h) \notin reports
    BY <1>0, <1>5, <1>7, <2>2 DEF InsertReport, Goto
  <2> QED
    BY <2>1, <2>2
<1>8. ASSUME NEW h \in Handlers, NEW y \in Shops, NEW l \in Listings,
             NEW here \in {"contact", "report"}, ListingByID(h, y, l, here)
      PROVE  ContactInv(s)'
  BY <1>0, <1>5, <1>8 DEF ListingByID, Goto
<1>9. ASSUME UNCHANGED <<now, contacts, shown, pc, job>> PROVE ContactInv(s)'
  <2>1. Under(s)' \subseteq Under(s)
    BY <1>9 DEF Under
  <2> QED
    BY <1>0, <1>9, <2>1, ContactsStay
<1> QED
  BY <1>2, <1>3, <1>4, <1>6, <1>7, <1>8, <1>9 DEF Next, Handle, CreateListing, CloseListing, vars

-----------------------------------------------------------------------------
(* The results.                                                            *)

\* Every reachable state satisfies IInv.
THEOREM Invariant == Spec => []IInv
<1>1. IInv /\ [Next]_vars => IInv'
  BY TypeKeeps, ReportsKeep, ContactsKeep DEF IInv
<1> QED
  BY InitHolds, <1>1, PTL DEF Spec

\* Rows and requests keep their types, and no request works on a listing of
\* its own shop.
THEOREM TypesHold == Spec => []TypeOK
BY Invariant, PTL DEF IInv

\* A listing is removed by the reports of ListingReportLimit different other
\* shops and by nothing else, and no open one has that many.
THEOREM ReportsHold == Spec => []ReportsDecide
<1>1. IInv => ReportsDecide
  <2> SUFFICES ASSUME IInv, NEW l \in Listings
               PROVE  LET many == Cardinality(Reporters(l)) >= ListingReportLimit
                      IN /\ listing[l].status = "removed" => many
                         /\ listing[l].status = "open" => ~many
                         /\ listing[l].owner \notin Reporters(l)
    BY DEF ReportsDecide
  <2>1. ListingInv(l)
    BY DEF IInv
  <2>2. Cardinality(Reporters(l)) \in Nat /\ ListingReportLimit \in Nat
    BY <2>1, FS_CardinalityType, LimitsType DEF ListingInv
  <2> QED
    BY <2>1, <2>2 DEF ListingInv
<1> QED
  BY Invariant, <1>1, PTL

\* A listing its owner has taken down is never removed as an abuse.
THEOREM ClosedHolds == Spec => ClosedStaysClosed
<1>1. ASSUME TypeOK, Next, NEW l \in Listings, listing[l].status = "closed"
      PROVE  listing'[l].status = "closed"
  <2>1. listing \in [Listings -> Row \cup {Absent}] /\ listing[l] \in Row
    BY <1>1 DEF TypeOK, Row, Absent
  <2>2. ASSUME NEW s \in Shops, NEW m \in Listings, CreateListing(s, m) PROVE listing'[l] = listing[l]
    BY <1>1, <2>1, <2>2 DEF CreateListing, Absent
  <2>3. ASSUME NEW m \in Listings, CloseListing(m) PROVE listing'[l] = listing[l]
    BY <1>1, <2>1, <2>3 DEF CloseListing
  <2>4. ASSUME NEW h \in Handlers, CommitReport(h) PROVE listing'[l].status = "closed"
    <3>1. job[h].listing # l => listing'[l] = listing[l]
      BY <2>1, <2>4 DEF CommitReport
    <3>2. ASSUME job[h].listing = l PROVE listing'[l].status = "closed"
      <4>1. listing'[l] = Removed(listing[l], listing[l].count + 1) /\ listing[l].count + 1 \in Nat
        BY <2>1, <2>4, <3>2 DEF CommitReport, Row
      <4> QED
        BY <1>1, <2>1, <4>1, RemovedIsRow
    <3> QED
      BY <1>1, <3>1, <3>2
  <2>5. UNCHANGED listing => listing'[l] = listing[l]
    OBVIOUS
  <2> QED
    BY <1>1, <2>2, <2>3, <2>4, <2>5
    DEF Next, Handle, ListingByID, CountContacts, ContactFor, InsertReport, Leave, Tick
<1>2. TypeOK /\ [Next]_vars =>
        [\A l \in Listings : listing[l].status = "closed" => listing'[l].status = "closed"]_vars
  BY <1>1
<1> QED
  BY TypesHold, <1>2, PTL DEF Spec, ClosedStaysClosed

\* A shop opens at most contactsPerDay numbers a day, but for the requests it
\* has under way at the same time, and no number is given without a row.
THEOREM ContactsHold == Spec => []ContactsBounded
<1>1. IInv => ContactsBounded
  <2> SUFFICES ASSUME IInv, NEW s \in Shops
               PROVE  /\ \A l \in Listings : shown[s][l] <= Cardinality(RowsOf(s, l, Times))
                      /\ \A d \in 0..(MaxNow \div DayLength) :
                           Cardinality(Rows(s, Day(d))) <= contactsPerDay + Cardinality(Handlers) - 1
    BY DEF ContactsBounded, NumberIsLogged
  <2>1. ContactInv(s)
    BY DEF IInv
  <2>2. /\ Cardinality(Under(s)) \in Nat /\ Cardinality(Handlers) \in Nat
        /\ \A d \in Nat : Cardinality(Rows(s, Day(d))) \in Nat
    BY <2>1, UnderFinite, HandlersFinite, FS_CardinalityType, RowsFinite DEF ContactInv, Day
  <2>3. ASSUME NEW d \in 0..(MaxNow \div DayLength)
        PROVE  Cardinality(Rows(s, Day(d))) <= contactsPerDay + Cardinality(Handlers) - 1
    <3>1. d \in Nat
      OBVIOUS
    <3>2. Cardinality(Rows(s, Day(d))) + (IF now < (d + 1) * DayLength THEN Cardinality(Under(s)) ELSE 0)
            <= contactsPerDay + Cardinality(Handlers) - 1
      BY <2>1, <3>1 DEF ContactInv
    <3> QED
      BY <2>2, <3>1, <3>2, LimitsType
  <2> QED
    BY <2>1, <2>3 DEF ContactInv
<1> QED
  BY Invariant, <1>1, PTL
=============================================================================
