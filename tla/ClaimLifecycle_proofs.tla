----------------------- MODULE ClaimLifecycle_proofs -----------------------
(***************************************************************************)
(* What TLAPS proves of ClaimLifecycle, for any sets of claims, requests   *)
(* and accounts.                                                           *)
(*                                                                         *)
(* The argument.  Every status change an endpoint can ask for moves up in  *)
(* Rank, so a claim never comes back to a status it has left.  A row whose *)
(* status is still the one a handler read is therefore the very row it     *)
(* read: the compare-and-swap on the status alone is as good as one on     *)
(* the whole row, and the event's time, taken before the commit, is later  *)
(* than that of every event the claim already has.                         *)
(***************************************************************************)
EXTENDS ClaimLifecycle, TLAPS

Rank(s) ==
  CASE s = "absent"       -> 0
    [] s = "pending"      -> 1
    [] s = "needs_review" -> 2
    [] s = "on_hold"      -> 3
    [] s = "approved"     -> 4
    [] OTHER              -> 5

\* A request that has read its row and has not answered yet.
Busy(r) == pc[r] \in {"read", "decided", "listed"}

\* No time in the system is later than the clock.
ClockBound ==
  /\ \A e \in events : e.at <= clock
  /\ \A r \in Requests : ev[r].at <= clock

\* What a busy request works on exists.
JobOf(r) ==
  /\ Busy(r) => /\ job[r].claim \in Claims /\ job[r].actor \in Actors
                /\ job[r].to \in Targets \cup Views
                /\ row[job[r].claim].status \in Statuses
  /\ pc[r] = "decided" => job[r].to \in Targets

\* A handler's copy is the row, or an older version of it with a lower
\* rank, and the log knows how it got out of the waiting statuses.
CopyOf(r) ==
  pc[r] \in {"read", "listed"} =>
    LET now == row[job[r].claim]
    IN /\ mem[r].status \in Statuses
       /\ mem[r] = now \/ Rank(mem[r].status) < Rank(now.status)
       /\ mem[r].status \notin Waiting =>
            \E e \in StatusEvents(job[r].claim) :
              e.action = "transition" /\ e.to = mem[r].status

\* What Transition made of the copy, while the row is the one it was read.
Fits(c, old, e) ==
  /\ c.status = e.to
  /\ c.payment = old.payment /\ c.amount = old.amount
  /\ c.resolvedAt = IF e.to \in Terminal THEN e.at ELSE 0
  /\ c.paidAt = IF e.to = "paid" THEN e.at ELSE 0
  /\ e.to # "paid" => c.method = "" /\ c.paidAmount = 0
  /\ e.to = "paid" => TrueChannel(c.payment, c.method) /\ c.paidAmount \in 1..c.amount

\* A decided change is a legal one, its row is unchanged or has moved past
\* its `from`, and its time is later than that of every event up to `from`.
DecisionOf(r) ==
  pc[r] = "decided" =>
    LET now == row[job[r].claim]
    IN /\ ev[r] = NewEvent(job[r].claim, job[r].actor, "transition",
                           ev[r].from, job[r].to, ev[r].at)
       /\ ev[r].from \in Statuses /\ job[r].to \in transitions[ev[r].from]
       /\ ev[r].at \in Nat \ {0}
       /\ \/ now.status = ev[r].from /\ Fits(mem[r], now, ev[r])
          \/ Rank(ev[r].from) < Rank(now.status)
       /\ \A e \in StatusEvents(job[r].claim) :
            e.at < ev[r].at \/ Rank(ev[r].from) < Rank(e.to)

\* A listing has found who decided what the copy shows.
NamesOf(r) ==
  pc[r] = "listed" =>
    /\ mem[r].status = "approved" => names[r].approvedBy # Nobody
    /\ mem[r].status = "paid" => names[r].paidBy # Nobody

\* The row's status is the highest and the newest in its claim's log.
NewestOf(c) ==
  /\ row[c].status = "absent" => row[c] = NoRow /\ StatusEvents(c) = {}
  /\ row[c].status # "absent" =>
       /\ row[c].amount > 0
       /\ \E f \in StatusEvents(c) :
            f.to = row[c].status /\ \A g \in StatusEvents(c) : g.at <= f.at
       /\ \A g \in StatusEvents(c) :
            g.to \in Statuses /\ Rank(g.to) <= Rank(row[c].status)
RowIsNewest == \A c \in Claims : NewestOf(c)

\* Only a transition takes a claim out of the waiting statuses.
CreatedOf(c) ==
  \A e \in StatusEvents(c) : e.action # "transition" => e.to \in Waiting
CreatedWaiting == \A c \in Claims : CreatedOf(c)

\* A claim enters each status at most once.
OnceOf(c) == \A e, f \in StatusEvents(c) : e.to = f.to => e = f
StatusOnce == \A c \in Claims : OnceOf(c)

\* A change answered 200 is in the log; no two requests hold one event.
EventApart(r) ==
  /\ pc[r] = "done" /\ ev[r] # NoEvent => ev[r] \in events
  /\ ev[r] # NoEvent => pc[r] \in {"decided", "done"} /\ ev[r].at > 0
  /\ ev[r] # NoEvent => \A q \in Requests \ {r} : ev[q].at # ev[r].at
EventsApart == \A r \in Requests : EventApart(r)

\* What relates the two tables, and what relates requests to them.
TablesInv ==
  /\ RowIsNewest /\ CreatedWaiting /\ StatusOnce
  /\ AuditChain /\ LedgerMatchesLog /\ ResolverIsLastAccount

RequestInv(r) == JobOf(r) /\ CopyOf(r) /\ DecisionOf(r) /\ NamesOf(r)

RequestsInv == EventsApart /\ \A r \in Requests : RequestInv(r)

IInv == TypeOK /\ ClockBound /\ TablesInv /\ RequestsInv

-----------------------------------------------------------------------------
(* Facts about the operators.                                              *)

\* Every endpoint moves a claim up, out of a status that is not terminal,
\* and only an approved claim becomes paid.
LEMMA TransitionsGoUp ==
  ASSUME NEW s \in Statuses, NEW to \in Targets, to \in transitions[s]
  PROVE  /\ Rank(s) < Rank(to) /\ to \in Statuses /\ s \notin Terminal
         /\ to = "paid" => s = "approved"
         /\ to \notin Waiting \/ to = "on_hold"
BY DEF Statuses, Waiting, Terminal, Targets, transitions, Rank

\* Ranks are numbers, and a status of the table is above "absent".
LEMMA RankType == \A s : Rank(s) \in Nat /\ (s \in Statuses => Rank(s) > 0)
BY DEF Rank, Statuses, Waiting, Terminal

\* The copy after Transition is a row of the right type.
LEMMA TransitionType ==
  ASSUME NEW c \in Rows, NEW to \in Targets, NEW t \in Nat
  PROVE  Transition(c, to, t) \in Rows
BY DEF Transition, Rows, Targets, Statuses, Waiting, Terminal

\* The row after the UPDATE is a row of the right type.
LEMMA UpdatedType ==
  ASSUME NEW old \in Rows, NEW c \in Rows, NEW who
  PROVE  Updated(old, c, who) \in Rows
<1> DEFINE ra == IF c.resolvedAt = 0 THEN old.resolvedAt ELSE c.resolvedAt
           pa == IF c.paidAt = 0 THEN old.paidAt ELSE c.paidAt
           me == IF c.method = "" THEN old.method ELSE c.method
           am == IF c.paidAmount = 0 THEN old.paidAmount ELSE c.paidAmount
           by == IF who \in Staff THEN who ELSE old.resolvedBy
<1>1. /\ ra \in Nat /\ pa \in Nat /\ am \in Nat /\ me \in Methods
      /\ by \in Staff \cup {Nobody}
  BY DEF Rows
<1>2. Updated(old, c, who) =
        [old EXCEPT !.status = c.status, !.resolvedAt = ra, !.paidAt = pa,
                    !.method = me, !.paidAmount = am, !.resolvedBy = by]
  BY DEF Updated
<1> HIDE DEF ra, pa, me, am, by
<1> QED
  BY <1>1, <1>2 DEF Rows

\* NULLs are rows of the right type.
LEMMA NoRowType == NoRow \in Rows
BY DEF NoRow, Rows, Payments, Methods

\* A well-formed event is a row of the log.
LEMMA NewEventType ==
  ASSUME NEW c \in Claims, NEW who \in Actors \cup {Customer},
         NEW action \in {"create", "transition", "view_contact"},
         NEW from \in Statuses \cup {""}, NEW to \in Statuses \cup {""}, NEW t \in Nat
  PROVE  NewEvent(c, who, action, from, to, t) \in Events
BY DEF NewEvent, Events

\* Every event, and the lack of one, has a time.
LEMMA EventTimes ==
  ASSUME NEW e \in Events \cup {NoEvent}
  PROVE  e.at \in Nat
<1>1. CASE e \in Events
  BY <1>1 DEF Events
<1>2. CASE e = NoEvent
  BY <1>2 DEF NoEvent
<1> QED
  BY <1>1, <1>2

\* Where a claim entered a status once, the newest entry is the only one.
LEMMA LastActorFound ==
  ASSUME StatusOnce, events \subseteq Events, NEW c \in Claims, NEW to
  PROVE  /\ LastActor(c, to) = Nobody \/ \E e \in StatusEvents(c) : LastActor(c, to) = e.actor
         /\ (\E e \in StatusEvents(c) : e.action = "transition" /\ e.to = to)
              => \E e \in StatusEvents(c) :
                    e.action = "transition" /\ e.to = to /\ LastActor(c, to) = e.actor
<1> DEFINE hits == {e \in StatusEvents(c) : e.action = "transition" /\ e.to = to}
<1>1. CASE hits = {}
  BY <1>1 DEF LastActor
<1>2. CASE hits # {}
  <2>1. PICK e \in hits : TRUE
    BY <1>2
  <2>2. hits = {e}
    BY <2>1 DEF StatusOnce, OnceOf
  <2>3. e.at \in Nat /\ e \in StatusEvents(c)
    BY <2>1 DEF StatusEvents, Events
  <2>4. (CHOOSE x \in hits : \A f \in hits : f.at <= x.at) = e
    <3>1. \A f \in hits : f.at <= e.at
      BY <2>2, <2>3
    <3> HIDE DEF hits
    <3> QED
      BY <2>1, <2>2, <3>1
  <2>5. LastActor(c, to) = e.actor
    BY <1>2, <2>4 DEF LastActor
  <2> QED
    BY <2>1, <2>3, <2>5
<1> QED
  BY <1>1, <1>2

-----------------------------------------------------------------------------
(* The tables.                                                             *)

\* What is said of one claim depends on its row and its part of the log.
ClaimInv(c) ==
  /\ NewestOf(c) /\ CreatedOf(c) /\ OnceOf(c)
  /\ Chained(c) /\ LedgerFits(c) /\ ResolverFits(c)

LEMMA TablesByClaim == TablesInv <=> \A c \in Claims : ClaimInv(c)
BY DEF TablesInv, ClaimInv, RowIsNewest, CreatedWaiting, StatusOnce, AuditChain,
       LedgerMatchesLog, ResolverIsLastAccount

\* A claim none of whose rows a step writes keeps what is said of it.
LEMMA ClaimUntouched ==
  ASSUME NEW c \in Claims, ClaimInv(c), row'[c] = row[c],
         StatusEvents(c)' = StatusEvents(c)
  PROVE  ClaimInv(c)'
<1>1. NewestOf(c)'
  BY DEF ClaimInv, NewestOf
<1>2. CreatedOf(c)' /\ OnceOf(c)'
  BY DEF ClaimInv, CreatedOf, OnceOf
<1>3. Chained(c)'
  BY DEF ClaimInv, Chained
<1>4. LedgerFits(c)'
  BY DEF ClaimInv, LedgerFits
<1>5. ResolverFits(c)'
  BY DEF ClaimInv, ResolverFits
<1> QED
  BY <1>1, <1>2, <1>3, <1>4, <1>5 DEF ClaimInv

\* One new status event of c, on top of its log.
Topped(c, e) ==
  /\ events' = events \cup {e} /\ e \in Events
  /\ e.claim = c /\ e.action # "view_contact" /\ e.to \in Statuses
  /\ \A f \in StatusEvents(c) : f.at < e.at /\ Rank(f.to) < Rank(e.to)

\* It is added to c's part of the log and to no other claim's.
LEMMA ToppedEvents ==
  ASSUME NEW c \in Claims, NEW e, Topped(c, e)
  PROVE  /\ StatusEvents(c)' = StatusEvents(c) \cup {e}
         /\ \A d \in Claims \ {c} : StatusEvents(d)' = StatusEvents(d)
BY DEF Topped, StatusEvents

\* The row of c as the event on top says it: `old` before, `new` after.
Follows(old, new, e) ==
  /\ new.status = e.to /\ new.amount > 0
  /\ e.action # "transition" => e.to \in Waiting
  /\ e.action = "transition" => old.status # "absent" /\ old.status = e.from
  /\ new.resolvedBy = IF e.actor \in Staff THEN e.actor ELSE old.resolvedBy
  /\ new.paidAt = IF e.to = "paid" THEN e.at ELSE 0
  /\ new.resolvedAt = IF e.to \in Terminal THEN e.at ELSE 0
  /\ e.to # "paid" => new.paidAmount = 0 /\ new.method = ""
  /\ e.to = "paid" => /\ TrueChannel(new.payment, new.method)
                      /\ new.paidAmount \in 1..new.amount

\* An event on top keeps the tables in step if the row takes its status.
LEMMA TablesTopped ==
  ASSUME TypeOK, TablesInv, NEW c \in Claims, NEW e, Topped(c, e),
         \A d \in Claims \ {c} : row'[d] = row[d],
         Follows(row[c], row'[c], e)
  PROVE  TablesInv'
<1> DEFINE log == StatusEvents(c)
<1>1. log' = log \cup {e}
  BY ToppedEvents
<1>2. /\ \A f \in log : f.at < e.at /\ Rank(f.to) < Rank(e.to) /\ f.at \in Nat
      /\ e.at \in Nat /\ e.to \in Statuses /\ e.to # "absent"
  BY DEF Topped, TypeOK, StatusEvents, Events, Statuses, Waiting, Terminal
<1>3. ClaimInv(c)
  BY TablesByClaim
<1> HIDE DEF log
<1>4. NewestOf(c)'
  <2>1. ASSUME NEW g \in log
        PROVE  g.to \in Statuses /\ g.at <= e.at /\ Rank(g.to) <= Rank(e.to)
    <3>1. g.to \in Statuses
      BY <1>3 DEF ClaimInv, NewestOf, log
    <3> QED
      BY <1>2, <3>1, RankType
  <2>2. e.at <= e.at /\ Rank(e.to) <= Rank(e.to)
    BY <1>2, RankType
  <2> QED
    BY <1>1, <1>2, <2>1, <2>2 DEF NewestOf, log, Follows
<1>5. CreatedOf(c)'
  BY <1>1, <1>3 DEF ClaimInv, CreatedOf, log, Follows
<1>6. OnceOf(c)'
  <2>1. \A f \in log : f.to # e.to
    BY <1>2, RankType
  <2> QED
    BY <1>1, <1>3, <2>1 DEF ClaimInv, OnceOf, log
<1>7. Chained(c)'
  <2> DEFINE Before(f, p, s) == /\ p.at < f.at /\ p.to = f.from
                                 /\ ~\E g \in s : p.at < g.at /\ g.at < f.at
  <2>1. ASSUME NEW f \in log, f.action = "transition"
        PROVE  \E p \in log' : Before(f, p, log')
    <3>1. PICK p \in log : Before(f, p, log)
      BY <1>3, <2>1 DEF ClaimInv, Chained, log
    <3>2. ~(p.at < e.at /\ e.at < f.at)
      BY <1>2
    <3> QED
      BY <1>1, <3>1, <3>2
  <2>2. ASSUME e.action = "transition"
        PROVE  \E p \in log' : Before(e, p, log')
    <3>1. PICK p \in log : p.to = row[c].status /\ \A g \in log : g.at <= p.at
      BY <1>3, <2>2 DEF ClaimInv, NewestOf, log, Follows
    <3>2. \A g \in log \cup {e} : ~(p.at < g.at /\ g.at < e.at)
      BY <1>2, <3>1
    <3> QED
      BY <1>1, <1>2, <2>2, <3>1, <3>2 DEF Follows
  <2>3. \A g \in log' : g.at <= e.at
    BY <1>1, <1>2
  <2> HIDE DEF Before
  <2>4. \A f \in log' : f.action = "transition" => \E p \in log' : Before(f, p, log')
    BY <1>1, <2>1, <2>2
  <2> QED
    BY <1>1, <2>3, <2>4 DEF Chained, Before, log, Follows
<1>8. LedgerFits(c)'
  BY <1>1, <1>2 DEF LedgerFits, Follows, Terminal, log
<1>9. ResolverFits(c)'
  <2> DEFINE own == {f \in log : f.actor \in Staff}
  <2>1. CASE e.actor \in Staff
    <3>1. e \in own' /\ \A f \in own' : f.at <= e.at
      BY <1>1, <1>2, <2>1
    <3> QED
      BY <2>1, <3>1 DEF ResolverFits, log, Follows
  <2>2. CASE e.actor \notin Staff
    <3>1. own' = own
      BY <1>1, <2>2
    <3> QED
      BY <1>3, <2>2, <3>1 DEF ClaimInv, ResolverFits, log, Follows
  <2> QED
    BY <2>1, <2>2
<1>10. ASSUME NEW d \in Claims \ {c}
       PROVE  ClaimInv(d)'
  BY <1>10, TablesByClaim, ClaimUntouched, ToppedEvents
<1>11. ClaimInv(c)'
  BY <1>4, <1>5, <1>6, <1>7, <1>8, <1>9 DEF ClaimInv
<1>12. \A d \in Claims : ClaimInv(d)'
  BY <1>10, <1>11
<1> QED
  BY <1>12 DEF ClaimInv, TablesInv, RowIsNewest, CreatedWaiting, StatusOnce,
               AuditChain, LedgerMatchesLog, ResolverIsLastAccount

-----------------------------------------------------------------------------
(* The requests.                                                           *)

\* A request is not concerned by a step that touches neither its own state
\* nor its claim.
LEMMA RequestUntouched ==
  ASSUME NEW r \in Requests, RequestInv(r),
         pc'[r] = pc[r], job'[r] = job[r], mem'[r] = mem[r], ev'[r] = ev[r],
         names'[r] = names[r],
         Busy(r) => /\ row'[job[r].claim] = row[job[r].claim]
                    /\ StatusEvents(job[r].claim)' = StatusEvents(job[r].claim)
  PROVE  RequestInv(r)'
<1>2. JobOf(r)'
  BY DEF RequestInv, JobOf, Busy
<1>3. CopyOf(r)'
  BY DEF RequestInv, CopyOf, Busy
<1>4. DecisionOf(r)'
  BY DEF RequestInv, DecisionOf, Busy, Fits
<1>5. NamesOf(r)'
  BY DEF RequestInv, NamesOf
<1> QED
  BY <1>2, <1>3, <1>4, <1>5 DEF RequestInv

\* A request whose claim another request moves up is left behind, but
\* nothing it holds becomes wrong.
LEMMA RequestOvertaken ==
  ASSUME NEW r \in Requests, RequestInv(r),
         pc'[r] = pc[r], job'[r] = job[r], mem'[r] = mem[r], ev'[r] = ev[r],
         names'[r] = names[r],
         NEW c \in Claims, NEW e, Topped(c, e), Busy(r) => job[r].claim = c,
         row[c].status \in Statuses, row'[c].status = e.to,
         Rank(row[c].status) < Rank(e.to)
  PROVE  RequestInv(r)'
<1>1. StatusEvents(c)' = StatusEvents(c) \cup {e} /\ e.to \in Statuses
  BY ToppedEvents DEF Topped
<1>2. JobOf(r)'
  BY <1>1 DEF RequestInv, JobOf, Busy
<1>3. CopyOf(r)'
  BY <1>1, RankType DEF RequestInv, CopyOf, Busy
<1>4. DecisionOf(r)'
  <2> SUFFICES ASSUME pc[r] = "decided"
               PROVE  DecisionOf(r)'
    BY DEF DecisionOf
  <2>1. job[r].claim = c /\ DecisionOf(r)
    BY DEF RequestInv, Busy
  <2>2. Rank(ev[r].from) < Rank(e.to)
    BY <2>1, RankType DEF DecisionOf
  <2> QED
    BY <1>1, <2>1, <2>2 DEF DecisionOf
<1>5. NamesOf(r)'
  BY DEF RequestInv, NamesOf
<1> QED
  BY <1>2, <1>3, <1>4, <1>5 DEF RequestInv

-----------------------------------------------------------------------------
(* Every step keeps the invariant.                                         *)

\* A step that writes neither a row nor a status event keeps the tables.
LEMMA TablesUntouched ==
  ASSUME TablesInv, row' = row, \A c \in Claims : StatusEvents(c)' = StatusEvents(c)
  PROVE  TablesInv'
<1>1. \A c \in Claims : ClaimInv(c)'
  BY TablesByClaim, ClaimUntouched
<1> QED
  BY <1>1 DEF ClaimInv, TablesInv, RowIsNewest, CreatedWaiting, StatusOnce,
              AuditChain, LedgerMatchesLog, ResolverIsLastAccount

\* A step of r alone that leaves the tables is judged by r alone.
LEMMA OwnStep ==
  ASSUME IInv, NEW r \in Requests, row' = row,
         \A c \in Claims : StatusEvents(c)' = StatusEvents(c),
         \A q \in Requests \ {r} :
            /\ pc'[q] = pc[q] /\ job'[q] = job[q] /\ mem'[q] = mem[q]
            /\ ev'[q] = ev[q] /\ names'[q] = names[q],
         RequestInv(r)', EventsApart', TypeOK', ClockBound'
  PROVE  IInv'
<1>1. TablesInv'
  BY TablesUntouched DEF IInv
<1>2. ASSUME NEW q \in Requests \ {r}
      PROVE  RequestInv(q)'
  <2>1. RequestInv(q)
    BY DEF IInv, RequestsInv
  <2>2. Busy(q) => job[q].claim \in Claims
    BY <2>1 DEF RequestInv, JobOf
  <2> QED
    BY <2>1, <2>2, RequestUntouched
<1>3. \A q \in Requests : RequestInv(q)'
  BY <1>2
<1> QED
  BY <1>1, <1>3 DEF IInv, RequestsInv

\* An answer without an event ends what is said of the request.
LEMMA AnswerQuiet ==
  ASSUME IInv, NEW r \in Requests, NEW code \in Codes \ {"ok"}, Answer(r, code),
         row' = row, events' = events, clock' = clock
  PROVE  IInv'
<1>1. TypeOK'
  BY NoRowType DEF IInv, TypeOK, Answer, PCs, Codes, Jobs, NoNames
<1>2. pc'[r] = "done" /\ ev'[r] = NoEvent
  BY DEF IInv, TypeOK, Answer
<1>3. \A q \in Requests \ {r} :
         /\ pc'[q] = pc[q] /\ job'[q] = job[q] /\ mem'[q] = mem[q]
         /\ ev'[q] = ev[q] /\ names'[q] = names[q]
  BY DEF IInv, TypeOK, Answer
<1>4. RequestInv(r)'
  BY <1>2 DEF RequestInv, JobOf, CopyOf, DecisionOf, NamesOf, Busy
<1>5. EventsApart'
  <2> SUFFICES ASSUME NEW x \in Requests
               PROVE  EventApart(x)'
    BY DEF EventsApart
  <2>1. EventsApart /\ NoEvent.at = 0
    BY DEF NoEvent, IInv, RequestsInv
  <2>2. \A q \in Requests : ev[q] # NoEvent => ev[q].at # 0
    <3>1. \A q \in Requests : ev[q] # NoEvent => ev[q].at > 0 /\ ev[q].at \in Nat
      BY <2>1 DEF EventsApart, EventApart, IInv, TypeOK, Events
    <3> QED
      BY <3>1
  <2>3. CASE x = r
    BY <1>2, <2>3 DEF EventApart
  <2>4. CASE x # r
    <3>1. \A q \in Requests \ {x} : ev'[q].at = ev[q].at \/ ev'[q].at = 0
      BY <1>2, <1>3, <2>1
    <3> QED
      BY <1>2, <1>3, <2>1, <2>2, <2>4, <3>1 DEF EventsApart, EventApart
  <2> QED
    BY <2>3, <2>4
<1>6. ClockBound'
  <2>1. NoEvent.at <= clock
    <3>1. clock \in Nat /\ NoEvent.at = 0
      BY DEF NoEvent, IInv, TypeOK
    <3> QED
      BY <3>1
  <2> QED
    BY <1>2, <1>3, <2>1 DEF IInv, ClockBound
<1>7. \A c \in Claims : StatusEvents(c)' = StatusEvents(c)
  BY DEF StatusEvents
<1> QED
  BY <1>1, <1>3, <1>4, <1>5, <1>6, <1>7, OwnStep

LEMMA ReadClaimKeeps ==
  ASSUME IInv, NEW r \in Requests, ReadClaim(r)
  PROVE  IInv'
<1>1. PICK c \in Claims :
        \/ /\ row[c] # NoRow
           /\ \E who \in Actors, to \in Targets \cup Views :
                job' = [job EXCEPT ![r] = [claim |-> c, actor |-> who, to |-> to]]
           /\ mem' = [mem EXCEPT ![r] = row[c]]
           /\ pc' = [pc EXCEPT ![r] = "read"]
           /\ UNCHANGED <<ev, reply, names>>
        \/ row[c] = NoRow /\ Answer(r, "not_found")
  BY DEF ReadClaim
<1>2. row' = row /\ events' = events /\ clock' = clock /\ pc[r] = "new"
  BY DEF ReadClaim
<1>3. CASE row[c] = NoRow /\ Answer(r, "not_found")
  BY <1>2, <1>3, AnswerQuiet DEF Codes
<1>4. CASE ~(row[c] = NoRow /\ Answer(r, "not_found"))
  <2>1. PICK who \in Actors, to \in Targets \cup Views :
          job' = [job EXCEPT ![r] = [claim |-> c, actor |-> who, to |-> to]]
    BY <1>1, <1>4
  <2>2. /\ row[c] # NoRow /\ mem' = [mem EXCEPT ![r] = row[c]]
        /\ pc' = [pc EXCEPT ![r] = "read"] /\ UNCHANGED <<ev, reply, names>>
    BY <1>1, <1>4
  <2>3. TypeOK'
    BY <1>2, <2>1, <2>2 DEF IInv, TypeOK, PCs, Jobs
  <2>4. /\ pc'[r] = "read" /\ mem'[r] = row[c] /\ job'[r] = [claim |-> c, actor |-> who, to |-> to]
        /\ ev'[r] = ev[r] /\ row[c] \in Rows
    BY <2>1, <2>2 DEF IInv, TypeOK
  <2>5. \A q \in Requests \ {r} :
          /\ pc'[q] = pc[q] /\ job'[q] = job[q] /\ mem'[q] = mem[q]
          /\ ev'[q] = ev[q] /\ names'[q] = names[q]
    BY <2>1, <2>2 DEF IInv, TypeOK
  <2>6. ClaimInv(c)
    BY TablesByClaim DEF IInv
  <2>7. row[c].status \in Statuses
    BY <2>2, <2>4, <2>6 DEF ClaimInv, NewestOf, Rows
  <2>8. RequestInv(r)'
    <3>1. JobOf(r)'
      BY <1>2, <2>4, <2>7 DEF JobOf, Busy
    <3>2. CopyOf(r)'
      <4>1. ASSUME row[c].status \notin Waiting
            PROVE  \E e \in StatusEvents(c) : e.action = "transition" /\ e.to = row[c].status
        BY <2>6, <2>7, <4>1 DEF ClaimInv, NewestOf, CreatedOf, Statuses, Waiting, Terminal
      <4>2. StatusEvents(c)' = StatusEvents(c)
        BY <1>2 DEF StatusEvents
      <4> QED
        BY <1>2, <2>4, <2>7, <4>1, <4>2 DEF CopyOf
    <3> QED
      BY <2>4, <3>1, <3>2 DEF RequestInv, DecisionOf, NamesOf
  <2>9. EventsApart'
    <3>1. ev[r] = NoEvent
      BY <1>2 DEF IInv, RequestsInv, EventsApart, EventApart
    <3> QED
      BY <1>2, <2>4, <2>5, <3>1 DEF IInv, RequestsInv, EventsApart, EventApart
  <2>10. ClockBound'
    BY <1>2, <2>2 DEF IInv, ClockBound
  <2>11. \A d \in Claims : StatusEvents(d)' = StatusEvents(d)
    BY <1>2 DEF StatusEvents
  <2> QED
    BY <1>2, <2>3, <2>5, <2>8, <2>9, <2>10, <2>11, OwnStep
<1> QED
  BY <1>3, <1>4

LEMMA QuietAnswersKeep ==
  ASSUME IInv, NEW r \in Requests,
         \/ \E method \in Methods, sent \in SentAmounts :
              Refuse(r, method, sent)
         \/ ApplyStale(r) \/ Fail(r)
  PROVE  IInv'
<1>1. PICK code \in {"bad_request", "invalid_transition", "stale", "error"} : Answer(r, code)
  BY DEF Refuse, ApplyStale, Fail
<1>2. row' = row /\ events' = events /\ clock' = clock
  BY DEF Refuse, ApplyStale, Fail
<1>3. code \in Codes \ {"ok"}
  BY DEF Codes
<1> QED
  BY <1>1, <1>2, <1>3, AnswerQuiet

LEMMA ListEventsKeeps ==
  ASSUME IInv, NEW r \in Requests, ListEvents(r)
  PROVE  IInv'
<1> DEFINE c == job[r].claim
<1>1. /\ pc[r] = "read" /\ pc' = [pc EXCEPT ![r] = "listed"]
      /\ names' = [names EXCEPT ![r] = [approvedBy |-> LastActor(c, "approved"),
                                        paidBy |-> LastActor(c, "paid")]]
      /\ UNCHANGED <<row, events, clock, job, mem, ev, reply>>
  BY DEF ListEvents
<1>2. RequestInv(r) /\ StatusOnce /\ events \subseteq Events
  BY DEF IInv, RequestsInv, TablesInv, TypeOK
<1>3. c \in Claims
  BY <1>1, <1>2 DEF RequestInv, JobOf, Busy
<1>4. \A e \in StatusEvents(c) :
         e.actor \in Actors \cup {Customer} /\ e.actor # Nobody
  BY <1>2, ActorsDistinct DEF StatusEvents, Events, Actors
<1>5. \A to : LastActor(c, to) \in Actors \cup {Customer, Nobody}
  BY <1>2, <1>3, <1>4, LastActorFound
<1>6. ASSUME mem[r].status \in {"approved", "paid"}
      PROVE  LastActor(c, mem[r].status) # Nobody
  <2>1. \E e \in StatusEvents(c) : e.action = "transition" /\ e.to = mem[r].status
    BY <1>1, <1>2, <1>6 DEF RequestInv, CopyOf, Waiting
  <2> QED
    BY <1>2, <1>3, <1>4, <2>1, LastActorFound
<1>7. TypeOK'
  <2>1. names'[r] \in [approvedBy : Actors \cup {Customer, Nobody},
                       paidBy : Actors \cup {Customer, Nobody}]
    BY <1>1, <1>5 DEF IInv, TypeOK
  <2> QED
    BY <1>1, <2>1 DEF IInv, TypeOK, PCs
<1>8. \A d \in Claims : StatusEvents(d)' = StatusEvents(d)
  BY <1>1 DEF StatusEvents
<1>9. RequestInv(r)'
  <2>1. /\ pc'[r] = "listed"
        /\ names'[r] = [approvedBy |-> LastActor(c, "approved"),
                        paidBy |-> LastActor(c, "paid")]
    BY <1>1 DEF IInv, TypeOK
  <2>2. JobOf(r)'
    BY <1>1, <1>2, <2>1 DEF RequestInv, JobOf, Busy
  <2>3. CopyOf(r)'
    BY <1>1, <1>2, <1>3, <1>8, <2>1 DEF RequestInv, CopyOf
  <2>4. DecisionOf(r)'
    BY <2>1 DEF DecisionOf
  <2>5. NamesOf(r)'
    BY <1>1, <1>6, <2>1 DEF NamesOf
  <2> QED
    BY <2>2, <2>3, <2>4, <2>5 DEF RequestInv
<1>10. EventsApart'
  <2>1. \A q \in Requests : pc[q] \in {"decided", "done"} => pc'[q] = pc[q]
    BY <1>1 DEF IInv, TypeOK
  <2>2. \A q \in Requests : pc'[q] = "done" => pc[q] = "done"
    BY <1>1 DEF IInv, TypeOK
  <2> QED
    BY <1>1, <2>1, <2>2 DEF IInv, RequestsInv, EventsApart, EventApart
<1>11. ClockBound'
  BY <1>1 DEF IInv, ClockBound
<1>12. \A q \in Requests \ {r} :
          /\ pc'[q] = pc[q] /\ job'[q] = job[q] /\ mem'[q] = mem[q]
          /\ ev'[q] = ev[q] /\ names'[q] = names[q]
  BY <1>1 DEF IInv, TypeOK
<1> QED
  BY <1>1, <1>7, <1>8, <1>9, <1>10, <1>11, <1>12, OwnStep

LEMMA FinishViewKeeps ==
  ASSUME IInv, NEW r \in Requests, FinishView(r)
  PROVE  IInv'
<1> DEFINE c == job[r].claim
           e == NewEvent(c, job[r].actor, "view_contact", "", "", clock + 1)
<1>1. /\ pc[r] = "listed" /\ row' = row
      /\ \/ events' = events \cup {e} /\ clock' = clock + 1
         \/ events' = events /\ clock' = clock
  BY DEF FinishView
<1>2. PICK code \in {"ok", "not_approved"} : Answer(r, code)
  BY DEF FinishView
<1>3. c \in Claims /\ job[r].actor \in Actors
  BY <1>1 DEF IInv, RequestsInv, RequestInv, JobOf, Busy
<1>4. ev[r] = NoEvent /\ EventsApart
  BY <1>1 DEF IInv, RequestsInv, EventsApart, EventApart
<1>5. pc'[r] = "done" /\ ev' = ev
  BY <1>2, <1>4 DEF IInv, TypeOK, Answer
<1>6. e \in Events /\ e.at = clock + 1 /\ e.action = "view_contact" /\ clock \in Nat
  <2>1. clock \in Nat
    BY DEF IInv, TypeOK
  <2>2. e \in Events
    <3>1. /\ "view_contact" \in {"create", "transition", "view_contact"}
          /\ "" \in Statuses \cup {""} /\ clock + 1 \in Nat
          /\ job[r].actor \in Actors \cup {Customer}
      BY <1>3, <2>1
    <3> QED
      BY <1>3, <3>1, NewEventType
  <2>3. e.at = clock + 1 /\ e.action = "view_contact"
    BY DEF NewEvent
  <2> QED
    BY <2>1, <2>2, <2>3
<1> HIDE DEF e
<1>7. TypeOK'
  <2>1. events' \subseteq Events /\ clock' \in Nat
    BY <1>1, <1>6 DEF IInv, TypeOK
  <2> QED
    BY <1>1, <1>2, <1>5, <2>1, NoRowType DEF IInv, TypeOK, Answer, PCs, Codes, Jobs, NoNames
<1>8. \A d \in Claims : StatusEvents(d)' = StatusEvents(d)
  BY <1>1, <1>6 DEF StatusEvents
<1>9. RequestInv(r)'
  BY <1>5 DEF RequestInv, JobOf, CopyOf, DecisionOf, NamesOf, Busy
<1>10. EventsApart'
  <2>1. events \subseteq events'
    BY <1>1
  <2>2. \A q \in Requests \ {r} : pc'[q] = pc[q]
    BY <1>2 DEF IInv, TypeOK, Answer
  <2> QED
    BY <1>4, <1>5, <2>1, <2>2 DEF EventsApart, EventApart
<1>11. ClockBound'
  <2>1. \A x : x \in Nat /\ x <= clock => x <= clock'
    BY <1>1, <1>6
  <2>2. ASSUME NEW f \in events'
        PROVE  f.at <= clock'
    <3>1. CASE f \in events
      BY <2>1, <3>1 DEF IInv, ClockBound, TypeOK, Events
    <3>2. CASE f = e /\ clock' = clock + 1
      <4>1. f.at = clock'
        BY <1>6, <3>2
      <4>2. clock' \in Nat
        BY <1>6, <3>2
      <4> QED
        BY <4>1, <4>2
    <3> QED
      BY <1>1, <3>1, <3>2
  <2>3. ASSUME NEW q \in Requests
        PROVE  ev[q].at \in Nat
    BY EventTimes DEF IInv, TypeOK
  <2> QED
    BY <1>5, <2>1, <2>2, <2>3 DEF IInv, ClockBound
<1>12. \A q \in Requests \ {r} :
          /\ pc'[q] = pc[q] /\ job'[q] = job[q] /\ mem'[q] = mem[q]
          /\ ev'[q] = ev[q] /\ names'[q] = names[q]
  BY <1>2, <1>5 DEF IInv, TypeOK, Answer
<1> QED
  BY <1>1, <1>7, <1>8, <1>9, <1>10, <1>11, <1>12, OwnStep

\* The handler's copy with what a mark-paid body adds to it.
Filled(c, to, method, sent) ==
  IF to = "paid"
    THEN [c EXCEPT !.method = method, !.paidAmount = PaidAmount(c, sent)]
    ELSE c

\* No decision has left a trace in the row.
Undecided(c) == /\ c.resolvedAt = 0 /\ c.paidAt = 0
                /\ c.paidAmount = 0 /\ c.method = ""

\* An accepted body makes a copy of the right type.
LEMMA FilledType ==
  ASSUME NEW c \in Rows, NEW to, NEW method \in Methods, NEW sent,
         to = "paid" => PayoutAccepted(c, method, sent)
  PROVE  Filled(c, to, method, sent) \in Rows
<1>1. CASE to = "paid"
  <2>1. PaidAmount(c, sent) \in Nat
    <3>1. PaidAmount(c, sent) \in 1..c.amount
      BY <1>1 DEF PayoutAccepted
    <3>2. c.amount \in Nat
      BY DEF Rows
    <3>3. \A n : n \in 1..c.amount => n \in Nat
      BY <3>2
    <3> QED
      BY <3>1, <3>3
  <2>2. Filled(c, to, method, sent) =
          [c EXCEPT !.method = method, !.paidAmount = PaidAmount(c, sent)]
    BY <1>1 DEF Filled
  <2> QED
    BY <2>1, <2>2 DEF Rows
<1>2. CASE to # "paid"
  BY <1>2 DEF Filled
<1> QED
  BY <1>1, <1>2

\* The copy of a row nobody has decided, after Transition, fits the row.
LEMMA DecidedFits ==
  ASSUME NEW c \in Rows, NEW to \in Targets, NEW method, NEW sent, NEW t \in Nat,
         NEW e, e.to = to, e.at = t, Undecided(c),
         to = "paid" => PayoutAccepted(c, method, sent)
  PROVE  Fits(Transition(Filled(c, to, method, sent), to, t), c, e)
<1>1. CASE to = "paid"
  <2> DEFINE d == Transition(Filled(c, to, method, sent), to, t)
  <2>1. /\ d.status = to /\ d.payment = c.payment /\ d.amount = c.amount
        /\ d.resolvedAt = t /\ d.paidAt = t
        /\ d.method = method /\ d.paidAmount = PaidAmount(c, sent)
    BY <1>1 DEF Transition, Filled, Rows, Terminal
  <2>2. TrueChannel(c.payment, method) /\ PaidAmount(c, sent) \in 1..c.amount
    <3>1. MethodFits(c.payment, method) /\ PaidAmount(c, sent) \in 1..c.amount
      BY <1>1 DEF PayoutAccepted
    <3> QED
      BY <3>1 DEF MethodFits, TrueChannel, PayoutMethods
  <2> HIDE DEF d
  <2>3. TrueChannel(d.payment, d.method) /\ d.paidAmount \in 1..d.amount
    BY <2>1, <2>2
  <2>4. Fits(d, c, e)
    BY <1>1, <2>1, <2>3 DEF Fits, Terminal
  <2> QED
    BY <2>4 DEF d
<1>2. CASE to # "paid"
  <2> DEFINE d == Transition(c, to, t)
  <2>1. /\ d.status = to /\ d.payment = c.payment /\ d.amount = c.amount
        /\ d.resolvedAt = IF to \in Terminal THEN t ELSE c.resolvedAt
        /\ d.paidAt = c.paidAt /\ d.method = c.method
        /\ d.paidAmount = c.paidAmount
    BY <1>2 DEF Transition, Rows
  <2>2. Filled(c, to, method, sent) = c
    BY <1>2 DEF Filled
  <2> HIDE DEF d
  <2>3. Fits(d, c, e)
    BY <1>2, <2>1 DEF Fits, Undecided
  <2> QED
    BY <2>2, <2>3 DEF d
<1> QED
  BY <1>1, <1>2

LEMMA DecideKeeps ==
  ASSUME IInv, NEW r \in Requests, NEW method \in Methods,
         NEW sent \in SentAmounts, Decide(r, method, sent)
  PROVE  IInv'
<1> DEFINE c == job[r].claim
           to == job[r].to
           e == NewEvent(c, job[r].actor, "transition", mem[r].status, to, clock + 1)
           d == Transition(Filled(mem[r], to, method, sent), to, clock + 1)
<1>1. /\ pc[r] = "read" /\ to \in Targets
      /\ to = "paid" => PayoutAccepted(mem[r], method, sent)
      /\ to \in transitions[mem[r].status]
      /\ mem' = [mem EXCEPT ![r] = d] /\ ev' = [ev EXCEPT ![r] = e]
      /\ clock' = clock + 1 /\ pc' = [pc EXCEPT ![r] = "decided"]
      /\ UNCHANGED <<row, events, job, reply, names>>
  BY DEF Decide, Filled
<1>2. RequestInv(r) /\ EventsApart /\ ClockBound /\ mem[r] \in Rows
  BY DEF IInv, RequestsInv, TypeOK
<1>3. clock' = clock + 1 /\ events' = events
  BY <1>1
<1>4. clock \in Nat
  BY DEF IInv, TypeOK
<1>5. /\ clock + 1 \in Nat \ {0} /\ clock + 1 > 0 /\ clock + 1 <= clock + 1
       /\ \A n \in Nat : n <= clock => n < clock + 1 /\ n <= clock + 1 /\ n # clock + 1
  BY <1>4
<1>6. /\ c \in Claims /\ job[r].actor \in Actors /\ row[c].status \in Statuses
      /\ mem[r].status \in Statuses
      /\ mem[r] = row[c] \/ Rank(mem[r].status) < Rank(row[c].status)
  BY <1>1, <1>2 DEF RequestInv, JobOf, CopyOf, Busy
<1>7. /\ e.at = clock + 1 /\ e.to = to /\ e.from = mem[r].status /\ e # NoEvent
      /\ e.claim = c /\ e.actor = job[r].actor /\ e.action = "transition"
  BY DEF NewEvent, NoEvent
<1>8. e \in Events
  <2>1. /\ "transition" \in {"create", "transition", "view_contact"}
        /\ to \in Statuses \cup {""} /\ mem[r].status \in Statuses \cup {""}
        /\ job[r].actor \in Actors \cup {Customer}
    BY <1>1, <1>6, TransitionsGoUp
  <2>2. clock + 1 \in Nat
    BY <1>4
  <2> HIDE DEF to
  <2> QED
    BY <1>6, <2>1, <2>2 DEF NewEvent, Events
<1>9. d \in Rows
  <2>1. Filled(mem[r], to, method, sent) \in Rows
    BY <1>1, <1>2, FilledType
  <2>2. clock + 1 \in Nat
    BY <1>4
  <2> QED
    BY <1>1, <2>1, <2>2, TransitionType
<1>10. mem[r] = row[c] => Fits(d, row[c], e)
  <2> SUFFICES ASSUME mem[r] = row[c]
               PROVE  Fits(d, row[c], e)
    OBVIOUS
  <2>1. mem[r].status \notin Terminal /\ mem[r].status # "paid"
    BY <1>1, <1>6, TransitionsGoUp DEF Terminal
  <2>2. LedgerFits(c)
    BY <1>6 DEF IInv, TablesInv, LedgerMatchesLog
  <2>3. Undecided(mem[r])
    BY <2>1, <2>2 DEF LedgerFits, Undecided
  <2>4. clock + 1 \in Nat
    BY <1>4
  <2> HIDE DEF e
  <2> QED
    BY <1>1, <1>2, <1>7, <2>3, <2>4, DecidedFits
<1> HIDE DEF e, d
<1>11. TypeOK'
  <2>1. clock' \in Nat
    BY <1>3, <1>4
  <2> QED
    BY <1>1, <1>8, <1>9, <2>1 DEF IInv, TypeOK, PCs
<1>12. /\ pc'[r] = "decided" /\ ev'[r] = e /\ mem'[r] = d /\ job'[r] = job[r]
      /\ \A q \in Requests \ {r} :
            /\ pc'[q] = pc[q] /\ job'[q] = job[q] /\ mem'[q] = mem[q]
            /\ ev'[q] = ev[q] /\ names'[q] = names[q]
  BY <1>1 DEF IInv, TypeOK
<1>13. \A x \in Claims : StatusEvents(x)' = StatusEvents(x)
  BY <1>1 DEF StatusEvents
<1>14. \A f \in events : f.at \in Nat /\ f.at <= clock
  BY <1>2 DEF IInv, TypeOK, Events, ClockBound
<1>15. \A q \in Requests : ev[q].at \in Nat /\ ev[q].at <= clock
  BY <1>2, EventTimes DEF IInv, TypeOK, ClockBound
<1>16. RequestInv(r)'
  <2>1. JobOf(r)'
    BY <1>1, <1>2, <1>12 DEF RequestInv, JobOf, Busy
  <2>2. DecisionOf(r)'
    <3>1. e = NewEvent(c, job[r].actor, "transition", e.from, to, e.at)
      BY <1>7 DEF e
    <3>2. e.at \in Nat \ {0}
      BY <1>7, <1>5
    <3>3. \A f \in StatusEvents(c) : f.at < e.at
      BY <1>7, <1>14, <1>5 DEF StatusEvents
    <3>4. (row[c].status = e.from /\ Fits(d, row[c], e)) \/ Rank(e.from) < Rank(row[c].status)
      BY <1>6, <1>7, <1>10
    <3> QED
      BY <1>1, <1>6, <1>7, <1>12, <1>13, <3>1, <3>2, <3>3, <3>4 DEF DecisionOf
  <2> QED
    BY <1>12, <2>1, <2>2 DEF RequestInv, CopyOf, NamesOf
<1>17. EventsApart'
  <2>1. e.at > 0 /\ \A q \in Requests : ev[q].at # e.at
    BY <1>7, <1>15, <1>5
  <2>2. ASSUME NEW x \in Requests
        PROVE  EventApart(x)'
    <3>1. CASE x = r
      BY <1>1, <1>12, <2>1, <3>1 DEF EventApart
    <3>2. CASE x # r
      BY <1>2, <1>12, <1>3, <2>1, <3>2 DEF EventsApart, EventApart
    <3> QED
      BY <3>1, <3>2
  <2> QED
    BY <2>2 DEF EventsApart
<1>18. ClockBound'
  <2>1. \A f \in events' : f.at <= clock'
    BY <1>14, <1>3, <1>5
  <2>2. \A q \in Requests : ev'[q].at <= clock'
    BY <1>7, <1>12, <1>15, <1>3, <1>5
  <2> QED
    BY <2>1, <2>2 DEF ClockBound
<1> QED
  BY <1>1, <1>11, <1>12, <1>13, <1>16, <1>17, <1>18, OwnStep

\* The UPDATE writes what a fitting copy says, over a row nobody decided.
LEMMA UpdatedFollows ==
  ASSUME NEW old \in Rows, NEW c \in Rows, NEW e, Fits(c, old, e), e.at \in Nat \ {0},
         e.action = "transition", old.status = e.from, old.status # "absent",
         old.amount > 0, Undecided(old)
  PROVE  Follows(old, Updated(old, c, e.actor), e)
<1> DEFINE new == Updated(old, c, e.actor)
<1>1. /\ new.status = c.status /\ new.payment = old.payment /\ new.amount = old.amount
      /\ new.resolvedAt = IF c.resolvedAt = 0 THEN 0 ELSE c.resolvedAt
      /\ new.paidAt = IF c.paidAt = 0 THEN 0 ELSE c.paidAt
      /\ new.method = IF c.method = "" THEN "" ELSE c.method
      /\ new.paidAmount = IF c.paidAmount = 0 THEN 0 ELSE c.paidAmount
      /\ new.resolvedBy = IF e.actor \in Staff THEN e.actor ELSE old.resolvedBy
  BY DEF Updated, Undecided, Rows
<1> HIDE DEF new
<1>2. new.amount > 0 /\ new.status = e.to
  BY <1>1 DEF Fits
<1>3. /\ new.paidAt = IF e.to = "paid" THEN e.at ELSE 0
      /\ new.resolvedAt = IF e.to \in Terminal THEN e.at ELSE 0
  BY <1>1 DEF Fits
<1>4. new.method = c.method /\ new.paidAmount = c.paidAmount
  BY <1>1
<1>5. e.to # "paid" => new.paidAmount = 0 /\ new.method = ""
  BY <1>4 DEF Fits
<1>6. e.to = "paid" => /\ TrueChannel(new.payment, new.method)
                       /\ new.paidAmount \in 1..new.amount
  BY <1>1, <1>4 DEF Fits
<1>7. Follows(old, new, e)
  BY <1>1, <1>2, <1>3, <1>5, <1>6 DEF Follows
<1> QED
  BY <1>7 DEF new

\* A change that finds its status puts its event on top of the claim's log
\* and the row follows it.
LEMMA ApplyTops ==
  ASSUME IInv, NEW r \in Requests, Apply(r),
         NEW c, NEW e, c = job[r].claim, e = ev[r]
  PROVE  /\ c \in Claims /\ e.to \in Targets /\ e.from \in Statuses
         /\ e.to \in transitions[e.from] /\ row[c].status = e.from
         /\ Topped(c, e) /\ Follows(row[c], row'[c], e)
         /\ row'[c].amount = row[c].amount /\ row'[c] \in Rows
         /\ \A d \in Claims \ {c} : row'[d] = row[d]
<1>1. /\ pc[r] = "decided" /\ row[c].status = e.from
      /\ row' = [row EXCEPT ![c] = Updated(row[c], mem[r], e.actor)]
      /\ events' = events \cup {e} /\ clock' = clock
  BY DEF Apply
<1>2. RequestInv(r)
  BY DEF IInv, RequestsInv
<1>3. /\ c \in Claims /\ row[c] \in Rows /\ mem[r] \in Rows /\ e \in Events \cup {NoEvent}
      /\ job[r].to \in Targets
  BY <1>1, <1>2 DEF RequestInv, JobOf, Busy, IInv, TypeOK
<1>4. /\ e.claim = c /\ e.action = "transition" /\ e.to = job[r].to
      /\ e.from \in Statuses /\ e.to \in transitions[e.from]
      /\ e.at \in Nat \ {0}
      /\ \A f \in StatusEvents(c) : f.at < e.at \/ Rank(e.from) < Rank(f.to)
  BY <1>1, <1>2 DEF RequestInv, DecisionOf, NewEvent
<1>5. e \in Events /\ e # NoEvent
  <2>1. NoEvent.action = ""
    BY DEF NoEvent
  <2> QED
    BY <1>3, <1>4, <2>1
<1>6. /\ Rank(e.from) < Rank(e.to) /\ e.to \in Statuses /\ e.from \notin Terminal
      /\ e.from # "absent"
  BY <1>3, <1>4, TransitionsGoUp DEF Statuses, Waiting, Terminal
<1>7. Fits(mem[r], row[c], e)
  <2>1. ~(Rank(e.from) < Rank(e.from))
    BY RankType
  <2> QED
    BY <1>1, <1>2, <2>1 DEF RequestInv, DecisionOf
<1>8. ClaimInv(c)
  BY <1>3, TablesByClaim DEF IInv
<1>9. Topped(c, e)
  <2>1. ASSUME NEW f \in StatusEvents(c)
        PROVE  f.at < e.at /\ Rank(f.to) < Rank(e.to)
    <3>1. Rank(f.to) <= Rank(e.from)
      BY <1>1, <1>6, <1>8 DEF ClaimInv, NewestOf
    <3>2. ~(Rank(e.from) < Rank(f.to)) /\ Rank(f.to) < Rank(e.to)
      BY <1>6, <3>1, RankType
    <3> QED
      BY <1>4, <3>2
  <2> QED
    BY <1>1, <1>4, <1>5, <1>6, <2>1 DEF Topped
<1>10. row'[c] = Updated(row[c], mem[r], e.actor)
  BY <1>1, <1>3 DEF IInv, TypeOK
<1>11. Follows(row[c], row'[c], e)
  <2>1. Undecided(row[c])
    BY <1>1, <1>6, <1>8 DEF Undecided, ClaimInv, LedgerFits, Terminal
  <2>2. row[c].amount > 0
    BY <1>1, <1>6, <1>8 DEF ClaimInv, NewestOf
  <2> QED
    BY <1>1, <1>3, <1>4, <1>6, <1>7, <1>10, <2>1, <2>2, UpdatedFollows
<1>12. \A d \in Claims \ {c} : row'[d] = row[d]
  BY <1>1 DEF IInv, TypeOK
<1>13. row'[c] \in Rows
  BY <1>3, <1>10, UpdatedType
<1>14. row'[c].amount = row[c].amount
  BY <1>3, <1>10 DEF Updated, Rows
<1> QED
  BY <1>1, <1>3, <1>4, <1>9, <1>11, <1>12, <1>13, <1>14

LEMMA ApplyKeeps ==
  ASSUME IInv, NEW r \in Requests, Apply(r)
  PROVE  IInv'
<1> DEFINE c == job[r].claim
           e == ev[r]
<1>1. PICK code \in {"ok", "error"} : Answer(r, code)
  BY DEF Apply
<1>2. /\ row' = [row EXCEPT ![c] = Updated(row[c], mem[r], e.actor)]
      /\ events' = events \cup {e} /\ clock' = clock
  BY DEF Apply
<1>3. EventsApart /\ ClockBound
  BY DEF IInv, RequestsInv
<1>4. /\ c \in Claims /\ e.to \in Targets /\ e.from \in Statuses
      /\ e.to \in transitions[e.from] /\ row[c].status = e.from
      /\ Topped(c, e) /\ Follows(row[c], row'[c], e) /\ row'[c] \in Rows
      /\ \A d \in Claims \ {c} : row'[d] = row[d]
  BY ApplyTops
<1>5. Rank(e.from) < Rank(e.to)
  BY <1>4, TransitionsGoUp
<1> HIDE DEF e
<1>6. /\ pc'[r] = "done" /\ ev'[r] = (IF code = "ok" THEN e ELSE NoEvent)
       /\ \A q \in Requests \ {r} :
             /\ pc'[q] = pc[q] /\ job'[q] = job[q] /\ mem'[q] = mem[q]
             /\ ev'[q] = ev[q] /\ names'[q] = names[q]
  BY <1>1 DEF Answer, IInv, TypeOK, e
<1>7. TypeOK'
  <2>1. row' \in [Claims -> Rows]
    <3>1. row' = [row EXCEPT ![c] = row'[c]]
      BY <1>2, <1>4 DEF IInv, TypeOK
    <3> QED
      BY <1>4, <3>1 DEF IInv, TypeOK
  <2>2. events' \subseteq Events /\ clock' \in Nat
    BY <1>2, <1>4 DEF IInv, TypeOK, Topped
  <2> QED
    BY <1>1, <2>1, <2>2, NoRowType DEF IInv, TypeOK, Answer, PCs, Codes, Jobs, NoNames
<1>8. TablesInv'
  BY <1>4, TablesTopped DEF IInv
<1>9. ASSUME NEW q \in Requests
       PROVE  RequestInv(q)'
  <2>1. CASE q = r
    BY <1>6, <2>1 DEF RequestInv, JobOf, CopyOf, DecisionOf, NamesOf, Busy
  <2>2. CASE q # r /\ Busy(q) /\ job[q].claim # c
    <3>1. RequestInv(q) /\ job[q].claim \in Claims
      BY <2>2 DEF IInv, RequestsInv, RequestInv, JobOf
    <3> QED
      BY <1>4, <1>6, <2>2, <3>1, ToppedEvents, RequestUntouched
  <2>3. CASE q # r /\ (Busy(q) => job[q].claim = c)
    <3>1. RequestInv(q)
      BY DEF IInv, RequestsInv
    <3>2. row[c].status \in Statuses /\ row'[c].status = e.to
      BY <1>4 DEF Follows
    <3> QED
      BY <1>4, <1>5, <1>6, <2>3, <3>1, <3>2, RequestOvertaken
  <2> QED
    BY <2>1, <2>2, <2>3
<1>10. EventsApart'
  <2>1. e \in events' /\ events \subseteq events'
    BY <1>2
  <2>2. NoEvent.at = 0
    BY DEF NoEvent
  <2>3. ASSUME NEW x \in Requests
        PROVE  EventApart(x)'
    <3>1. EventApart(x) /\ EventApart(r) /\ e = ev[r]
      BY <1>3 DEF EventsApart, e
    <3>2. CASE x = r
      BY <1>6, <2>1, <3>1, <3>2 DEF EventApart
    <3>3. CASE x # r
      <4>1. ev[x] # NoEvent => ev[x].at # 0
        <5>1. ev[x].at \in Nat /\ (ev[x] # NoEvent => ev[x].at > 0)
          BY <3>1, EventTimes DEF EventApart, IInv, TypeOK
        <5> QED
          BY <5>1
      <4>2. \A q \in Requests \ {x} : ev'[q].at = ev[q].at \/ ev'[q].at = 0
        BY <1>6, <2>2, <3>1
      <4> QED
        BY <1>6, <2>1, <3>1, <3>3, <4>1, <4>2 DEF EventApart
    <3> QED
      BY <3>2, <3>3
  <2> QED
    BY <2>3 DEF EventsApart
<1>11. ClockBound'
  <2>1. e.at <= clock
    BY <1>3 DEF ClockBound, e
  <2>2. NoEvent.at <= clock
    <3>1. clock \in Nat /\ NoEvent.at = 0
      BY DEF NoEvent, IInv, TypeOK
    <3> QED
      BY <3>1
  <2> QED
    BY <1>2, <1>3, <1>6, <2>1, <2>2 DEF ClockBound
<1> QED
  BY <1>7, <1>8, <1>9, <1>10, <1>11 DEF IInv, RequestsInv

LEMMA CreateClaimKeeps ==
  ASSUME IInv, NEW c \in Claims, CreateClaim(c)
  PROVE  IInv'
<1>1. PICK s \in Waiting, p \in Payments, a \in Amounts :
        /\ row' = [row EXCEPT ![c] =
                     [NoRow EXCEPT !.status = s, !.payment = p, !.amount = a]]
        /\ events' = events \cup {NewEvent(c, Customer, "create", "", s, clock + 1)}
  BY DEF CreateClaim
<1>2. /\ row[c] = NoRow /\ clock' = clock + 1
      /\ UNCHANGED <<pc, job, mem, ev, reply, names>>
  BY DEF CreateClaim
<1> DEFINE e == NewEvent(c, Customer, "create", "", s, clock + 1)
           new == [NoRow EXCEPT !.status = s, !.payment = p, !.amount = a]
<1>3. NoRow.status = "absent" /\ NoRow.resolvedBy = Nobody
  BY DEF NoRow
<1>4. /\ e.at = clock + 1 /\ e.to = s /\ e.claim = c /\ e.actor = Customer
      /\ e.action = "create"
  BY DEF NewEvent
<1>5. /\ new.status = s /\ new.payment = p /\ new.amount = a /\ new.resolvedBy = Nobody
      /\ new.resolvedAt = 0 /\ new.paidAt = 0 /\ new.paidAmount = 0 /\ new.method = ""
  BY DEF NoRow
<1>6. clock \in Nat
  BY DEF IInv, TypeOK
<1>7. clock + 1 \in Nat
  BY <1>6
<1>8. e \in Events
  <2>1. /\ "create" \in {"create", "transition", "view_contact"} /\ s \in Statuses
        /\ Customer \in Actors \cup {Customer}
    BY DEF Statuses
  <2> QED
    BY <1>7, <2>1 DEF NewEvent, Events
<1>9. a \in Nat /\ a > 0
  BY AmountsPositive
<1>10. new \in Rows
  <2>1. s \in Statuses \cup {"absent"} /\ NoRow \in Rows
    BY NoRowType DEF Statuses
  <2> QED
    BY <1>9, <2>1 DEF Rows
<1> HIDE DEF e, new
<1>11. ClaimInv(c) /\ StatusEvents(c) = {}
  <2>1. ClaimInv(c)
    BY TablesByClaim DEF IInv
  <2> QED
    BY <1>2, <1>3, <2>1 DEF ClaimInv, NewestOf
<1>12. row'[c] = new /\ events' = events \cup {e}
  BY <1>1 DEF new, e, IInv, TypeOK
<1>13. \A d \in Claims \ {c} : row'[d] = row[d]
  BY <1>1 DEF IInv, TypeOK
<1>14. Topped(c, e)
  BY <1>4, <1>8, <1>11, <1>12 DEF Topped, Statuses
<1>15. Follows(row[c], row'[c], e)
  <2>1. s # "paid" /\ s \notin Terminal /\ Customer \notin Staff
    BY ActorsDistinct DEF Waiting, Terminal
  <2>2. row[c].resolvedBy = Nobody
    BY <1>2, <1>3
  <2> QED
    BY <1>4, <1>5, <1>9, <1>12, <2>1, <2>2 DEF Follows
<1>16. TypeOK'
  <2>1. row' \in [Claims -> Rows]
    BY <1>1, <1>10 DEF new, IInv, TypeOK
  <2>2. events' \subseteq Events /\ clock' \in Nat
    BY <1>2, <1>7, <1>8, <1>12 DEF IInv, TypeOK
  <2> QED
    BY <1>2, <2>1, <2>2 DEF IInv, TypeOK
<1>17. TablesInv'
  BY <1>13, <1>14, <1>15, TablesTopped DEF IInv
<1>18. ASSUME NEW q \in Requests
       PROVE  RequestInv(q)'
  <2>1. RequestInv(q)
    BY DEF IInv, RequestsInv
  <2>2. Busy(q) => job[q].claim \in Claims \ {c}
    BY <1>2, <1>3, <2>1 DEF RequestInv, JobOf, Statuses, Waiting, Terminal
  <2>3. Busy(q) => /\ row'[job[q].claim] = row[job[q].claim]
                   /\ StatusEvents(job[q].claim)' = StatusEvents(job[q].claim)
    <3>1. \A d \in Claims \ {c} : StatusEvents(d)' = StatusEvents(d)
      BY <1>14, ToppedEvents
    <3>2. job' = job
      BY <1>2
    <3> QED
      BY <1>13, <2>2, <3>1, <3>2 DEF StatusEvents
  <2> QED
    BY <1>2, <2>1, <2>3, RequestUntouched
<1>19. EventsApart'
  <2>1. events \subseteq events' /\ pc' = pc /\ ev' = ev
    BY <1>2, <1>12
  <2> QED
    BY <2>1 DEF IInv, RequestsInv, EventsApart, EventApart
<1>20. ClockBound'
  <2>1. clock + 1 <= clock + 1 /\ \A n \in Nat : n <= clock => n <= clock + 1
    BY <1>6
  <2>2. \A f \in events : f.at \in Nat /\ f.at <= clock
    BY EventTimes DEF IInv, TypeOK, ClockBound
  <2>3. \A q \in Requests : ev[q].at \in Nat /\ ev[q].at <= clock
    BY EventTimes DEF IInv, TypeOK, ClockBound
  <2>4. ev' = ev /\ clock' = clock + 1
    BY <1>2
  <2> QED
    BY <1>4, <1>12, <2>1, <2>2, <2>3, <2>4 DEF ClockBound
<1> QED
  BY <1>16, <1>17, <1>18, <1>19, <1>20 DEF IInv, RequestsInv

LEMMA InitHolds == Init => IInv
<1> SUFFICES ASSUME Init
             PROVE  IInv
  OBVIOUS
<1>1. /\ row = [c \in Claims |-> NoRow] /\ events = {} /\ clock = 0
      /\ pc = [r \in Requests |-> "new"] /\ ev = [r \in Requests |-> NoEvent]
  BY DEF Init
<1>2. TypeOK
  BY NoRowType DEF Init, TypeOK, PCs, Jobs, Codes, NoNames
<1>3. ClockBound
  <2>1. NoEvent.at <= 0
    BY DEF NoEvent
  <2> QED
    BY <1>1, <2>1 DEF ClockBound
<1>4. TablesInv
  <2>1. /\ NoRow.status = "absent" /\ NoRow.resolvedBy = Nobody /\ NoRow.resolvedAt = 0
        /\ NoRow.paidAt = 0 /\ NoRow.paidAmount = 0 /\ NoRow.method = ""
    BY DEF NoRow
  <2>2. ASSUME NEW c \in Claims
        PROVE  ClaimInv(c)
    <3>1. StatusEvents(c) = {} /\ row[c] = NoRow
      BY <1>1 DEF StatusEvents
    <3> QED
      BY <2>1, <3>1 DEF ClaimInv, NewestOf, CreatedOf, OnceOf, Chained, LedgerFits,
                        ResolverFits
  <2> QED
    BY <2>2, TablesByClaim
<1>5. RequestsInv
  BY <1>1 DEF RequestsInv, EventsApart, EventApart, RequestInv, JobOf, CopyOf,
              DecisionOf, NamesOf, Busy
<1> QED
  BY <1>2, <1>3, <1>4, <1>5 DEF IInv

LEMMA NextKeeps == IInv /\ [Next]_vars => IInv'
<1> SUFFICES ASSUME IInv, [Next]_vars
             PROVE  IInv'
  OBVIOUS
<1>1. CASE UNCHANGED vars
  <2>1. /\ row' = row /\ events' = events /\ clock' = clock /\ pc' = pc /\ job' = job
        /\ mem' = mem /\ ev' = ev /\ reply' = reply /\ names' = names
    BY <1>1 DEF vars
  <2>2. TypeOK' /\ ClockBound'
    BY <2>1 DEF IInv, TypeOK, ClockBound
  <2>3. TablesInv'
    BY <2>1, TablesUntouched DEF IInv, StatusEvents
  <2>4. EventsApart'
    BY <2>1 DEF IInv, RequestsInv, EventsApart, EventApart
  <2>5. \A r \in Requests : RequestInv(r)'
    BY <2>1, RequestUntouched DEF IInv, RequestsInv, StatusEvents
  <2> QED
    BY <2>2, <2>3, <2>4, <2>5 DEF IInv, RequestsInv
<1>2. ASSUME NEW c \in Claims, CreateClaim(c)
      PROVE  IInv'
  BY <1>2, CreateClaimKeeps
<1>3. ASSUME NEW r \in Requests, Handle(r)
      PROVE  IInv'
  BY <1>3, ReadClaimKeeps, DecideKeeps, ApplyKeeps, QuietAnswersKeep, ListEventsKeeps,
     FinishViewKeeps DEF Handle
<1> QED
  BY <1>1, <1>2, <1>3 DEF Next

\* The inductive invariant holds in every reachable state.
THEOREM Invariant == Spec => []IInv
BY InitHolds, NextKeeps, PTL DEF Spec

-----------------------------------------------------------------------------
(* What follows.                                                           *)

\* The tables, the handlers' locals and the answers keep their shapes.
THEOREM TypeCorrect == Spec => []TypeOK
<1>1. IInv => TypeOK
  BY DEF IInv
<1> QED
  BY <1>1, Invariant, PTL

\* However requests race, the log of a claim is one chain that ends in the
\* status of its row.
THEOREM AuditChainHolds == Spec => []AuditChain
<1>1. IInv => AuditChain
  BY DEF IInv, TablesInv
<1> QED
  BY <1>1, Invariant, PTL

\* No claim is recorded as refunded twice: CAS on the status is enough
\* because no endpoint ever brings a status back.
THEOREM PaidOnceHolds == Spec => []PaidOnce
<1>1. IInv => PaidOnce
  BY DEF IInv, TablesInv, StatusOnce, OnceOf, PaidOnce
<1> QED
  BY <1>1, Invariant, PTL

\* What a row says of a decision is what the log says of it, payout included.
THEOREM LedgerMatchesLogHolds == Spec => []LedgerMatchesLog
<1>1. IInv => LedgerMatchesLog
  BY DEF IInv, TablesInv
<1> QED
  BY <1>1, Invariant, PTL

\* resolved_by is the account that made the newest change an account made.
THEOREM ResolverIsLastAccountHolds == Spec => []ResolverIsLastAccount
<1>1. IInv => ResolverIsLastAccount
  BY DEF IInv, TablesInv
<1> QED
  BY <1>1, Invariant, PTL

\* A detail that shows a decision names its decider, although row and log
\* are read by separate queries.
THEOREM DetailNamesItsDeciderHolds == Spec => []DetailNamesItsDecider
<1>1. IInv => DetailNamesItsDecider
  BY DEF IInv, RequestsInv, RequestInv, NamesOf, DetailNamesItsDecider
<1> QED
  BY <1>1, Invariant, PTL

\* Only a finished request has an answer.
AnsweredIsDone == \A r \in Requests : reply[r] # "" => pc[r] = "done"

LEMMA AnsweredIsDoneHolds == Spec => []AnsweredIsDone
<1>1. Init => AnsweredIsDone
  BY DEF Init, AnsweredIsDone
<1>2. IInv /\ AnsweredIsDone /\ [Next]_vars => AnsweredIsDone'
  <2> SUFFICES ASSUME IInv, AnsweredIsDone, [Next]_vars
               PROVE  AnsweredIsDone'
    OBVIOUS
  <2>1. /\ pc \in [Requests -> PCs] /\ reply \in [Requests -> Codes]
    BY DEF IInv, TypeOK
  <2>2. ASSUME NEW r \in Requests, NEW code, Answer(r, code)
        PROVE  AnsweredIsDone'
    BY <2>1, <2>2 DEF Answer, AnsweredIsDone
  <2>3. ASSUME NEW r \in Requests, NEW here, pc[r] # "done",
               pc' = [pc EXCEPT ![r] = here], reply' = reply
        PROVE  AnsweredIsDone'
    BY <2>1, <2>3 DEF AnsweredIsDone
  <2>4. CASE pc' = pc /\ reply' = reply
    BY <2>4 DEF AnsweredIsDone
  <2>5. CASE UNCHANGED vars
    BY <2>4, <2>5 DEF vars
  <2>6. ASSUME NEW c \in Claims, CreateClaim(c)
        PROVE  AnsweredIsDone'
    BY <2>4, <2>6 DEF CreateClaim
  <2>7. ASSUME NEW r \in Requests, Handle(r)
        PROVE  AnsweredIsDone'
    <3>1. CASE ReadClaim(r)
      BY <2>2, <2>3, <3>1 DEF ReadClaim
    <3>2. ASSUME NEW method, NEW sent, Decide(r, method, sent)
          PROVE  AnsweredIsDone'
      BY <2>3, <3>2 DEF Decide
    <3>3. ASSUME NEW method, NEW sent, Refuse(r, method, sent)
          PROVE  AnsweredIsDone'
      BY <2>2, <3>3 DEF Refuse
    <3>4. CASE ListEvents(r)
      BY <2>3, <3>4 DEF ListEvents
    <3>5. CASE Apply(r) \/ ApplyStale(r) \/ Fail(r) \/ FinishView(r)
      BY <2>2, <3>5 DEF Apply, ApplyStale, Fail, FinishView
    <3> QED
      BY <2>7, <3>1, <3>2, <3>3, <3>4, <3>5 DEF Handle
  <2> QED
    BY <2>5, <2>6, <2>7 DEF Next
<1> QED
  BY <1>1, <1>2, Invariant, PTL DEF Spec

\* A 200 is never a lie: the change it answers is in the log, and no other
\* request was answered for the same one.
THEOREM OkMeansRecordedHolds == Spec => []OkMeansRecorded
<1>1. IInv /\ AnsweredIsDone => OkMeansRecorded
  BY DEF IInv, RequestsInv, EventsApart, EventApart, AnsweredIsDone, OkMeansRecorded
<1> QED
  BY <1>1, Invariant, AnsweredIsDoneHolds, PTL

-----------------------------------------------------------------------------
(* The steps.                                                              *)

\* Only a new claim and a change that found its status write a row.
LEMMA RowWriters ==
  ASSUME [Next]_vars
  PROVE  \/ row' = row
         \/ \E c \in Claims : CreateClaim(c)
         \/ \E r \in Requests : Apply(r)
<1>1. CASE UNCHANGED vars
  BY <1>1 DEF vars
<1>2. ASSUME NEW r \in Requests, Handle(r)
      PROVE  row' = row \/ Apply(r)
  BY <1>2 DEF Handle, ReadClaim, Decide, Refuse, ApplyStale, Fail, ListEvents, FinishView
<1> QED
  BY <1>1, <1>2 DEF Next

\* A paid or rejected row never changes again, in any column.
THEOREM TerminalIsFinalHolds == Spec => TerminalIsFinal
<1>1. IInv /\ [Next]_vars =>
        [\A c \in Claims : row[c].status \in Terminal => row'[c] = row[c]]_row
  <2> SUFFICES ASSUME IInv, [Next]_vars, row' # row, NEW d \in Claims,
                      row[d].status \in Terminal
               PROVE  row'[d] = row[d]
    OBVIOUS
  <2>1. ASSUME NEW c \in Claims, CreateClaim(c)
        PROVE  row'[d] = row[d]
    <3>1. row[c] = NoRow /\ NoRow.status = "absent"
      BY <2>1 DEF CreateClaim, NoRow
    <3>2. c # d
      BY <3>1 DEF Terminal
    <3>3. \E new : row' = [row EXCEPT ![c] = new]
      BY <2>1 DEF CreateClaim
    <3> QED
      BY <3>2, <3>3 DEF IInv, TypeOK
  <2>2. ASSUME NEW r \in Requests, Apply(r)
        PROVE  row'[d] = row[d]
    BY <2>2, ApplyTops, TransitionsGoUp
  <2> QED
    BY <2>1, <2>2, RowWriters
<1> QED
  BY <1>1, Invariant, PTL DEF Spec, TerminalIsFinal

-----------------------------------------------------------------------------
(* The refinement of RefundBook.                                           *)

\* A step that writes the row of c writes the entry of c.
LEMMA OneEntry ==
  ASSUME NEW c \in Claims, \A d \in Claims \ {c} : row'[d] = row[d]
  PROVE  /\ BookView' = [BookView EXCEPT ![c] = Entry(row'[c])]
         /\ BookView[c] = Entry(row[c])
<1>1. BookView' = [d \in Claims |-> Entry(row'[d])]
  BY DEF BookView
<1> QED
  BY <1>1 DEF BookView

\* Every change an endpoint asks for is a step of the book, or none of it.
LEMMA FollowsBook ==
  ASSUME NEW c \in Claims, NEW e,
         e.from \in Statuses, e.to \in Targets, e.to \in transitions[e.from],
         row[c].status = e.from, Follows(row[c], row'[c], e),
         row'[c].amount = row[c].amount, row[c].paidAmount = 0,
         \A d \in Claims \ {c} : row'[d] = row[d]
  PROVE  [Book!Next]_BookView
<1> DEFINE out == row'[c].paidAmount
<1>1. /\ BookView' = [BookView EXCEPT ![c] = Entry(row'[c])]
      /\ BookView[c] = Entry(row[c])
  BY OneEntry
<1>2. /\ Entry(row[c]) = [stage |-> BookStage(e.from), due |-> row[c].amount, out |-> 0]
      /\ Entry(row'[c]) = [stage |-> BookStage(e.to), due |-> row[c].amount, out |-> out]
  BY DEF Entry, Follows
<1>3. e.to # "paid" => out = 0
  BY DEF Follows
<1>4. e.to = "paid" => out \in 1..row[c].amount
  BY DEF Follows
<1>5. CASE e.to = "on_hold"
  <2>1. e.from \in Waiting /\ e.to \in Waiting
    BY <1>5 DEF transitions, Statuses, Waiting, Terminal
  <2>2. Entry(row'[c]) = Entry(row[c])
    BY <1>2, <1>3, <1>5, <2>1 DEF BookStage, Waiting
  <2>3. BookView' = BookView
    BY <1>1, <2>2 DEF BookView
  <2> QED
    BY <2>3
<1>6. CASE e.to = "approved"
  <2>1. BookStage(e.from) = "open" /\ BookStage(e.to) = "approved"
    BY <1>6 DEF transitions, Statuses, Waiting, Terminal, BookStage
  <2>2. BookView' = [BookView EXCEPT ![c].stage = "approved"]
    <3>1. [BookView[c] EXCEPT !.stage = "approved"] = Entry(row'[c])
      BY <1>1, <1>2, <1>3, <1>6, <2>1
    <3> QED
      BY <1>1, <3>1
  <2>3. BookView[c].stage = "open"
    BY <1>1, <1>2, <2>1
  <2>4. Book!Approve(c)
    BY <2>2, <2>3 DEF Book!Approve
  <2> QED
    BY <2>4 DEF Book!Next
<1>7. CASE e.to = "rejected"
  <2>1. BookStage(e.from) \in {"open", "approved"} /\ BookStage(e.to) = "rejected"
    BY <1>7 DEF transitions, Statuses, Waiting, Terminal, BookStage
  <2>2. BookView' = [BookView EXCEPT ![c].stage = "rejected"]
    <3>1. [BookView[c] EXCEPT !.stage = "rejected"] = Entry(row'[c])
      BY <1>1, <1>2, <1>3, <1>7, <2>1
    <3> QED
      BY <1>1, <3>1
  <2>3. BookView[c].stage \in {"open", "approved"}
    BY <1>1, <1>2, <2>1
  <2>4. Book!Reject(c)
    BY <2>2, <2>3 DEF Book!Reject
  <2> QED
    BY <2>4 DEF Book!Next
<1>8. CASE e.to = "paid"
  <2>1. BookStage(e.from) = "approved" /\ BookStage(e.to) = "paid"
    BY <1>8, TransitionsGoUp DEF BookStage, Waiting
  <2>2. BookView[c].stage = "approved" /\ BookView[c].due = row[c].amount
    BY <1>1, <1>2, <2>1
  <2> HIDE DEF out
  <2>3. BookView' = [BookView EXCEPT ![c] =
                       [stage |-> "paid", due |-> BookView[c].due, out |-> out]]
    BY <1>1, <1>2, <2>1, <2>2
  <2>4. Book!Pay(c)
    BY <1>4, <1>8, <2>2, <2>3 DEF Book!Pay
  <2> QED
    BY <2>4 DEF Book!Next
<1> QED
  BY <1>5, <1>6, <1>7, <1>8 DEF Targets

\* A new claim opens its entry.
LEMMA CreateOpens ==
  ASSUME NEW c \in Claims, row \in [Claims -> Rows], CreateClaim(c)
  PROVE  Book!Open(c)
<1>1. PICK s \in Waiting, p \in Payments, a \in Amounts :
        row' = [row EXCEPT ![c] =
                  [NoRow EXCEPT !.status = s, !.payment = p, !.amount = a]]
  BY DEF CreateClaim
<1> DEFINE new == [NoRow EXCEPT !.status = s, !.payment = p, !.amount = a]
<1>2. row[c] = NoRow
  BY DEF CreateClaim
<1>3. row'[c] = new /\ \A d \in Claims \ {c} : row'[d] = row[d]
  BY <1>1
<1>4. Entry(new) = [stage |-> "open", due |-> a, out |-> 0]
  BY DEF Entry, BookStage, NoRow, Waiting
<1>5. Entry(NoRow) = Book!Unopened
  BY DEF Entry, BookStage, NoRow, Book!Unopened
<1> HIDE DEF new
<1>6. /\ BookView' = [BookView EXCEPT ![c] = [stage |-> "open", due |-> a, out |-> 0]]
      /\ BookView[c] = Book!Unopened
  BY <1>2, <1>3, <1>4, <1>5, OneEntry
<1> QED
  BY <1>6 DEF Book!Open

\* Whatever requests race, the store keeps the abstract book: each claim is
\* opened once, approved before it is paid, paid once and within its amount.
THEOREM BookImplemented == Spec => ImplementsBook
<1>1. Init => Book!Init
  <2>1. Entry(NoRow) = Book!Unopened
    BY DEF Entry, BookStage, NoRow, Book!Unopened
  <2> QED
    BY <2>1 DEF Init, Book!Init, BookView
<1>2. IInv /\ [Next]_vars => [Book!Next]_BookView
  <2> SUFFICES ASSUME IInv, [Next]_vars
               PROVE  [Book!Next]_BookView
    OBVIOUS
  <2>1. CASE row' = row
    BY <2>1 DEF BookView
  <2>2. ASSUME NEW c \in Claims, CreateClaim(c)
        PROVE  [Book!Next]_BookView
    <3>1. Book!Open(c)
      BY <2>2, CreateOpens DEF IInv, TypeOK
    <3> QED
      BY <3>1 DEF Book!Next
  <2>3. ASSUME NEW r \in Requests, Apply(r)
        PROVE  [Book!Next]_BookView
    <3> DEFINE c == job[r].claim
               e == ev[r]
    <3>1. /\ c \in Claims /\ e.to \in Targets /\ e.from \in Statuses
          /\ e.to \in transitions[e.from] /\ row[c].status = e.from
          /\ Follows(row[c], row'[c], e) /\ row'[c].amount = row[c].amount
          /\ \A d \in Claims \ {c} : row'[d] = row[d]
      BY <2>3, ApplyTops
    <3>2. row[c].paidAmount = 0
      <4>1. row[c].status # "paid"
        BY <3>1, TransitionsGoUp DEF Terminal
      <4>2. LedgerFits(c)
        BY <3>1 DEF IInv, TablesInv, LedgerMatchesLog
      <4> QED
        BY <4>1, <4>2 DEF LedgerFits
    <3> QED
      BY <3>1, <3>2, FollowsBook
  <2> QED
    BY <2>1, <2>2, <2>3, RowWriters
<1> QED
  BY <1>1, <1>2, Invariant, PTL DEF Spec, ImplementsBook, Book!Spec
=============================================================================
