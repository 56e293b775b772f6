------------------------------- MODULE Watch -------------------------------
(***************************************************************************)
(* The worker's periodic pass: it alerts the owner of a machine with many  *)
(* claims, once a day, and sends every shop a digest of the day before     *)
(* (internal/worker/worker.go, internal/store/stats.go).  What it has done *)
(* already it knows from the cache, which a restart empties unless it is   *)
(* Redis (internal/cache), and from a local variable of Run.  The purge of *)
(* photos, the third task of a pass, is part of ClaimIntake.               *)
(*                                                                         *)
(* Time is a number of ticks since a midnight in Korea.  Dates of alerts   *)
(* are the process's (ZoneShift numbers them from its own midnight on),    *)
(* dates of digests Korean.                                                *)
(***************************************************************************)
EXTENDS Integers, FiniteSets

CONSTANTS
  Machines, Stores, StoreOf,   \* machine -> its shop
  threshold,    \* MachineAlertCount
  DayLength,    \* ticks of a day
  digestHour,   \* digests are sent from this time of the day on
  ZoneShift,    \* how far the process's date is ahead of the Korean one
  Lag,          \* the longest a transaction that inserts a claim takes
  Nothing,      \* no machine, no date
  MaxNow, MaxReports, MaxRestarts, MaxExcused, MaxPass   \* bounds

ASSUME ShopsType == StoreOf \in [Machines -> Stores] /\ Nothing \notin Machines \cup Nat
ASSUME TimesType ==
  /\ {threshold, digestHour, ZoneShift, MaxNow, MaxReports, MaxRestarts, MaxExcused} \subseteq Nat
  /\ DayLength \in Nat \ {0}

\* A pass, and the transaction of a claim, are over long before the next
\* midnight or digest: seconds against hours.
ASSUME ShortSteps == Lag \in 0..(digestHour - 1) /\ MaxPass \in 0..(DayLength - 1)

VARIABLES
  now,        \* the clock
  reports,    \* machine -> time -> claims created then
  redis,      \* is the cache Redis, or the worker's own memory?
  keys,       \* the cache: [machine, date, expires]
  pc,         \* where the worker's loop stands
  tickAt,     \* the time of its present pass
  queue,      \* machines over the threshold it has still to look at
  current,    \* the alert whose key it has taken and that it has to send
  rows,       \* digests it has still to send
  lastDigest, \* the Korean date of the last digest, in memory
  restarts,   \* how often the worker has died
  seen,       \* machines over the threshold in this pass
  alerted,    \* alerts the notifier was given
  excused,    \* [machine, date] whose alert an error or a crash has cost
  digested    \* [store, day, count, nth] of digests the notifier was given

loop == <<pc, tickAt, queue, current, rows, lastDigest, seen>>
vars == <<now, reports, redis, keys, loop, restarts, alerted, excused, digested>>

-----------------------------------------------------------------------------
Times == 0..MaxNow
Day(t) == t \div DayLength
DateOf(t) == (t + ZoneShift) \div DayLength
Days  == 0..Day(MaxNow)
Dates == 0..DateOf(MaxNow)

\* The claims of a machine, those of each time numbered.
Claims(m, times)   == UNION {{<<m, t>>} \X (1..reports[m][t]) : t \in times \cap Times}
Reported(m, times) == Cardinality(Claims(m, times))
AllClaims == UNION {Claims(m, Times) : m \in Machines}

\* A claim of a transaction that began at t commits now.
Report(m, t) ==
  /\ Cardinality(AllClaims) < MaxReports
  /\ t \in Times /\ now - Lag <= t /\ t <= now
  /\ reports' = [reports EXCEPT ![m][t] = @ + 1]
  /\ UNCHANGED <<now, redis, keys, loop, restarts, alerted, excused, digested>>

-----------------------------------------------------------------------------
(* CheckMachineAlerts.                                                     *)

MachinesOverThreshold ==
  {m \in Machines : Reported(m, (now - DayLength)..now) >= threshold}

\* The locals of the pass are gone.
EndPass == pc' = "idle" /\ tickAt' = 0 /\ seen' = {}

\* Run's ticker fires.  If the query fails, the pass goes on without alerts.
StartPass ==
  /\ pc = "idle"
  /\ pc' = "alerts" /\ tickAt' = now
  /\ queue' \in {MachinesOverThreshold, {}}
  /\ seen' = queue'
  /\ UNCHANGED <<now, reports, redis, keys, current, rows, lastDigest, restarts,
                 alerted, excused, digested>>

\* Fault: one key for all machines.
KeyOfDate(m) == [machine |-> CHOOSE x \in Machines : TRUE, date |-> DateOf(tickAt)]

KeyOf(m) == [machine |-> m, date |-> DateOf(tickAt)]

Holds(key) == \E k \in keys : k.machine = key.machine /\ k.date = key.date

\* Fault: the key lives for less than a day.
ExpiresSoon == now + 1

Expires == now + DayLength

PutKey(key) ==
  keys' = keys \cup {[machine |-> key.machine, date |-> key.date, expires |-> Expires]}

\* SetNX is fresh, or the key is there.
TakeKey(m) ==
  /\ pc = "alerts" /\ m \in queue
  /\ queue' = queue \ {m}
  /\ \/ /\ ~Holds(KeyOf(m)) /\ PutKey(KeyOf(m))
        /\ pc' = "sending"
        /\ current' = [machine |-> m, date |-> DateOf(tickAt), at |-> now, life |-> restarts]
     \/ /\ Holds(KeyOf(m))
        /\ UNCHANGED <<keys, pc, current>>
  /\ UNCHANGED <<now, reports, redis, tickAt, rows, lastDigest, restarts, seen,
                 alerted, excused, digested>>

\* Redis does not answer: the alert is skipped, even if the key was set.
CacheFails(m) ==
  /\ redis /\ pc = "alerts" /\ m \in queue
  /\ Cardinality(excused) < MaxExcused
  /\ queue' = queue \ {m}
  /\ UNCHANGED keys \/ (~Holds(KeyOf(m)) /\ PutKey(KeyOf(m)))
  /\ excused' = excused \cup {[machine |-> m, date |-> DateOf(tickAt)]}
  /\ UNCHANGED <<now, reports, redis, pc, tickAt, current, rows, lastDigest,
                 restarts, seen, alerted, digested>>

\* The notifier is given the alert; if it fails, that is only logged.
SendAlert ==
  /\ pc = "sending"
  /\ alerted' = alerted \cup {current}
  /\ pc' = "alerts" /\ current' = Nothing
  /\ UNCHANGED <<now, reports, redis, keys, tickAt, queue, rows, lastDigest,
                 restarts, seen, excused, digested>>

-----------------------------------------------------------------------------
(* SendDailyDigest.                                                        *)

DayTimes(d) == (d * DayLength)..((d + 1) * DayLength - 1)

ClaimsOf(s, d) == UNION {Claims(m, DayTimes(d)) : m \in {m \in Machines : StoreOf[m] = s}}
Claimed(s, d)  == Cardinality(ClaimsOf(s, d))

\* Fault: the digest of the day that has just begun.
DigestOfToday(t) == Day(t)

\* The digest at time t is about the day before.
DigestDay(t) == Day(t) - 1

\* A shop without a claim on that day gets none.
DailyDigest(d) ==
  {[store |-> s, day |-> d, count |-> Claimed(s, d)] : s \in {s \in Stores : Claimed(s, d) > 0}}

\* Due once a day: the hour is reached and the date is not the last one's.
DigestDue == tickAt % DayLength >= digestHour /\ lastDigest # Day(tickAt)

AlertsDone == pc = "alerts" /\ queue = {}

\* No digest is due: the pass is over.
NoDigest ==
  /\ AlertsDone /\ ~DigestDue
  /\ EndPass
  /\ UNCHANGED <<now, reports, redis, keys, queue, current, rows, lastDigest,
                 restarts, alerted, excused, digested>>

QueryDigest ==
  /\ AlertsDone /\ DigestDue
  /\ pc' = "digest" /\ seen' = {}
  /\ rows' = DailyDigest(DigestDay(tickAt))
  /\ UNCHANGED <<now, reports, redis, keys, tickAt, queue, current, lastDigest,
                 restarts, alerted, excused, digested>>


\* A query fails: nothing was sent, the next pass tries again.
DigestFails ==
  /\ AlertsDone /\ DigestDue
  /\ EndPass
  /\ UNCHANGED <<now, reports, redis, keys, queue, current, rows, lastDigest,
                 restarts, alerted, excused, digested>>

Sent(s, d) == Cardinality({r \in digested : r.store = s /\ r.day = d})

\* One shop's digest goes to the notifier; if it fails, that is only logged.
SendDigest(r) ==
  /\ pc = "digest" /\ r \in rows
  /\ rows' = rows \ {r}
  /\ digested' = digested \cup {[store |-> r.store, day |-> r.day, count |-> r.count,
                                 nth |-> Sent(r.store, r.day) + 1]}
  /\ UNCHANGED <<now, reports, redis, keys, pc, tickAt, queue, current, lastDigest,
                 restarts, seen, alerted, excused>>

\* Fault: Run does not note the date.
FinishUnnoted ==
  /\ pc = "digest" /\ rows = {}
  /\ EndPass
  /\ UNCHANGED <<now, reports, redis, keys, queue, current, rows, lastDigest,
                 restarts, alerted, excused, digested>>

FinishDigest ==
  /\ pc = "digest" /\ rows = {}
  /\ EndPass
  /\ lastDigest' = Day(tickAt)
  /\ UNCHANGED <<now, reports, redis, keys, queue, current, rows,
                 restarts, alerted, excused, digested>>

-----------------------------------------------------------------------------
(* Restarts and time.                                                      *)

\* The worker dies and comes back: its variables are new, and so is the cache
\* if it was in its memory.
Restart ==
  /\ restarts < MaxRestarts
  /\ restarts' = restarts + 1
  /\ EndPass /\ queue' = {} /\ current' = Nothing /\ rows' = {} /\ lastDigest' = Nothing
  /\ keys' = IF redis THEN keys ELSE {}
  /\ excused' = IF pc = "sending"
                  THEN excused \cup {[machine |-> current.machine, date |-> current.date]}
                  ELSE excused
  /\ UNCHANGED <<now, reports, redis, alerted, digested>>

\* A key whose time has come reads as absent: Redis drops it then, Memory does
\* not count it from the moment after.
Alive(k, t) == IF redis THEN t < k.expires ELSE t <= k.expires

Tick ==
  /\ now < MaxNow
  /\ pc # "idle" => now - tickAt < MaxPass
  /\ now' = now + 1
  /\ keys' = {k \in keys : Alive(k, now + 1)}
  /\ UNCHANGED <<reports, redis, loop, restarts, alerted, excused, digested>>

Init ==
  /\ now = 0 /\ redis \in BOOLEAN /\ keys = {} /\ restarts = 0
  /\ reports = [m \in Machines |-> [t \in Times |-> 0]]
  /\ pc = "idle" /\ tickAt = 0 /\ queue = {} /\ current = Nothing /\ rows = {}
  /\ lastDigest = Nothing /\ seen = {}
  /\ alerted = {} /\ excused = {} /\ digested = {}

Pass ==
  \/ StartPass \/ SendAlert \/ NoDigest \/ QueryDigest \/ DigestFails \/ FinishDigest
  \/ \E m \in Machines : TakeKey(m) \/ CacheFails(m)
  \/ \E r \in rows : SendDigest(r)

Next ==
  \/ Pass \/ Restart \/ Tick
  \/ \E m \in Machines, t \in Times : Report(m, t)

\* The ticker fires for ever and a pass goes on to its end; the database is
\* not down whenever a digest is due.
Spec == Init /\ [][Next]_vars /\ WF_vars(Pass) /\ SF_vars(QueryDigest)

-----------------------------------------------------------------------------
(* Correctness.                                                            *)

Alerts == [machine : Machines, date : Dates, at : Times, life : 0..MaxRestarts]

\* The variables keep their types; a pass alerts only about machines it saw.
TypeOK ==
  /\ now \in Times /\ tickAt \in 0..now
  /\ reports \in [Machines -> [Times -> Nat]]
  /\ redis \in BOOLEAN
  /\ keys \subseteq [machine : Machines, date : Dates, expires : Nat]
  /\ pc \in {"idle", "alerts", "sending", "digest"}
  /\ queue \subseteq seen /\ seen \subseteq Machines
  /\ IF pc = "sending"
       THEN current \in Alerts /\ current.machine \in seen \ queue
       ELSE current = Nothing
  /\ rows \subseteq [store : Stores, day : Days, count : Nat \ {0}]
  /\ rows # {} => pc = "digest"
  /\ lastDigest \in Days \cup {Nothing}
  /\ restarts \in 0..MaxRestarts
  /\ alerted \subseteq Alerts
  /\ excused \subseteq [machine : Machines, date : Dates]
  /\ digested \subseteq [store : Stores, day : Days, count : Nat \ {0}, nth : Nat \ {0}]

ApartBy(a, b, time) == a.at - b.at >= time \/ b.at - a.at >= time

\* However many passes of a date see a machine over the threshold, its owner is
\* alerted once: a second alert under the same date comes a day later, from a
\* pass that ran over midnight, or after a restart that emptied the cache.
AlertsApart ==
  \A a, b \in alerted :
    a # b /\ a.machine = b.machine /\ a.date = b.date =>
      ApartBy(a, b, DayLength) \/ (~redis /\ a.life # b.life)

\* When a pass is done with the alerts, every machine it saw over the threshold
\* has been alerted about that day, by this pass or an earlier one, unless an
\* error of the cache or a crash before the send has cost the day's alert.
NoBusyMachineForgotten ==
  AlertsDone =>
    \A m \in seen : \/ \E a \in alerted : a.machine = m /\ a.date = DateOf(tickAt)
                    \/ [machine |-> m, date |-> DateOf(tickAt)] \in excused

\* A shop is sent a day's digest once for every time the worker was started.
DigestsBounded == \A r \in digested : r.nth <= 1 + restarts

\* The count of a digest is the day's last word: no claim of that day commits
\* after it was sent.
DigestIsFinal == \A r \in digested : r.count = Claimed(r.store, r.day)


=============================================================================
