----------------------------- MODULE Watch_proofs -----------------------------
(***************************************************************************)
(* What TLAPS proves of Watch, for any machines, shops, limits and lengths *)
(* of a day.                                                               *)
(*                                                                         *)
(* The argument.  A key stands for an alert that was sent, is about to be  *)
(* sent, or was lost to an error: so a pass forgets no machine.  It lives  *)
(* for a day in every life of the worker that can see it: so two alerts    *)
(* under one key are a day apart.  The date of the last digest, which      *)
(* never goes back, closes a shop's day for this life of the worker.  And  *)
(* a digest is counted so long after its day that no transaction begun on  *)
(* that day can still commit.                                              *)
(***************************************************************************)
EXTENDS Watch, FiniteSetTheorems, TLAPS

\* The alert of machine m for date d has been given, or is lost.
Settled(m, d) ==
  (\E a \in alerted : a.machine = m /\ a.date = d) \/ [machine |-> m, date |-> d] \in excused

OnItsWay(m, d) == pc = "sending" /\ current.machine = m /\ current.date = d

\* Whatever a pass has taken from its queue, and whatever has a key.
PassInv ==
  /\ pc \in {"idle", "alerts", "sending", "digest"}
  /\ pc \in {"idle", "digest"} => queue = {}
  /\ pc = "sending" => current.date = DateOf(tickAt)
  /\ pc \in {"alerts", "sending"} =>
       \A m \in seen \ queue : Settled(m, DateOf(tickAt)) \/ OnItsWay(m, DateOf(tickAt))
  /\ \A k \in keys : Settled(k.machine, k.date) \/ OnItsWay(k.machine, k.date)

\* The alerts given and the one that is about to be.
Begun == alerted \cup (IF pc = "sending" THEN {current} ELSE {})

Guarded(a) ==
  \/ now - a.at >= DayLength
  \/ \E k \in keys : k.machine = a.machine /\ k.date = a.date /\ k.expires = a.at + DayLength

Apart(a, b) == ApartBy(a, b, DayLength) \/ (~redis /\ a.life # b.life)

ApartInv ==
  /\ now \in Int /\ restarts \in Nat
  /\ \A a \in Begun :
       /\ a.at \in Int /\ a.life \in Int /\ a.life <= restarts
       /\ redis \/ a.life = restarts => Guarded(a)
  /\ \A a, b \in Begun : a # b /\ a.machine = b.machine /\ a.date = b.date => Apart(a, b)

\* Shop s gets no digest of day d any more in this life of the worker.
Closed(s, d) ==
  \/ lastDigest # Nothing /\ d < lastDigest
  \/ pc = "digest" /\ d = DigestDay(tickAt) /\ \A r \in rows : r.store # s

DigestInv ==
  /\ now \in Nat /\ tickAt \in 0..now /\ restarts \in Nat
  /\ lastDigest # Nothing => lastDigest \in Int /\ lastDigest <= Day(now)
  /\ lastDigest # Nothing /\ pc # "idle" => lastDigest <= Day(tickAt)
  /\ rows # {} => pc = "digest"
  /\ \A r \in rows : r.day = DigestDay(tickAt)
  /\ \A r, q \in rows : r.store = q.store => r = q
  /\ pc = "digest" => lastDigest # Day(tickAt)
  /\ IsFiniteSet(digested)
  /\ \A s : \A d \in Int : Sent(s, d) <= restarts + (IF Closed(s, d) THEN 1 ELSE 0)
  /\ \A r \in digested : r.nth \in Int /\ r.nth <= 1 + restarts

\* The digest of a day is counted when no transaction begun on it is left.
FinalInv ==
  \A r \in rows \cup digested :
    /\ r.day \in Int /\ (r.day + 1) * DayLength + digestHour <= now
    /\ r.count = Claimed(r.store, r.day)

\* TypeOK in four parts, of variables that change together.
ClockTyped ==
  now \in Times /\ tickAt \in 0..now /\ reports \in [Machines -> [Times -> Nat]]

PassTyped ==
  /\ pc \in {"idle", "alerts", "sending", "digest"}
  /\ queue \subseteq seen /\ seen \subseteq Machines
  /\ IF pc = "sending"
       THEN current \in Alerts /\ current.machine \in seen \ queue
       ELSE current = Nothing
  /\ restarts \in 0..MaxRestarts

LogTyped ==
  /\ keys \subseteq [machine : Machines, date : Dates, expires : Nat]
  /\ alerted \subseteq Alerts
  /\ excused \subseteq [machine : Machines, date : Dates]

DigestTyped ==
  /\ rows \subseteq [store : Stores, day : Days, count : Nat \ {0}]
  /\ rows # {} => pc = "digest"
  /\ lastDigest \in Days \cup {Nothing}
  /\ digested \subseteq [store : Stores, day : Days, count : Nat \ {0}, nth : Nat \ {0}]

Typed == ClockTyped /\ PassTyped /\ LogTyped /\ DigestTyped

IInv ==
  /\ TypeOK /\ IsFiniteSet(AllClaims)
  /\ PassInv /\ ApartInv /\ DigestInv /\ FinalInv

-----------------------------------------------------------------------------
LEMMA InitHolds == Init => IInv
<1> SUFFICES ASSUME Init PROVE IInv
  OBVIOUS
<1> USE DEF Init
<1>1. PassInv
  BY DEF PassInv
<1>2. ApartInv
  BY DEF ApartInv, Begun
<1>3. DigestInv
  <2>1. \A s : \A d \in Int : Sent(s, d) = 0
    BY FS_EmptySet DEF Sent
  <2>2. IsFiniteSet(digested)
    BY FS_EmptySet
  <2> QED
    BY <2>1, <2>2 DEF DigestInv
<1>4. IsFiniteSet(AllClaims)
  <2>1. 1..0 = {}
    OBVIOUS
  <2>2. \A m \in Machines : Claims(m, Times) = {}
    BY <2>1 DEF Claims
  <2>3. AllClaims = {}
    BY <2>2 DEF AllClaims
  <2> QED
    BY <2>3, FS_EmptySet
<1>5. TypeOK
  <2>1. 0 \in Times /\ 0 \in 0..MaxRestarts /\ 0 \in 0..0
    BY TimesType DEF Times
  <2>2. reports \in [Machines -> [Times -> Nat]]
    OBVIOUS
  <2> QED
    BY <2>1, <2>2 DEF TypeOK
<1>6. FinalInv
  BY DEF FinalInv
<1> QED
  BY <1>1, <1>2, <1>3, <1>4, <1>5, <1>6 DEF IInv

-----------------------------------------------------------------------------
(* No machine is forgotten.                                                *)

\* What was settled stays so.
LEMMA SettledStays ==
  ASSUME alerted \subseteq alerted', excused \subseteq excused', NEW m, NEW d, Settled(m, d)
  PROVE  Settled(m, d)'
BY DEF Settled

LEMMA PassKeeps ==
  ASSUME PassInv, [Next]_vars PROVE PassInv'
<1> USE DEF PassInv
<1>0. alerted \subseteq alerted' /\ excused \subseteq excused'
  BY DEF Next, Pass, Report, StartPass, TakeKey, CacheFails, SendAlert, NoDigest, QueryDigest,
         DigestFails, SendDigest, FinishDigest, Restart, Tick, loop, vars
<1>a. \A m, d : Settled(m, d) => Settled(m, d)'
  BY <1>0, SettledStays
\* Steps that leave the alerts of the pass alone.
<1>b. ASSUME pc' = pc, UNCHANGED <<tickAt, queue, current, seen>>, keys' \subseteq keys PROVE PassInv'
  BY <1>a, <1>b DEF OnItsWay, DateOf
<1>c. ASSUME pc # "sending", pc' \in {"idle", "digest"}, queue' = {}, keys' \subseteq keys PROVE PassInv'
  BY <1>a, <1>c DEF OnItsWay
<1>1. ASSUME NEW m \in Machines, NEW t \in Times, Report(m, t) PROVE PassInv'
  BY <1>1, <1>b DEF Report, loop
<1>2. CASE StartPass
  BY <1>2, <1>a DEF StartPass, OnItsWay
<1>3. ASSUME NEW m \in Machines, TakeKey(m) PROVE PassInv'
  <2>1. /\ pc = "alerts" /\ queue' = queue \ {m} /\ UNCHANGED <<tickAt, seen>>
        /\ DateOf(tickAt)' = DateOf(tickAt)
    BY <1>3 DEF TakeKey, DateOf
  <2>2. CASE /\ PutKey(KeyOf(m)) /\ pc' = "sending"
             /\ current' = [machine |-> m, date |-> DateOf(tickAt), at |-> now, life |-> restarts]
    <3>1. OnItsWay(m, DateOf(tickAt))' /\ current'.date = DateOf(tickAt)
      BY <2>1, <2>2 DEF OnItsWay
    <3>2. \A x \in seen' \ queue' : Settled(x, DateOf(tickAt))' \/ OnItsWay(x, DateOf(tickAt))'
      BY <1>a, <2>1, <3>1 DEF OnItsWay
    <3>3. \A k \in keys' : k \in keys \/ (k.machine = m /\ k.date = DateOf(tickAt))
      BY <2>2 DEF PutKey, KeyOf
    <3>4. \A k \in keys' : Settled(k.machine, k.date)' \/ OnItsWay(k.machine, k.date)'
      BY <1>a, <2>1, <2>2, <3>3 DEF OnItsWay
    <3> QED
      BY <2>1, <2>2, <3>1, <3>2, <3>4
  <2>3. CASE Holds(KeyOf(m)) /\ UNCHANGED <<keys, pc, current>>
    <3>1. Settled(m, DateOf(tickAt))
      BY <2>1, <2>3 DEF Holds, KeyOf, OnItsWay
    <3> QED
      BY <1>a, <2>1, <2>3, <3>1 DEF OnItsWay
  <2> QED
    BY <1>3, <2>2, <2>3 DEF TakeKey
<1>4. ASSUME NEW m \in Machines, CacheFails(m) PROVE PassInv'
  <2>1. /\ pc = "alerts" /\ queue' = queue \ {m} /\ UNCHANGED <<pc, tickAt, seen>>
        /\ DateOf(tickAt)' = DateOf(tickAt)
        /\ [machine |-> m, date |-> DateOf(tickAt)] \in excused'
        /\ \A k \in keys' : k \in keys \/ (k.machine = m /\ k.date = DateOf(tickAt))
    BY <1>4 DEF CacheFails, DateOf, PutKey, KeyOf
  <2>2. Settled(m, DateOf(tickAt))'
    BY <2>1 DEF Settled
  <2>3. \A k \in keys' : Settled(k.machine, k.date)'
    <3>1. ASSUME NEW k \in keys', k.machine = m, k.date = DateOf(tickAt) PROVE Settled(k.machine, k.date)'
      BY <2>1, <3>1 DEF Settled
    <3> QED
      BY <1>a, <2>1, <3>1 DEF OnItsWay
  <2> QED
    BY <1>a, <2>1, <2>2, <2>3 DEF OnItsWay
<1>5. CASE SendAlert
  <2>1. /\ pc = "sending" /\ pc' = "alerts" /\ current \in alerted' /\ current.date = DateOf(tickAt)
        /\ UNCHANGED <<tickAt, queue, seen, keys>> /\ DateOf(tickAt)' = DateOf(tickAt)
    BY <1>5 DEF SendAlert, DateOf
  <2>2. \A m, d : OnItsWay(m, d) => Settled(m, d)'
    BY <2>1 DEF OnItsWay, Settled
  <2> QED
    BY <1>a, <2>1, <2>2
<1>6. CASE NoDigest \/ QueryDigest \/ DigestFails \/ FinishDigest
  BY <1>6, <1>c DEF NoDigest, QueryDigest, DigestFails, FinishDigest, AlertsDone, EndPass
<1>7. ASSUME NEW r \in rows, SendDigest(r) PROVE PassInv'
  BY <1>7, <1>b DEF SendDigest
<1>8. CASE Restart
  <2>1. pc' = "idle" /\ queue' = {} /\ keys' \subseteq keys
    BY <1>8 DEF Restart, EndPass
  <2>2. \A m, d : OnItsWay(m, d) => Settled(m, d)'
    BY <1>8 DEF Restart, OnItsWay, Settled
  <2> QED
    BY <1>a, <2>1, <2>2
<1>9. CASE Tick
  BY <1>9, <1>b DEF Tick, loop
<1>10. CASE UNCHANGED vars
  BY <1>10, <1>b DEF vars, loop
<1> QED
  BY <1>1, <1>2, <1>3, <1>4, <1>5, <1>6, <1>7, <1>8, <1>9, <1>10 DEF Next, Pass

-----------------------------------------------------------------------------
(* Alerts keep their distance.                                             *)

\* Where no alert begins, no key goes and no life ends, nothing changes.
LEMMA ApartStays ==
  ASSUME ApartInv, now' = now, restarts' = restarts, redis' = redis, keys \subseteq keys',
         Begun' \subseteq Begun
  PROVE  ApartInv'
<1>1. ASSUME NEW a \in Begun', redis \/ a.life = restarts PROVE Guarded(a)'
  BY <1>1 DEF ApartInv, Guarded
<1> QED
  BY <1>1 DEF ApartInv, Apart

\* A new alert is a day younger than those whose keys have expired.
LEMMA TakeKeyApart ==
  ASSUME ApartInv, NEW m \in Machines, TakeKey(m) PROVE ApartInv'
<1>0. DayLength \in Nat \ {0} /\ now \in Int /\ restarts \in Nat
  BY TimesType DEF ApartInv
<1>1. CASE Holds(KeyOf(m)) /\ UNCHANGED <<keys, pc, current>>
  BY <1>1, ApartStays DEF TakeKey, Begun
<1>2. CASE /\ ~Holds(KeyOf(m)) /\ PutKey(KeyOf(m)) /\ pc' = "sending"
           /\ current' = [machine |-> m, date |-> DateOf(tickAt), at |-> now, life |-> restarts]
  <2> DEFINE c == [machine |-> m, date |-> DateOf(tickAt), at |-> now, life |-> restarts]
             k == [machine |-> m, date |-> DateOf(tickAt), expires |-> now + DayLength]
  <2>1. /\ Begun = alerted /\ Begun' = alerted \cup {c}
        /\ keys' = keys \cup {k} /\ UNCHANGED <<now, redis, restarts>>
    BY <1>2 DEF TakeKey, Begun, PutKey, KeyOf, Expires
  <2>2. /\ c.machine = m /\ c.date = DateOf(tickAt) /\ c.at = now /\ c.life = restarts
        /\ k.machine = c.machine /\ k.date = c.date /\ k.expires = c.at + DayLength
    OBVIOUS
  <2>3. \A q \in keys : ~(q.machine = c.machine /\ q.date = c.date)
    BY <1>2 DEF Holds, KeyOf
  <2> HIDE DEF c, k
  <2>4. ASSUME NEW a \in alerted, a.machine = c.machine, a.date = c.date
        PROVE  Apart(a, c) /\ Apart(c, a)
    <3>1. redis \/ a.life = restarts => Guarded(a)
      BY <2>1 DEF ApartInv
    <3>2. redis \/ a.life = restarts => now - a.at >= DayLength
      BY <2>3, <2>4, <3>1 DEF Guarded
    <3> QED
      BY <1>0, <2>2, <3>2 DEF Apart, ApartBy
  <2>5. ASSUME NEW a \in Begun', redis \/ a.life = restarts PROVE Guarded(a)'
    BY <2>1, <2>2, <2>5 DEF ApartInv, Guarded
  <2>6. \A a, b \in Begun' : a # b /\ a.machine = b.machine /\ a.date = b.date => Apart(a, b)
    BY <2>1, <2>4 DEF ApartInv
  <2>7. \A a \in Begun' : a.at \in Int /\ a.life \in Int /\ a.life <= restarts
    BY <1>0, <2>1, <2>2 DEF ApartInv
  <2> QED
    BY <1>0, <2>1, <2>5, <2>6, <2>7 DEF ApartInv, Apart
<1> QED
  BY <1>1, <1>2 DEF TakeKey

LEMMA ApartKeeps ==
  ASSUME ApartInv, [Next]_vars PROVE ApartInv'
<1>0. DayLength \in Nat \ {0} /\ now \in Int /\ restarts \in Nat
  BY TimesType DEF ApartInv
<1>1. CASE Tick
  <2>1. /\ now' = now + 1 /\ UNCHANGED <<restarts, redis>> /\ Begun' = Begun
        /\ keys' = {k \in keys : Alive(k, now + 1)}
    BY <1>1 DEF Tick, loop, Begun
  <2>2. ASSUME NEW a \in Begun, redis \/ a.life = restarts PROVE Guarded(a)'
    <3>1. a.at \in Int /\ Guarded(a)
      BY <2>2 DEF ApartInv
    <3>2. CASE now - a.at >= DayLength
      BY <1>0, <2>1, <3>1, <3>2 DEF Guarded
    <3>3. ASSUME NEW k \in keys, k.machine = a.machine, k.date = a.date, k.expires = a.at + DayLength
          PROVE  Guarded(a)'
      <4>1. CASE Alive(k, now + 1)
        BY <2>1, <3>3, <4>1 DEF Guarded
      <4>2. CASE ~Alive(k, now + 1)
        BY <1>0, <2>1, <3>1, <3>3, <4>2 DEF Guarded, Alive
      <4> QED
        BY <4>1, <4>2
    <3> QED
      BY <3>1, <3>2, <3>3 DEF Guarded
  <2> QED
    BY <1>0, <2>1, <2>2 DEF ApartInv, Apart
<1>2. CASE Restart
  <2>1. /\ restarts' = restarts + 1 /\ UNCHANGED <<now, redis>> /\ Begun' \subseteq Begun
        /\ redis => keys' = keys
    BY <1>2 DEF Restart, EndPass, Begun
  <2>2. ASSUME NEW a \in Begun', redis \/ a.life = restarts' PROVE Guarded(a)'
    <3>1. redis
      BY <1>0, <2>1, <2>2 DEF ApartInv
    <3> QED
      BY <2>1, <3>1 DEF ApartInv, Guarded
  <2> QED
    BY <1>0, <2>1, <2>2 DEF ApartInv, Apart
<1>3. ASSUME NEW m \in Machines, CacheFails(m) PROVE ApartInv'
  <2>1. keys \subseteq keys'
    BY <1>3 DEF CacheFails, PutKey
  <2> QED
    BY <1>3, <2>1, ApartStays DEF CacheFails, Begun
<1>4. CASE SendAlert
  <2>1. Begun' \subseteq Begun
    BY <1>4 DEF SendAlert, Begun
  <2> QED
    BY <1>4, <2>1, ApartStays DEF SendAlert
<1>5. ASSUME NEW m \in Machines, NEW t \in Times, Report(m, t) PROVE ApartInv'
  BY <1>5, ApartStays DEF Report, loop, Begun
<1>6. CASE StartPass \/ NoDigest \/ QueryDigest \/ DigestFails \/ FinishDigest
  BY <1>6, ApartStays
  DEF StartPass, NoDigest, QueryDigest, DigestFails, FinishDigest, AlertsDone, EndPass, Begun
<1>7. ASSUME NEW r \in rows, SendDigest(r) PROVE ApartInv'
  BY <1>7, ApartStays DEF SendDigest, Begun
<1>8. CASE UNCHANGED vars
  BY <1>8, ApartStays DEF vars, loop, Begun
<1> QED
  BY <1>1, <1>2, <1>3, <1>4, <1>5, <1>6, <1>7, <1>8, TakeKeyApart DEF Next, Pass

-----------------------------------------------------------------------------
(* Digests are counted.                                                    *)

\* Days are numbers, and do not go back.
LEMMA DaysGrow ==
  ASSUME NEW x \in Nat, NEW y \in Nat, x <= y
  PROVE  Day(x) \in Int /\ Day(x) <= Day(y)
<1>0. DayLength \in Nat /\ DayLength > 0
  BY TimesType
<1> DEFINE p == x \div DayLength
           q == y \div DayLength
<1>1. /\ p \in Int /\ q \in Int
      /\ DayLength * p <= x /\ y < DayLength * q + DayLength
  BY <1>0
<1> HIDE DEF p, q
<1>2. ASSUME p > q PROVE FALSE
  <2>1. DayLength * p >= DayLength * (q + 1)
    BY <1>0, <1>1, <1>2
  <2>2. DayLength * (q + 1) = DayLength * q + DayLength
    BY <1>0, <1>1
  <2> DEFINE a == DayLength * p
             b == DayLength * q
  <2>3. a \in Int /\ b \in Int
    BY <1>0, <1>1
  <2> QED
    BY <1>0, <1>1, <2>1, <2>2, <2>3
<1> QED
  BY <1>1, <1>2 DEF p, q, Day

LEMMA SentIsNat ==
  ASSUME IsFiniteSet(digested) PROVE \A s, d : Sent(s, d) \in Nat
BY FS_Subset, FS_CardinalityType DEF Sent

\* The loop leaves the digest alone.
LEMMA DigestStays ==
  ASSUME DigestInv, UNCHANGED <<now, tickAt, lastDigest, rows, digested>>,
         restarts' = restarts, pc' = pc \/ (pc' # "digest" /\ pc \notin {"idle", "digest"})
  PROVE  DigestInv'
<1>1. \A s : \A d \in Int : Sent(s, d)' = Sent(s, d) /\ (Closed(s, d) => Closed(s, d)')
  BY DEF Sent, Closed, DigestDay, Day
<1>2. \A s : \A d \in Int : Sent(s, d) <= restarts + (IF Closed(s, d) THEN 1 ELSE 0)
  BY DEF DigestInv
<1>3. restarts \in Nat /\ \A s : \A d \in Int : Sent(s, d) \in Nat
  BY SentIsNat DEF DigestInv
<1>4. \A s : \A d \in Int : Sent(s, d)' <= restarts' + (IF Closed(s, d)' THEN 1 ELSE 0)
  BY <1>1, <1>2, <1>3
<1> QED
  BY <1>4 DEF DigestInv, DigestDay, Day

\* The number of digests sent is a number, and one more is at most one more.
LEMMA OneMoreSent ==
  ASSUME IsFiniteSet(digested), NEW x, digested' = digested \cup {x}, NEW s, NEW d \in Int
  PROVE  /\ IsFiniteSet(digested') /\ Sent(s, d) \in Nat
         /\ Sent(s, d)' \in Nat /\ Sent(s, d)' <= Sent(s, d) + 1
         /\ x.store # s \/ x.day # d => Sent(s, d)' = Sent(s, d)
<1> DEFINE S == {r \in digested : r.store = s /\ r.day = d}
           T == {r \in digested' : r.store = s /\ r.day = d}
<1>1. IsFiniteSet(S) /\ IsFiniteSet(digested')
  BY FS_Subset, FS_AddElement
<1>2. Cardinality(S) \in Nat /\ Sent(s, d) = Cardinality(S) /\ Sent(s, d)' = Cardinality(T)
  BY <1>1, FS_CardinalityType DEF Sent
<1>3. T = S \/ (T = S \cup {x} /\ x \notin S)
  OBVIOUS
<1>4. x.store # s \/ x.day # d => T = S
  OBVIOUS
<1> HIDE DEF S, T
<1>5. T = S \cup {x} /\ x \notin S => Cardinality(T) = Cardinality(S) + 1
  BY <1>1, FS_AddElement
<1> QED
  BY <1>1, <1>2, <1>3, <1>4, <1>5

LEMMA DigestKeeps ==
  ASSUME DigestInv, [Next]_vars PROVE DigestInv'
<1>0. /\ now \in Nat /\ tickAt \in 0..now /\ restarts \in Nat /\ IsFiniteSet(digested)
      /\ Day(now) \in Int /\ Day(tickAt) \in Int /\ Day(tickAt) <= Day(now)
      /\ \A s : \A d \in Int : Sent(s, d) \in Nat
  <2>1. now \in Nat /\ tickAt \in 0..now /\ restarts \in Nat /\ IsFiniteSet(digested)
    BY DEF DigestInv
  <2> QED
    BY <2>1, DaysGrow, SentIsNat
<1>a. \A s : \A d \in Int : Sent(s, d) <= restarts + (IF Closed(s, d) THEN 1 ELSE 0)
  BY DEF DigestInv
<1>b. \A s : \A d \in Int : Sent(s, d) <= restarts + 1
  BY <1>0, <1>a
<1>1. CASE \/ \E m \in Machines : (\E t \in Times : Report(m, t)) \/ TakeKey(m) \/ CacheFails(m)
           \/ SendAlert \/ UNCHANGED vars
  BY <1>1, DigestStays DEF Report, TakeKey, CacheFails, SendAlert, vars, loop
<1>2. CASE StartPass
  <2>1. /\ pc = "idle" /\ pc' = "alerts" /\ tickAt' = now
        /\ UNCHANGED <<now, rows, lastDigest, restarts, digested>> /\ rows = {}
    BY <1>2 DEF StartPass, DigestInv
  <2>2. \A s : \A d \in Int : Sent(s, d)' = Sent(s, d) /\ (Closed(s, d) => Closed(s, d)')
    BY <2>1 DEF Sent, Closed
  <2>3. \A s : \A d \in Int : Sent(s, d)' <= restarts' + (IF Closed(s, d)' THEN 1 ELSE 0)
    BY <1>0, <1>a, <2>1, <2>2
  <2>4. Day(tickAt)' = Day(now) /\ Day(now)' = Day(now)
    BY <2>1 DEF Day
  <2> QED
    BY <1>0, <2>1, <2>3, <2>4 DEF DigestInv
<1>3. CASE NoDigest \/ DigestFails
  <2>1. /\ pc = "alerts" /\ pc' = "idle" /\ tickAt' = 0 /\ rows = {}
        /\ UNCHANGED <<now, rows, lastDigest, restarts, digested>>
    BY <1>3 DEF NoDigest, DigestFails, AlertsDone, EndPass, DigestInv
  <2>2. \A s : \A d \in Int : Sent(s, d)' = Sent(s, d) /\ (Closed(s, d) => Closed(s, d)')
    BY <2>1 DEF Sent, Closed
  <2>3. \A s : \A d \in Int : Sent(s, d)' <= restarts' + (IF Closed(s, d)' THEN 1 ELSE 0)
    BY <1>0, <1>a, <2>1, <2>2
  <2>4. Day(now)' = Day(now)
    BY <2>1 DEF Day
  <2> QED
    BY <1>0, <2>1, <2>3, <2>4 DEF DigestInv
<1>4. CASE QueryDigest
  <2>1. /\ pc = "alerts" /\ pc' = "digest" /\ lastDigest # Day(tickAt)
        /\ rows' = DailyDigest(DigestDay(tickAt))
        /\ UNCHANGED <<now, tickAt, lastDigest, restarts, digested>>
    BY <1>4 DEF QueryDigest, AlertsDone, DigestDue
  <2>2. \A s : \A d \in Int : Sent(s, d)' = Sent(s, d) /\ (Closed(s, d) => Closed(s, d)')
    BY <2>1 DEF Sent, Closed
  <2>3. \A s : \A d \in Int : Sent(s, d)' <= restarts' + (IF Closed(s, d)' THEN 1 ELSE 0)
    BY <1>0, <1>a, <2>1, <2>2
  <2>4. Day(now)' = Day(now) /\ Day(tickAt)' = Day(tickAt) /\ DigestDay(tickAt)' = DigestDay(tickAt)
    BY <2>1 DEF Day, DigestDay
  <2>5. /\ \A r \in rows' : r.day = DigestDay(tickAt)
        /\ \A r, q \in rows' : r.store = q.store => r = q
    BY <2>1 DEF DailyDigest
  <2> QED
    BY <1>0, <2>1, <2>3, <2>4, <2>5 DEF DigestInv
<1>5. ASSUME NEW r \in rows, SendDigest(r) PROVE DigestInv'
  <2> DEFINE x == [store |-> r.store, day |-> r.day, count |-> r.count,
                   nth |-> Sent(r.store, r.day) + 1]
  <2>1. /\ pc = "digest" /\ rows' = rows \ {r} /\ digested' = digested \cup {x}
        /\ UNCHANGED <<now, pc, tickAt, lastDigest, restarts>>
    BY <1>5 DEF SendDigest
  <2>2. x.store = r.store /\ x.day = r.day /\ x.nth = Sent(r.store, r.day) + 1
    OBVIOUS
  <2> HIDE DEF x
  <2>3. /\ r.day = DigestDay(tickAt)
        /\ \A q \in rows : q.day = DigestDay(tickAt)
        /\ \A p, q \in rows : p.store = q.store => p = q
        /\ lastDigest # Day(tickAt)
        /\ lastDigest # Nothing => lastDigest \in Int /\ lastDigest <= Day(tickAt)
    BY <2>1 DEF DigestInv
  <2>4. ~Closed(r.store, r.day) /\ r.day \in Int
    BY <1>0, <2>3 DEF Closed, DigestDay
  <2>5. Sent(r.store, r.day) <= restarts
    BY <1>0, <1>a, <2>4
  <2>6. Closed(r.store, r.day)'
    BY <2>1, <2>3 DEF Closed, DigestDay, Day
  <2>7. \A s : \A d \in Int : Closed(s, d) => Closed(s, d)'
    BY <2>1 DEF Closed, DigestDay, Day
  <2>8. ASSUME NEW s, NEW d \in Int PROVE Sent(s, d)' <= restarts' + (IF Closed(s, d)' THEN 1 ELSE 0)
    <3>1. CASE s = r.store /\ d = r.day
      <4>1. Sent(r.store, r.day)' \in Nat /\ Sent(r.store, r.day)' <= Sent(r.store, r.day) + 1
        BY <1>0, <2>1, <2>4, OneMoreSent
      <4>2. Sent(s, d)' = Sent(r.store, r.day)' /\ Closed(s, d)'
        BY <2>6, <3>1
      <4> QED
        BY <1>0, <2>1, <2>4, <2>5, <4>1, <4>2
    <3>2. CASE s # r.store \/ d # r.day
      <4>1. Sent(s, d)' = Sent(s, d)
        BY <1>0, <2>1, <2>2, <3>2, OneMoreSent
      <4> QED
        BY <1>0, <1>a, <2>1, <2>7, <4>1
    <3> QED
      BY <3>1, <3>2
  <2>9. IsFiniteSet(digested') /\ \A q \in digested' : q.nth \in Int /\ q.nth <= 1 + restarts
    <3>1. IsFiniteSet(digested')
      BY <1>0, <2>1, OneMoreSent
    <3>2. x.nth \in Int /\ x.nth <= 1 + restarts
      BY <1>0, <2>2, <2>4, <2>5
    <3> QED
      BY <2>1, <3>1, <3>2 DEF DigestInv
  <2>10. Day(now)' = Day(now) /\ Day(tickAt)' = Day(tickAt) /\ DigestDay(tickAt)' = DigestDay(tickAt)
    BY <2>1 DEF Day, DigestDay
  <2> QED
    BY <1>0, <2>1, <2>3, <2>8, <2>9, <2>10 DEF DigestInv
<1>6. CASE FinishDigest
  <2>1. /\ pc = "digest" /\ rows = {} /\ pc' = "idle" /\ tickAt' = 0 /\ lastDigest' = Day(tickAt)
        /\ UNCHANGED <<now, rows, restarts, digested>>
    BY <1>6 DEF FinishDigest, EndPass
  <2>2. lastDigest' # Nothing
    <3>1. Day(tickAt) \in Nat
      <4>1. 0 \in Nat /\ tickAt \in Nat /\ 0 <= tickAt /\ Day(0) = 0
        BY <1>0, TimesType DEF Day
      <4> QED
        BY <4>1, DaysGrow
    <3> QED
      BY <2>1, <3>1, ShopsType
  <2>3. \A s : \A d \in Int : Sent(s, d)' = Sent(s, d)
    BY <2>1 DEF Sent
  <2>4. ASSUME NEW s, NEW d \in Int, Closed(s, d) PROVE Closed(s, d)'
    <3>1. CASE lastDigest # Nothing /\ d < lastDigest
      <4>1. lastDigest \in Int /\ lastDigest <= Day(tickAt) /\ lastDigest # Day(tickAt)
        BY <2>1, <3>1 DEF DigestInv
      <4> QED
        BY <1>0, <2>1, <2>2, <3>1, <4>1 DEF Closed
    <3>2. CASE d = DigestDay(tickAt)
      BY <1>0, <2>1, <2>2, <3>2 DEF Closed, DigestDay
    <3> QED
      BY <2>4, <3>1, <3>2 DEF Closed
  <2>5. \A s : \A d \in Int : Sent(s, d)' <= restarts' + (IF Closed(s, d)' THEN 1 ELSE 0)
    BY <1>0, <1>a, <2>1, <2>3, <2>4
  <2>6. Day(now)' = Day(now)
    BY <2>1 DEF Day
  <2> QED
    BY <1>0, <2>1, <2>5, <2>6 DEF DigestInv
<1>7. CASE Restart
  <2>1. /\ pc' = "idle" /\ tickAt' = 0 /\ rows' = {} /\ lastDigest' = Nothing
        /\ restarts' = restarts + 1 /\ UNCHANGED <<now, digested>>
    BY <1>7 DEF Restart, EndPass
  <2>2. \A s : \A d \in Int : Sent(s, d)' <= restarts'
    BY <1>0, <1>b, <2>1 DEF Sent
  <2>3. \A s : \A d \in Int : Sent(s, d)' <= restarts' + (IF Closed(s, d)' THEN 1 ELSE 0)
    <3>1. \A s : \A d \in Int : Sent(s, d)' \in Nat
      BY <1>0, <2>1 DEF Sent
    <3> QED
      BY <1>0, <2>1, <2>2, <3>1
  <2>4. \A r \in digested' : r.nth \in Int /\ r.nth <= 1 + restarts'
    BY <1>0, <2>1 DEF DigestInv
  <2> QED
    BY <1>0, <2>1, <2>3, <2>4 DEF DigestInv
<1>8. CASE Tick
  <2>1. now' = now + 1 /\ UNCHANGED <<pc, tickAt, lastDigest, rows, restarts, digested>>
    BY <1>8 DEF Tick, loop
  <2>2. Day(now) <= Day(now + 1) /\ Day(now + 1) \in Int /\ Day(now)' = Day(now + 1)
    BY <1>0, <2>1, DaysGrow DEF Day
  <2>3. Day(tickAt)' = Day(tickAt) /\ DigestDay(tickAt)' = DigestDay(tickAt)
    BY <2>1 DEF Day, DigestDay
  <2>4. \A s : \A d \in Int : Sent(s, d)' = Sent(s, d) /\ (Closed(s, d) => Closed(s, d)')
    BY <2>1, <2>3 DEF Sent, Closed
  <2>5. \A s : \A d \in Int : Sent(s, d)' <= restarts' + (IF Closed(s, d)' THEN 1 ELSE 0)
    BY <1>0, <1>a, <2>1, <2>4
  <2> QED
    BY <1>0, <2>1, <2>2, <2>3, <2>5 DEF DigestInv
<1> QED
  BY <1>1, <1>2, <1>3, <1>4, <1>5, <1>6, <1>7, <1>8 DEF Next, Pass

-----------------------------------------------------------------------------
(* Digests are final.                                                      *)

\* Days have a first and a last moment.
LEMMA DayBounds ==
  ASSUME NEW t \in Nat
  PROVE  /\ Day(t) \in Nat /\ t % DayLength \in Nat
         /\ t = Day(t) * DayLength + (t % DayLength)
<1>0. DayLength \in Nat /\ DayLength > 0
  BY TimesType
<1>1. /\ t \div DayLength \in Int /\ t % DayLength \in 0..(DayLength - 1)
      /\ t = DayLength * (t \div DayLength) + (t % DayLength)
  BY <1>0
<1>2. 0 \div DayLength = 0 /\ 0 <= t
  BY <1>0
<1>3. Day(0) <= Day(t) /\ Day(t) \in Int /\ Day(0) = 0
  BY <1>2, DaysGrow DEF Day
<1> QED
  BY <1>0, <1>1, <1>3 DEF Day

\* Where the claims of a day stay, its counts do.
LEMMA ClaimedStays ==
  ASSUME NEW d, \A m \in Machines : \A t \in DayTimes(d) \cap Times : reports'[m][t] = reports[m][t]
  PROVE  \A s : ClaimsOf(s, d)' = ClaimsOf(s, d) /\ Claimed(s, d)' = Claimed(s, d)
<1>1. \A m \in Machines : Claims(m, DayTimes(d))' = Claims(m, DayTimes(d))
  BY DEF Claims, DayTimes
<1>2. \A s : ClaimsOf(s, d)' = ClaimsOf(s, d)
  BY <1>1 DEF ClaimsOf, DayTimes
<1> QED
  BY <1>2 DEF Claimed

LEMMA FinalKeeps ==
  ASSUME FinalInv, TypeOK, TypeOK', [Next]_vars PROVE FinalInv'
<1>0. /\ now \in Nat /\ tickAt \in 0..now /\ now' \in Nat
      /\ reports \in [Machines -> [Times -> Nat]]
      /\ {DayLength, digestHour} \subseteq Nat /\ Lag \in 0..(digestHour - 1)
  BY TimesType, ShortSteps DEF TypeOK, Times
<1>1. ASSUME NEW m \in Machines, NEW t \in Times, Report(m, t) PROVE FinalInv'
  <2>1. /\ now - Lag <= t /\ reports' = [reports EXCEPT ![m][t] = @ + 1]
        /\ UNCHANGED <<now, rows, digested>>
    BY <1>1 DEF Report, loop
  <2>2. ASSUME NEW r \in rows \cup digested PROVE Claimed(r.store, r.day)' = Claimed(r.store, r.day)
    <3>1. r.day \in Int /\ (r.day + 1) * DayLength + digestHour <= now
      BY DEF FinalInv
    <3>2. t \notin DayTimes(r.day)
      <4> DEFINE next == (r.day + 1) * DayLength
      <4>1. next \in Int /\ DayTimes(r.day) = (r.day * DayLength)..(next - 1)
        BY <1>0, <3>1 DEF DayTimes
      <4>2. next + digestHour <= now
        BY <3>1
      <4> HIDE DEF next
      <4>3. t \in Int /\ next <= t
        BY <1>0, <2>1, <4>1, <4>2 DEF Times
      <4> QED
        BY <4>1, <4>3
    <3>3. \A x \in Machines : \A u \in DayTimes(r.day) \cap Times : reports'[x][u] = reports[x][u]
      BY <1>0, <2>1, <3>2
    <3> QED
      BY <3>3, ClaimedStays
  <2> QED
    BY <2>1, <2>2 DEF FinalInv
\* Steps that count nothing.
<1>a. ASSUME reports' = reports, now <= now', rows' \subseteq rows,
             \A r \in digested' : \/ r \in digested
                                  \/ \E q \in rows : r.store = q.store /\ r.day = q.day /\ r.count = q.count
      PROVE  FinalInv'
  <2>1. \A s, d : Claimed(s, d)' = Claimed(s, d)
    BY <1>a DEF Claimed, ClaimsOf, Claims, DayTimes
  <2>2. ASSUME NEW r \in rows' \cup digested'
        PROVE  \E q \in rows \cup digested : r.store = q.store /\ r.day = q.day /\ r.count = q.count
    BY <1>a
  <2>3. ASSUME NEW r \in rows' \cup digested'
        PROVE  /\ r.day \in Int /\ (r.day + 1) * DayLength + digestHour <= now'
               /\ r.count = Claimed(r.store, r.day)'
    <3>1. PICK q \in rows \cup digested : r.store = q.store /\ r.day = q.day /\ r.count = q.count
      BY <2>2
    <3>2. q.day \in Int /\ (q.day + 1) * DayLength + digestHour <= now /\ q.count = Claimed(q.store, q.day)
      BY DEF FinalInv
    <3> QED
      BY <1>0, <1>a, <2>1, <3>1, <3>2
  <2> QED
    BY <2>3 DEF FinalInv
<1>2. CASE QueryDigest
  <2>1. /\ tickAt % DayLength >= digestHour /\ rows' = DailyDigest(DigestDay(tickAt))
        /\ UNCHANGED <<now, reports, digested>>
    BY <1>2 DEF QueryDigest, DigestDue
  <2>2. \A s, d : Claimed(s, d)' = Claimed(s, d)
    BY <2>1 DEF Claimed, ClaimsOf, Claims, DayTimes
  <2>3. DigestDay(tickAt) \in Int /\ (DigestDay(tickAt) + 1) * DayLength + digestHour <= now
    <3>0. tickAt \in Nat
      BY <1>0
    <3>1. /\ Day(tickAt) \in Nat /\ tickAt = Day(tickAt) * DayLength + (tickAt % DayLength)
          /\ tickAt % DayLength \in Nat
      BY <3>0, DayBounds
    <3>2. DigestDay(tickAt) \in Int /\ DigestDay(tickAt) + 1 = Day(tickAt)
      BY <3>1 DEF DigestDay
    <3> DEFINE x == Day(tickAt) * DayLength
    <3>3. x \in Int /\ tickAt = x + (tickAt % DayLength)
      BY <1>0, <3>1
    <3> HIDE DEF x
    <3>4. x + digestHour <= now
      BY <1>0, <2>1, <3>1, <3>3
    <3> QED
      BY <3>2, <3>4 DEF x
  <2>4. ASSUME NEW r \in rows' PROVE r.day = DigestDay(tickAt) /\ r.count = Claimed(r.store, r.day)
    BY <2>1 DEF DailyDigest
  <2>5. ASSUME NEW r \in rows' \cup digested'
        PROVE  /\ r.day \in Int /\ (r.day + 1) * DayLength + digestHour <= now'
               /\ r.count = Claimed(r.store, r.day)'
    BY <2>1, <2>2, <2>3, <2>4 DEF FinalInv
  <2> QED
    BY <2>5 DEF FinalInv
<1>3. ASSUME NEW r \in rows, SendDigest(r) PROVE FinalInv'
  <2>1. /\ UNCHANGED <<reports, now>> /\ rows' \subseteq rows
        /\ digested' = digested \cup {[store |-> r.store, day |-> r.day, count |-> r.count,
                                       nth |-> Sent(r.store, r.day) + 1]}
    BY <1>3 DEF SendDigest
  <2> QED
    BY <1>0, <1>a, <2>1
<1>4. CASE Tick
  BY <1>0, <1>a, <1>4 DEF Tick, loop
<1>5. CASE Restart
  BY <1>0, <1>a, <1>5 DEF Restart
<1>6. CASE \/ \E m \in Machines : TakeKey(m) \/ CacheFails(m)
           \/ StartPass \/ SendAlert \/ NoDigest \/ DigestFails \/ FinishDigest \/ UNCHANGED vars
  BY <1>0, <1>a, <1>6
  DEF TakeKey, CacheFails, StartPass, SendAlert, NoDigest, DigestFails, FinishDigest, vars, loop
<1> QED
  BY <1>1, <1>2, <1>3, <1>4, <1>5, <1>6 DEF Next, Pass

-----------------------------------------------------------------------------
(* Types.                                                                  *)

LEMMA ClaimsFinite ==
  ASSUME IsFiniteSet(AllClaims)
  PROVE  \A s, d : Claimed(s, d) \in Nat
<1> SUFFICES ASSUME NEW s, NEW d PROVE Claimed(s, d) \in Nat
  OBVIOUS
<1>1. ClaimsOf(s, d) \in SUBSET AllClaims
  BY DEF ClaimsOf, AllClaims, Claims
<1> QED
  BY <1>1, FS_Subset, FS_CardinalityType DEF Claimed

LEMMA OneMore ==
  ASSUME NEW k \in Nat PROVE 1..(k + 1) = (1..k) \cup {k + 1}
<1>1. ASSUME NEW x PROVE x \in 1..(k + 1) <=> x \in (1..k) \cup {k + 1}
  OBVIOUS
<1> QED
  BY <1>1

\* A claim that commits is one more.
LEMMA ReportAdds ==
  ASSUME TypeOK, IsFiniteSet(AllClaims), NEW m \in Machines, NEW t \in Times, Report(m, t)
  PROVE  IsFiniteSet(AllClaims')
<1> DEFINE k == reports[m][t]
           new == <<<<m, t>>, k + 1>>
<1>1. /\ k \in Nat /\ reports' = [reports EXCEPT ![m][t] = k + 1]
      /\ reports \in [Machines -> [Times -> Nat]]
  BY DEF TypeOK, Report
<1>2. /\ \A x \in Machines, u \in Times : reports'[x][u] = IF x = m /\ u = t THEN k + 1 ELSE reports[x][u]
      /\ 1..(k + 1) = (1..k) \cup {k + 1}
  <2> HIDE DEF k
  <2>1. 1..(k + 1) = (1..k) \cup {k + 1}
    BY <1>1, OneMore
  <2>2. reports'[m][t] = k + 1
    BY <1>1
  <2>3. \A x \in Machines, u \in Times : x # m \/ u # t => reports'[x][u] = reports[x][u]
    BY <1>1
  <2> QED
    BY <2>1, <2>2, <2>3
<1>3. ASSUME NEW x \in Machines, NEW u \in Times
      PROVE  {<<x, u>>} \X (1..reports'[x][u]) \subseteq ({<<x, u>>} \X (1..reports[x][u])) \cup {new}
  BY <1>2
<1> HIDE DEF new
<1>4. \A x \in Machines : Claims(x, Times)' \subseteq Claims(x, Times) \cup {new}
  BY <1>3 DEF Claims
<1>5. AllClaims' \in SUBSET (AllClaims \cup {new})
  BY <1>4 DEF AllClaims
<1> QED
  BY <1>5, FS_AddElement, FS_Subset

LEMMA DatesType ==
  ASSUME NEW t \in Times PROVE Day(t) \in Days /\ DateOf(t) \in Dates
<1>0. t \in Nat /\ MaxNow \in Nat /\ t <= MaxNow /\ ZoneShift \in Nat
  BY TimesType DEF Times
<1>1. Day(t) \in Nat /\ Day(MaxNow) \in Nat /\ Day(t) <= Day(MaxNow)
  BY <1>0, DaysGrow, DayBounds
<1>2. /\ Day(t + ZoneShift) \in Nat /\ Day(MaxNow + ZoneShift) \in Nat
      /\ Day(t + ZoneShift) <= Day(MaxNow + ZoneShift)
  BY <1>0, DaysGrow, DayBounds
<1> QED
  BY <1>1, <1>2 DEF Days, Dates, DateOf, Day

LEMMA TypeParts ==
  TypeOK <=> Typed /\ redis \in BOOLEAN
BY DEF TypeOK, Typed, ClockTyped, PassTyped, LogTyped, DigestTyped

LEMMA TypeKeeps ==
  ASSUME TypeOK, PassInv, DigestInv, IsFiniteSet(AllClaims), [Next]_vars
  PROVE  TypeOK' /\ IsFiniteSet(AllClaims')
<1>0. /\ now \in Times /\ tickAt \in Times /\ now \in Nat /\ tickAt \in 0..now
      /\ MaxNow \in Nat /\ DayLength \in Nat /\ DateOf(tickAt) \in Dates /\ Day(tickAt) \in Days
      /\ restarts \in 0..MaxRestarts /\ restarts \in Nat /\ MaxRestarts \in Nat
  BY TimesType, DatesType DEF TypeOK, Times
<1>b. ClockTyped /\ PassTyped /\ LogTyped /\ DigestTyped /\ redis \in BOOLEAN
  BY TypeParts DEF Typed
<1>c. UNCHANGED <<now, tickAt, reports>> => ClockTyped'
  BY <1>b DEF ClockTyped
<1>d. UNCHANGED <<pc, queue, seen, current, restarts>> => PassTyped'
  BY <1>b DEF PassTyped
<1>e. UNCHANGED <<keys, alerted, excused>> => LogTyped'
  BY <1>b DEF LogTyped
<1>f. UNCHANGED <<rows, lastDigest, digested>> /\ (pc' = pc \/ pc # "digest" \/ rows = {}) => DigestTyped'
  BY <1>b DEF DigestTyped
<1> USE DEF Typed
<1>1. ASSUME NEW m \in Machines, NEW t \in Times, Report(m, t) PROVE Typed'
  <2>1. ClockTyped'
    BY <1>1, <1>b DEF Report, loop, ClockTyped
  <2> QED
    BY <1>1, <1>d, <1>e, <1>f, <2>1 DEF Report, loop
<1>2. ASSUME StartPass PROVE Typed'
  <2>1. ClockTyped'
    BY <1>0, <1>2, <1>b DEF StartPass, ClockTyped
  <2>2. PassTyped'
    BY <1>2, <1>b DEF StartPass, MachinesOverThreshold, PassTyped
  <2> QED
    BY <1>2, <1>e, <1>f, <2>1, <2>2 DEF StartPass
<1>3. ASSUME NEW m \in Machines, PutKey(KeyOf(m)), UNCHANGED <<alerted>>,
             excused' \subseteq excused \cup {[machine |-> m, date |-> DateOf(tickAt)]}
      PROVE  LogTyped'
  <2>1. keys' \subseteq [machine : Machines, date : Dates, expires : Nat]
    BY <1>0, <1>3, <1>b DEF LogTyped, PutKey, KeyOf, Expires
  <2>2. excused' \subseteq [machine : Machines, date : Dates]
    BY <1>0, <1>3, <1>b DEF LogTyped
  <2>3. alerted' \subseteq Alerts
    BY <1>3, <1>b DEF LogTyped
  <2> QED
    BY <2>1, <2>2, <2>3 DEF LogTyped
<1>4. ASSUME NEW m \in Machines, TakeKey(m) PROVE Typed'
  <2>1. pc = "alerts" /\ m \in queue /\ queue' = queue \ {m}
        /\ UNCHANGED <<now, reports, redis, tickAt, rows, lastDigest, restarts, seen, alerted, excused, digested>>
    BY <1>4 DEF TakeKey
  <2>2. CASE /\ PutKey(KeyOf(m)) /\ pc' = "sending"
             /\ current' = [machine |-> m, date |-> DateOf(tickAt), at |-> now, life |-> restarts]
    <3>1. LogTyped'
      BY <1>3, <2>1, <2>2
    <3>2. current' \in Alerts /\ current'.machine = m
      BY <1>0, <2>2 DEF Alerts
    <3>3. PassTyped'
      BY <1>b, <2>1, <2>2, <3>2 DEF PassTyped
    <3> QED
      BY <1>c, <1>f, <2>1, <3>1, <3>3
  <2>3. CASE UNCHANGED <<keys, pc, current>>
    <3>1. PassTyped'
      BY <1>b, <2>1, <2>3 DEF PassTyped
    <3> QED
      BY <1>c, <1>e, <1>f, <2>1, <2>3, <3>1
  <2> QED
    BY <1>4, <2>2, <2>3 DEF TakeKey
<1>5. ASSUME NEW m \in Machines, CacheFails(m) PROVE Typed'
  <2>1. /\ pc = "alerts" /\ queue' = queue \ {m}
        /\ excused' = excused \cup {[machine |-> m, date |-> DateOf(tickAt)]}
        /\ UNCHANGED keys \/ PutKey(KeyOf(m))
        /\ UNCHANGED <<now, reports, redis, pc, tickAt, current, rows, lastDigest, restarts, seen, alerted, digested>>
    BY <1>5 DEF CacheFails
  <2>2. LogTyped'
    <3>1. CASE UNCHANGED keys
      <4>1. excused' \subseteq [machine : Machines, date : Dates]
        BY <1>0, <1>b, <2>1 DEF LogTyped
      <4> QED
        BY <1>b, <2>1, <3>1, <4>1 DEF LogTyped
    <3>2. CASE PutKey(KeyOf(m))
      BY <1>3, <2>1, <3>2
    <3> QED
      BY <2>1, <3>1, <3>2
  <2>3. PassTyped'
    BY <1>b, <2>1 DEF PassTyped
  <2> QED
    BY <1>c, <1>f, <2>1, <2>2, <2>3
<1>6. ASSUME SendAlert PROVE Typed'
  <2>1. /\ pc = "sending" /\ pc' = "alerts" /\ current' = Nothing /\ alerted' = alerted \cup {current}
        /\ UNCHANGED <<now, reports, redis, keys, tickAt, queue, rows, lastDigest, restarts, seen, excused, digested>>
    BY <1>6 DEF SendAlert
  <2>2. LogTyped' /\ PassTyped'
    BY <1>b, <2>1 DEF LogTyped, PassTyped
  <2> QED
    BY <1>c, <1>f, <2>1, <2>2
<1>g. EndPass => tickAt' \in 0..now
  BY <1>0 DEF EndPass
<1>7. ASSUME NoDigest \/ DigestFails PROVE Typed'
  <2>1. /\ pc = "alerts" /\ EndPass /\ queue = {}
        /\ UNCHANGED <<now, reports, redis, keys, queue, current, rows, lastDigest, restarts, alerted, excused, digested>>
    BY <1>7 DEF NoDigest, DigestFails, AlertsDone
  <2>2. ClockTyped' /\ PassTyped'
    BY <1>b, <1>g, <2>1 DEF EndPass, ClockTyped, PassTyped
  <2> QED
    BY <1>e, <1>f, <2>1, <2>2
<1>8. ASSUME QueryDigest PROVE Typed'
  <2>1. /\ pc = "alerts" /\ pc' = "digest" /\ seen' = {} /\ queue = {}
        /\ rows' = DailyDigest(DigestDay(tickAt))
        /\ UNCHANGED <<now, reports, redis, keys, tickAt, queue, current, lastDigest, restarts, alerted, excused, digested>>
    BY <1>8 DEF QueryDigest, AlertsDone
  <2>2. \A s : Claimed(s, DigestDay(tickAt)) \in Nat
    BY ClaimsFinite
  <2>3. \A s : Claimed(s, DigestDay(tickAt)) > 0 => DigestDay(tickAt) \in Days
    <3>0. Days = 0..Day(MaxNow) /\ Day(MaxNow) \in Nat /\ Day(tickAt) \in Nat
      BY <1>0, DayBounds DEF Days
    <3>1. CASE Day(tickAt) >= 1
      BY <1>0, <3>0, <3>1 DEF DigestDay
    <3>2. CASE Day(tickAt) = 0
      <4>1. DayTimes(DigestDay(tickAt)) \cap Times = {}
        BY <1>0, <3>2 DEF DayTimes, DigestDay, Times
      <4>2. \A m : Claims(m, DayTimes(DigestDay(tickAt))) = {}
        BY <4>1 DEF Claims
      <4>3. \A s : ClaimsOf(s, DigestDay(tickAt)) = {}
        BY <4>2 DEF ClaimsOf
      <4> QED
        BY <4>3, FS_EmptySet DEF Claimed
    <3> QED
      BY <3>0, <3>1, <3>2
  <2>4. rows' \subseteq [store : Stores, day : Days, count : Nat \ {0}]
    BY <2>1, <2>2, <2>3 DEF DailyDigest
  <2>5. DigestTyped' /\ PassTyped'
    BY <1>b, <2>1, <2>4 DEF DigestTyped, PassTyped
  <2> QED
    BY <1>c, <1>e, <2>1, <2>5
<1>9. ASSUME NEW r \in rows, SendDigest(r) PROVE Typed'
  <2>1. /\ pc = "digest" /\ rows' = rows \ {r}
        /\ digested' = digested \cup {[store |-> r.store, day |-> r.day, count |-> r.count,
                                       nth |-> Sent(r.store, r.day) + 1]}
        /\ UNCHANGED <<now, reports, redis, keys, pc, tickAt, queue, current, lastDigest, restarts, seen, alerted, excused>>
    BY <1>9 DEF SendDigest
  <2>2. r \in [store : Stores, day : Days, count : Nat \ {0}]
    BY <1>b DEF DigestTyped
  <2>3. Sent(r.store, r.day) \in Nat
    BY SentIsNat DEF DigestInv
  <2>4. digested' \subseteq [store : Stores, day : Days, count : Nat \ {0}, nth : Nat \ {0}]
    BY <1>b, <2>1, <2>2, <2>3 DEF DigestTyped
  <2>5. DigestTyped'
    BY <1>b, <2>1, <2>4 DEF DigestTyped
  <2> QED
    BY <1>c, <1>d, <1>e, <2>1, <2>5
<1>10. ASSUME FinishDigest PROVE Typed'
  <2>1. /\ pc = "digest" /\ rows = {} /\ EndPass /\ lastDigest' = Day(tickAt)
        /\ UNCHANGED <<now, reports, redis, keys, queue, current, rows, restarts, alerted, excused, digested>>
    BY <1>10 DEF FinishDigest
  <2>2. ClockTyped' /\ DigestTyped'
    BY <1>0, <1>b, <1>g, <2>1 DEF EndPass, ClockTyped, DigestTyped
  <2>3. PassTyped'
    <3>1. pc' = "idle" /\ seen' = {} /\ queue = {} /\ current' = Nothing
      BY <1>b, <2>1 DEF EndPass, PassTyped, PassInv
    <3> QED
      BY <1>b, <2>1, <3>1 DEF PassTyped
  <2> QED
    BY <1>e, <2>1, <2>2, <2>3
<1>11. ASSUME Restart PROVE Typed'
  <2>1. excused' \subseteq [machine : Machines, date : Dates]
    BY <1>11, <1>b DEF Restart, LogTyped, PassTyped, Alerts
  <2>2. /\ restarts' \in 0..MaxRestarts /\ restarts <= restarts'
        /\ EndPass /\ queue' = {} /\ current' = Nothing /\ rows' = {} /\ lastDigest' = Nothing
        /\ keys' \subseteq keys /\ UNCHANGED <<now, reports, redis, alerted, digested>>
    BY <1>0, <1>11 DEF Restart
  <2>3. ClockTyped' /\ PassTyped'
    BY <1>b, <1>g, <2>2 DEF EndPass, ClockTyped, PassTyped
  <2>4. DigestTyped' /\ LogTyped'
    BY <1>b, <2>1, <2>2 DEF LogTyped, DigestTyped
  <2> QED
    BY <2>3, <2>4
<1>12. ASSUME Tick PROVE Typed'
  <2>1. now' \in Times /\ tickAt \in 0..now' /\ keys' \subseteq keys
        /\ UNCHANGED <<reports, redis, loop, restarts, alerted, excused, digested>>
    BY <1>0, <1>12 DEF Tick, Times
  <2>2. ClockTyped' /\ LogTyped'
    BY <1>b, <2>1 DEF loop, ClockTyped, LogTyped
  <2> QED
    BY <1>d, <1>f, <2>1, <2>2 DEF loop
<1>13. ASSUME UNCHANGED vars PROVE Typed'
  BY <1>13, <1>c, <1>d, <1>e, <1>f DEF vars, loop
<1>14. redis' = redis
  BY DEF Next, Pass, Report, StartPass, TakeKey, CacheFails, SendAlert, NoDigest, QueryDigest,
         DigestFails, SendDigest, FinishDigest, Restart, Tick, vars
<1>15. IsFiniteSet(AllClaims')
  <2>1. CASE reports' = reports
    BY <2>1 DEF AllClaims, Claims
  <2>2. ASSUME NEW m \in Machines, NEW t \in Times, Report(m, t) PROVE IsFiniteSet(AllClaims')
    BY <2>2, ReportAdds
  <2> QED
    BY <2>1, <2>2 DEF Next, Pass, StartPass, TakeKey, CacheFails, SendAlert, NoDigest, QueryDigest,
           DigestFails, SendDigest, FinishDigest, Restart, Tick, vars
<1>16. Typed'
  <2> HIDE DEF Typed
  <2> QED
    BY <1>1, <1>2, <1>4, <1>5, <1>6, <1>7, <1>8, <1>9, <1>10, <1>11, <1>12, <1>13 DEF Next, Pass
<1>17. redis' \in BOOLEAN
  BY <1>b, <1>14
<1>18. TypeOK'
  <2> HIDE DEF Typed
  <2>1. (TypeOK <=> Typed /\ redis \in BOOLEAN)'
    BY TypeParts, PTL
  <2> QED
    BY <1>16, <1>17, <2>1
<1> QED
  BY <1>15, <1>18

-----------------------------------------------------------------------------
(* The results.                                                            *)

\* Every reachable state satisfies IInv.
THEOREM Invariant == Spec => []IInv
<1>1. IInv /\ [Next]_vars => IInv'
  BY PassKeeps, ApartKeeps, DigestKeeps, TypeKeeps, FinalKeeps DEF IInv
<1> QED
  BY InitHolds, <1>1, PTL DEF Spec

\* The variables keep their types, and a pass alerts about machines it saw.
THEOREM TypesHold == Spec => []TypeOK
<1>1. IInv => TypeOK
  BY DEF IInv
<1> QED
  BY Invariant, <1>1, PTL

\* A pass that is done with its alerts has forgotten no machine over the
\* threshold.
THEOREM NobodyForgotten == Spec => []NoBusyMachineForgotten
<1>1. IInv => NoBusyMachineForgotten
  BY DEF IInv, PassInv, NoBusyMachineForgotten, AlertsDone, Settled, OnItsWay
<1> QED
  BY Invariant, <1>1, PTL

\* Two alerts of a machine under one date are a day apart, or the worker has
\* been restarted between them and its cache was its memory.
THEOREM ApartHolds == Spec => []AlertsApart
<1>1. IInv => AlertsApart
  BY DEF IInv, ApartInv, AlertsApart, Begun, Apart
<1> QED
  BY Invariant, <1>1, PTL

\* A shop gets a day's digest at most once for every time the worker starts.
THEOREM DigestsHold == Spec => []DigestsBounded
<1>1. IInv => DigestsBounded
  BY DEF IInv, DigestInv, DigestsBounded
<1> QED
  BY Invariant, <1>1, PTL

\* The count of a digest is the day's last word: no claim of that day commits
\* after it was counted, let alone sent.
THEOREM FinalHolds == Spec => []DigestIsFinal
<1>1. IInv => DigestIsFinal
  BY DEF IInv, FinalInv, DigestIsFinal
<1> QED
  BY Invariant, <1>1, PTL
=============================================================================
