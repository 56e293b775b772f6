------------------------- MODULE ClaimIntake_proofs -------------------------
(***************************************************************************)
(* What TLAPS proves of ClaimIntake, for any number of requests, keys and  *)
(* photos, and any window and retention.                                   *)
(*                                                                         *)
(* The argument.  A row in the table belongs to a request that is past its *)
(* commit, so a request that has not committed has no row, and whoever     *)
(* found its key taken found another's.  The unique index lets one         *)
(* transaction at a time hold a key that nobody has; that makes the rows   *)
(* unique.  What a risk check has seen is old enough when it is seen and   *)
(* only gets older.  The files of a transaction are all on disk until it   *)
(* commits, and afterwards only the purge deletes them, once they have     *)
(* expired; whoever leaves a file behind notes it as a stray.              *)
(***************************************************************************)
EXTENDS ClaimIntake, TLAPS

Committed == {"accepted", "failed", "done", "dead"}

\* What a request knows of the table of claims.
AttemptInv(a) ==
  /\ pc[a] # "idle" => key[a] \in Keys
  /\ reply[a] # "" => pc[a] = "done"
  /\ pc[a] = "accepted" \/ reply[a] = "created" =>
       \E c \in claims : c.by = a /\ c.key = key[a]
  /\ pc[a] \in {"conflict", "overtaken"} \/ reply[a] = "existing" =>
       \E c \in claims : c.by # a /\ c.key = key[a]
  /\ late[a] => /\ \E c \in claims : c.key = key[a]
                /\ pc[a] \in {"entered", "done", "dead"} /\ reply[a] # "duplicate"
  /\ pc[a] = "inserted" => /\ ~Known(key[a])
                           /\ \A b \in Attempts :
                                pc[b] = "inserted" /\ key[b] = key[a] => b = a

\* What its risk check has seen is a window older than the row will be.
SawInv(a) ==
  /\ \A b \in saw[a] : \E c \in claims : c.by = b
  /\ \A c \in claims : c.by \in saw[a] =>
       /\ pc[a] = "writing" => now - c.at >= Window
       /\ pc[a] \in {"begun", "inserted"} => began[a] - c.at >= Window

ClaimInv(c) ==
  /\ pc[c.by] \in Committed /\ key[c.by] = c.key
  /\ \A b \in c.saw : \E d \in claims : d.by = b

ClaimsInv ==
  /\ \A a \in Attempts : AttemptInv(a)
  /\ \A a \in Attempts : SawInv(a)
  /\ \A c \in claims : ClaimInv(c)
  /\ OneClaimPerKey
  /\ AcceptedApart

NoFiles == {"idle", "entered", "fresh"}

\* A transaction has all its files on disk.
AttemptFiles(a) == pc[a] \in {"begun", "inserted"} => FilesOf(a) \subseteq disk

\* Whoever left a file behind has noted it.
FileInv(f) ==
  /\ pc[f[1]] \notin NoFiles
  /\ f \in FilesOf(f[1])
  /\ pc[f[1]] \in {"accepted", "done", "dead"} =>
       f \in strays \/ \E p \in photos : p.file = f

PhotoInv(p) ==
  /\ pc[p.file[1]] \in Committed
  /\ pc[p.file[1]] = "accepted" \/ reply[p.file[1]] = "created" =>
       p.file \in disk \/ p.expires <= now
  /\ \A q \in photos : q.file = p.file => q.expires = p.expires

PurgeInv ==
  purging # Nothing => /\ pc[purging[1]] \in Committed
                       /\ purging \in disk => purging \in strays

FilesInv ==
  /\ \A a \in Attempts : AttemptFiles(a)
  /\ \A f \in disk : FileInv(f)
  /\ \A p \in photos : PhotoInv(p)
  /\ PurgeInv

IInv == TypeOK /\ ClaimsInv /\ FilesInv

-----------------------------------------------------------------------------
LEMMA InitHolds == Init => IInv
<1>0. 0 \in 0..MaxNow
  BY TimesType
<1> SUFFICES ASSUME Init PROVE IInv
  OBVIOUS
<1> USE DEF Init
<1>1. TypeOK
  <2>1. pc \in [Attempts -> {"idle", "done", "dead"} \cup Busy]
        /\ key \in [Attempts -> Keys \cup {Nothing}]
    OBVIOUS
  <2>2. began \in [Attempts -> 0..MaxNow] /\ now \in 0..MaxNow
    BY <1>0, Zenon
  <2>3. saw \in [Attempts -> SUBSET Attempts] /\ late \in [Attempts -> BOOLEAN]
    OBVIOUS
  <2>4. reply \in [Attempts ->
          {"", "refused", "existing", "duplicate", "error", "created"}]
    OBVIOUS
  <2> QED
    BY <2>1, <2>2, <2>3, <2>4 DEF TypeOK
<1>2. ClaimsInv
  BY DEF ClaimsInv, AttemptInv, SawInv, OneClaimPerKey, AcceptedApart
<1>3. FilesInv
  BY DEF FilesInv, AttemptFiles, PurgeInv
<1> QED
  BY <1>1, <1>2, <1>3 DEF IInv

\* A request writes files of its own only.
LEMMA FilesAreFiles ==
  ASSUME NEW a \in Attempts, key[a] \in Keys
  PROVE  FilesOf(a) \subseteq Files /\ \A f \in FilesOf(a) : f[1] = a
<1>1. Form[key[a]].photos \in 0..MaxPhotos
  BY FormType
<1>2. 1..Form[key[a]].photos \subseteq 1..MaxPhotos
  BY <1>1, FormType
<1> QED
  BY <1>2 DEF FilesOf, Files

\* The types, one action after the other.
LEMMA TypeKeeps ==
  ASSUME TypeOK, ClaimsInv, [Next]_vars PROVE TypeOK'
<1>1. ASSUME NEW a \in Attempts, NEW k \in Keys, Start(a, k) PROVE TypeOK'
  BY ZenonT(40), <1>1 DEF Start, TypeOK, Goto, Busy
<1>2. ASSUME NEW a \in Attempts, LookUp(a) \/ FailEarly(a) \/ Accept(a) PROVE TypeOK'
  BY <1>2 DEF LookUp, FailEarly, Accept, TypeOK, Goto, Answer, Busy
<1>3. ASSUME NEW a \in Attempts, Judge(a) PROVE TypeOK'
  <2>1. {c.by : c \in SamePhone(key[a])} \in SUBSET Attempts
    <3>1. \A c \in claims : c.by \in Attempts
      BY DEF TypeOK
    <3> QED
      BY <3>1, Zenon DEF SamePhone
  <2>2. saw' \in [Attempts -> SUBSET Attempts]
    BY <1>3, <2>1, Zenon DEF Judge, Answer, TypeOK
  <2>3. pc' \in [Attempts -> {"idle", "done", "dead"} \cup Busy]
        /\ reply' \in [Attempts ->
             {"", "refused", "existing", "duplicate", "error", "created"}]
    BY <1>3 DEF Judge, TypeOK, Goto, Answer, Busy
  <2> QED
    BY <1>3, <2>2, <2>3 DEF Judge, TypeOK, Answer
<1>4. ASSUME NEW a \in Attempts, WritePhoto(a) PROVE TypeOK'
  <2>1. key[a] \in Keys
    BY <1>4 DEF WritePhoto, ClaimsInv, AttemptInv
  <2>2. FilesOf(a) \subseteq Files
    BY <2>1, FilesAreFiles
  <2> QED
    BY <1>4, <2>2 DEF WritePhoto, TypeOK, Goto, Busy
<1>5. ASSUME NEW a \in Attempts, Begin(a) PROVE TypeOK'
  BY <1>5 DEF Begin, TypeOK, Goto, Busy
<1>6. ASSUME NEW a \in Attempts, Insert(a) \/ Abort(a) \/ FindExisting(a) PROVE TypeOK'
  BY <1>6 DEF Insert, Abort, FindExisting, TypeOK, Goto, Busy
<1>7. ASSUME NEW a \in Attempts, Commit(a) PROVE TypeOK'
  <2>1. key[a] \in Keys
    BY <1>7 DEF Commit, ClaimsInv, AttemptInv
  <2>2. Row(a) \in [key : Keys, by : Attempts, at : 0..MaxNow, saw : SUBSET Attempts]
    BY <2>1 DEF Row, TypeOK
  <2>3. PhotoRows(a) \subseteq [file : Files, expires : Retention..(MaxNow + Retention)]
    <3>1. began[a] \in 0..MaxNow
      BY DEF TypeOK
    <3>2. began[a] + Retention \in Retention..(MaxNow + Retention)
      BY <3>1, TimesType
    <3>3. FilesOf(a) \subseteq Files
      BY <2>1, FilesAreFiles
    <3> QED
      BY <3>2, <3>3 DEF PhotoRows
  <2> QED
    BY ZenonT(40), <1>7, <2>2, <2>3 DEF Commit, TypeOK, Goto, Busy
<1>8. ASSUME NEW a \in Attempts, Cleanup(a) PROVE TypeOK'
  BY <1>8 DEF Cleanup, Written, TypeOK, Goto, Answer, Busy
<1>9. CASE Crash
  BY <1>9 DEF Crash, Written, TypeOK, Busy
<1>10. ASSUME NEW p \in photos, PurgeFile(p) PROVE TypeOK'
  BY <1>10 DEF PurgeFile, TypeOK, api
<1>11. CASE PurgeRow \/ PurgeStops
  BY <1>11 DEF PurgeRow, PurgeStops, TypeOK, api
<1>12. CASE Tick
  <2>1. now' \in 0..MaxNow
    <3>1. now \in 0..MaxNow
      BY DEF TypeOK
    <3>2. now < MaxNow /\ now' = now + 1
      BY <1>12 DEF Tick
    <3> QED
      BY <3>1, <3>2, TimesType
  <2> QED
    BY <1>12, <2>1, Zenon DEF Tick, TypeOK, api
<1>13. CASE UNCHANGED vars
  BY <1>13 DEF vars, TypeOK, api
<1> QED
  BY <1>1, <1>2, <1>3, <1>4, <1>5, <1>6, <1>7, <1>8, <1>9, <1>10, <1>11, <1>12, <1>13
     DEF Next, Handle, Purge

-----------------------------------------------------------------------------
\* The functions of the handlers, without the rest of the types.
Functions ==
  /\ \A a \in Attempts : pc[a] \in {"idle", "done", "dead"} \cup Busy
  /\ DOMAIN pc = Attempts /\ DOMAIN key = Attempts /\ DOMAIN began = Attempts
  /\ DOMAIN saw = Attempts /\ DOMAIN reply = Attempts /\ DOMAIN late = Attempts
  /\ pc = [a \in Attempts |-> pc[a]] /\ reply = [a \in Attempts |-> reply[a]]
  /\ key = [a \in Attempts |-> key[a]] /\ began = [a \in Attempts |-> began[a]]
  /\ saw = [a \in Attempts |-> saw[a]] /\ late = [a \in Attempts |-> late[a]]

LEMMA Functional == TypeOK => Functions
BY DEF TypeOK, Functions

Same(b) ==
  /\ pc'[b] = pc[b] /\ key'[b] = key[b] /\ began'[b] = began[b]
  /\ saw'[b] = saw[b] /\ reply'[b] = reply[b] /\ late'[b] = late[b]

\* A step of one request that leaves the table of claims alone has only to
\* keep what that request knows.
LEMMA OneMoves ==
  ASSUME ClaimsInv, \A c \in claims : c.by \in Attempts,
         NEW a \in Attempts, claims' = claims, now' = now,
         \A b \in Attempts \ {a} : Same(b),
         AttemptInv(a)', SawInv(a)',
         key'[a] = key[a] \/ pc[a] = "idle",
         pc[a] \in Committed => pc'[a] \in Committed
  PROVE  ClaimsInv'
<1>1. ASSUME NEW b \in Attempts PROVE AttemptInv(b)'
  <2>1. CASE b = a
    BY <2>1
  <2>2. CASE b # a
    <3>1. Same(b) /\ AttemptInv(b)
      BY <2>2 DEF ClaimsInv
    <3>2. pc[b] = "inserted" =>
            \A d \in Attempts : pc'[d] = "inserted" /\ key'[d] = key[b] => d = b
      <4> SUFFICES ASSUME pc[b] = "inserted", NEW d \in Attempts,
                          pc'[d] = "inserted", key'[d] = key[b], d # b
                   PROVE  FALSE
        OBVIOUS
      <4>1. CASE d = a
        <5>1. b = a
          BY <4>1, <3>1 DEF AttemptInv, Same
        <5> QED
          BY <5>1, <2>2
      <4>2. CASE d # a
        BY <4>2, <3>1 DEF AttemptInv, Same
      <4> QED
        BY <4>1, <4>2
    <3> QED
      BY <3>1, <3>2 DEF AttemptInv, Same, Known
  <2> QED
    BY <2>1, <2>2
<1>2. ASSUME NEW b \in Attempts PROVE SawInv(b)'
  <2>1. CASE b = a
    BY <2>1
  <2>2. CASE b # a
    <3>1. Same(b) /\ SawInv(b)
      BY <2>2 DEF ClaimsInv
    <3> QED
      BY <3>1 DEF SawInv, Same
  <2> QED
    BY <2>1, <2>2
<1>3. ASSUME NEW c \in claims PROVE ClaimInv(c)'
  <2>1. ClaimInv(c) /\ c.by \in Attempts
    BY DEF ClaimsInv
  <2>2. CASE c.by = a
    BY <2>1, <2>2 DEF ClaimInv, Committed
  <2>3. CASE c.by # a
    BY <2>1, <2>3 DEF ClaimInv, Same
  <2> QED
    BY <2>2, <2>3
<1>4. OneClaimPerKey' /\ AcceptedApart'
  BY DEF ClaimsInv, OneClaimPerKey, AcceptedApart
<1> QED
  BY <1>1, <1>2, <1>3, <1>4 DEF ClaimsInv

\* What the steps below need of the types.
LEMMA Typed ==
  ASSUME TypeOK
  PROVE  /\ \A a \in Attempts : began[a] \in Int
         /\ \A c \in claims : c.by \in Attempts /\ c.at \in Int
         /\ now \in Int /\ Window \in Int
<1>0. \A n \in 0..MaxNow : n \in Int
  OBVIOUS
<1>1. \A c \in claims : c.by \in Attempts /\ c.at \in Int
  <2>1. \A c \in claims : c.by \in Attempts /\ c.at \in 0..MaxNow
    BY Zenon DEF TypeOK
  <2> QED
    BY <1>0, <2>1, Zenon
<1>2. \A a \in Attempts : began[a] \in Int
  BY <1>0, Zenon DEF TypeOK
<1>3. now \in Int
  BY <1>0, Zenon DEF TypeOK
<1>4. Window \in Int
  BY TimesType
<1> QED
  BY <1>1, <1>2, <1>3, <1>4

LEMMA ClaimsKeep ==
  ASSUME TypeOK, ClaimsInv, [Next]_vars PROVE ClaimsInv'
<1>0. Functions
  BY Functional
<1> USE <1>0
<1>1. ASSUME NEW a \in Attempts, NEW k \in Keys, Start(a, k) PROVE ClaimsInv'
  <2>1. AttemptInv(a) /\ SawInv(a)
    BY DEF ClaimsInv
  <2>2. \A b \in Attempts \ {a} : Same(b)
    BY <1>1 DEF Functions, Same, Start, Goto
  <2>3. AttemptInv(a)'
    <3>1. late'[a] => \E c \in claims : c.key = k
      <4> SUFFICES ASSUME late'[a] PROVE \E c \in claims : c.key = k
        OBVIOUS
      <4>1. PICK b \in Attempts : key[b] = k /\ reply[b] \in {"created", "existing"}
        BY <1>1 DEF Start, Functions
      <4> QED
        BY <4>1 DEF ClaimsInv, AttemptInv
    <3>2. key'[a] = k /\ claims' = claims /\ reply[a] = ""
      BY <1>1, <2>1 DEF Functions, Start, AttemptInv
    <3>3. \/ pc'[a] = "entered" /\ reply'[a] = ""
          \/ pc'[a] = "done" /\ reply'[a] = "refused"
      <4>1. \/ Goto(a, "entered") /\ reply' = reply
            \/ Goto(a, "done") /\ reply' = [reply EXCEPT ![a] = "refused"]
        BY <1>1, Zenon DEF Start
      <4> QED
        BY <4>1, <3>2 DEF Functions, Goto
    <3> QED
      BY <3>1, <3>2, <3>3 DEF AttemptInv
  <2>4. SawInv(a)'
    BY <1>1, <2>1 DEF Functions, SawInv, Start, Goto
  <2> QED
    BY <1>1, <2>2, <2>3, <2>4, OneMoves, Typed DEF Functions, Committed, Start, Goto
<1>2. ASSUME NEW a \in Attempts, LookUp(a) PROVE ClaimsInv'
  <2>1. AttemptInv(a) /\ SawInv(a)
    BY DEF ClaimsInv
  <2>2. \A b \in Attempts \ {a} : Same(b)
    BY <1>2 DEF Functions, Same, LookUp, Goto, Answer
  <2>3. AttemptInv(a)'
    <3>1. \A c \in claims : c.by # a
      BY <1>2 DEF ClaimsInv, ClaimInv, Committed, LookUp
    <3> QED
      BY <1>2, <2>1, <3>1 DEF Functions, AttemptInv, Known, LookUp, Goto, Answer
  <2>4. SawInv(a)'
    BY <1>2, <2>1 DEF Functions, SawInv, LookUp, Goto, Answer
  <2> QED
    BY <1>2, <2>2, <2>3, <2>4, OneMoves, Typed DEF Functions, Committed, LookUp, Goto, Answer
<1>3. ASSUME NEW a \in Attempts, Judge(a) PROVE ClaimsInv'
  <2>1. AttemptInv(a) /\ SawInv(a)
    BY DEF ClaimsInv
  <2>2. \A b \in Attempts \ {a} : Same(b)
    BY <1>3 DEF Functions, Same, Judge, Goto, Answer, RapidDuplicate, SamePhone
  <2>3. AttemptInv(a)'
    BY <1>3, <2>1 DEF Functions, AttemptInv, Known, Judge, Goto, Answer, RapidDuplicate, SamePhone
  <2>4. SawInv(a)'
    <3>1. CASE RapidDuplicate(key[a])
      BY <1>3, <2>1, <3>1 DEF Functions, SawInv, Judge, Goto, Answer
    <3>2. CASE ~RapidDuplicate(key[a])
      <4>1. /\ saw'[a] = {c.by : c \in SamePhone(key[a])} /\ pc'[a] = "writing"
            /\ claims' = claims /\ now' = now
        BY <1>3, <3>2 DEF Functions, Judge, Goto
      <4>2. \A c \in SamePhone(key[a]) : now - c.at >= Window
        BY <3>2, Typed DEF RapidDuplicate, SamePhone
      <4>3. ASSUME NEW c \in claims, c.by \in saw'[a] PROVE now - c.at >= Window
        <5>1. PICK d \in SamePhone(key[a]) : d.by = c.by
          BY <4>1, <4>3
        <5>2. d \in claims /\ d.key = c.key
          BY <5>1 DEF SamePhone, ClaimsInv, ClaimInv
        <5>3. d = c
          BY <5>2 DEF ClaimsInv, OneClaimPerKey
        <5> QED
          BY <4>2, <5>1, <5>3
      <4>4. \A b \in saw'[a] : \E c \in claims : c.by = b
        BY <4>1 DEF SamePhone
      <4> QED
        BY <4>1, <4>3, <4>4 DEF SawInv
    <3> QED
      BY <3>1, <3>2
  <2> QED
    BY <1>3, <2>2, <2>3, <2>4, OneMoves, Typed DEF Functions, Committed, Judge, Goto, Answer, RapidDuplicate, SamePhone
<1>4. ASSUME NEW a \in Attempts, FailEarly(a) PROVE ClaimsInv'
  <2>1. AttemptInv(a) /\ SawInv(a)
    BY DEF ClaimsInv
  <2>2. \A b \in Attempts \ {a} : Same(b)
    BY <1>4 DEF Functions, Same, FailEarly, Goto, Answer
  <2>3. AttemptInv(a)'
    BY <1>4, <2>1 DEF Functions, AttemptInv, Known, FailEarly, Goto, Answer
  <2>4. SawInv(a)'
    BY <1>4, <2>1 DEF Functions, SawInv, FailEarly, Goto, Answer
  <2> QED
    BY <1>4, <2>2, <2>3, <2>4, OneMoves, Typed DEF Functions, Committed, FailEarly, Goto, Answer
<1>5. ASSUME NEW a \in Attempts, WritePhoto(a) PROVE ClaimsInv'
  <2>1. AttemptInv(a) /\ SawInv(a)
    BY DEF ClaimsInv
  <2>2. \A b \in Attempts \ {a} : Same(b)
    BY <1>5 DEF Functions, Same, WritePhoto, Goto
  <2>3. AttemptInv(a)'
    BY <1>5, <2>1 DEF Functions, AttemptInv, Known, WritePhoto, Goto
  <2>4. SawInv(a)'
    BY <1>5, <2>1 DEF Functions, SawInv, WritePhoto, Goto
  <2> QED
    BY <1>5, <2>2, <2>3, <2>4, OneMoves, Typed DEF Functions, Committed, WritePhoto, Goto
<1>6. ASSUME NEW a \in Attempts, Begin(a) PROVE ClaimsInv'
  <2>1. AttemptInv(a) /\ SawInv(a)
    BY DEF ClaimsInv
  <2>2. \A b \in Attempts \ {a} : Same(b)
    BY <1>6 DEF Functions, Same, Begin, Goto
  <2>3. AttemptInv(a)'
    BY <1>6, <2>1 DEF Functions, AttemptInv, Known, Begin, Goto
  <2>4. SawInv(a)'
    BY <1>6, <2>1, Typed DEF Functions, SawInv, Begin, Goto
  <2> QED
    BY <1>6, <2>2, <2>3, <2>4, OneMoves, Typed DEF Functions, Committed, Begin, Goto
<1>7. ASSUME NEW a \in Attempts, Insert(a) PROVE ClaimsInv'
  <2>1. AttemptInv(a) /\ SawInv(a)
    BY DEF ClaimsInv
  <2>2. \A b \in Attempts \ {a} : Same(b)
    BY <1>7 DEF Functions, Same, Insert, OpenTx, Goto
  <2>3. AttemptInv(a)'
    <3>1. \A c \in claims : c.by # a
      BY <1>7 DEF ClaimsInv, ClaimInv, Committed, Insert
    <3>2. /\ claims' = claims /\ key' = key /\ reply' = reply /\ late' = late /\ pc[a] = "begun"
          /\ pc'[a] = IF Known(key[a]) THEN "conflict" ELSE "inserted"
          /\ \A b \in Attempts \ {a} : pc'[b] = pc[b]
      BY <1>7 DEF Functions, Insert, Goto
    <3>3. \A b \in Attempts : pc'[b] = "inserted" /\ key[b] = key[a] => b = a
      BY <1>7, <3>2 DEF Insert, OpenTx
    <3> QED
      BY <2>1, <3>1, <3>2, <3>3 DEF AttemptInv, Known
  <2>4. SawInv(a)'
    BY <1>7, <2>1 DEF Functions, SawInv, Insert, OpenTx, Goto
  <2> QED
    BY <1>7, <2>2, <2>3, <2>4, OneMoves, Typed DEF Functions, Committed, Insert, OpenTx, Goto
<1>8. ASSUME NEW a \in Attempts, Abort(a) PROVE ClaimsInv'
  <2>1. AttemptInv(a) /\ SawInv(a)
    BY DEF ClaimsInv
  <2>2. \A b \in Attempts \ {a} : Same(b)
    BY <1>8 DEF Functions, Same, Abort, Goto
  <2>3. AttemptInv(a)'
    BY <1>8, <2>1 DEF Functions, AttemptInv, Known, Abort, Goto
  <2>4. SawInv(a)'
    BY <1>8, <2>1 DEF Functions, SawInv, Abort, Goto
  <2> QED
    BY <1>8, <2>2, <2>3, <2>4, OneMoves, Typed DEF Functions, Committed, Abort, Goto
<1>9. ASSUME NEW a \in Attempts, FindExisting(a) PROVE ClaimsInv'
  <2>1. AttemptInv(a) /\ SawInv(a)
    BY DEF ClaimsInv
  <2>2. \A b \in Attempts \ {a} : Same(b)
    BY <1>9 DEF Functions, Same, FindExisting, Goto
  <2>3. AttemptInv(a)'
    BY <1>9, <2>1 DEF Functions, AttemptInv, Known, FindExisting, Goto
  <2>4. SawInv(a)'
    BY <1>9, <2>1 DEF Functions, SawInv, FindExisting, Goto
  <2> QED
    BY <1>9, <2>2, <2>3, <2>4, OneMoves, Typed DEF Functions, Committed, FindExisting, Goto
<1>10. ASSUME NEW a \in Attempts, Cleanup(a) PROVE ClaimsInv'
  <2>1. AttemptInv(a) /\ SawInv(a)
    BY DEF ClaimsInv
  <2>2. \A b \in Attempts \ {a} : Same(b)
    BY <1>10 DEF Functions, Same, Cleanup, Goto, Answer
  <2>3. AttemptInv(a)'
    BY <1>10, <2>1 DEF Functions, AttemptInv, Known, Cleanup, Goto, Answer
  <2>4. SawInv(a)'
    BY <1>10, <2>1 DEF Functions, SawInv, Cleanup, Goto, Answer
  <2> QED
    BY <1>10, <2>2, <2>3, <2>4, OneMoves, Typed DEF Functions, Committed, Cleanup, Goto, Answer
<1>11. ASSUME NEW a \in Attempts, Accept(a) PROVE ClaimsInv'
  <2>1. AttemptInv(a) /\ SawInv(a)
    BY DEF ClaimsInv
  <2>2. \A b \in Attempts \ {a} : Same(b)
    BY <1>11 DEF Functions, Same, Accept, Goto, Answer
  <2>3. AttemptInv(a)'
    BY <1>11, <2>1 DEF Functions, AttemptInv, Known, Accept, Goto, Answer
  <2>4. SawInv(a)'
    BY <1>11, <2>1 DEF Functions, SawInv, Accept, Goto, Answer
  <2> QED
    BY <1>11, <2>2, <2>3, <2>4, OneMoves, Typed DEF Functions, Committed, Accept, Goto, Answer
<1>12. ASSUME NEW a \in Attempts, Commit(a) PROVE ClaimsInv'
  <2>1. AttemptInv(a) /\ SawInv(a) /\ pc[a] = "inserted"
    BY <1>12 DEF ClaimsInv, Commit
  <2>2. \A b \in Attempts \ {a} : Same(b)
    BY <1>12 DEF Functions, Same, Commit, Goto
  <2>3. /\ claims' = claims \cup {Row(a)} /\ now' = now
        /\ Row(a).by = a /\ Row(a).key = key[a] /\ Row(a).at = began[a] /\ Row(a).saw = saw[a]
        /\ pc'[a] \in {"accepted", "failed"} /\ key'[a] = key[a] /\ saw'[a] = saw[a]
        /\ reply'[a] = reply[a] /\ late'[a] = late[a]
    BY <1>12 DEF Functions, Commit, Goto, Row
  <2>4. \A c \in claims : c.by # a /\ c.key # key[a]
    BY <2>1 DEF ClaimsInv, ClaimInv, Committed, AttemptInv, Known
  <2>5. \A b \in Attempts : a \notin saw[b]
    BY <2>4 DEF ClaimsInv, SawInv
  <2>6. ASSUME NEW b \in Attempts PROVE AttemptInv(b)'
    <3>1. CASE b = a
      BY <2>1, <2>3, <3>1 DEF AttemptInv
    <3>2. CASE b # a
      <4>1. AttemptInv(b) /\ Same(b)
        BY <2>2, <3>2 DEF ClaimsInv
      <4>2. pc[b] = "inserted" => key[b] # key[a]
        BY <2>1, <3>2 DEF AttemptInv
      <4>3. pc'[b] = "inserted" =>
              \A d \in Attempts : pc'[d] = "inserted" /\ key'[d] = key'[b] => d = b
        BY <2>2, <2>3, <4>1 DEF AttemptInv, Same
      <4> QED
        BY <2>3, <4>1, <4>2, <4>3 DEF AttemptInv, Same, Known
    <3> QED
      BY <3>1, <3>2
  <2>7. ASSUME NEW b \in Attempts PROVE SawInv(b)'
    <3>1. CASE b = a
      BY <2>1, <2>3, <3>1 DEF SawInv
    <3>2. CASE b # a
      <4>1. SawInv(b) /\ Same(b) /\ a \notin saw[b]
        BY <2>2, <2>5, <3>2 DEF ClaimsInv
      <4> QED
        BY <2>3, <4>1 DEF SawInv, Same
    <3> QED
      BY <3>1, <3>2
  <2>8. ASSUME NEW c \in claims' PROVE ClaimInv(c)'
    <3>1. CASE c \in claims
      <4>1. ClaimInv(c) /\ c.by # a /\ c.by \in Attempts
        BY <2>4, <3>1, Typed DEF ClaimsInv
      <4> QED
        BY <2>2, <2>3, <4>1 DEF ClaimInv, Same
    <3>2. CASE c = Row(a)
      BY <2>1, <2>3, <3>2 DEF ClaimInv, SawInv, Committed
    <3> QED
      BY <2>3, <3>1, <3>2
  <2>9. OneClaimPerKey'
    BY <2>3, <2>4 DEF ClaimsInv, OneClaimPerKey
  <2>10. AcceptedApart'
    <3> SUFFICES ASSUME NEW c \in claims', NEW d \in claims', c.by \in d.saw
                 PROVE  d.at - c.at >= Window
      BY DEF AcceptedApart
    <3>1. CASE c \in claims /\ d \in claims
      BY <3>1 DEF ClaimsInv, AcceptedApart
    <3>2. CASE c \in claims /\ d = Row(a)
      BY <2>1, <2>3, <3>2 DEF SawInv
    <3>3. CASE c = Row(a)
      <4>1. a \in d.saw
        BY <2>3, <3>3
      <4>2. d \notin claims
        BY <2>4, <4>1 DEF ClaimsInv, ClaimInv
      <4> QED
        BY <2>3, <2>5, <4>1, <4>2
    <3> QED
      BY <2>3, <3>1, <3>2, <3>3
  <2> QED
    BY <2>6, <2>7, <2>8, <2>9, <2>10 DEF ClaimsInv
<1>13. CASE Crash
  <2>1. /\ \A b \in Attempts : pc'[b] = IF pc[b] \in Busy THEN "dead" ELSE pc[b]
        /\ claims' = claims /\ now' = now
        /\ key' = key /\ began' = began /\ saw' = saw /\ reply' = reply /\ late' = late
    BY <1>13 DEF Crash
  <2>2. ASSUME NEW b \in Attempts PROVE AttemptInv(b)' /\ SawInv(b)'
    <3>1. AttemptInv(b) /\ SawInv(b)
      BY DEF ClaimsInv
    <3>2. AttemptInv(b)'
      BY <2>1, <3>1 DEF AttemptInv, Busy, Functions
    <3>3. SawInv(b)'
      BY <2>1, <3>1 DEF SawInv, Busy, Functions
    <3> QED
      BY <3>2, <3>3
  <2>3. ASSUME NEW c \in claims PROVE ClaimInv(c)'
    <3>1. ClaimInv(c) /\ c.by \in Attempts
      BY Typed DEF ClaimsInv
    <3> QED
      BY <2>1, <3>1 DEF ClaimInv, Committed
  <2>4. OneClaimPerKey' /\ AcceptedApart'
    BY <2>1 DEF ClaimsInv, OneClaimPerKey, AcceptedApart
  <2> QED
    BY <2>1, <2>2, <2>3, <2>4 DEF ClaimsInv
<1>14. CASE Purge \/ Tick \/ UNCHANGED vars
  <2>1. /\ claims' = claims /\ pc' = pc /\ key' = key /\ began' = began
        /\ saw' = saw /\ reply' = reply /\ late' = late
    BY <1>14 DEF Purge, PurgeFile, PurgeRow, PurgeStops, Tick, vars, api
  <2>2. now' = now \/ now' = now + 1
    BY <1>14 DEF Purge, PurgeFile, PurgeRow, PurgeStops, Tick, vars
  <2>3. ASSUME NEW b \in Attempts PROVE AttemptInv(b)' /\ SawInv(b)'
    <3>1. AttemptInv(b) /\ SawInv(b)
      BY DEF ClaimsInv
    <3>2. AttemptInv(b)'
      BY <2>1, <3>1 DEF AttemptInv, Known
    <3>3. SawInv(b)'
      BY <2>1, <2>2, <3>1, Typed DEF SawInv
    <3> QED
      BY <3>2, <3>3
  <2>4. \A c \in claims : ClaimInv(c)'
    BY <2>1 DEF ClaimsInv, ClaimInv
  <2>5. OneClaimPerKey' /\ AcceptedApart'
    BY <2>1 DEF ClaimsInv, OneClaimPerKey, AcceptedApart
  <2> QED
    BY <2>1, <2>3, <2>4, <2>5 DEF ClaimsInv
<1> QED
  BY <1>1, <1>2, <1>3, <1>4, <1>5, <1>6, <1>7, <1>8, <1>9, <1>10, <1>11, <1>12, <1>13, <1>14
     DEF Next, Handle

-----------------------------------------------------------------------------
(* Files.                                                                  *)

\* What the steps below need of the types.
LEMMA TypedFiles ==
  ASSUME TypeOK
  PROVE  /\ \A f \in disk : f \in Files /\ f[1] \in Attempts
         /\ \A p \in photos : p.file \in Files /\ p.file[1] \in Attempts
         /\ purging \in Files => purging[1] \in Attempts
         /\ strays \subseteq disk
         /\ purging # Nothing => purging \in Files
<1>1. \A f \in Files : f[1] \in Attempts
  BY DEF Files
<1>2. \A p \in photos : p.file \in Files
  BY DEF TypeOK
<1>3. disk \subseteq Files /\ strays \subseteq disk /\ purging \in Files \cup {Nothing}
  BY DEF TypeOK
<1> QED
  BY <1>1, <1>2, <1>3

\* A step of one request that leaves files and photos alone has only to
\* keep what is known of that request's.
LEMMA OneTidies ==
  ASSUME TypeOK, FilesInv, NEW a \in Attempts,
         disk' = disk, photos' = photos, strays' = strays, purging' = purging, now' = now,
         \A b \in Attempts \ {a} : Same(b),
         AttemptFiles(a)',
         key'[a] = key[a] \/ pc[a] = "idle",
         pc[a] \in Committed => pc'[a] \in Committed,
         pc'[a] \in NoFiles => pc[a] \in NoFiles,
         pc'[a] \in {"accepted", "done", "dead"} => pc[a] \in NoFiles \cup {"accepted"},
         pc'[a] = "accepted" \/ reply'[a] = "created" => pc[a] = "accepted"
  PROVE  FilesInv'
<1>1. ASSUME NEW b \in Attempts PROVE AttemptFiles(b)'
  <2>1. CASE b = a
    BY <2>1
  <2>2. CASE b # a
    <3>1. AttemptFiles(b) /\ Same(b)
      BY <2>2 DEF FilesInv
    <3> QED
      BY <3>1 DEF AttemptFiles, FilesOf, Same
  <2> QED
    BY <2>1, <2>2
<1>2. ASSUME NEW f \in disk PROVE FileInv(f)'
  <2>1. FileInv(f) /\ f[1] \in Attempts
    BY TypedFiles DEF FilesInv
  <2>2. CASE f[1] = a
    BY <2>1, <2>2 DEF FileInv, NoFiles, FilesOf
  <2>3. CASE f[1] # a
    BY <2>1, <2>3 DEF FileInv, FilesOf, Same
  <2> QED
    BY <2>2, <2>3
<1>3. ASSUME NEW p \in photos PROVE PhotoInv(p)'
  <2>1. PhotoInv(p) /\ p.file[1] \in Attempts
    BY TypedFiles DEF FilesInv
  <2>2. CASE p.file[1] = a
    BY <2>1, <2>2 DEF PhotoInv
  <2>3. CASE p.file[1] # a
    BY <2>1, <2>3 DEF PhotoInv, Same
  <2> QED
    BY <2>2, <2>3
<1>4. PurgeInv'
  <2> SUFFICES ASSUME purging # Nothing PROVE PurgeInv'
    BY DEF PurgeInv
  <2>1. purging[1] \in Attempts /\ PurgeInv
    BY TypedFiles DEF FilesInv
  <2> QED
    BY <2>1 DEF PurgeInv, Same
<1> QED
  BY <1>1, <1>2, <1>3, <1>4 DEF FilesInv

LEMMA FilesKeep ==
  ASSUME TypeOK, ClaimsInv, FilesInv, [Next]_vars PROVE FilesInv'
<1>0. Functions
  BY Functional
<1> USE <1>0
<1>1. ASSUME NEW a \in Attempts, NEW k \in Keys, Start(a, k) PROVE FilesInv'
  <2>1. disk' = disk /\ photos' = photos /\ strays' = strays /\ purging' = purging /\ now' = now
    BY <1>1 DEF Start, Goto
  <2>2. \A b \in Attempts \ {a} : Same(b)
    BY <1>1 DEF Functions, Same, Start, Goto
  <2>3. AttemptFiles(a)' /\ (key'[a] = key[a] \/ pc[a] = "idle")
    BY <1>1, <2>1 DEF FilesInv, AttemptFiles, Functions, FilesOf, Start, Goto
  <2>4. /\ pc[a] \in Committed => pc'[a] \in Committed
        /\ pc'[a] \in NoFiles => pc[a] \in NoFiles
        /\ pc'[a] \in {"accepted", "done", "dead"} => pc[a] \in NoFiles \cup {"accepted"}
    BY <1>1 DEF Functions, Committed, NoFiles, Start, Goto
  <2>5. pc'[a] = "accepted" \/ reply'[a] = "created" => pc[a] = "accepted"
    <3>1. AttemptInv(a)
      BY DEF ClaimsInv
    <3> QED
      BY <1>1, <3>1 DEF Functions, AttemptInv, Start, Goto
  <2> QED
    BY <2>1, <2>2, <2>3, <2>4, <2>5, OneTidies
<1>2. ASSUME NEW a \in Attempts, LookUp(a) PROVE FilesInv'
  <2>1. disk' = disk /\ photos' = photos /\ strays' = strays /\ purging' = purging /\ now' = now
    BY <1>2 DEF LookUp, Goto, Answer
  <2>2. \A b \in Attempts \ {a} : Same(b)
    BY <1>2 DEF Functions, Same, LookUp, Goto, Answer
  <2>3. AttemptFiles(a)' /\ (key'[a] = key[a] \/ pc[a] = "idle")
    BY <1>2, <2>1 DEF FilesInv, AttemptFiles, Functions, FilesOf, LookUp, Goto, Answer
  <2>4. /\ pc[a] \in Committed => pc'[a] \in Committed
        /\ pc'[a] \in NoFiles => pc[a] \in NoFiles
        /\ pc'[a] \in {"accepted", "done", "dead"} => pc[a] \in NoFiles \cup {"accepted"}
    BY <1>2 DEF Functions, Committed, NoFiles, LookUp, Goto, Answer
  <2>5. pc'[a] = "accepted" \/ reply'[a] = "created" => pc[a] = "accepted"
    <3>1. AttemptInv(a)
      BY DEF ClaimsInv
    <3> QED
      BY <1>2, <3>1 DEF Functions, AttemptInv, LookUp, Goto, Answer
  <2> QED
    BY <2>1, <2>2, <2>3, <2>4, <2>5, OneTidies
<1>3. ASSUME NEW a \in Attempts, Judge(a) PROVE FilesInv'
  <2>1. disk' = disk /\ photos' = photos /\ strays' = strays /\ purging' = purging /\ now' = now
    BY <1>3 DEF Judge, Goto, Answer
  <2>2. \A b \in Attempts \ {a} : Same(b)
    BY <1>3 DEF Functions, Same, Judge, Goto, Answer
  <2>3. AttemptFiles(a)' /\ (key'[a] = key[a] \/ pc[a] = "idle")
    BY <1>3, <2>1 DEF FilesInv, AttemptFiles, Functions, FilesOf, Judge, Goto, Answer
  <2>4. /\ pc[a] \in Committed => pc'[a] \in Committed
        /\ pc'[a] \in NoFiles => pc[a] \in NoFiles
        /\ pc'[a] \in {"accepted", "done", "dead"} => pc[a] \in NoFiles \cup {"accepted"}
    BY <1>3 DEF Functions, Committed, NoFiles, Judge, Goto, Answer
  <2>5. pc'[a] = "accepted" \/ reply'[a] = "created" => pc[a] = "accepted"
    <3>1. AttemptInv(a)
      BY DEF ClaimsInv
    <3> QED
      BY <1>3, <3>1 DEF Functions, AttemptInv, Judge, Goto, Answer
  <2> QED
    BY <2>1, <2>2, <2>3, <2>4, <2>5, OneTidies
<1>4. ASSUME NEW a \in Attempts, FailEarly(a) PROVE FilesInv'
  <2>1. disk' = disk /\ photos' = photos /\ strays' = strays /\ purging' = purging /\ now' = now
    BY <1>4 DEF FailEarly, Goto, Answer
  <2>2. \A b \in Attempts \ {a} : Same(b)
    BY <1>4 DEF Functions, Same, FailEarly, Goto, Answer
  <2>3. AttemptFiles(a)' /\ (key'[a] = key[a] \/ pc[a] = "idle")
    BY <1>4, <2>1 DEF FilesInv, AttemptFiles, Functions, FilesOf, FailEarly, Goto, Answer
  <2>4. /\ pc[a] \in Committed => pc'[a] \in Committed
        /\ pc'[a] \in NoFiles => pc[a] \in NoFiles
        /\ pc'[a] \in {"accepted", "done", "dead"} => pc[a] \in NoFiles \cup {"accepted"}
    BY <1>4 DEF Functions, Committed, NoFiles, FailEarly, Goto, Answer
  <2>5. pc'[a] = "accepted" \/ reply'[a] = "created" => pc[a] = "accepted"
    <3>1. AttemptInv(a)
      BY DEF ClaimsInv
    <3> QED
      BY <1>4, <3>1 DEF Functions, AttemptInv, FailEarly, Goto, Answer
  <2> QED
    BY <2>1, <2>2, <2>3, <2>4, <2>5, OneTidies
<1>5. ASSUME NEW a \in Attempts, Begin(a) PROVE FilesInv'
  <2>1. disk' = disk /\ photos' = photos /\ strays' = strays /\ purging' = purging /\ now' = now
    BY <1>5 DEF Begin, Goto
  <2>2. \A b \in Attempts \ {a} : Same(b)
    BY <1>5 DEF Functions, Same, Begin, Goto
  <2>3. AttemptFiles(a)' /\ (key'[a] = key[a] \/ pc[a] = "idle")
    BY <1>5, <2>1 DEF FilesInv, AttemptFiles, Functions, FilesOf, Begin, Goto
  <2>4. /\ pc[a] \in Committed => pc'[a] \in Committed
        /\ pc'[a] \in NoFiles => pc[a] \in NoFiles
        /\ pc'[a] \in {"accepted", "done", "dead"} => pc[a] \in NoFiles \cup {"accepted"}
    BY <1>5 DEF Functions, Committed, NoFiles, Begin, Goto
  <2>5. pc'[a] = "accepted" \/ reply'[a] = "created" => pc[a] = "accepted"
    <3>1. AttemptInv(a)
      BY DEF ClaimsInv
    <3> QED
      BY <1>5, <3>1 DEF Functions, AttemptInv, Begin, Goto
  <2> QED
    BY <2>1, <2>2, <2>3, <2>4, <2>5, OneTidies
<1>6. ASSUME NEW a \in Attempts, Insert(a) PROVE FilesInv'
  <2>1. disk' = disk /\ photos' = photos /\ strays' = strays /\ purging' = purging /\ now' = now
    BY <1>6 DEF Insert, Goto
  <2>2. \A b \in Attempts \ {a} : Same(b)
    BY <1>6 DEF Functions, Same, Insert, Goto
  <2>3. AttemptFiles(a)' /\ (key'[a] = key[a] \/ pc[a] = "idle")
    BY <1>6, <2>1 DEF FilesInv, AttemptFiles, Functions, FilesOf, Insert, Goto
  <2>4. /\ pc[a] \in Committed => pc'[a] \in Committed
        /\ pc'[a] \in NoFiles => pc[a] \in NoFiles
        /\ pc'[a] \in {"accepted", "done", "dead"} => pc[a] \in NoFiles \cup {"accepted"}
    BY <1>6 DEF Functions, Committed, NoFiles, Insert, Goto
  <2>5. pc'[a] = "accepted" \/ reply'[a] = "created" => pc[a] = "accepted"
    <3>1. AttemptInv(a)
      BY DEF ClaimsInv
    <3> QED
      BY <1>6, <3>1 DEF Functions, AttemptInv, Insert, Goto
  <2> QED
    BY <2>1, <2>2, <2>3, <2>4, <2>5, OneTidies
<1>7. ASSUME NEW a \in Attempts, Abort(a) PROVE FilesInv'
  <2>1. disk' = disk /\ photos' = photos /\ strays' = strays /\ purging' = purging /\ now' = now
    BY <1>7 DEF Abort, Goto
  <2>2. \A b \in Attempts \ {a} : Same(b)
    BY <1>7 DEF Functions, Same, Abort, Goto
  <2>3. AttemptFiles(a)' /\ (key'[a] = key[a] \/ pc[a] = "idle")
    BY <1>7, <2>1 DEF FilesInv, AttemptFiles, Functions, FilesOf, Abort, Goto
  <2>4. /\ pc[a] \in Committed => pc'[a] \in Committed
        /\ pc'[a] \in NoFiles => pc[a] \in NoFiles
        /\ pc'[a] \in {"accepted", "done", "dead"} => pc[a] \in NoFiles \cup {"accepted"}
    BY <1>7 DEF Functions, Committed, NoFiles, Abort, Goto
  <2>5. pc'[a] = "accepted" \/ reply'[a] = "created" => pc[a] = "accepted"
    <3>1. AttemptInv(a)
      BY DEF ClaimsInv
    <3> QED
      BY <1>7, <3>1 DEF Functions, AttemptInv, Abort, Goto
  <2> QED
    BY <2>1, <2>2, <2>3, <2>4, <2>5, OneTidies
<1>8. ASSUME NEW a \in Attempts, FindExisting(a) PROVE FilesInv'
  <2>1. disk' = disk /\ photos' = photos /\ strays' = strays /\ purging' = purging /\ now' = now
    BY <1>8 DEF FindExisting, Goto
  <2>2. \A b \in Attempts \ {a} : Same(b)
    BY <1>8 DEF Functions, Same, FindExisting, Goto
  <2>3. AttemptFiles(a)' /\ (key'[a] = key[a] \/ pc[a] = "idle")
    BY <1>8, <2>1 DEF FilesInv, AttemptFiles, Functions, FilesOf, FindExisting, Goto
  <2>4. /\ pc[a] \in Committed => pc'[a] \in Committed
        /\ pc'[a] \in NoFiles => pc[a] \in NoFiles
        /\ pc'[a] \in {"accepted", "done", "dead"} => pc[a] \in NoFiles \cup {"accepted"}
    BY <1>8 DEF Functions, Committed, NoFiles, FindExisting, Goto
  <2>5. pc'[a] = "accepted" \/ reply'[a] = "created" => pc[a] = "accepted"
    <3>1. AttemptInv(a)
      BY DEF ClaimsInv
    <3> QED
      BY <1>8, <3>1 DEF Functions, AttemptInv, FindExisting, Goto
  <2> QED
    BY <2>1, <2>2, <2>3, <2>4, <2>5, OneTidies
<1>9. ASSUME NEW a \in Attempts, Accept(a) PROVE FilesInv'
  <2>1. disk' = disk /\ photos' = photos /\ strays' = strays /\ purging' = purging /\ now' = now
    BY <1>9 DEF Accept, Goto, Answer
  <2>2. \A b \in Attempts \ {a} : Same(b)
    BY <1>9 DEF Functions, Same, Accept, Goto, Answer
  <2>3. AttemptFiles(a)' /\ (key'[a] = key[a] \/ pc[a] = "idle")
    BY <1>9, <2>1 DEF FilesInv, AttemptFiles, Functions, FilesOf, Accept, Goto, Answer
  <2>4. /\ pc[a] \in Committed => pc'[a] \in Committed
        /\ pc'[a] \in NoFiles => pc[a] \in NoFiles
        /\ pc'[a] \in {"accepted", "done", "dead"} => pc[a] \in NoFiles \cup {"accepted"}
    BY <1>9 DEF Functions, Committed, NoFiles, Accept, Goto, Answer
  <2>5. pc'[a] = "accepted" \/ reply'[a] = "created" => pc[a] = "accepted"
    <3>1. AttemptInv(a)
      BY DEF ClaimsInv
    <3> QED
      BY <1>9, <3>1 DEF Functions, AttemptInv, Accept, Goto, Answer
  <2> QED
    BY <2>1, <2>2, <2>3, <2>4, <2>5, OneTidies
<1>10. ASSUME NEW a \in Attempts, WritePhoto(a) PROVE FilesInv'
  <2>1. /\ photos' = photos /\ strays' = strays /\ purging' = purging /\ now' = now
        /\ key' = key /\ reply' = reply /\ pc[a] = "writing" /\ key[a] \in Keys
        /\ \A b \in Attempts \ {a} : pc'[b] = pc[b]
        /\ pc'[a] \in {"writing", "failed"}
    BY <1>10 DEF WritePhoto, Goto, Functions, ClaimsInv, AttemptInv
  <2>2. PICK f \in FilesOf(a) : disk' = disk \cup {f} \/ disk' = disk
    BY <1>10 DEF WritePhoto
  <2>3. f[1] = a
    BY <2>1, FilesAreFiles
  <2>4. ASSUME NEW b \in Attempts PROVE AttemptFiles(b)'
    <3>1. AttemptFiles(b)
      BY DEF FilesInv
    <3> QED
      BY <2>1, <2>2, <3>1 DEF AttemptFiles, FilesOf
  <2>5. FileInv(f)'
    BY <2>1, <2>3 DEF FileInv, FilesOf, NoFiles
  <2>6. ASSUME NEW g \in disk PROVE FileInv(g)'
    <3>1. FileInv(g) /\ g[1] \in Attempts
      BY TypedFiles DEF FilesInv
    <3> QED
      BY <2>1, <3>1 DEF FileInv, FilesOf, NoFiles
  <2>7. ASSUME NEW p \in photos PROVE PhotoInv(p)'
    <3>1. PhotoInv(p) /\ p.file[1] \in Attempts /\ p.file[1] # a
      BY <2>1, TypedFiles DEF FilesInv, PhotoInv, Committed
    <3> QED
      BY <2>1, <2>2, <3>1 DEF PhotoInv
  <2>8. PurgeInv'
    <3> SUFFICES ASSUME purging # Nothing PROVE PurgeInv'
      BY <2>1 DEF PurgeInv
    <3>1. purging[1] \in Attempts /\ PurgeInv /\ purging[1] # a
      BY <2>1, TypedFiles DEF FilesInv, PurgeInv, Committed
    <3> QED
      BY <2>1, <2>2, <2>3, <3>1 DEF PurgeInv
  <2> QED
    BY <2>1, <2>2, <2>4, <2>5, <2>6, <2>7, <2>8 DEF FilesInv
<1>11. ASSUME NEW a \in Attempts, Commit(a) PROVE FilesInv'
  <2>1. /\ photos' = photos \cup PhotoRows(a) /\ pc[a] = "inserted"
        /\ disk' = disk /\ strays' = strays /\ purging' = purging /\ now' = now
        /\ key' = key /\ reply' = reply /\ key[a] \in Keys
        /\ \A b \in Attempts \ {a} : pc'[b] = pc[b]
        /\ pc'[a] \in {"accepted", "failed"}
    BY <1>11 DEF Commit, Goto, Functions, ClaimsInv, AttemptInv
  <2>2. FilesOf(a) \subseteq disk /\ \A f \in FilesOf(a) : f[1] = a
    BY <2>1, FilesAreFiles DEF FilesInv, AttemptFiles
  <2>3. ASSUME NEW f \in FilesOf(a) PROVE \E p \in PhotoRows(a) : p.file = f
    <3>1. [file |-> f, expires |-> began[a] + Retention] \in PhotoRows(a)
      BY DEF PhotoRows
    <3> QED
      BY <3>1
  <2>4. \A p \in PhotoRows(a) : p.file \in FilesOf(a) /\ p.expires = began[a] + Retention
    BY DEF PhotoRows
  <2>5. ASSUME NEW b \in Attempts PROVE AttemptFiles(b)'
    BY <2>1 DEF FilesInv, AttemptFiles, FilesOf
  <2>6. ASSUME NEW f \in disk PROVE FileInv(f)'
    <3>1. FileInv(f) /\ f[1] \in Attempts
      BY TypedFiles DEF FilesInv
    <3>2. CASE f[1] = a
      <4>1. f \in FilesOf(a)
        BY <3>1, <3>2 DEF FileInv
      <4>2. \E p \in photos' : p.file = f
        BY <2>1, <2>3, <4>1
      <4> QED
        BY <2>1, <3>2, <4>1, <4>2 DEF FileInv, FilesOf, NoFiles
    <3>3. CASE f[1] # a
      BY <2>1, <3>1, <3>3 DEF FileInv, FilesOf
    <3> QED
      BY <3>2, <3>3
  <2>7. ASSUME NEW p \in photos PROVE PhotoInv(p)'
    <3>1. PhotoInv(p) /\ p.file[1] \in Attempts /\ p.file[1] # a
      BY <2>1, TypedFiles DEF FilesInv, PhotoInv, Committed
    <3>2. \A q \in PhotoRows(a) : q.file # p.file
      BY <2>2, <2>4, <3>1
    <3> QED
      BY <2>1, <3>1, <3>2 DEF PhotoInv
  <2>8. ASSUME NEW p \in PhotoRows(a) PROVE PhotoInv(p)'
    <3>1. p.file \in disk /\ p.file[1] = a
      BY <2>2, <2>4
    <3>2. \A q \in photos : q.file # p.file
      BY <2>1, <3>1 DEF FilesInv, PhotoInv, Committed
    <3> QED
      BY <2>1, <2>4, <3>1, <3>2 DEF PhotoInv, Committed
  <2>9. PurgeInv'
    <3> SUFFICES ASSUME purging # Nothing PROVE PurgeInv'
      BY <2>1 DEF PurgeInv
    <3>1. purging[1] \in Attempts /\ PurgeInv
      BY TypedFiles DEF FilesInv
    <3> QED
      BY <2>1, <3>1 DEF PurgeInv, Committed
  <2> QED
    BY <2>1, <2>5, <2>6, <2>7, <2>8, <2>9 DEF FilesInv
<1>12. ASSUME NEW a \in Attempts, Cleanup(a) PROVE FilesInv'
  <2>1. PICK gone \in SUBSET Written(a) :
          disk' = disk \ gone /\ strays' = (strays \cup Written(a)) \ gone
    BY <1>12 DEF Cleanup
  <2>2. /\ photos' = photos /\ purging' = purging /\ now' = now /\ key' = key
        /\ pc[a] \in {"failed", "overtaken"} /\ pc'[a] = "done"
        /\ reply'[a] \in {"error", "existing"}
        /\ \A b \in Attempts \ {a} : pc'[b] = pc[b] /\ reply'[b] = reply[b]
    BY <1>12 DEF Cleanup, Answer, Goto, Functions
  <2>3. \A f \in Written(a) : f \in disk /\ f[1] = a
    BY DEF Written
  <2>4. ASSUME NEW b \in Attempts PROVE AttemptFiles(b)'
    <3>1. CASE b = a
      BY <2>2, <3>1 DEF AttemptFiles
    <3>2. CASE b # a
      <4>1. \A f \in FilesOf(b) : f \notin gone
        BY <2>1, <2>3, <3>2 DEF FilesOf
      <4> QED
        BY <2>1, <2>2, <3>2, <4>1 DEF FilesInv, AttemptFiles, FilesOf
    <3> QED
      BY <3>1, <3>2
  <2>5. ASSUME NEW f \in disk' PROVE FileInv(f)'
    <3>1. FileInv(f) /\ f[1] \in Attempts /\ f \in disk /\ f \notin gone /\ f \in Files
      BY <2>1, TypedFiles DEF FilesInv
    <3>2. CASE f[1] = a
      <4>1. f \in Written(a)
        BY <3>1, <3>2 DEF Written, Files
      <4> QED
        BY <2>1, <2>2, <3>1, <3>2, <4>1 DEF FileInv, FilesOf, NoFiles
    <3>3. CASE f[1] # a
      BY <2>1, <2>2, <3>1, <3>3 DEF FileInv, FilesOf
    <3> QED
      BY <3>2, <3>3
  <2>6. ASSUME NEW p \in photos PROVE PhotoInv(p)'
    <3>1. PhotoInv(p) /\ p.file[1] \in Attempts
      BY TypedFiles DEF FilesInv
    <3>2. CASE p.file[1] = a
      BY <2>2, <3>1, <3>2 DEF PhotoInv, Committed
    <3>3. CASE p.file[1] # a
      <4>1. p.file \notin gone
        BY <2>1, <2>3, <3>3
      <4> QED
        BY <2>1, <2>2, <3>1, <3>3, <4>1 DEF PhotoInv
    <3> QED
      BY <3>2, <3>3
  <2>7. PurgeInv'
    <3> SUFFICES ASSUME purging # Nothing PROVE PurgeInv'
      BY <2>2 DEF PurgeInv
    <3>1. purging[1] \in Attempts /\ PurgeInv
      BY TypedFiles DEF FilesInv
    <3>2. pc'[purging[1]] \in Committed
      BY <2>2, <3>1 DEF PurgeInv, Committed
    <3> QED
      BY <2>1, <2>2, <3>1, <3>2 DEF PurgeInv
  <2> QED
    BY <2>2, <2>4, <2>5, <2>6, <2>7 DEF FilesInv
<1>13. CASE Crash
  <2>1. /\ \A b \in Attempts : pc'[b] = IF pc[b] \in Busy THEN "dead" ELSE pc[b]
        /\ photos' = photos /\ purging' = purging /\ now' = now /\ key' = key
        /\ reply' = reply /\ disk' = disk /\ strays \subseteq strays'
    BY <1>13 DEF Crash
  <2>2. \A f \in disk : pc[f[1]] \in Busy => f \in strays'
    <3> SUFFICES ASSUME NEW f \in disk, pc[f[1]] \in Busy PROVE f \in strays'
      OBVIOUS
    <3>1. f \in Files /\ f[1] \in Attempts
      BY TypedFiles
    <3>2. f \in Written(f[1])
      BY <3>1 DEF Written, Files
    <3> QED
      BY <1>13, <3>1, <3>2 DEF Crash
  <2>3. \A b \in Attempts : AttemptFiles(b)'
    BY <2>1 DEF AttemptFiles, Busy
  <2>4. ASSUME NEW f \in disk PROVE FileInv(f)'
    <3>1. FileInv(f) /\ f[1] \in Attempts
      BY TypedFiles DEF FilesInv
    <3> QED
      BY <2>1, <2>2, <3>1 DEF FileInv, FilesOf, NoFiles, Functions
  <2>5. ASSUME NEW p \in photos PROVE PhotoInv(p)'
    <3>1. PhotoInv(p) /\ p.file[1] \in Attempts
      BY TypedFiles DEF FilesInv
    <3> QED
      BY <2>1, <3>1 DEF PhotoInv, Committed
  <2>6. PurgeInv'
    <3> SUFFICES ASSUME purging # Nothing PROVE PurgeInv'
      BY <2>1 DEF PurgeInv
    <3>1. purging[1] \in Attempts /\ PurgeInv
      BY TypedFiles DEF FilesInv
    <3> QED
      BY <2>1, <3>1 DEF PurgeInv, Committed
  <2> QED
    BY <2>1, <2>3, <2>4, <2>5, <2>6 DEF FilesInv
<1>14. ASSUME NEW p \in photos, PurgeFile(p) PROVE FilesInv'
  <2>1. /\ purging' = p.file /\ photos' = photos /\ now' = now /\ p.expires <= now
        /\ pc' = pc /\ key' = key /\ reply' = reply
    BY <1>14 DEF PurgeFile, api
  <2>2. \/ disk' = disk \ {p.file} /\ strays' = strays \ {p.file}
        \/ disk' = disk /\ strays' = strays \cup ({p.file} \cap disk)
    BY <1>14 DEF PurgeFile
  <2>3. PhotoInv(p) /\ p.file \in Files
    BY TypedFiles DEF FilesInv
  <2>4. ASSUME NEW b \in Attempts PROVE AttemptFiles(b)'
    <3>1. CASE pc[b] \in {"begun", "inserted"}
      <4>1. FilesOf(b) \subseteq disk /\ key[b] \in Keys
        BY <3>1 DEF FilesInv, AttemptFiles, ClaimsInv, AttemptInv
      <4>2. p.file \notin FilesOf(b)
        BY <2>3, <3>1, <4>1, FilesAreFiles DEF PhotoInv, Committed
      <4> QED
        BY <2>1, <2>2, <4>1, <4>2 DEF AttemptFiles, FilesOf
    <3>2. CASE pc[b] \notin {"begun", "inserted"}
      BY <2>1, <3>2 DEF AttemptFiles
    <3> QED
      BY <3>1, <3>2
  <2>5. ASSUME NEW f \in disk' PROVE FileInv(f)'
    <3>1. FileInv(f)
      BY <2>2 DEF FilesInv
    <3> QED
      BY <2>1, <2>2, <3>1 DEF FileInv, FilesOf
  <2>6. ASSUME NEW q \in photos PROVE PhotoInv(q)'
    <3>1. PhotoInv(q)
      BY DEF FilesInv
    <3> QED
      BY <2>1, <2>2, <3>1 DEF PhotoInv
  <2>7. PurgeInv'
    BY <2>1, <2>2, <2>3 DEF PurgeInv, PhotoInv
  <2> QED
    BY <2>1, <2>4, <2>5, <2>6, <2>7 DEF FilesInv
<1>15. CASE PurgeRow
  <2>1. /\ purging # Nothing /\ purging' = Nothing
        /\ photos' = {p \in photos : p.file # purging}
        /\ disk' = disk /\ strays' = strays /\ now' = now
        /\ pc' = pc /\ key' = key /\ reply' = reply
    BY <1>15 DEF PurgeRow, api
  <2>2. \A b \in Attempts : AttemptFiles(b)'
    BY <2>1 DEF FilesInv, AttemptFiles, FilesOf
  <2>3. ASSUME NEW f \in disk PROVE FileInv(f)'
    <3>1. FileInv(f) /\ (f = purging => f \in strays)
      BY <2>1 DEF FilesInv, PurgeInv
    <3> QED
      BY <2>1, <3>1 DEF FileInv, FilesOf
  <2>4. \A p \in photos' : PhotoInv(p)'
    BY <2>1 DEF FilesInv, PhotoInv
  <2>5. PurgeInv'
    BY <2>1 DEF PurgeInv
  <2> QED
    BY <2>1, <2>2, <2>3, <2>4, <2>5 DEF FilesInv
<1>16. CASE PurgeStops \/ Tick \/ UNCHANGED vars
  <2>1. /\ photos' = photos /\ disk' = disk /\ strays' = strays
        /\ pc' = pc /\ key' = key /\ reply' = reply
        /\ purging' = purging \/ purging' = Nothing
    BY <1>16 DEF PurgeStops, Tick, vars, api
  <2>2. \A b \in Attempts : AttemptFiles(b)'
    BY <2>1 DEF FilesInv, AttemptFiles, FilesOf
  <2>3. \A f \in disk : FileInv(f)'
    BY <2>1 DEF FilesInv, FileInv, FilesOf
  <2>4. ASSUME NEW p \in photos PROVE PhotoInv(p)'
    <3>1. p.expires <= now => p.expires <= now'
      <4>1. p.expires \in Int
        <5>1. p.expires \in Retention..(MaxNow + Retention)
          BY Zenon DEF TypeOK
        <5> QED
          BY <5>1
      <4>2. now' = now \/ now' = now + 1
        BY <1>16 DEF PurgeStops, Tick, vars
      <4> QED
        BY <4>1, <4>2, Typed
    <3> QED
      BY <2>1, <3>1 DEF FilesInv, PhotoInv
  <2>5. PurgeInv'
    BY <2>1 DEF FilesInv, PurgeInv
  <2> QED
    BY <2>1, <2>2, <2>3, <2>4, <2>5 DEF FilesInv
<1> QED
  BY <1>1, <1>2, <1>3, <1>4, <1>5, <1>6, <1>7, <1>8, <1>9, <1>10, <1>11, <1>12, <1>13,
     <1>14, <1>15, <1>16 DEF Next, Handle, Purge

-----------------------------------------------------------------------------
(* The theorems.                                                           *)

\* The invariant holds in every reachable state.
THEOREM Invariant == Spec => []IInv
<1>1. Init => IInv
  BY InitHolds
<1>2. IInv /\ [Next]_vars => IInv'
  BY TypeKeeps, ClaimsKeep, FilesKeep DEF IInv
<1> QED
  BY <1>1, <1>2, PTL DEF Spec

\* Every variable keeps its type: what a table, the disk or a handler of
\* handleCreateClaim (public.go) can hold.
THEOREM TypesHold == Spec => []TypeOK
<1>1. IInv => TypeOK
  BY DEF IInv
<1> QED
  BY <1>1, Invariant, PTL

\* However often and by however many requests a form is sent, the unique
\* index makes one claim of it (claim.go:109-113).
THEOREM OneClaimHolds == Spec => []OneClaimPerKey
<1>1. IInv => OneClaimPerKey
  BY DEF IInv, ClaimsInv
<1> QED
  BY <1>1, Invariant, PTL

\* A receipt always stands for a stored claim (public.go, handleCreateClaim).
THEOREM ReceiptsHold == Spec => []ReceiptIsReal
<1>1. IInv => ReceiptIsReal
  BY DEF IInv, ClaimsInv, AttemptInv, ReceiptIsReal
<1> QED
  BY <1>1, Invariant, PTL

\* A form sent again after its receipt is never called a duplicate
\* (public.go:210-217).
THEOREM LateRetryHolds == Spec => []LateRetryGetsReceipt
<1>1. IInv => LateRetryGetsReceipt
  BY DEF IInv, ClaimsInv, AttemptInv, LateRetryGetsReceipt
<1> QED
  BY <1>1, Invariant, PTL

\* Claims of one phone are a window apart, where the later one's risk check
\* saw the earlier one (isRapidDuplicate, risk.go).
THEOREM ApartHolds == Spec => []AcceptedApart
<1>1. IInv => AcceptedApart
  BY DEF IInv, ClaimsInv
<1> QED
  BY <1>1, Invariant, PTL

\* Every file on disk is somebody's, whatever crashed or failed
\* (writePhotos and cleanupPhotos, public.go).
THEOREM FilesHold == Spec => []FilesAccounted
<1>1. ASSUME IInv PROVE FilesAccounted
  <2> SUFFICES ASSUME NEW f \in disk, pc[f[1]] \notin Busy
               PROVE  f \in strays \/ \E p \in photos : p.file = f
    BY DEF FilesAccounted
  <2>1. FileInv(f) /\ f[1] \in Attempts /\ Functions
    BY <1>1, TypedFiles, Functional DEF IInv, FilesInv
  <2> QED
    BY <2>1 DEF FileInv, NoFiles, Functions
<1> QED
  BY <1>1, Invariant, PTL

\* The photos of a claim confirmed as created stay until they expire
\* (cleanupPhotos deletes what its own request wrote, the worker what expired).
THEOREM PhotosHold == Spec => []PhotosKept
<1>1. IInv => PhotosKept
  BY DEF IInv, FilesInv, PhotoInv, PhotosKept
<1> QED
  BY <1>1, Invariant, PTL

\* CreateClaim's second look for the winner never comes (claim.go:95-107).
THEOREM ConflictHolds == Spec => []ConflictFindsIt
<1>1. IInv => ConflictFindsIt
  BY DEF IInv, ClaimsInv, AttemptInv, ConflictFindsIt, Known
<1> QED
  BY <1>1, Invariant, PTL
=============================================================================
