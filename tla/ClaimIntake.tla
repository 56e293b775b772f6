---------------------------- MODULE ClaimIntake ----------------------------
(***************************************************************************)
(* The intake of refund claims for one machine: customers submit a form,   *)
(* resubmit it under the same idempotency key when the network fails, or   *)
(* open a new form; the API checks for a known key and for rapid           *)
(* duplicates, writes the photos to disk, inserts the claim in a           *)
(* transaction and tidies up what did not become part of a claim           *)
(* (internal/httpapi/public.go, internal/store/claim.go).  The worker      *)
(* purges expired photos (internal/worker/worker.go).                      *)
(*                                                                         *)
(* One element of Attempts is one POST of a form.  Every step is one       *)
(* statement of Postgres, one file operation, or an answer; attempts       *)
(* interleave, and the API process may die between any two of them.        *)
(***************************************************************************)
EXTENDS Integers

CONSTANTS
  Attempts,     \* POST requests
  Keys,         \* idempotency keys, one per form a customer opened
  Phones,       \* phone numbers
  Form,         \* key -> [phone, photos]: what the form sends
  MaxPhotos,    \* maxPhotos
  Window,       \* RapidDuplicateWindow
  Retention,    \* PhotoRetentionDays
  Nothing,      \* no key, no file
  MaxNow        \* bound of the clock

ASSUME FormType ==
  /\ MaxPhotos \in Nat
  /\ Form \in [Keys -> [phone : Phones, photos : 0..MaxPhotos]]

ASSUME TimesType == Window \in Nat /\ Retention \in Nat /\ MaxNow \in Nat

ASSUME NothingNew == Nothing \notin Keys /\ Nothing \notin Attempts \X (1..MaxPhotos)

VARIABLES
  now,      \* the clock
  claims,   \* table claims: a set of rows
  photos,   \* table claim_photos: a set of rows
  disk,     \* files in the media directory
  pc,       \* attempt -> where its handler stands
  key,      \* attempt -> its Idempotency-Key header
  began,    \* attempt -> when its transaction began
  saw,      \* attempt -> claims of the same phone its risk check saw
  reply,    \* attempt -> the answer
  late,     \* attempt -> it was sent after a receipt for its key
  strays,   \* files known to be left behind: died or failed to delete
  purging   \* the photo whose file the worker has just deleted

api    == <<pc, key, began, saw, reply, late>>
vars   == <<now, claims, photos, disk, api, strays, purging>>

Files == Attempts \X (1..MaxPhotos)

\* The files an attempt writes, and those it has written so far.
FilesOf(a) == {a} \X (1..Form[key[a]].photos)
Written(a) == disk \cap ({a} \X (1..MaxPhotos))

Known(k)   == \E c \in claims : c.key = k

\* A transaction that has inserted key k and has not ended yet.
OpenTx(k)  == \E b \in Attempts : pc[b] = "inserted" /\ key[b] = k

Goto(a, here) == pc' = [pc EXCEPT ![a] = here]

\* The handler answers and returns.
Answer(a, code) ==
  /\ Goto(a, "done")
  /\ reply' = [reply EXCEPT ![a] = code]
  /\ UNCHANGED <<key, began, saw, late>>

-----------------------------------------------------------------------------
(* handleCreateClaim up to the disk.                                       *)

\* A form is posted.  What it sends, the machine's code or a rate limit may
\* refuse it before anything is looked up or written.
Start(a, k) ==
  /\ pc[a] = "idle"
  /\ key' = [key EXCEPT ![a] = k]
  /\ late' = [late EXCEPT ![a] =
                \E b \in Attempts : key[b] = k /\ reply[b] \in {"created", "existing"}]
  /\ \/ Goto(a, "entered") /\ reply' = reply
     \/ Goto(a, "done") /\ reply' = [reply EXCEPT ![a] = "refused"]
  /\ UNCHANGED <<now, claims, photos, disk, began, saw, strays, purging>>

\* Fault: the key is looked up only by the INSERT.
LookUpNever(a) ==
  /\ pc[a] = "entered"
  /\ Goto(a, "fresh") /\ UNCHANGED <<key, began, saw, reply, late>>
  /\ UNCHANGED <<now, claims, photos, disk, strays, purging>>

\* ClaimByIdempotencyKey, before the risk is looked at.
LookUp(a) ==
  /\ pc[a] = "entered"
  /\ \/ Known(key[a]) /\ Answer(a, "existing")
     \/ ~Known(key[a]) /\ Goto(a, "fresh") /\ UNCHANGED <<key, began, saw, reply, late>>
  /\ UNCHANGED <<now, claims, photos, disk, strays, purging>>

SamePhone(k) == {c \in claims : Form[c.key].phone = Form[k].phone}

\* Fault: a duplicate is only the same key.
RapidAmongKey(k) == \E c \in claims : c.key = k /\ now - c.at < Window

\* isRapidDuplicate over RiskFactsFor: the newest claim of this phone at
\* this machine is younger than the window.
RapidDuplicate(k) == \E c \in SamePhone(k) : now - c.at < Window

Judge(a) ==
  /\ pc[a] = "fresh"
  /\ \/ /\ RapidDuplicate(key[a])
        /\ Answer(a, "duplicate")
     \/ /\ ~RapidDuplicate(key[a])
        /\ Goto(a, "writing")
        /\ saw' = [saw EXCEPT ![a] = {c.by : c \in SamePhone(key[a])}]
        /\ UNCHANGED <<key, began, reply, late>>
  /\ UNCHANGED <<now, claims, photos, disk, strays, purging>>

\* A query failed: 500, and nothing has been written.
FailEarly(a) ==
  /\ pc[a] \in {"entered", "fresh"}
  /\ Answer(a, "error")
  /\ UNCHANGED <<now, claims, photos, disk, strays, purging>>

-----------------------------------------------------------------------------
(* writePhotos, CreateClaim, cleanupPhotos.                                *)

\* media.Put of the next photo: whole under its name, or not at all.
WritePhoto(a) ==
  /\ pc[a] = "writing"
  /\ \E f \in FilesOf(a) \ disk :
       /\ \A g \in FilesOf(a) \ disk : f[2] <= g[2]
       /\ \/ disk' = disk \cup {f} /\ pc' = pc
          \/ disk' = disk /\ Goto(a, "failed")
  /\ UNCHANGED <<now, claims, photos, key, began, saw, reply, late, strays, purging>>

\* The transaction begins: its start is the row's created_at.
Begin(a) ==
  /\ pc[a] = "writing" /\ FilesOf(a) \subseteq disk
  /\ Goto(a, "begun")
  /\ began' = [began EXCEPT ![a] = now]
  /\ UNCHANGED <<now, claims, photos, disk, key, saw, reply, late, strays, purging>>

\* INSERT ... ON CONFLICT DO NOTHING waits for an open transaction on the
\* same key, and gives no row back if the key is there then.
Insert(a) ==
  /\ pc[a] = "begun" /\ ~OpenTx(key[a])
  /\ Goto(a, IF Known(key[a]) THEN "conflict" ELSE "inserted")
  /\ UNCHANGED <<now, claims, photos, disk, key, began, saw, reply, late, strays, purging>>

Row(a)    == [key |-> key[a], by |-> a, at |-> began[a], saw |-> saw[a]]

PhotoRows(a) == {[file |-> f, expires |-> began[a] + Retention] : f \in FilesOf(a)}

\* The commit is durable; its acknowledgement may be lost on the way (the
\* connection breaks, the customer's request is cancelled), and the handler
\* then takes it for a failure.
Commit(a) ==
  /\ pc[a] = "inserted"
  /\ claims' = claims \cup {Row(a)}
  /\ photos' = photos \cup PhotoRows(a)
  /\ Goto(a, "accepted") \/ Goto(a, "failed")
  /\ UNCHANGED <<now, disk, key, began, saw, reply, late, strays, purging>>

\* Fault: the error of a commit is dropped.
AbortUnnoticed(a) ==
  /\ pc[a] \in {"begun", "inserted"}
  /\ Goto(a, IF pc[a] = "begun" THEN "failed" ELSE "accepted")
  /\ UNCHANGED <<now, claims, photos, disk, key, began, saw, reply, late, strays, purging>>

\* A statement or the commit fails and the transaction is rolled back.
Abort(a) ==
  /\ pc[a] \in {"begun", "inserted"}
  /\ Goto(a, "failed")
  /\ UNCHANGED <<now, claims, photos, disk, key, began, saw, reply, late, strays, purging>>

\* Fault: after ErrDuplicate the insert is tried again, and again.
InsertAgain(a) ==
  /\ pc[a] = "conflict"
  /\ Goto(a, "begun") \/ Goto(a, "failed")
  /\ UNCHANGED <<now, claims, photos, disk, key, began, saw, reply, late, strays, purging>>

\* claimByIdempotencyKey after ErrDuplicate finds the winner, or the query
\* fails.  The code's second turn, for a winner that is not visible yet, never
\* comes: ConflictFindsIt.
FindExisting(a) ==
  /\ pc[a] = "conflict"
  /\ \/ Known(key[a]) /\ Goto(a, "overtaken")
     \/ Goto(a, "failed")
  /\ UNCHANGED <<now, claims, photos, disk, key, began, saw, reply, late, strays, purging>>

\* Fault: a request that finds the claim in place keeps its photos.
CleanupOnlyFailed(a) ==
  /\ pc[a] \in {"failed", "overtaken"}
  /\ LET mine == IF pc[a] = "failed" THEN Written(a) ELSE {} IN
     \E gone \in SUBSET mine :
       disk' = disk \ gone /\ strays' = (strays \cup mine) \ gone
  /\ Answer(a, IF pc[a] = "failed" THEN "error" ELSE "existing")
  /\ UNCHANGED <<now, claims, photos, purging>>

\* Fault: the files of the claim in place are deleted with the rest.
CleanupOfWinner(a) ==
  /\ pc[a] \in {"failed", "overtaken"}
  /\ LET gone == {f \in disk : key[f[1]] = key[a]} IN
     disk' = disk \ gone /\ strays' = strays \ gone
  /\ Answer(a, IF pc[a] = "failed" THEN "error" ELSE "existing")
  /\ UNCHANGED <<now, claims, photos, purging>>

\* cleanupPhotos deletes what this attempt wrote, as far as it can.
Cleanup(a) ==
  /\ pc[a] \in {"failed", "overtaken"}
  /\ \E gone \in SUBSET Written(a) :
       disk' = disk \ gone /\ strays' = (strays \cup Written(a)) \ gone
  /\ Answer(a, IF pc[a] = "failed" THEN "error" ELSE "existing")
  /\ UNCHANGED <<now, claims, photos, purging>>

\* The owner is notified if that works, and the receipt goes out: 201.
Accept(a) ==
  /\ pc[a] = "accepted"
  /\ Answer(a, "created")
  /\ UNCHANGED <<now, claims, photos, disk, strays, purging>>

Busy == {"entered", "fresh", "writing", "begun", "inserted", "conflict",
         "accepted", "failed", "overtaken"}

\* The API process dies: open transactions are rolled back, files stay.
Crash ==
  /\ \E a \in Attempts : pc[a] \in Busy
  /\ pc' = [a \in Attempts |-> IF pc[a] \in Busy THEN "dead" ELSE pc[a]]
  /\ strays' = strays \cup UNION {Written(a) : a \in {b \in Attempts : pc[b] \in Busy}}
  /\ UNCHANGED <<now, claims, photos, disk, key, began, saw, reply, late, purging>>

-----------------------------------------------------------------------------
(* PurgeExpiredPhotos, in the worker's process.                            *)

\* The file first: it may be gone already, or refuse to go.
PurgeFile(p) ==
  /\ purging = Nothing /\ p.expires <= now
  /\ \/ disk' = disk \ {p.file} /\ strays' = strays \ {p.file}
     \/ disk' = disk /\ strays' = strays \cup ({p.file} \cap disk)
  /\ purging' = p.file
  /\ UNCHANGED <<now, claims, photos, api>>

\* Fault: a photo whose file could not be deleted keeps its row.
PurgeRowOfGone ==
  /\ purging # Nothing
  /\ photos' = {p \in photos : p.file # purging \/ p.file \in disk}
  /\ purging' = Nothing
  /\ UNCHANGED <<now, claims, disk, api, strays>>

\* Then the row, whatever became of the file.
PurgeRow ==
  /\ purging # Nothing
  /\ photos' = {p \in photos : p.file # purging}
  /\ purging' = Nothing
  /\ UNCHANGED <<now, claims, disk, api, strays>>

\* The worker dies, or the row's DELETE fails: the next tick starts anew.
PurgeStops ==
  /\ purging # Nothing
  /\ purging' = Nothing
  /\ UNCHANGED <<now, claims, photos, disk, api, strays>>

Tick ==
  /\ now < MaxNow
  /\ now' = now + 1
  /\ UNCHANGED <<claims, photos, disk, api, strays, purging>>

-----------------------------------------------------------------------------
Init ==
  /\ now = 0 /\ claims = {} /\ photos = {} /\ disk = {} /\ strays = {}
  /\ pc = [a \in Attempts |-> "idle"]
  /\ key = [a \in Attempts |-> Nothing]
  /\ began = [a \in Attempts |-> 0]
  /\ saw = [a \in Attempts |-> {}]
  /\ reply = [a \in Attempts |-> ""]
  /\ late = [a \in Attempts |-> FALSE]
  /\ purging = Nothing

Handle(a) ==
  \/ LookUp(a) \/ Judge(a) \/ FailEarly(a) \/ WritePhoto(a) \/ Begin(a)
  \/ Insert(a) \/ Commit(a) \/ Abort(a) \/ FindExisting(a) \/ Cleanup(a) \/ Accept(a)

Purge == (\E p \in photos : PurgeFile(p)) \/ PurgeRow \/ PurgeStops

Next ==
  \/ \E a \in Attempts, k \in Keys : Start(a, k)
  \/ \E a \in Attempts : Handle(a)
  \/ Crash \/ Purge \/ Tick

Spec == Init /\ [][Next]_vars

\* A handler that can go on does, the clock and the worker's ticks come, and
\* the worker is not stopped for ever between a file and its row.
Fairness ==
  /\ \A a \in Attempts : WF_vars(Handle(a))
  /\ WF_vars(Tick)
  /\ WF_vars(\E p \in photos : PurgeFile(p))
  /\ SF_vars(PurgeRow)

LiveSpec == Spec /\ Fairness

-----------------------------------------------------------------------------
(* What must hold.                                                         *)

\* The variables hold what the tables, the disk and the handlers can hold.
TypeOK ==
  /\ now \in 0..MaxNow
  /\ claims \subseteq [key : Keys, by : Attempts, at : 0..MaxNow, saw : SUBSET Attempts]
  /\ photos \subseteq [file : Files, expires : Retention..(MaxNow + Retention)]
  /\ disk \subseteq Files /\ strays \subseteq disk
  /\ pc \in [Attempts -> {"idle", "done", "dead"} \cup Busy]
  /\ key \in [Attempts -> Keys \cup {Nothing}]
  /\ began \in [Attempts -> 0..MaxNow]
  /\ saw \in [Attempts -> SUBSET Attempts]
  /\ reply \in [Attempts ->
       {"", "refused", "existing", "duplicate", "error", "created"}]
  /\ late \in [Attempts -> BOOLEAN]
  /\ purging \in Files \cup {Nothing}

\* However often a form is sent, it becomes one claim (claim.go:109-113).
OneClaimPerKey == \A c, d \in claims : c.key = d.key => c = d

\* A receipt stands for a stored claim: "created" for the sender's own row,
\* "existing" for the row another request of the form has put there.
ReceiptIsReal ==
  \A a \in Attempts :
    /\ reply[a] = "created" => \E c \in claims : c.by = a /\ c.key = key[a]
    /\ reply[a] = "existing" => \E c \in claims : c.by # a /\ c.key = key[a]

\* A customer who sends a form again after a receipt for it went out is never
\* told it is a duplicate (public.go:210-212).
LateRetryGetsReceipt ==
  \A a \in Attempts : late[a] => reply[a] # "duplicate"

\* Two claims of one phone at the machine are at least the window apart,
\* unless the later one was judged before the earlier one was stored.
AcceptedApart ==
  \A c, d \in claims : c.by \in d.saw => d.at - c.at >= Window

\* A file on disk belongs to a request under way or to a photo row, or is
\* one that a crash or a failed deletion left (public.go:513-514).
FilesAccounted ==
  \A f \in disk : \/ pc[f[1]] \in Busy
                  \/ \E p \in photos : p.file = f
                  \/ f \in strays

\* Nobody deletes the photos of a claim that was confirmed as created, until
\* their retention is over.
PhotosKept ==
  \A p \in photos : reply[p.file[1]] = "created" => p.file \in disk \/ p.expires <= now

\* When the insert finds the key taken, the claim that took it is visible to
\* the next query: the loop of CreateClaim ends in its first turn.
ConflictFindsIt == \A a \in Attempts : pc[a] = "conflict" => Known(key[a])

\* Every request is answered, unless the process dies under it.
EveryAttemptEnds ==
  \A a \in Attempts : pc[a] = "entered" ~> pc[a] \in {"done", "dead"}

\* A photo past its retention loses its row, even when its file cannot be
\* deleted (worker.go:102-103).
ExpiredPhotosGo ==
  \A f \in Files : (\E p \in photos : p.file = f /\ p.expires <= now)
                     ~> ~\E p \in photos : p.file = f

=============================================================================
