-------------------------------- MODULE Shop --------------------------------
(***************************************************************************)
(* The open doors of the service: the rate limits in front of a customer's *)
(* form, of the look-up of a claim and of signing up, which count in the   *)
(* cache; the sign-up that makes a shop and its owner in one transaction;  *)
(* and the machines of a shop, which accounts edit field by field          *)
(* (internal/cache, internal/httpapi/public.go, public_status.go,          *)
(* public_signup.go, admin_machines.go, internal/store/user.go,            *)
(* machine.go).                                                            *)
(*                                                                         *)
(* A gate is one key of the cache: an address that sends forms, a machine  *)
(* they are about, an address that looks a claim up, or one that signs up. *)
(* An element of Requests is one goroutine of the API, which takes a       *)
(* request, answers it and is free for the next.  Time is kept as what is  *)
(* left of a window, so that no bound on the clock is needed.              *)
(***************************************************************************)
EXTENDS Integers, FiniteSets

CONSTANTS
  Requests, Emails,
  Codes,    \* codes of machines
  Labels,   \* what a machine may be called, or where it may stand
  Patches,  \* what an edit may send: Nothing for a field that is left out
  Gates,    \* "signup", and some of "ip", "machine" and "status"
  Limit,    \* gate -> requests to a window
  Span,     \* gate -> ticks of a window
  Nothing

ASSUME GatesType ==
  /\ Gates \subseteq {"ip", "machine", "status", "signup"} /\ "signup" \in Gates
  /\ Limit \in [Gates -> Nat \ {0}] /\ Span \in [Gates -> Nat \ {0}]
ASSUME PatchesType ==
  Patches \subseteq [label : Labels \cup {Nothing}, active : BOOLEAN \cup {Nothing}]

Row  == [label : Labels, active : BOOLEAN]                \* of a machine
Edit == [code : Codes, row : Row, patch : Patches]

ASSUME Distinct ==
  Nothing \notin Emails \cup Codes \cup Labels \cup BOOLEAN \cup Row \cup Edit

VARIABLES
  redis,     \* is the cache Redis, or the API's own memory?
  counter,   \* gate -> the count of its key and what is left of its life
  passed,    \* gate -> age -> requests it has let through that long ago
  shops,     \* table stores
  users,     \* table users: rows [email, shop]
  machines,  \* table machines: code -> row, or Nothing
  pc,        \* request -> where its handler stands
  email,     \* request -> the email that is being signed up
  edit,      \* request -> the machine that is being edited, as it was read
  crossed    \* request -> fields of it that others have changed since

cache  == <<redis, counter, passed>>
tables == <<shops, users, machines>>
locals == <<pc, email, edit, crossed>>
vars   == <<cache, tables, locals>>

Goto(r, here) == pc' = [pc EXCEPT ![r] = here]

-----------------------------------------------------------------------------
(* Incr: a fixed window that begins with its first request.                *)

Gone == [n |-> 0, left |-> 0]

\* The memory keeps a key up to the moment of its expiry, Redis up to before it.
Fresh(g) == counter[g].n = 0 \/ (redis /\ counter[g].left = 0)

\* Fault: every request renews the time to live.
CountedAnew(g) ==
  [n    |-> IF Fresh(g) THEN 1 ELSE IF counter[g].n > Limit[g] THEN counter[g].n
            ELSE counter[g].n + 1,
   left |-> Span[g]]

\* The key after one more; beyond the limit the count makes no difference.
Counted(g) ==
  IF Fresh(g) THEN [n |-> 1, left |-> Span[g]]
  ELSE [counter[g] EXCEPT !.n = IF @ > Limit[g] THEN @ ELSE @ + 1]

Shut(g) == Counted(g).n > Limit[g]

Count(g) == counter' = [counter EXCEPT ![g] = Counted(g)]

LetIn(g) == passed' = [passed EXCEPT ![g][0] = @ + 1]

Pass(g) == ~Shut(g) /\ Count(g) /\ LetIn(g) /\ redis' = redis

Refuse(g) == Shut(g) /\ Count(g) /\ UNCHANGED <<redis, passed>>

\* Redis does not answer, whether it has counted or not.
CacheError(g) ==
  /\ redis
  /\ Count(g) \/ counter' = counter
  /\ UNCHANGED <<redis, passed>>

\* rateLimitPublic, and the limits of a machine and of the look-up: a request
\* goes on when the cache fails.
Admit(g) == Pass(g) \/ CacheError(g)

\* Fault: a sign-up goes on like a form when the cache fails.
AdmitSignupAnyway ==
  Pass("signup") \/ (redis /\ LetIn("signup") /\ UNCHANGED <<redis, counter>>)

\* rateLimitSignup refuses then.
AdmitSignup == Pass("signup")

-----------------------------------------------------------------------------
(* A customer: handleCreateClaim as far as its limits, and the look-up.    *)

\* The address is counted before anything is read, the machine once it has
\* been found to be on and before the key is looked up; ClaimIntake goes on
\* from there.  The look-up shows a row.  None changes anything here.
Knock(g) ==
  /\ g # "signup"
  /\ Admit(g) \/ Refuse(g)
  /\ UNCHANGED <<tables, locals>>

-----------------------------------------------------------------------------
(* handleSignup and CreateStoreWithOwner.                                  *)

\* Counted first; then what was sent is checked, and the password hashed.
EnterSignup(r, e) ==
  /\ pc[r] = "idle"
  /\ \/ /\ AdmitSignup /\ Goto(r, "signing")
        /\ email' = [email EXCEPT ![r] = e]
     \/ /\ AdmitSignup \/ Refuse("signup") \/ CacheError("signup")
        /\ UNCHANGED <<pc, email>>
  /\ UNCHANGED <<tables, edit, crossed>>

Taken(e)  == \E u \in users : u.email = e
OpenTx(e) == \E r \in Requests : pc[r] = "owner" /\ email[r] = e

\* Answered, one way or the other: the transaction is over.
Leave(r) == Goto(r, "idle") /\ email' = [email EXCEPT ![r] = Nothing]

NewShop == CHOOSE n \in 1..(Cardinality(shops) + 1) : n \notin shops

\* Fault: the shop is stored by itself.
InsertStoreAtOnce(r) ==
  /\ pc[r] = "signing" /\ Goto(r, "store")
  /\ shops' = shops \cup {NewShop}
  /\ UNCHANGED <<cache, users, machines, email, edit, crossed>>

\* The transaction begins with the shop, which nobody else can see yet.
InsertStore(r) ==
  /\ pc[r] = "signing" /\ Goto(r, "store")
  /\ UNCHANGED <<cache, tables, email, edit, crossed>>

\* The unique index on users.email waits for an open transaction with the same
\* one; a violation rolls the shop back.
InsertOwner(r) ==
  /\ pc[r] = "store" /\ ~OpenTx(email[r])
  /\ \/ ~Taken(email[r]) /\ Goto(r, "owner") /\ email' = email
     \/ Taken(email[r]) /\ Leave(r)
  /\ UNCHANGED <<cache, tables, edit, crossed>>

\* Both rows become visible, whether or not the acknowledgement arrives.
CommitSignup(r) ==
  /\ pc[r] = "owner" /\ Leave(r)
  /\ shops' = shops \cup {NewShop}
  /\ users' = users \cup {[email |-> email[r], shop |-> NewShop]}
  /\ UNCHANGED <<cache, machines, edit, crossed>>

\* A statement fails, or the password cannot be hashed.
FailSignup(r) ==
  /\ pc[r] \in {"signing", "store", "owner"} /\ Leave(r)
  /\ UNCHANGED <<cache, tables, edit, crossed>>

-----------------------------------------------------------------------------
(* handleCreateMachine and handleUpdateMachine.                            *)

\* A machine gets a code that no other has, on the last of five attempts or
\* before, or is not created.
CreateMachine(r, c, label) ==
  /\ pc[r] = "idle" /\ shops # {} /\ machines[c] = Nothing
  /\ machines' = [machines EXCEPT ![c] = [label |-> label, active |-> TRUE]]
  /\ UNCHANGED <<cache, shops, users, locals>>

\* MachineByID, and what the PATCH sends.
ReadMachine(r, c, patch) ==
  /\ pc[r] = "idle" /\ machines[c] # Nothing
  /\ Goto(r, "editing")
  /\ edit' = [edit EXCEPT ![r] = [code |-> c, row |-> machines[c], patch |-> patch]]
  /\ UNCHANGED <<cache, tables, email, crossed>>

\* Fault: a machine whose "active" is not sent is switched off.
MergedWithZero(e) ==
  [label  |-> IF e.patch.label = Nothing THEN e.row.label ELSE e.patch.label,
   active |-> IF e.patch.active = Nothing THEN FALSE ELSE e.patch.active]

\* A field that is not sent is as it was read.
Merged(e) ==
  [label  |-> IF e.patch.label = Nothing THEN e.row.label ELSE e.patch.label,
   active |-> IF e.patch.active = Nothing THEN e.row.active ELSE e.patch.active]

Differ(x, y) == {f \in {"label", "active"} : x[f] # y[f]}

\* UpdateMachine writes all columns, or fails.
WriteMachine(r) ==
  /\ pc[r] = "editing" /\ Goto(r, "idle")
  /\ LET e == edit[r] IN
     /\ \/ machines' = [machines EXCEPT ![e.code] = Merged(e)]
        \/ machines' = machines
     /\ edit' = [edit EXCEPT ![r] = Nothing]
     /\ crossed' = [q \in Requests |->
          IF q = r THEN {}
          ELSE IF edit[q] # Nothing /\ edit[q].code = e.code
            THEN crossed[q] \cup Differ(machines[e.code], machines'[e.code])
          ELSE crossed[q]]
  /\ UNCHANGED <<cache, shops, users, email>>

-----------------------------------------------------------------------------
\* The API restarts: what is not committed is gone, and so are the counters
\* that were in its memory.
Restart ==
  /\ pc' = [r \in Requests |-> "idle"]
  /\ email' = [r \in Requests |-> Nothing]
  /\ edit' = [r \in Requests |-> Nothing]
  /\ crossed' = [r \in Requests |-> {}]
  /\ IF redis THEN UNCHANGED <<counter, passed>>
     ELSE /\ counter' = [g \in Gates |-> Gone]
          /\ passed' = [g \in Gates |-> [age \in 0..(Span[g] - 1) |-> 0]]
  /\ UNCHANGED <<redis, tables>>

Older(c) == IF c.left = 0 THEN Gone ELSE [c EXCEPT !.left = @ - 1]

Tick ==
  /\ counter' = [g \in Gates |-> Older(counter[g])]
  /\ passed' = [g \in Gates |-> [age \in 0..(Span[g] - 1) |->
                                   IF age = 0 THEN 0 ELSE passed[g][age - 1]]]
  /\ UNCHANGED <<redis, tables, locals>>

Init ==
  /\ redis \in BOOLEAN
  /\ counter = [g \in Gates |-> Gone]
  /\ passed = [g \in Gates |-> [age \in 0..(Span[g] - 1) |-> 0]]
  /\ shops = {} /\ users = {} /\ machines = [c \in Codes |-> Nothing]
  /\ pc = [r \in Requests |-> "idle"]
  /\ email = [r \in Requests |-> Nothing]
  /\ edit = [r \in Requests |-> Nothing]
  /\ crossed = [r \in Requests |-> {}]

Newcomer(r) ==
  \/ \E e \in Emails : EnterSignup(r, e)
  \/ InsertStore(r) \/ InsertOwner(r) \/ CommitSignup(r) \/ FailSignup(r)

Owner(r) ==
  \/ \E c \in Codes, label \in Labels : CreateMachine(r, c, label)
  \/ \E c \in Codes, patch \in Patches : ReadMachine(r, c, patch)
  \/ WriteMachine(r)

Next ==
  \/ \E r \in Requests : Newcomer(r) \/ Owner(r)
  \/ (\E g \in Gates : Knock(g)) \/ Restart \/ Tick

\* Time passes; nobody is obliged to send anything.
Spec == Init /\ [][Next]_vars /\ WF_vars(Tick)

-----------------------------------------------------------------------------
(* What must hold.                                                         *)

\* The variables hold what the cache, the tables and the handlers can hold.
TypeOK ==
  /\ redis \in BOOLEAN
  /\ counter \in [Gates -> [n : Nat, left : Nat]]
  /\ DOMAIN passed = Gates /\ \A g \in Gates : passed[g] \in [0..(Span[g] - 1) -> Nat]
  /\ users \subseteq [email : Emails, shop : shops]
  /\ machines \in [Codes -> Row \cup {Nothing}]
  /\ pc \in [Requests -> {"idle", "signing", "store", "owner", "editing"}]
  /\ email \in [Requests -> Emails \cup {Nothing}]
  /\ edit \in [Requests -> Edit \cup {Nothing}]
  /\ \A r \in Requests :
       /\ pc[r] \in {"signing", "store", "owner"} => email[r] # Nothing
       /\ edit[r] # Nothing <=> pc[r] = "editing"
       /\ edit[r] # Nothing => machines[edit[r].code] # Nothing
  /\ crossed \in [Requests -> SUBSET {"label", "active"}]

\* The requests of some ages, those of each age numbered.
Passes(g, ages) == UNION {{age} \X (1..passed[g][age]) : age \in ages}

\* In any stretch of time as long as a window no gate lets two
\* windows' worth through; requests that pass because the cache fails are not
\* counted, and for signing up there are none (public.go:106-111,
\* public_signup.go:118-123).
PassesBounded ==
  \A g \in Gates : Cardinality(Passes(g, 0..(Span[g] - 1))) < 2 * Limit[g]

\* A gate that is shut opens again, though the address knocks all the time
\* (cache.go:68-69).
ShutGateOpens == \A g \in Gates : Shut(g) ~> ~Shut(g)

\* There is no shop without its owner, whatever fails or crashes, and no two
\* accounts have one email (user.go:377-383).
SignedUpWhole ==
  /\ \A s \in shops : \E u \in users : u.shop = s
  /\ \A u, v \in users : u.email = v.email => u = v

\* An edit leaves a field it does not send as it is, unless another edit has
\* changed that field since this one read it (admin_machines.go:110).
UnsentKept ==
  [][\A r \in Requests :
       edit[r] # Nothing /\ edit'[r] = Nothing =>
         LET e == edit[r]
             sent == {f \in {"label", "active"} : e.patch[f] # Nothing}
         IN machines'[e.code] = machines[e.code] \/
            Differ(machines[e.code], machines'[e.code]) \subseteq sent \cup crossed[r]]_vars

=============================================================================
