------------------------------ MODULE Accounts ------------------------------
(***************************************************************************)
(* The accounts of one shop: logging in with a count of wrong passwords    *)
(* and a lock, session cookies, switching accounts on and off, and the     *)
(* command line that resets a password (internal/store/user.go,            *)
(* internal/httpapi/auth.go, session.go, admin_settings.go, cmd/setup).    *)
(*                                                                         *)
(* Every handler reads in one statement and writes in another, outside any *)
(* transaction.  A handler serves one request after the other.  Requests   *)
(* that are turned away without a write leave no trace and are no steps.   *)
(***************************************************************************)
EXTENDS Integers, FiniteSets, Clock

CONSTANTS
  Users,            \* accounts, there or still to be created
  Owner,            \* the account the shop was set up with
  Handlers,         \* requests served at the same time
  Nobody,           \* no account
  maxLoginFailures, lockDuration, sessionLifetime,
  MaxStreak         \* bound on wrong passwords in a row

ASSUME UsersType == Owner \in Users /\ Nobody \notin Users \cup Handlers
ASSUME LimitsType ==
  /\ maxLoginFailures \in Nat \ {0} /\ lockDuration \in Nat \ {0}
  /\ sessionLifetime \in Nat /\ MaxStreak \in Nat /\ MaxNow \in Nat \ {0}

VARIABLES
  users,    \* table users: account -> row
  cookie,   \* account -> when the session its holder has expires
  pc,       \* handler -> where it stands
  job,      \* handler -> the account it serves and the account it is about
  failed,   \* handler -> failed_logins as Authenticate read it
  streak,   \* account -> wrong passwords recorded since the last reset
  late,     \* account -> tries were on their way at that reset
  overlap,  \* account -> tries have overlapped since that reset
  crossed   \* two accounts were being switched off at the same time

accountsVars == <<now, users, cookie, pc, job, failed, streak, late, overlap, crossed>>

-----------------------------------------------------------------------------
NoAccount == [there |-> FALSE, active |-> FALSE, failed |-> 0, lockedUntil |-> 0]
Fresh  == [NoAccount EXCEPT !.there = TRUE, !.active = TRUE]

NoJob == [by |-> Nobody, on |-> Nobody]

ActiveUsers == {u \in Users : users[u].active}

\* Handlers between Authenticate's reading of u's row and its writing it.
Comparing(u) == {h \in Handlers : pc[h] = "compare" /\ job[h].on = u}

\* The handler answers, or its process or a statement of it fails.
Done(h) ==
  /\ pc' = [pc EXCEPT ![h] = "idle"]
  /\ job' = [job EXCEPT ![h] = NoJob]
  /\ failed' = [failed EXCEPT ![h] = 0]

Fail(h) ==
  /\ pc[h] # "idle"
  /\ Done(h)
  /\ UNCHANGED <<now, users, cookie, streak, late, overlap, crossed>>

-----------------------------------------------------------------------------
(* Authenticate and handleLogin.                                           *)

Locked(u) == users[u].lockedUntil > now

\* The row is read: the account must be there, not locked, and active.
ReadAccount(h, u) ==
  /\ pc[h] = "idle"
  /\ users[u].there /\ ~Locked(u) /\ users[u].active
  /\ streak[u] + Cardinality(Comparing(u)) < MaxStreak
  /\ pc' = [pc EXCEPT ![h] = "compare"]
  /\ job' = [job EXCEPT ![h].on = u]
  /\ failed' = [failed EXCEPT ![h] = users[u].failed]
  /\ UNCHANGED <<now, users, cookie, streak, late, overlap, crossed>>

\* The others that have read u's row will write on a reading that is stale.
Restart(u, h) ==
  /\ streak' = [streak EXCEPT ![u] = 0]
  /\ late' = [late EXCEPT ![u] = Comparing(u) \ {h} # {}]
  /\ overlap' = [overlap EXCEPT ![u] = FALSE]

CountUp(n) == n + 1

\* recordLoginFailure writes the number read, plus one, and with it a lock
\* or none, over whatever is there by now.
WrongPassword(h) ==
  LET u == job[h].on
      n == CountUp(failed[h])
  IN /\ pc[h] = "compare"
     /\ users' = [users EXCEPT ![u].failed = n,
                               ![u].lockedUntil =
                                  IF n >= maxLoginFailures THEN now + lockDuration ELSE 0]
     /\ streak' = [streak EXCEPT ![u] = @ + 1]
     /\ overlap' = [overlap EXCEPT ![u] = @ \/ Comparing(u) # {h}]
     /\ Done(h)
     /\ UNCHANGED <<now, cookie, late, crossed>>

\* Fault: a success does not clear the count.
RightKeepsCount(h) ==
  LET u == job[h].on
  IN /\ pc[h] = "compare"
     /\ Restart(u, h)
     /\ cookie' = [cookie EXCEPT ![u] = now + sessionLifetime]
     /\ Done(h)
     /\ UNCHANGED <<now, users, crossed>>

\* A right password clears count and lock, if any failure was read, and gets
\* its holder a cookie.
RightPassword(h) ==
  LET u == job[h].on
  IN /\ pc[h] = "compare"
     /\ IF failed[h] > 0
          THEN /\ users' = [users EXCEPT ![u].failed = 0, ![u].lockedUntil = 0]
               /\ Restart(u, h)
          ELSE UNCHANGED <<users, streak, late, overlap>>
     /\ cookie' = [cookie EXCEPT ![u] = now + sessionLifetime]
     /\ Done(h)
     /\ UNCHANGED <<now, crossed>>

\* handleLogout takes the cookie back.
Logout(u) ==
  /\ cookie[u] # 0
  /\ cookie' = [cookie EXCEPT ![u] = 0]
  /\ UNCHANGED <<now, users, pc, job, failed, streak, late, overlap, crossed>>

\* Fault: the new password is still locked.
SetPasswordOnly(u) ==
  /\ users[u].there
  /\ Restart(u, Nobody)
  /\ UNCHANGED <<now, users, cookie, pc, job, failed, crossed>>

\* setup -reset-password: SetPassword unlocks as well.  Cookies stay good.
SetPassword(u) ==
  /\ users[u].there
  /\ users' = [users EXCEPT ![u].failed = 0, ![u].lockedUntil = 0]
  /\ Restart(u, Nobody)
  /\ UNCHANGED <<now, cookie, pc, job, failed, crossed>>

-----------------------------------------------------------------------------
(* handleCreateUser and handleSetUserActive.                               *)

\* authed: the cookie has not expired and its account is still active.
SignedIn(u) == cookie[u] >= now /\ users[u].active

Serve(h, by, on, here) ==
  /\ pc[h] = "idle" /\ SignedIn(by)
  /\ pc' = [pc EXCEPT ![h] = here]
  /\ job' = [job EXCEPT ![h] = [by |-> by, on |-> on]]
  /\ UNCHANGED <<now, users, cookie, failed, streak, late, overlap, crossed>>

\* The INSERT: an email that is there already is refused.
CreateUser(h) ==
  LET u == job[h].on
  IN /\ pc[h] = "create"
     /\ users' = [users EXCEPT ![u] = IF @.there THEN @ ELSE Fresh]
     /\ Done(h)
     /\ UNCHANGED <<now, cookie, streak, late, overlap, crossed>>

\* Fault: the account that is to go counts as one that stays.
CountAll(h) ==
  /\ pc[h] = "count"
  /\ ActiveUsers # {}
  /\ pc' = [pc EXCEPT ![h] = "off"]
  /\ crossed' = (crossed \/ \E g \in Handlers : pc[g] = "off")
  /\ UNCHANGED <<now, users, cookie, job, failed, streak, late, overlap>>

\* The first query of SetUserActive: some other account is active.
CountOthers(h) ==
  /\ pc[h] = "count"
  /\ ActiveUsers \ {job[h].on} # {}
  /\ pc' = [pc EXCEPT ![h] = "off"]
  /\ crossed' = (crossed \/ \E g \in Handlers : pc[g] = "off")
  /\ UNCHANGED <<now, users, cookie, job, failed, streak, late, overlap>>

\* The UPDATE of SetUserActive, whoever is active by now.
Switch(h) ==
  LET u == job[h].on
  IN /\ pc[h] \in {"on", "off"} /\ users[u].there
     /\ users' = [users EXCEPT ![u].active = (pc[h] = "on")]
     /\ Done(h)
     /\ UNCHANGED <<now, cookie, streak, late, overlap, crossed>>

AccountsTick ==
  /\ now < MaxNow
  /\ now' = now + 1
  /\ UNCHANGED <<users, cookie, pc, job, failed, streak, late, overlap, crossed>>

-----------------------------------------------------------------------------
AccountsInit ==
  /\ now = 1
  /\ users = [u \in Users |-> IF u = Owner THEN Fresh ELSE NoAccount]
  /\ cookie = [u \in Users |-> 0]
  /\ pc = [h \in Handlers |-> "idle"]
  /\ job = [h \in Handlers |-> NoJob]
  /\ failed = [h \in Handlers |-> 0]
  /\ streak = [u \in Users |-> 0]
  /\ late = [u \in Users |-> FALSE]
  /\ overlap = [u \in Users |-> FALSE]
  /\ crossed = FALSE

\* Nobody may switch off the account he is signed in with.
Request(h) ==
  \/ \E u \in Users : ReadAccount(h, u)
  \/ \E by, on \in Users :
       \/ Serve(h, by, on, "create")
       \/ Serve(h, by, on, "on")
       \/ on # by /\ Serve(h, by, on, "count")

Handle(h) == WrongPassword(h) \/ RightPassword(h) \/ CreateUser(h)
               \/ CountOthers(h) \/ Switch(h) \/ Fail(h)

AccountsNext ==
  \/ \E h \in Handlers : Request(h) \/ Handle(h)
  \/ \E u \in Users : Logout(u) \/ SetPassword(u)
  \/ AccountsTick

AccountsSpec == AccountsInit /\ [][AccountsNext]_accountsVars

-----------------------------------------------------------------------------
(* Correctness.                                                            *)

\* Rows, cookies and handlers keep their types; only an account that is there
\* is active, has failures or a session.
AccountsTypeOK ==
  /\ now \in 1..MaxNow
  /\ users \in [Users -> [there : BOOLEAN, active : BOOLEAN, failed : Nat,
                          lockedUntil : Nat]]
  /\ cookie \in [Users -> Nat]
  /\ pc \in [Handlers -> {"idle", "compare", "create", "count", "on", "off"}]
  /\ job \in [Handlers -> [by : Users \cup {Nobody}, on : Users \cup {Nobody}]]
  /\ failed \in [Handlers -> Nat]
  /\ streak \in [Users -> Nat]
  /\ late \in [Users -> BOOLEAN]
  /\ overlap \in [Users -> BOOLEAN]
  /\ crossed \in BOOLEAN
  /\ \A u \in Users : ~users[u].there => users[u] = NoAccount /\ cookie[u] = 0

\* An account is locked only after maxLoginFailures wrong passwords since its
\* count was cleared, however the tries interleave, and so not right after its
\* password was reset (user.go:69-70).  The exception is a try that was on its
\* way when the count was cleared.
LockIsEarned ==
  \A u \in Users :
    users[u].lockedUntil # 0 /\ ~late[u] => streak[u] >= maxLoginFailures

\* Wrong tries that come one after the other are all counted, and are locked
\* out in time.
SerialTriesCount ==
  \A u \in Users :
    ~late[u] /\ ~overlap[u] =>
      /\ users[u].failed = streak[u]
      /\ streak[u] >= maxLoginFailures => users[u].lockedUntil # 0

\* The shop loses its last active account only if two accounts were being
\* switched off at the same time, each counting on the other.
LastAccountGuarded == ActiveUsers = {} => crossed

\* The comment on SetUserActive: the last active account cannot be switched
\* off, as nobody could log in any more (user.go:146).
SomeoneCanLogIn == ActiveUsers # {}
=============================================================================
