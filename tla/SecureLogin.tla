----------------------------- MODULE SecureLogin -----------------------------
(***************************************************************************)
(* The part of routers/auth22.py and sec_utils.py that runs: what a login  *)
(* over POST /auth/2/login does to the account, next to the administrators *)
(* (routers/users.py) who set its status.                                  *)
(*                                                                         *)
(* The handler loads the user, asks a remote service about the address     *)
(* (which stops its event loop, not the other processes), awaits the       *)
(* activity log if the device is new, and then may disable the account:    *)
(* it writes what it made of the row it loaded first.                      *)
(*                                                                         *)
(* Every path that assigns a number to user.login_attempts raises there,   *)
(* before a commit: a wrong password (73), the end of a temporary disable  *)
(* (111), the successful login (234), the unlock link (535).  They change  *)
(* nothing, so they are requests that fail; no code is ever sent and no    *)
(* device ever remembered.  Only administrators end a disable.             *)
(***************************************************************************)
EXTENDS Naturals, SequencesExt, EventLoop, UnitOfWork

CONSTANTS User,
          Duration,      (* TEMP_DISABLE_DURATION_HOURS                    *)
          MaxTime,       (* bound: the clock                               *)
          MaxRequests    (* bound: requests begun                          *)

ASSUME LoginAssumption ==
    /\ Duration \in Nat \ {0}
    /\ MaxTime \in Nat /\ MaxRequests \in Nat
    /\ None \notin 0 .. MaxTime + Duration

VARIABLES
    now,        (* the clock, in the unit of Duration                      *)
    user,       (* table users: status and temp_disabled_until             *)
    known,      (* whether the user's device is registered and not deleted *)
    book,       (* table temp_disable_logs, by user, oldest first          *)
    attempts,   (* table login_attempts: number of rows of the user        *)
    served      (* number of requests begun                                *)

vars == <<place, task, now, user, known, book, attempts, served>>
tables == <<user, known, book, attempts>>

Status == {"active", "inactive", "suspended", "deleted", "temp_disabled"}
Time == 0 .. MaxTime + Duration
Cause == {"address", "zone"}

UserRow == [status : Status, until : Time \cup {None}]
(* `old' is the row as loaded; a login then has a cause and an end of the  *)
(* disable, a change of status the status it is to set.  `foreign': the    *)
(* client's time zone is another than EAT; `awaited': the handler has been *)
(* away to the log.                                                        *)
Task == [op : {"login", "status"}, user : User, old : UserRow, status : Status,
         foreign : BOOLEAN, awaited : BOOLEAN, cause : Cause, until : Time,
         todo : {"start", "verdict", "log", "zone", "commit"}]

-----------------------------------------------------------------------------
Init ==
    /\ place \in [Slot -> Process]
    /\ task = [s \in Slot |-> None]
    /\ now = 0
    /\ user \in [User -> [status : Status \ {"temp_disabled"}, until : {None}]]
    /\ known \in [User -> BOOLEAN]
    /\ book = [u \in User |-> <<>>]
    /\ attempts = [u \in User |-> 0]
    /\ served = 0

Begin(s, t) ==
    /\ Idle(s) /\ served < MaxRequests
    /\ task' = [task EXCEPT ![s] = t]
    /\ served' = served + 1
    /\ UNCHANGED <<place, now, tables>>

Request(op, u, status, foreign, todo) ==
    [op |-> op, user |-> u, old |-> user[u], status |-> status, foreign |-> foreign,
     awaited |-> FALSE, cause |-> "zone", until |-> 0, todo |-> todo]

(* An account that is active passes the checks after the password.  One    *)
(* that is temporarily disabled is told to wait, or raises when its time   *)
(* is over; every other one is refused.                                    *)
Admitted(row) == row.status = "active"

Login(s, u, foreign) ==
    /\ MayRun(s) /\ Admitted(user[u])
    /\ Begin(s, Request("login", u, "temp_disabled", foreign, "verdict"))

(* check_ip_det: without a key and after any failure of the remote call an *)
(* address is as bad as one that was reported.                             *)
Answer == {"no key", "error", "reported", "clean"}
Suspicious(answer) == answer # "clean"

(* temp_disable_account begins: the end is reckoned from the clock.        *)
ToDisable(t, cause) == [t EXCEPT !.cause = cause, !.until = now + Duration, !.todo = "commit"]

CheckIp(s, answer) ==
    /\ At(s, "verdict")
    /\ LET t == task[s] IN
       Goes(s, IF Suspicious(answer) THEN ToDisable(t, "address")
               ELSE IF known[t.user] THEN [t EXCEPT !.todo = "zone"]
               ELSE [t EXCEPT !.todo = "log", !.awaited = TRUE])
    /\ UNCHANGED <<place, now, tables, served>>

(* Back from the log, if it was there.  With the expected time zone, or    *)
(* none, the handler goes on to line 234 and fails (see Abandon).          *)
CheckZone(s) ==
    /\ At(s, "zone") \/ At(s, "log")
    /\ task[s].foreign
    /\ Goes(s, ToDisable(task[s], "zone"))
    /\ UNCHANGED <<place, now, tables, served>>

(* Bug: a disable that is still on keeps its end.                          *)
StillDisabled(row, until) ==
    [status |-> "temp_disabled", until |-> IF row.until # None THEN row.until ELSE until]
(* Bug: a label the column does not have.                                  *)
LockedOut(row, until) == [status |-> "locked", until |-> until]
Disabled(row, until) == [status |-> "temp_disabled", until |-> until]

(* temp_disable_account commits the user, the log row and, after a bad     *)
(* address, the login attempt.  Both columns differ from those loaded (the *)
(* status was active, the end is to the microsecond), so both are sent.    *)
TempDisableAccount(s) ==
    /\ At(s, "commit") /\ task[s].op = "login"
    /\ LET t == task[s]
           u == t.user IN
       /\ user' = [user EXCEPT ![u] = Disabled(t.old, t.until)]
       /\ book' = [book EXCEPT ![u] = Append(@, [until |-> t.until, cause |-> t.cause])]
       /\ attempts' = [attempts EXCEPT ![u] = IF t.cause = "address" THEN @ + 1 ELSE @]
    /\ Done(s)
    /\ UNCHANGED <<place, now, known, served>>

-----------------------------------------------------------------------------
(* PUT /users/{id}/status and /users/{id}, DELETE /users/{id}: the status  *)
(* is set if it differs from the loaded one.  Administrators who act on    *)
(* themselves work on the row get_current_user loaded.                     *)
ChangeStatus(s, u, status) ==
    /\ MayRun(s) /\ user[u].status # status
    /\ Begin(s, Request("status", u, status, FALSE, "commit"))

ChangeOwnStatus(s, u, status) ==
    Begin(s, Request("status", u, status, FALSE, "start"))

CompareStatus(s) ==
    /\ At(s, "start") /\ task[s].old.status # task[s].status
    /\ Goes(s, [task[s] EXCEPT !.todo = "commit"])
    /\ UNCHANGED <<place, now, tables, served>>

CommitStatus(s) ==
    /\ At(s, "commit") /\ task[s].op = "status"
    /\ LET t == task[s] IN
       user' = [user EXCEPT ![t.user] =
                  Written(@, t.old, [t.old EXCEPT !.status = t.status])]
    /\ Done(s)
    /\ UNCHANGED <<place, now, known, book, attempts, served>>

(* DELETE /auth/2/devices/{fingerprint}.                                   *)
ForgetDevice(s, u) ==
    /\ Idle(s) /\ MayRun(s) /\ known[u]
    /\ known' = [known EXCEPT ![u] = FALSE]
    /\ UNCHANGED <<place, task, now, user, book, attempts, served>>

(* The request fails or its process dies.                                  *)
Abandon(s) ==
    /\ ~Idle(s)
    /\ Done(s)
    /\ UNCHANGED <<place, now, tables, served>>

Tick ==
    /\ now < MaxTime
    /\ now' = now + 1
    /\ UNCHANGED <<place, task, tables, served>>

Next ==
    \/ \E s \in Slot :
         \/ \E u \in User :
              \/ \E foreign \in BOOLEAN : Login(s, u, foreign)
              \/ \E status \in Status : ChangeStatus(s, u, status) \/ ChangeOwnStatus(s, u, status)
              \/ ForgetDevice(s, u)
         \/ \E answer \in Answer : CheckIp(s, answer)
         \/ CheckZone(s) \/ TempDisableAccount(s)
         \/ CompareStatus(s) \/ CommitStatus(s)
         \/ Abandon(s)
    \/ Tick

Spec == Init /\ [][Next]_vars

-----------------------------------------------------------------------------
(* Every variable has its type.                                            *)
TypeOK ==
    /\ place \in [Slot -> Process]
    /\ task \in [Slot -> Task \cup {None}]
    /\ now \in 0 .. MaxTime
    /\ user \in [User -> UserRow]
    /\ known \in [User -> BOOLEAN]
    /\ book \in [User -> Seq([until : Time, cause : Cause])]
    /\ attempts \in [User -> Nat]
    /\ served \in 0 .. MaxRequests

(* However many processes disable an account at once, users and            *)
(* temp_disable_logs agree on when the disable ends: temp_disabled_until   *)
(* is the end in the newest log row, whatever status an administrator has  *)
(* set meanwhile; and every block for its address has left an attempt.     *)
BookAgrees ==
    \A u \in User :
        /\ user[u].until = IF book[u] = <<>> THEN None ELSE Last(book[u]).until
        /\ attempts[u] = Cardinality({i \in DOMAIN book[u] : book[u][i].cause = "address"})

(* In one server process a login never shortens the time an account is     *)
(* disabled.                                                               *)
SerialPenaltyGrows ==
    [][OneProcess => \A u \in User :
          user[u].until # None => user'[u].until >= user[u].until]_user

(* In one server process a login disables an account that an administrator *)
(* has suspended or deleted since the login loaded it only if it has       *)
(* awaited the log: the remote check and a known device leave no gap.      *)
SerialKnownDevice ==
    [][OneProcess => \A s \in Slot :
          TempDisableAccount(s) =>
              user[task[s].user].status = "active" \/ task[s].awaited]_vars

=============================================================================
