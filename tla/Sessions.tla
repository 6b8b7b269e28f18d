------------------------------ MODULE Sessions ------------------------------
(***************************************************************************)
(* routers/auth.py and the token functions of utilities.py: sessions (rows *)
(* of usertokens), password reset tickets (rows of password_reset_tokens)  *)
(* and passwords.  POST /login is a plain function, which runs in a thread *)
(* next to everything else; the other handlers are coroutines that never   *)
(* await, so the handlers of one event loop do not overlap and those of    *)
(* different server processes interleave at every query and commit.        *)
(*                                                                         *)
(* Left out: who the client is (a request may carry any token or ticket    *)
(* that was handed out), refusals, which change nothing, and last_login.   *)
(***************************************************************************)
EXTENDS Naturals, SequencesExt

CONSTANTS User, None,
          Loop,          (* event loops, one per server process            *)
          Thread,        (* threads that serve POST /login                 *)
          MaxRequests    (* bound: requests begun                          *)

ASSUME SessionAssumption ==
    /\ None \notin User
    /\ Loop # {} /\ Loop \cap Thread = {}
    /\ MaxRequests \in Nat

VARIABLES
    pool,        (* the loops and threads of this deployment, fixed        *)
    token,       (* every token ever issued, with the state of its row     *)
    ticket,      (* every reset ticket, with the state of its row          *)
    password,    (* how often the password of a user was replaced          *)
    task,        (* the request a loop or thread is working on, or None    *)
    lastReset,   (* password[u] right after its last reset                 *)
    served       (* number of requests begun                               *)

vars == <<pool, token, ticket, password, task, lastReset, served>>
tables == <<token, ticket, password, lastReset>>

Actor == Loop \cup Thread

(* "spent" is a row that is revoked, used or past its expiry: it is looked *)
(* up in vain from then on.                                                *)
RowState == {"valid", "spent", "deleted"}

(* Every request issues at most two tokens and one ticket and replaces at  *)
(* most one password.                                                      *)
TokenNo == 1 .. 2 * MaxRequests
TicketNo == 1 .. MaxRequests
Version == 0 .. MaxRequests

(* `id' is the claim of that name and the column user_id; `parent' the     *)
(* refresh token it was exchanged for, 0 after a login; `auth' the         *)
(* password of that login; `held' whether an answer has brought it to the  *)
(* client.                                                                 *)
TokenRow == [kind : {"access", "refresh"}, user : User, id : User \cup {None},
             state : RowState, held : BOOLEAN, parent : TokenNo \cup {0}, auth : Version]
TicketRow == [user : User, state : RowState, uses : Version]

(* `arg' is the token or ticket of the request, `access' the access token  *)
(* it has made, `seen' the tickets its DELETE has found.                   *)
Task == [op : {"login", "form", "refresh", "logout", "change", "request", "reset"},
         user : User, id : User \cup {None}, arg : TokenNo \cup {0}, auth : Version,
         todo : {"revoke", "reload", "access", "refresh", "delete", "load",
                 "commit", "blind"},
         access : TokenNo \cup {0}, seen : SUBSET TicketNo]

Idle(w) == w \in pool /\ task[w] = None
At(w, todo) == task[w] # None /\ task[w].todo = todo
Starts(w, t) ==
    /\ Idle(w) /\ served < MaxRequests
    /\ task' = [task EXCEPT ![w] = t]
    /\ served' = served + 1
    /\ UNCHANGED <<pool, tables>>
Request(op, u, todo) ==
    [op |-> op, user |-> u, id |-> u, arg |-> 0, auth |-> 0, todo |-> todo,
     access |-> 0, seen |-> {}]
Goes(w, todo) == task' = [task EXCEPT ![w].todo = todo]
Done(w) == task' = [task EXCEPT ![w] = None]

-----------------------------------------------------------------------------
Init ==
    /\ pool \in {p \in SUBSET Actor : p \cap Loop # {}}
    /\ token = <<>> /\ ticket = <<>>
    /\ password = [u \in User |-> 0]
    /\ task = [w \in Actor |-> None]
    /\ lastReset = [u \in User |-> 0]
    /\ served = 0

(* POST /login in a thread, POST /login/oauth2form in a loop: the password *)
(* is right and the account active.  Only the second puts the claim "id"   *)
(* into the refresh token.                                                 *)
Login(w, u) ==
    Starts(w, [Request(IF w \in Thread THEN "login" ELSE "form", u, "access")
                 EXCEPT !.auth = password[u]])

(* A new token with its row.                                               *)
Issued(kind, id, t) ==
    [kind |-> kind, user |-> t.user, id |-> id, state |-> "valid",
     held |-> kind = "refresh", auth |-> t.auth,
     parent |-> IF t.op = "refresh" THEN t.arg ELSE 0]

(* create_access_token.                                                    *)
IssueAccess(w) ==
    /\ At(w, "access")
    /\ token' = Append(token, Issued("access", task[w].id, task[w]))
    /\ task' = [task EXCEPT ![w].todo = "refresh", ![w].access = Len(token) + 1]
    /\ UNCHANGED <<pool, ticket, password, lastReset, served>>

(* Bug: no user at all becomes the empty string.                           *)
RefreshIdEmpty(t) == IF t.op = "login" THEN "" ELSE t.id
(* The column user_id of a refresh token: create_refresh_token reads       *)
(* data["id"], and /login passes "user_id" instead.                        *)
RefreshId(t) == IF t.op = "login" THEN None ELSE t.id

(* create_refresh_token, and the answer with both tokens.                  *)
IssueRefresh(w) ==
    /\ At(w, "refresh")
    /\ token' = Append([token EXCEPT ![task[w].access].held = TRUE],
                       Issued("refresh", RefreshId(task[w]), task[w]))
    /\ Done(w)
    /\ UNCHANGED <<pool, ticket, password, lastReset, served>>

-----------------------------------------------------------------------------
(* Bug: the lookup forgets `revoked == False' and the expiry.              *)
KnownToken(row) == row.state # "deleted"
(* The row of a token is there, not revoked and not past its expiry.       *)
LiveToken(row) == row.state = "valid"

(* POST /refresh: the token is a refresh token with a live row.            *)
Refresh(w, i) ==
    /\ w \in Loop
    /\ token[i].held /\ token[i].kind = "refresh" /\ LiveToken(token[i])
    /\ Starts(w, [Request("refresh", token[i].user, "revoke")
                    EXCEPT !.id = token[i].id, !.arg = i, !.auth = token[i].auth])

(* Bug: the rows of the subject, not of the claim "id".                    *)
SameSubject(row, t) == row.id = t.user
(* The rows with the user_id of the request; a missing claim selects the   *)
(* rows of all users that have none.                                       *)
SameOwner(row, t) == row.id = t.id

(* UPDATE usertokens SET revoked = true.                                   *)
Revoke(w) ==
    /\ At(w, "revoke")
    /\ token' = [i \in DOMAIN token |->
                    IF SameOwner(token[i], task[w]) /\ token[i].state = "valid"
                    THEN [token[i] EXCEPT !.state = "spent"] ELSE token[i]]
    /\ Goes(w, "reload")
    /\ UNCHANGED <<pool, ticket, password, lastReset, served>>

(* The commit has expired the loaded row, so reading token_record.exp      *)
(* queries it again; if it is gone the request fails (see Abandon).        *)
Reload(w) ==
    /\ At(w, "reload") /\ token[task[w].arg].state # "deleted"
    /\ Goes(w, "access")
    /\ UNCHANGED <<pool, token, ticket, password, lastReset, served>>

(* POST /logout: with a live access token that names a user.               *)
Logout(w, i) ==
    /\ w \in Loop
    /\ token[i].held /\ token[i].kind = "access" /\ LiveToken(token[i])
    /\ token[i].id # None
    /\ Starts(w, Request("logout", token[i].id, "delete"))

(* Bug: only the access tokens go.                                         *)
AccessOf(row, u) == row.id = u /\ row.kind = "access"
(* DELETE FROM usertokens WHERE user_id = u.                               *)
RowsOf(row, u) == row.id = u

Deleted(u) == [i \in DOMAIN token |-> IF RowsOf(token[i], u)
                                     THEN [token[i] EXCEPT !.state = "deleted"]
                                     ELSE token[i]]

(* revoke_tokens.                                                          *)
RevokeTokens(w) ==
    /\ At(w, "delete")
    /\ token' = Deleted(task[w].id)
    /\ Done(w)
    /\ UNCHANGED <<pool, ticket, password, lastReset, served>>

-----------------------------------------------------------------------------
Replaced(u) == password' = [password EXCEPT ![u] = @ + 1]

(* POST /change-password: the old password is verified (by the row that    *)
(* get_current_user loaded in a thread), then replaced.  Tokens stay as    *)
(* they are.                                                               *)
ChangePassword(w, u) == w \in Loop /\ Starts(w, Request("change", u, "commit"))

CommitChange(w) ==
    /\ At(w, "commit") /\ task[w].op = "change"
    /\ Replaced(task[w].user)
    /\ Done(w)
    /\ UNCHANGED <<pool, token, ticket, lastReset, served>>

(* Bug: older tickets stay.                                                *)
NoTicket(u) == {}
(* The tickets the DELETE of create_password_reset_token finds.            *)
TicketsOf(u) == {k \in DOMAIN ticket : ticket[k].user = u /\ ticket[k].state # "deleted"}

(* POST /request-password-reset: the DELETE and the INSERT are one         *)
(* transaction, but of two such transactions neither sees the other's row. *)
RequestReset(w, u) ==
    /\ w \in Loop
    /\ Starts(w, [Request("request", u, "commit") EXCEPT !.seen = TicketsOf(u)])

CommitRequest(w) ==
    /\ At(w, "commit") /\ task[w].op = "request"
    /\ ticket' = Append([k \in DOMAIN ticket |->
                            IF k \in task[w].seen THEN [ticket[k] EXCEPT !.state = "deleted"]
                            ELSE ticket[k]],
                        [user |-> task[w].user, state |-> "valid", uses |-> 0])
    /\ Done(w)
    /\ UNCHANGED <<pool, token, password, lastReset, served>>

(* Bug: a used ticket is accepted.                                         *)
KnownTicket(row) == row.state # "deleted"
(* validate_reset_token.                                                   *)
LiveTicket(row) == row.state = "valid"

(* POST /password-reset.                                                   *)
ResetPassword(w, k) ==
    /\ w \in Loop
    /\ LiveTicket(ticket[k])
    /\ Starts(w, [Request("reset", ticket[k].user, "load") EXCEPT !.arg = k])

(* The ticket is queried again, to set is_used.  If it is gone or already  *)
(* marked there will be nothing to write to it.                            *)
LoadTicket(w) ==
    /\ At(w, "load")
    /\ LET row == ticket[task[w].arg] IN
       Goes(w, IF row.state = "deleted" \/ row.uses > 0 THEN "blind" ELSE "commit")
    /\ UNCHANGED <<pool, token, ticket, password, lastReset, served>>

(* Bug: the ticket is not marked.                                          *)
Unmarked(row) == [row EXCEPT !.uses = @ + 1]
(* A ticket after the reset that loaded it.                                *)
Used(row) == [row EXCEPT !.state = "spent", !.uses = @ + 1]

(* revoke_tokens_byid commits password, mark and deletion together.  An    *)
(* UPDATE of a ticket that is no longer there fails, and all with it.      *)
CommitReset(w) ==
    /\ task[w] # None /\ task[w].op = "reset"
    /\ LET k == task[w].arg
           u == task[w].user IN
       /\ \/ At(w, "commit") /\ ticket[k].state # "deleted"
             /\ ticket' = [ticket EXCEPT ![k] = Used(@)]
          \/ At(w, "blind")
             /\ ticket' = [ticket EXCEPT ![k].uses = @ + 1]
       /\ Replaced(u)
       /\ lastReset' = [lastReset EXCEPT ![u] = password'[u]]
       /\ token' = Deleted(u)
    /\ Done(w)
    /\ UNCHANGED <<pool, served>>

-----------------------------------------------------------------------------
(* The request fails or its process dies before the next commit.           *)
Abandon(w) ==
    /\ task[w] # None
    /\ Done(w)
    /\ UNCHANGED <<pool, token, ticket, password, lastReset, served>>

Expire ==
    /\ \/ /\ \E i \in DOMAIN token : /\ token[i].state = "valid"
                                     /\ token' = [token EXCEPT ![i].state = "spent"]
          /\ UNCHANGED ticket
       \/ /\ \E k \in DOMAIN ticket : /\ ticket[k].state = "valid"
                                      /\ ticket' = [ticket EXCEPT ![k].state = "spent"]
          /\ UNCHANGED token
    /\ UNCHANGED <<pool, password, task, lastReset, served>>

Next ==
    \/ \E w \in Actor :
         \/ \E u \in User : \/ Login(w, u) \/ ChangePassword(w, u) \/ RequestReset(w, u)
         \/ \E i \in DOMAIN token : Refresh(w, i) \/ Logout(w, i)
         \/ \E k \in DOMAIN ticket : ResetPassword(w, k)
         \/ IssueAccess(w) \/ IssueRefresh(w)
         \/ Revoke(w) \/ Reload(w) \/ RevokeTokens(w)
         \/ CommitChange(w) \/ CommitRequest(w)
         \/ LoadTicket(w) \/ CommitReset(w)
         \/ Abandon(w)
    \/ Expire

Spec == Init /\ [][Next]_vars

-----------------------------------------------------------------------------
(* Every variable has its type.                                            *)
TypeOK ==
    /\ pool \in SUBSET Actor
    /\ token \in Seq(TokenRow) /\ DOMAIN token \subseteq TokenNo
    /\ ticket \in Seq(TicketRow) /\ DOMAIN ticket \subseteq TicketNo
    /\ password \in [User -> Version]
    /\ task \in [Actor -> Task \cup {None}]
    /\ lastReset \in [User -> Version]
    /\ served \in 0 .. MaxRequests

OneLoop == \E w \in Loop : pool \cap Loop = {w}

(* However many processes run, a refresh token that was exchanged for new  *)
(* tokens is never accepted again, also one whose row names no user.       *)
ExchangedIsSpent ==
    \A i \in DOMAIN token :
        token[i].parent # 0 => token[token[i].parent].state # "valid"

(* In one server process, next to any number of logins, a refresh token is *)
(* exchanged at most once.                                                 *)
SerialSingleUse ==
    OneLoop => \A i, j \in DOMAIN token :
                   /\ token[i].parent = token[j].parent /\ token[i].parent # 0
                   /\ token[i].kind = token[j].kind
                   => i = j

(* However many processes run, a ticket that has changed a password is     *)
(* never accepted again.                                                   *)
UsedTicketIsSpent ==
    \A k \in DOMAIN ticket : ticket[k].uses > 0 => ticket[k].state # "valid"

(* In one server process a user has at most one live ticket, and a ticket  *)
(* changes the password at most once.                                      *)
SerialTickets ==
    OneLoop => /\ \A k \in DOMAIN ticket : ticket[k].uses <= 1
               /\ \A k, l \in DOMAIN ticket :
                    /\ ticket[k].user = ticket[l].user
                    /\ ticket[k].state = "valid" /\ ticket[l].state = "valid"
                    => k = l

(* "Password reset successfully. Please login with your new password"      *)
(* (auth.py:363): in one server process that serves no /login, a reset     *)
(* ends every session that names its user.  What is valid afterwards goes  *)
(* back, through any number of exchanges, to a login with a password that  *)
(* is not older than the last reset.                                       *)
SerialResetEnds ==
    OneLoop /\ pool \cap Thread = {} =>
        \A i \in DOMAIN token :
            token[i].state = "valid" /\ token[i].id # None
                => token[i].auth >= lastReset[token[i].id]

=============================================================================
