--------------------------- MODULE Sessions_proofs ---------------------------
(***************************************************************************)
(* Proofs about Sessions for any number of users, event loops, threads and *)
(* requests.  Types takes any natural number; that the numbers of tokens,  *)
(* tickets and passwords stay in their ranges is counted at the end.       *)
(***************************************************************************)
EXTENDS Sessions, SequenceTheorems, FiniteSetTheorems, TLAPS

Row == [kind : {"access", "refresh"}, user : User, id : User \cup {None},
        state : RowState, held : BOOLEAN, parent : Nat, auth : Nat]
Reset == [user : User, state : RowState, uses : Nat]
AnyTask == [op : {"login", "form", "refresh", "logout", "change", "request", "reset"},
            user : User, id : User \cup {None}, arg : Nat, auth : Nat,
            todo : {"revoke", "reload", "access", "refresh", "delete", "load",
                    "commit", "blind"},
            access : Nat, seen : SUBSET Nat]

Types ==
    /\ token \in Seq(Row) /\ ticket \in Seq(Reset)
    /\ password \in [User -> Nat]
    /\ task \in [Actor -> AnyTask \cup {None}]

(* A token that is being exchanged names the owner whose tokens are        *)
(* revoked, and once they are it is not valid.                             *)
Exchanges(t) ==
    t.op = "refresh" =>
      /\ t.arg \in DOMAIN token /\ token[t.arg].id = t.id
      /\ t.todo \in {"reload", "access", "refresh"} => token[t.arg].state # "valid"
(* A ticket that is not going to be marked is not valid.                   *)
Resets(t) ==
    t.op = "reset" =>
      /\ t.arg \in DOMAIN ticket
      /\ t.todo = "blind" => ticket[t.arg].state # "valid"

Tasks == \A w \in Actor : task[w] # None => Exchanges(task[w]) /\ Resets(task[w])

Exchanged ==
    \A i \in DOMAIN token : token[i].parent # 0 =>
        token[i].parent \in DOMAIN token /\ token[token[i].parent].state # "valid"

IInv == Types /\ Tasks /\ Exchanged /\ UsedTicketIsSpent

-----------------------------------------------------------------------------
(* Sequences                                                               *)

LEMMA RowsOfSeq ==
    ASSUME NEW S, NEW s \in Seq(S)
    PROVE  /\ Len(s) \in Nat /\ DOMAIN s = 1 .. Len(s)
           /\ \A i \in DOMAIN s : s[i] \in S
BY LenProperties

LEMMA SeqOfRows ==
    ASSUME NEW S, NEW n \in Nat, NEW f \in [1 .. n -> S]
    PROVE  f \in Seq(S)
OBVIOUS

LEMMA Appended ==
    ASSUME NEW S, NEW s \in Seq(S), NEW e \in S
    PROVE  LET a == Append(s, e) IN
           /\ a \in Seq(S) /\ Len(a) = Len(s) + 1
           /\ DOMAIN a = 1 .. Len(s) + 1 /\ DOMAIN s \subseteq DOMAIN a
           /\ \A i \in DOMAIN s : a[i] = s[i]
           /\ a[Len(s) + 1] = e
           /\ \A i \in DOMAIN a : i \in DOMAIN s \/ i = Len(s) + 1
<1>1. Len(s) \in Nat /\ DOMAIN s = 1 .. Len(s) BY LenProperties
<1> QED BY <1>1

-----------------------------------------------------------------------------
(* What every step does to the tables: rows keep their owner and parent,   *)
(* and what is not valid stays so.                                         *)
Keeps ==
    /\ DOMAIN token \subseteq DOMAIN token'
    /\ \A i \in DOMAIN token :
         /\ token'[i].id = token[i].id /\ token'[i].parent = token[i].parent
         /\ token[i].state # "valid" => token'[i].state # "valid"
    /\ DOMAIN ticket \subseteq DOMAIN ticket'
    /\ \A k \in DOMAIN ticket : ticket[k].state # "valid" => ticket'[k].state # "valid"

LEMMA InitInv == Init => IInv
<1> SUFFICES ASSUME Init PROVE IInv OBVIOUS
<1>1. Types BY EmptySeq DEF Init, Types
<1>2. DOMAIN token = {} /\ DOMAIN ticket = {} BY DEF Init
<1> QED BY <1>1, <1>2 DEF Init, IInv, Tasks, Exchanged, UsedTicketIsSpent

LEMMA TableStep ==
    ASSUME IInv, Types', Keeps, Exchanged', UsedTicketIsSpent',
           NEW w \in Actor, \A x \in Actor \ {w} : task'[x] = task[x],
           task'[w] # None => (Exchanges(task[w]) /\ Resets(task[w]))'
    PROVE  IInv'
<1>1. ASSUME NEW x \in Actor, x # w, task'[x] # None
      PROVE  (Exchanges(task[x]) /\ Resets(task[x]))'
  <2>1. task'[x] = task[x] /\ Exchanges(task[x]) /\ Resets(task[x])
    BY <1>1 DEF IInv, Tasks
  <2> QED BY <2>1 DEF Exchanges, Resets, Keeps
<1>2. Tasks' BY <1>1 DEF Tasks
<1> QED BY <1>2 DEF IInv

(* A request begins, goes on or ends without changing a table.             *)
LEMMA QuietStep ==
    ASSUME IInv, UNCHANGED tables, NEW w \in Actor, NEW t \in AnyTask \cup {None},
           task' = [task EXCEPT ![w] = t], t # None => Exchanges(t) /\ Resets(t)
    PROVE  IInv'
<1> USE DEF tables
<1>1. Types' BY DEF IInv, Types
<1>2. Keeps BY DEF Keeps
<1>3. Exchanged' /\ UsedTicketIsSpent' BY DEF IInv, Exchanged, UsedTicketIsSpent
<1>4. task'[w] = t /\ \A x \in Actor \ {w} : task'[x] = task[x] BY DEF IInv, Types
<1>5. task'[w] # None => (Exchanges(task[w]) /\ Resets(task[w]))'
  BY <1>4 DEF Exchanges, Resets
<1> QED BY <1>1, <1>2, <1>3, <1>4, <1>5, TableStep

(* Rows of tokens and tickets that change their state, to one that is not  *)
(* valid, or nothing that matters here.                                    *)
MarksTokens ==
    /\ DOMAIN token' = DOMAIN token /\ token' = [i \in DOMAIN token |-> token'[i]]
    /\ \A i \in DOMAIN token : \/ token'[i] = token[i]
                               \/ \E st \in RowState \ {"valid"} :
                                    token'[i] = [token[i] EXCEPT !.state = st]

LEMMA MarkedTokens ==
    ASSUME IInv, MarksTokens
    PROVE  /\ token' \in Seq(Row) /\ DOMAIN token' = DOMAIN token
           /\ \A i \in DOMAIN token :
                /\ token'[i].id = token[i].id /\ token'[i].parent = token[i].parent
                /\ token[i].state # "valid" => token'[i].state # "valid"
           /\ Exchanged'
<1>1. /\ Len(token) \in Nat /\ DOMAIN token = 1 .. Len(token)
      /\ \A i \in DOMAIN token : token[i] \in Row
  BY RowsOfSeq DEF IInv, Types
<1>2. \A i \in DOMAIN token :
        /\ token'[i] \in Row
        /\ token'[i].id = token[i].id /\ token'[i].parent = token[i].parent
        /\ token[i].state # "valid" => token'[i].state # "valid"
  <2> SUFFICES ASSUME NEW i \in DOMAIN token
               PROVE  /\ token'[i] \in Row
                      /\ token'[i].id = token[i].id /\ token'[i].parent = token[i].parent
                      /\ token[i].state # "valid" => token'[i].state # "valid"
    OBVIOUS
  <2>1. token[i] \in Row BY <1>1
  <2>2. CASE token'[i] = token[i] BY <2>1, <2>2
  <2>3. ASSUME NEW st \in RowState \ {"valid"}, token'[i] = [token[i] EXCEPT !.state = st]
        PROVE  /\ token'[i] \in Row
               /\ token'[i].id = token[i].id /\ token'[i].parent = token[i].parent
               /\ token'[i].state # "valid"
    BY <2>1, <2>3 DEF Row
  <2> QED BY <2>2, <2>3 DEF MarksTokens
<1>3. token' \in [1 .. Len(token) -> Row] BY <1>1, <1>2 DEF MarksTokens
<1>4. token' \in Seq(Row) BY <1>1, <1>3, SeqOfRows
<1>5. Exchanged' BY <1>2 DEF IInv, Exchanged, MarksTokens
<1> QED BY <1>2, <1>4, <1>5 DEF MarksTokens

LEMMA MarkStep ==
    ASSUME IInv, MarksTokens, UNCHANGED <<ticket, password>>,
           NEW w \in Actor, NEW t \in AnyTask \cup {None}, task' = [task EXCEPT ![w] = t],
           t # None => (t.op = "refresh" => /\ t.arg \in DOMAIN token
                                            /\ token[t.arg].id = t.id
                                            /\ t.todo \in {"reload", "access", "refresh"} =>
                                                 token'[t.arg].state # "valid")
                       /\ Resets(t)
    PROVE  IInv'
<1>1. Types' BY MarkedTokens DEF IInv, Types
<1>2. Keeps BY MarkedTokens DEF Keeps
<1>3. UsedTicketIsSpent' BY DEF IInv, UsedTicketIsSpent
<1>4. task'[w] = t /\ \A x \in Actor \ {w} : task'[x] = task[x] BY DEF IInv, Types
<1>5. task'[w] # None => (Exchanges(task[w]) /\ Resets(task[w]))'
  BY <1>4, MarkedTokens DEF Exchanges, Resets
<1> QED BY <1>1, <1>2, <1>3, <1>4, <1>5, TableStep, MarkedTokens

-----------------------------------------------------------------------------
(* Requests that begin                                                     *)

LEMMA Begins ==
    ASSUME IInv, NEW w \in Actor, NEW t \in AnyTask, Starts(w, t), Exchanges(t), Resets(t)
    PROVE  IInv'
BY QuietStep DEF Starts

LEMMA FreshTask ==
    ASSUME NEW u \in User,
           NEW op \in {"login", "form", "refresh", "logout", "change", "request", "reset"},
           NEW todo \in {"revoke", "reload", "access", "refresh", "delete", "load",
                         "commit", "blind"}
    PROVE  /\ Request(op, u, todo) \in AnyTask
           /\ Request(op, u, todo).op = op
BY DEF Request, AnyTask

LEMMA LoginStep ==
    ASSUME IInv, NEW w \in Actor, NEW u \in User, Login(w, u)
    PROVE  IInv'
<1> DEFINE op == IF w \in Thread THEN "login" ELSE "form"
           r == Request(op, u, "access")
           t == [r EXCEPT !.auth = password[u]]
<1>0. op = "login" \/ op = "form" OBVIOUS
<1> HIDE DEF op
<1>1. r \in AnyTask /\ r.op = op BY <1>0 DEF Request, AnyTask
<1>2. password[u] \in Nat BY DEF IInv, Types
<1> HIDE DEF r
<1>3. t \in AnyTask /\ t.op = op BY <1>1, <1>2 DEF AnyTask
<1>4. Exchanges(t) /\ Resets(t) BY <1>0, <1>3 DEF Exchanges, Resets
<1>5. Starts(w, t) BY DEF Login, r, op
<1> QED BY <1>3, <1>4, <1>5, Begins

LEMMA ChangePasswordStep ==
    ASSUME IInv, NEW w \in Actor, NEW u \in User, ChangePassword(w, u)
    PROVE  IInv'
<1> DEFINE t == Request("change", u, "commit")
<1>1. t \in AnyTask /\ t.op = "change" BY FreshTask
<1>2. Exchanges(t) /\ Resets(t) BY <1>1 DEF Exchanges, Resets
<1> QED BY <1>1, <1>2, Begins DEF ChangePassword

LEMMA RequestResetStep ==
    ASSUME IInv, NEW w \in Actor, NEW u \in User, RequestReset(w, u)
    PROVE  IInv'
<1> DEFINE r == Request("request", u, "commit")
           t == [r EXCEPT !.seen = TicketsOf(u)]
<1>1. r \in AnyTask /\ r.op = "request" BY FreshTask
<1>2. TicketsOf(u) \in SUBSET Nat
  BY RowsOfSeq DEF TicketsOf, IInv, Types
<1> HIDE DEF r
<1>3. t \in AnyTask /\ t.op = "request" BY <1>1, <1>2 DEF AnyTask
<1>4. Exchanges(t) /\ Resets(t) BY <1>3 DEF Exchanges, Resets
<1>5. Starts(w, t) BY DEF RequestReset, r
<1> QED BY <1>3, <1>4, <1>5, Begins

LEMMA RefreshStep ==
    ASSUME IInv, NEW w \in Actor, NEW i \in DOMAIN token, Refresh(w, i)
    PROVE  IInv'
<1> DEFINE r == Request("refresh", token[i].user, "revoke")
           t == [r EXCEPT !.id = token[i].id, !.arg = i, !.auth = token[i].auth]
<1>1. i \in Nat /\ token[i] \in Row BY RowsOfSeq DEF IInv, Types
<1>2. token[i].user \in User /\ token[i].id \in User \cup {None} /\ token[i].auth \in Nat
  BY <1>1 DEF Row
<1>3. r \in AnyTask /\ r.op = "refresh" /\ r.todo = "revoke"
  <2>1. r \in AnyTask BY <1>2, FreshTask
  <2> QED BY <2>1 DEF Request
<1> HIDE DEF r
<1>4. t \in AnyTask /\ t.op = "refresh" /\ t.todo = "revoke" /\ t.arg = i /\ t.id = token[i].id
  BY <1>1, <1>2, <1>3 DEF AnyTask
<1>5. Exchanges(t) /\ Resets(t) BY <1>4 DEF Exchanges, Resets
<1>6. Starts(w, t) BY DEF Refresh, r
<1> QED BY <1>4, <1>5, <1>6, Begins

LEMMA LogoutStep ==
    ASSUME IInv, NEW w \in Actor, NEW i \in DOMAIN token, Logout(w, i)
    PROVE  IInv'
<1> DEFINE t == Request("logout", token[i].id, "delete")
<1>1. token[i] \in Row BY RowsOfSeq DEF IInv, Types
<1>2. token[i].id \in User BY <1>1 DEF Row, Logout
<1>3. t \in AnyTask /\ t.op = "logout" BY <1>2, FreshTask
<1>4. Exchanges(t) /\ Resets(t) BY <1>3 DEF Exchanges, Resets
<1> QED BY <1>3, <1>4, Begins DEF Logout

LEMMA ResetPasswordStep ==
    ASSUME IInv, NEW w \in Actor, NEW k \in DOMAIN ticket, ResetPassword(w, k)
    PROVE  IInv'
<1> DEFINE r == Request("reset", ticket[k].user, "load")
           t == [r EXCEPT !.arg = k]
<1>1. k \in Nat /\ ticket[k] \in Reset BY RowsOfSeq DEF IInv, Types
<1>2. ticket[k].user \in User BY <1>1 DEF Reset
<1>3. r \in AnyTask /\ r.op = "reset" /\ r.todo = "load" BY <1>2, FreshTask DEF Request
<1> HIDE DEF r
<1>4. t \in AnyTask /\ t.op = "reset" /\ t.todo = "load" /\ t.arg = k
  BY <1>1, <1>3 DEF AnyTask
<1>5. Exchanges(t) /\ Resets(t) BY <1>4 DEF Exchanges, Resets
<1>6. Starts(w, t) BY DEF ResetPassword, r
<1> QED BY <1>4, <1>5, <1>6, Begins

-----------------------------------------------------------------------------
(* Requests that issue tokens                                              *)

LEMMA IssuedRow ==
    ASSUME NEW t \in AnyTask, NEW kind \in {"access", "refresh"}, NEW id \in User \cup {None}
    PROVE  /\ Issued(kind, id, t) \in Row
           /\ Issued(kind, id, t).parent = IF t.op = "refresh" THEN t.arg ELSE 0
<1> DEFINE parent == IF t.op = "refresh" THEN t.arg ELSE 0
<1>1. t.user \in User /\ t.auth \in Nat /\ parent \in Nat BY DEF AnyTask
<1>2. (kind = "refresh") \in BOOLEAN OBVIOUS
<1> HIDE DEF parent
<1>3. Issued(kind, id, t) =
        [kind |-> kind, user |-> t.user, id |-> id, state |-> "valid",
         held |-> kind = "refresh", auth |-> t.auth, parent |-> parent]
  BY DEF Issued, parent
<1>4. Issued(kind, id, t) \in Row BY <1>1, <1>2, <1>3 DEF Row, RowState
<1>5. Issued(kind, id, t).parent = parent BY <1>3
<1> QED BY <1>4, <1>5 DEF parent

(* A row is added to tokens that are as before, but for `held'.            *)
LEMMA IssueStep ==
    ASSUME IInv, NEW tok \in Seq(Row), Len(tok) = Len(token),
           \A i \in DOMAIN token : /\ tok[i].id = token[i].id
                                   /\ tok[i].parent = token[i].parent
                                   /\ tok[i].state = token[i].state,
           NEW row \in Row, row.parent # 0 => /\ row.parent \in DOMAIN token
                                              /\ token[row.parent].state # "valid",
           token' = Append(tok, row), UNCHANGED <<ticket, password>>,
           NEW w \in Actor, NEW t \in AnyTask \cup {None}, task' = [task EXCEPT ![w] = t],
           t # None => Exchanges(t) /\ Resets(t)
    PROVE  IInv'
<1>1. Len(token) \in Nat /\ DOMAIN token = 1 .. Len(token) /\ DOMAIN tok = DOMAIN token
  BY RowsOfSeq DEF IInv, Types
<1>2. /\ token' \in Seq(Row) /\ DOMAIN token \subseteq DOMAIN token'
      /\ \A i \in DOMAIN token : token'[i] = tok[i]
      /\ \A i \in DOMAIN token' : i \in DOMAIN token \/ token'[i] = row
  BY <1>1, Appended
<1>3. Types' BY <1>2 DEF IInv, Types
<1>4. Keeps BY <1>2 DEF Keeps
<1>5. Exchanged'
  <2> SUFFICES ASSUME NEW i \in DOMAIN token', token'[i].parent # 0
               PROVE  /\ token'[i].parent \in DOMAIN token'
                      /\ token'[token'[i].parent].state # "valid"
    BY DEF Exchanged
  <2> DEFINE p == token'[i].parent
  <2>1. p \in DOMAIN token /\ token[p].state # "valid"
    <3>1. CASE i \in DOMAIN token
      <4>1. p = token[i].parent BY <1>2, <3>1
      <4> QED BY <3>1, <4>1 DEF IInv, Exchanged
    <3>2. CASE token'[i] = row BY <3>2
    <3> QED BY <1>2, <3>1, <3>2
  <2> QED BY <1>2, <2>1
<1>6. UsedTicketIsSpent' BY DEF IInv, UsedTicketIsSpent
<1>7. task'[w] = t /\ \A x \in Actor \ {w} : task'[x] = task[x] BY DEF IInv, Types
<1>8. task'[w] # None => (Exchanges(task[w]) /\ Resets(task[w]))'
  <2> SUFFICES ASSUME t # None PROVE (Exchanges(task[w]) /\ Resets(task[w]))'
    BY <1>7
  <2>1. \A i \in DOMAIN token : /\ i \in DOMAIN token' /\ token'[i].id = token[i].id
                                /\ token'[i].state = token[i].state
    BY <1>2
  <2>2. Exchanges(task[w])' BY <1>7, <2>1 DEF Exchanges
  <2>3. Resets(task[w])' BY <1>7 DEF Resets
  <2> QED BY <2>2, <2>3
<1> QED BY <1>3, <1>4, <1>5, <1>6, <1>7, <1>8, TableStep

LEMMA IssueAccessStep ==
    ASSUME IInv, NEW w \in Actor, IssueAccess(w)
    PROVE  IInv'
<1> USE DEF IssueAccess, At
<1> DEFINE row == Issued("access", task[w].id, task[w])
           t == [task[w] EXCEPT !.todo = "refresh", !.access = Len(token) + 1]
<1>1. /\ task[w] \in AnyTask /\ task[w].todo = "access"
      /\ Exchanges(task[w]) /\ Resets(task[w])
  BY DEF IInv, Types, Tasks
<1>2. row \in Row /\ row.parent = IF task[w].op = "refresh" THEN task[w].arg ELSE 0
  BY <1>1, IssuedRow DEF AnyTask
<1>3. row.parent # 0 => row.parent \in DOMAIN token /\ token[row.parent].state # "valid"
  BY <1>1, <1>2 DEF Exchanges
<1>4. Len(token) + 1 \in Nat /\ token \in Seq(Row) BY RowsOfSeq DEF IInv, Types
<1>5. /\ t \in AnyTask /\ t.todo = "refresh" /\ t.op = task[w].op /\ t.arg = task[w].arg
      /\ t.id = task[w].id
  BY <1>1, <1>4 DEF AnyTask
<1>6. Exchanges(t) /\ Resets(t) BY <1>1, <1>5 DEF Exchanges, Resets
<1>7. task' = [task EXCEPT ![w] = t] BY DEF IInv, Types
<1>8. token' = Append(token, row) /\ UNCHANGED <<ticket, password>> OBVIOUS
<1> HIDE DEF t, row
<1> QED BY <1>2, <1>3, <1>4, <1>5, <1>6, <1>7, <1>8, IssueStep

LEMMA IssueRefreshStep ==
    ASSUME IInv, NEW w \in Actor, IssueRefresh(w)
    PROVE  IInv'
<1> USE DEF IssueRefresh, At, Done
<1> DEFINE a == task[w].access
           tok == [token EXCEPT ![a].held = TRUE]
           row == Issued("refresh", RefreshId(task[w]), task[w])
<1>1. task[w] \in AnyTask /\ task[w].todo = "refresh" /\ Exchanges(task[w])
  BY DEF IInv, Types, Tasks
<1>2. RefreshId(task[w]) \in User \cup {None} BY <1>1 DEF RefreshId, AnyTask
<1>3. row \in Row /\ row.parent = IF task[w].op = "refresh" THEN task[w].arg ELSE 0
  BY <1>1, <1>2, IssuedRow
<1>4. row.parent # 0 => row.parent \in DOMAIN token /\ token[row.parent].state # "valid"
  BY <1>1, <1>3 DEF Exchanges
<1>5. /\ Len(token) \in Nat /\ DOMAIN token = 1 .. Len(token) /\ token \in Seq(Row)
      /\ \A i \in DOMAIN token : token[i] \in Row
  BY RowsOfSeq DEF IInv, Types
<1>6. \A i \in DOMAIN token : tok[i] = IF i = a THEN [token[i] EXCEPT !.held = TRUE] ELSE token[i]
  OBVIOUS
<1>7. \A i \in DOMAIN token : /\ tok[i] \in Row
                              /\ tok[i].id = token[i].id /\ tok[i].parent = token[i].parent
                              /\ tok[i].state = token[i].state
  BY <1>5, <1>6 DEF Row
<1>8. tok \in [1 .. Len(token) -> Row] BY <1>5, <1>7
<1>9. tok \in Seq(Row) BY <1>5, <1>8, SeqOfRows
<1>10. Len(tok) = Len(token) BY <1>5, <1>8, <1>9, RowsOfSeq
<1>11. token' = Append(tok, row) /\ UNCHANGED <<ticket, password>> OBVIOUS
<1>12. task' = [task EXCEPT ![w] = None] OBVIOUS
<1> HIDE DEF tok, row
<1> QED BY <1>3, <1>4, <1>7, <1>9, <1>10, <1>11, <1>12, IssueStep

-----------------------------------------------------------------------------
(* Requests that revoke or delete tokens, and the clock                    *)

LEMMA RevokeStep ==
    ASSUME IInv, NEW w \in Actor, Revoke(w)
    PROVE  IInv'
<1> USE DEF Revoke, At, Goes
<1> DEFINE t == [task[w] EXCEPT !.todo = "reload"]
<1>1. task[w] \in AnyTask /\ Exchanges(task[w]) /\ Resets(task[w])
        /\ task[w].todo = "revoke"
  BY DEF IInv, Types, Tasks
<1>2. /\ t \in AnyTask /\ t.todo = "reload" /\ t.op = task[w].op /\ t.arg = task[w].arg
      /\ t.id = task[w].id
  BY <1>1 DEF AnyTask
<1>3. MarksTokens
  <2>1. "spent" \in RowState \ {"valid"} BY DEF RowState
  <2> QED BY <2>1 DEF MarksTokens
<1>4. t.op = "refresh" => /\ t.arg \in DOMAIN token /\ token[t.arg].id = t.id
                          /\ token'[t.arg].state # "valid"
  <2> SUFFICES ASSUME t.op = "refresh"
               PROVE  /\ t.arg \in DOMAIN token /\ token[t.arg].id = t.id
                      /\ token'[t.arg].state # "valid"
    OBVIOUS
  <2>1. t.arg \in DOMAIN token /\ token[t.arg].id = t.id BY <1>1, <1>2 DEF Exchanges
  <2>2. token[t.arg] \in Row BY <2>1, RowsOfSeq DEF IInv, Types
  <2>3. CASE token[t.arg].state = "valid"
    <3>1. token'[t.arg] = [token[t.arg] EXCEPT !.state = "spent"]
      BY <1>2, <2>1, <2>3 DEF SameOwner
    <3> QED BY <2>1, <2>2, <3>1 DEF Row
  <2>4. CASE token[t.arg].state # "valid"
    <3>1. token'[t.arg] = token[t.arg] BY <2>1, <2>4
    <3> QED BY <2>1, <2>4, <3>1
  <2> QED BY <2>3, <2>4
<1>5. Resets(t) BY <1>1, <1>2 DEF Resets
<1>6. task' = [task EXCEPT ![w] = t] /\ UNCHANGED <<ticket, password>> BY DEF IInv, Types
<1> HIDE DEF t
<1> QED BY <1>2, <1>3, <1>4, <1>5, <1>6, MarkStep

LEMMA ReloadStep ==
    ASSUME IInv, NEW w \in Actor, Reload(w)
    PROVE  IInv'
<1> USE DEF Reload, At, Goes
<1> DEFINE t == [task[w] EXCEPT !.todo = "access"]
<1>1. task[w] \in AnyTask /\ Exchanges(task[w]) /\ Resets(task[w])
        /\ task[w].todo = "reload"
  BY DEF IInv, Types, Tasks
<1>2. /\ t \in AnyTask /\ t.todo = "access" /\ t.op = task[w].op /\ t.arg = task[w].arg
      /\ t.id = task[w].id
  BY <1>1 DEF AnyTask
<1>3. Exchanges(t) /\ Resets(t) BY <1>1, <1>2 DEF Exchanges, Resets
<1>4. task' = [task EXCEPT ![w] = t] /\ UNCHANGED tables BY DEF IInv, Types, tables
<1> HIDE DEF t
<1> QED BY <1>2, <1>3, <1>4, QuietStep

LEMMA DeletedMarks ==
    ASSUME NEW u, token' = Deleted(u)
    PROVE  MarksTokens
<1>1. "deleted" \in RowState \ {"valid"} BY DEF RowState
<1> QED BY <1>1 DEF Deleted, MarksTokens

LEMMA RevokeTokensStep ==
    ASSUME IInv, NEW w \in Actor, RevokeTokens(w)
    PROVE  IInv'
BY DeletedMarks, MarkStep DEF RevokeTokens, Done

LEMMA ExpireTokens ==
    ASSUME IInv, Expire, UNCHANGED ticket
    PROVE  IInv'
<1>1. MarksTokens
  <2>1. CASE UNCHANGED token
    <3>1. token = [i \in DOMAIN token |-> token[i]] BY RowsOfSeq DEF IInv, Types
    <3> QED BY <2>1, <3>1 DEF MarksTokens
  <2>2. ASSUME NEW j \in DOMAIN token, token' = [token EXCEPT ![j].state = "spent"]
        PROVE  MarksTokens
    <3>1. "spent" \in RowState \ {"valid"} BY DEF RowState
    <3> QED BY <2>2, <3>1 DEF MarksTokens
  <2> QED BY <2>1, <2>2 DEF Expire
<1>2. Types' BY <1>1, MarkedTokens DEF Expire, IInv, Types
<1>3. Keeps BY <1>1, MarkedTokens DEF Keeps
<1>4. UsedTicketIsSpent' BY DEF IInv, UsedTicketIsSpent
<1>5. Tasks' BY <1>3 DEF Expire, IInv, Tasks, Exchanges, Resets, Keeps
<1> QED BY <1>1, <1>2, <1>4, <1>5, MarkedTokens DEF IInv

-----------------------------------------------------------------------------
(* Requests about passwords and tickets                                    *)

LEMMA ReplacedType ==
    ASSUME IInv, NEW u \in User, Replaced(u)
    PROVE  password' \in [User -> Nat]
<1>1. password[u] + 1 \in Nat BY DEF IInv, Types
<1> QED BY <1>1 DEF Replaced, IInv, Types

(* A request ends that leaves tickets which are at most as valid as before *)
(* and tokens that are marked or as before.                                *)
LEMMA TicketStep ==
    ASSUME IInv, password' \in [User -> Nat], NEW w \in Actor, Done(w),
           UNCHANGED token \/ MarksTokens,
           ticket' \in Seq(Reset), DOMAIN ticket \subseteq DOMAIN ticket',
           \A k \in DOMAIN ticket : ticket[k].state # "valid" => ticket'[k].state # "valid",
           UsedTicketIsSpent'
    PROVE  IInv'
<1>1. /\ token' \in Seq(Row) /\ DOMAIN token' = DOMAIN token
      /\ \A i \in DOMAIN token :
           /\ token'[i].id = token[i].id /\ token'[i].parent = token[i].parent
           /\ token[i].state # "valid" => token'[i].state # "valid"
      /\ Exchanged'
  <2>1. CASE UNCHANGED token BY <2>1 DEF IInv, Types, Exchanged
  <2>2. CASE MarksTokens BY <2>2, MarkedTokens
  <2> QED BY <2>1, <2>2
<1>2. Types' BY <1>1 DEF Done, IInv, Types
<1>3. Keeps BY <1>1 DEF Keeps
<1>4. task'[w] = None /\ \A x \in Actor \ {w} : task'[x] = task[x] BY DEF Done, IInv, Types
<1> QED BY <1>1, <1>2, <1>3, <1>4, TableStep

LEMMA TicketsAsRows ==
    ASSUME IInv
    PROVE  /\ Len(ticket) \in Nat /\ DOMAIN ticket = 1 .. Len(ticket)
           /\ \A k \in DOMAIN ticket : ticket[k] \in Reset
           /\ \A k \in DOMAIN ticket : ticket[k].uses > 0 => ticket[k].state # "valid"
BY RowsOfSeq DEF IInv, Types, UsedTicketIsSpent

LEMMA CommitChangeStep ==
    ASSUME IInv, NEW w \in Actor, CommitChange(w)
    PROVE  IInv'
<1> USE DEF CommitChange, At
<1>1. task[w].user \in User BY DEF IInv, Types, AnyTask
<1>2. ticket' \in Seq(Reset) /\ UsedTicketIsSpent' BY DEF IInv, Types, UsedTicketIsSpent
<1> QED BY <1>1, <1>2, ReplacedType, TicketStep

LEMMA CommitRequestStep ==
    ASSUME IInv, NEW w \in Actor, CommitRequest(w)
    PROVE  IInv'
<1> USE DEF CommitRequest, At
<1> DEFINE rest == [k \in DOMAIN ticket |->
                      IF k \in task[w].seen THEN [ticket[k] EXCEPT !.state = "deleted"]
                      ELSE ticket[k]]
           row == [user |-> task[w].user, state |-> "valid", uses |-> 0]
<1>1. row \in Reset BY DEF IInv, Types, AnyTask, Reset, RowState
<1>2. \A k \in DOMAIN ticket :
        /\ rest[k] \in Reset
        /\ ticket[k].state # "valid" => rest[k].state # "valid"
        /\ rest[k].uses > 0 => rest[k].state # "valid"
  BY TicketsAsRows DEF Reset, RowState
<1>3. rest \in [1 .. Len(ticket) -> Reset] BY <1>2, TicketsAsRows
<1>4. rest \in Seq(Reset) /\ Len(rest) = Len(ticket)
  BY <1>3, SeqOfRows, TicketsAsRows, RowsOfSeq
<1>5. ticket' = Append(rest, row) /\ row.uses = 0 /\ DOMAIN rest = DOMAIN ticket OBVIOUS
<1> HIDE DEF rest, row
<1>6. /\ ticket' \in Seq(Reset) /\ DOMAIN ticket \subseteq DOMAIN ticket'
      /\ \A k \in DOMAIN ticket : ticket'[k] = rest[k]
      /\ \A k \in DOMAIN ticket' : k \in DOMAIN ticket \/ ticket'[k] = row
  <2>1. DOMAIN rest = 1 .. Len(rest) /\ Len(rest) \in Nat BY <1>4, RowsOfSeq
  <2>2. LET a == Append(rest, row) IN
        /\ a \in Seq(Reset) /\ DOMAIN rest \subseteq DOMAIN a
        /\ \A i \in DOMAIN rest : a[i] = rest[i]
        /\ \A i \in DOMAIN a : i \in DOMAIN rest \/ a[i] = row
    BY <1>1, <1>4, Appended
  <2> QED BY <2>2, <1>5
<1>7. UsedTicketIsSpent'
  <2> SUFFICES ASSUME NEW k \in DOMAIN ticket', ticket'[k].uses > 0
               PROVE  ticket'[k].state # "valid"
    BY DEF UsedTicketIsSpent
  <2>1. CASE k \in DOMAIN ticket BY <2>1, <1>2, <1>6
  <2>2. CASE ticket'[k] = row BY <2>2, <1>5
  <2> QED BY <1>6, <2>1, <2>2
<1>8. \A k \in DOMAIN ticket : ticket[k].state # "valid" => ticket'[k].state # "valid"
  BY <1>2, <1>6
<1>9. password' \in [User -> Nat] BY DEF IInv, Types
<1> QED BY <1>6, <1>7, <1>8, <1>9, TicketStep

LEMMA LoadTicketStep ==
    ASSUME IInv, NEW w \in Actor, LoadTicket(w)
    PROVE  IInv'
<1> USE DEF LoadTicket, At, Goes
<1> DEFINE row == ticket[task[w].arg]
           todo == IF row.state = "deleted" \/ row.uses > 0 THEN "blind" ELSE "commit"
           t == [task[w] EXCEPT !.todo = todo]
<1>1. task[w] \in AnyTask /\ Exchanges(task[w]) /\ Resets(task[w])
  BY DEF IInv, Types, Tasks
<1>2. todo \in {"blind", "commit"} OBVIOUS
<1>3. task[w].op = "reset" /\ todo = "blind" => row.state # "valid"
  BY <1>1, TicketsAsRows DEF Resets
<1> HIDE DEF todo
<1>4. t \in AnyTask /\ t.todo = todo /\ t.op = task[w].op /\ t.arg = task[w].arg
        /\ t.id = task[w].id
  BY <1>1, <1>2 DEF AnyTask
<1>5. Exchanges(t) BY <1>1, <1>2, <1>4 DEF Exchanges
<1>6. Resets(t) BY <1>1, <1>3, <1>4 DEF Resets
<1>7. task' = [task EXCEPT ![w] = t] /\ UNCHANGED tables
  BY DEF todo, IInv, Types, tables
<1> HIDE DEF t
<1> QED BY <1>4, <1>5, <1>6, <1>7, QuietStep

LEMMA UsedRow ==
    ASSUME NEW row \in Reset
    PROVE  /\ Used(row) \in Reset /\ Used(row).state # "valid"
           /\ [row EXCEPT !.uses = row.uses + 1] \in Reset
           /\ [row EXCEPT !.uses = row.uses + 1].state = row.state
<1>1. row.user \in User /\ row.state \in RowState /\ row.uses \in Nat
        /\ DOMAIN row = {"user", "state", "uses"}
  BY DEF Reset
<1>2. row.uses + 1 \in Nat /\ "spent" \in RowState BY <1>1 DEF RowState
<1>3. Used(row) \in Reset /\ Used(row).state # "valid" BY <1>1, <1>2 DEF Used, Reset
<1>4. /\ [row EXCEPT !.uses = row.uses + 1] \in Reset
      /\ [row EXCEPT !.uses = row.uses + 1].state = row.state
  BY <1>1, <1>2 DEF Reset
<1> QED BY <1>3, <1>4

LEMMA CommitResetStep ==
    ASSUME IInv, NEW w \in Actor, CommitReset(w)
    PROVE  IInv'
<1> USE DEF CommitReset, At
<1> DEFINE k == task[w].arg
<1>1. task[w] \in AnyTask /\ task[w].user \in User /\ Resets(task[w])
  BY DEF IInv, Types, Tasks, AnyTask
<1>2. k \in DOMAIN ticket BY <1>1 DEF Resets
<1>3. ticket[k] \in Reset BY <1>2, TicketsAsRows
<1>4. PICK row \in Reset : ticket' = [ticket EXCEPT ![k] = row] /\ row.state # "valid"
  <2>1. CASE ticket' = [ticket EXCEPT ![k] = Used(ticket[k])]
    <3>1. Used(ticket[k]) \in Reset /\ Used(ticket[k]).state # "valid" BY <1>3, UsedRow
    <3> QED BY <2>1, <3>1
  <2>2. CASE task[w].todo = "blind" /\ ticket' = [ticket EXCEPT ![k].uses = @ + 1]
    <3>1. ticket[k].state # "valid" BY <1>1, <2>2 DEF Resets
    <3> DEFINE row == [ticket[k] EXCEPT !.uses = ticket[k].uses + 1]
    <3>2. row \in Reset /\ row.state # "valid" BY <1>3, <3>1, UsedRow
    <3> QED BY <2>2, <3>2
  <2> QED BY <2>1, <2>2
<1>5. \A j \in DOMAIN ticket : ticket'[j] = IF j = k THEN row ELSE ticket[j] BY <1>4
<1>6. ticket' \in Seq(Reset) /\ DOMAIN ticket' = DOMAIN ticket
  BY <1>2, <1>4, TicketsAsRows, ExceptSeq DEF IInv, Types
<1>7. UsedTicketIsSpent' BY <1>4, <1>5, <1>6, TicketsAsRows DEF UsedTicketIsSpent
<1>8. \A j \in DOMAIN ticket : ticket[j].state # "valid" => ticket'[j].state # "valid"
  BY <1>4, <1>5
<1>9. password' \in [User -> Nat] BY <1>1, ReplacedType
<1>10. MarksTokens BY DeletedMarks
<1> QED BY <1>6, <1>7, <1>8, <1>9, <1>10, TicketStep

LEMMA ExpireTickets ==
    ASSUME IInv, NEW k \in DOMAIN ticket, ticket' = [ticket EXCEPT ![k].state = "spent"],
           UNCHANGED <<token, password, task>>
    PROVE  IInv'
<1>1. ticket[k] \in Reset BY TicketsAsRows
<1>2. [ticket[k] EXCEPT !.state = "spent"] \in Reset BY <1>1 DEF Reset, RowState
<1>3. ticket' \in Seq(Reset) /\ DOMAIN ticket' = DOMAIN ticket
  BY <1>2, TicketsAsRows, ExceptSeq DEF IInv, Types
<1>4. \A j \in DOMAIN ticket : ticket'[j].state \in {ticket[j].state, "spent"}
                              /\ ticket'[j].uses = ticket[j].uses
  BY TicketsAsRows DEF Reset
<1>5. UsedTicketIsSpent' BY <1>3, <1>4, TicketsAsRows DEF UsedTicketIsSpent
<1>6. Types' BY <1>3 DEF IInv, Types
<1>7. Exchanged' BY DEF IInv, Exchanged
<1>8. Tasks'
  <2> SUFFICES ASSUME NEW w \in Actor, task[w] # None
               PROVE  (Exchanges(task[w]) /\ Resets(task[w]))'
    BY DEF Tasks
  <2>1. Exchanges(task[w]) /\ Resets(task[w]) BY DEF IInv, Tasks
  <2>2. Exchanges(task[w])' BY <2>1 DEF Exchanges
  <2>3. Resets(task[w])'
    <3>1. \A j \in DOMAIN ticket : ticket[j].state # "valid" => ticket'[j].state # "valid"
      BY <1>4
    <3> QED BY <1>3, <2>1, <3>1 DEF Resets
  <2> QED BY <2>2, <2>3
<1> QED BY <1>5, <1>6, <1>7, <1>8 DEF IInv

LEMMA ExpireStep ==
    ASSUME IInv, Expire
    PROVE  IInv'
BY ExpireTokens, ExpireTickets DEF Expire

LEMMA AbandonStep ==
    ASSUME IInv, NEW w \in Actor, Abandon(w)
    PROVE  IInv'
BY QuietStep DEF Abandon, Done, tables

-----------------------------------------------------------------------------
LEMMA NextInv == IInv /\ [Next]_vars => IInv'
<1> SUFFICES ASSUME IInv, [Next]_vars PROVE IInv' OBVIOUS
<1>1. CASE UNCHANGED vars
  BY <1>1 DEF vars, IInv, Types, Tasks, Exchanges, Resets, Exchanged, UsedTicketIsSpent
<1>2. CASE Next
  BY <1>2, LoginStep, ChangePasswordStep, RequestResetStep, RefreshStep, LogoutStep,
     ResetPasswordStep, IssueAccessStep, IssueRefreshStep, RevokeStep, ReloadStep,
     RevokeTokensStep, CommitChangeStep, CommitRequestStep, LoadTicketStep, CommitResetStep,
     AbandonStep, ExpireStep DEF Next
<1> QED BY <1>1, <1>2

LEMMA Invariance == Spec => []IInv
BY InitInv, NextInv, PTL DEF Spec

(* With any number of processes and threads, a refresh token that was      *)
(* exchanged is not valid again, though its row may name no user.          *)
THEOREM SessionsExchanged == Spec => []ExchangedIsSpent
<1>1. IInv => ExchangedIsSpent BY DEF IInv, Exchanged, ExchangedIsSpent
<1> QED BY <1>1, Invariance, PTL

(* With any number of processes and threads, a ticket that has replaced a  *)
(* password is not valid again, however two resets with it overlap.        *)
THEOREM SessionsUsedTicket == Spec => []UsedTicketIsSpent
<1>1. IInv => UsedTicketIsSpent BY DEF IInv
<1> QED BY <1>1, Invariance, PTL

-----------------------------------------------------------------------------
(* With one event loop.  A request is of a deployed loop or thread.        *)
Placed(w, t) == w \in pool /\ (w \in Thread <=> t.op = "login")

(* What a request of the loop has read is so still: of a token that is     *)
(* being exchanged there is at most the new access token, the tickets of a *)
(* user who asks for one are those to be deleted, and the ticket of a      *)
(* reset has not been used.                                                *)
InTurn(t) ==
    /\ t.op = "refresh" =>
         /\ t.arg # 0
         /\ \A i \in DOMAIN token : token[i].parent = t.arg =>
               token[i].kind = "access" /\ t.todo = "refresh"
    /\ t.op = "request" =>
         \A k \in DOMAIN ticket :
            ticket[k].user = t.user /\ ticket[k].state # "deleted" => k \in t.seen
    /\ t.op = "reset" =>
         /\ t.todo \in {"load", "commit"} /\ t.arg \in DOMAIN ticket
         /\ ticket[t.arg].uses = 0 /\ ticket[t.arg].state # "deleted"

(* A request that is to issue tokens goes back to a login that is not      *)
(* older than the last reset.                                              *)
LoginStands(t) ==
    t.todo \in {"revoke", "reload", "access", "refresh"} /\ t.id # None
        => t.auth >= lastReset[t.id]

Alone == OneLoop /\ pool \cap Thread = {}
Ready(w, t) ==
    /\ Placed(w, t)
    /\ OneLoop /\ w \in Loop => InTurn(t)
    /\ Alone => LoginStands(t)

Serial ==
    /\ lastReset \in [User -> Nat] /\ \A u \in User : lastReset[u] <= password[u]
    /\ \A w \in Actor : task[w] # None => Ready(w, task[w])
    /\ SerialSingleUse /\ SerialTickets /\ SerialResetEnds

SameTokens ==
    /\ DOMAIN token' = DOMAIN token
    /\ \A i \in DOMAIN token :
         /\ token'[i].kind = token[i].kind /\ token'[i].parent = token[i].parent
         /\ token'[i].id = token[i].id /\ token'[i].auth = token[i].auth
         /\ token'[i].state = "valid" => token[i].state = "valid"
SameTickets ==
    /\ DOMAIN ticket' = DOMAIN ticket
    /\ \A k \in DOMAIN ticket :
         /\ ticket'[k].user = ticket[k].user /\ ticket'[k].uses = ticket[k].uses
         /\ ticket'[k].state = "valid" => ticket[k].state = "valid"
         /\ ticket'[k].state = "deleted" <=> ticket[k].state = "deleted"

LEMMA TokensSame ==
    ASSUME IInv, UNCHANGED token
    PROVE  SameTokens
BY DEF SameTokens

LEMMA TicketsSame ==
    ASSUME IInv, UNCHANGED ticket
    PROVE  SameTickets
BY DEF SameTickets

LEMMA MarksSame ==
    ASSUME IInv, MarksTokens
    PROVE  SameTokens
<1>1. \A i \in DOMAIN token : token[i] \in Row BY RowsOfSeq DEF IInv, Types
<1>2. ASSUME NEW i \in DOMAIN token
      PROVE  /\ token'[i].kind = token[i].kind /\ token'[i].parent = token[i].parent
             /\ token'[i].id = token[i].id /\ token'[i].auth = token[i].auth
             /\ token'[i].state = "valid" => token[i].state = "valid"
  <2>1. token[i] \in Row BY <1>1
  <2>2. CASE token'[i] = token[i] BY <2>2
  <2>3. ASSUME NEW st \in RowState \ {"valid"}, token'[i] = [token[i] EXCEPT !.state = st]
        PROVE  /\ token'[i].kind = token[i].kind /\ token'[i].parent = token[i].parent
               /\ token'[i].id = token[i].id /\ token'[i].auth = token[i].auth
               /\ token'[i].state # "valid"
    BY <2>1, <2>3 DEF Row
  <2> QED BY <2>2, <2>3 DEF MarksTokens
<1> QED BY <1>2 DEF SameTokens, MarksTokens

(* Nothing a request in progress goes by has changed.                      *)
LEMMA StaysReady ==
    ASSUME SameTokens, SameTickets, UNCHANGED <<pool, lastReset>>,
           NEW w \in Actor, NEW t, Ready(w, t)
    PROVE  Ready(w, t)'
<1>1. Placed(w, t)' /\ (OneLoop' <=> OneLoop) /\ (Alone' <=> Alone)
  BY DEF Ready, Placed, OneLoop, Alone
<1>2. InTurn(t) => InTurn(t)' BY DEF InTurn, SameTokens, SameTickets
<1>3. LoginStands(t) => LoginStands(t)' BY DEF LoginStands
<1> QED BY <1>1, <1>2, <1>3 DEF Ready

LEMMA CalmStep ==
    ASSUME IInv, Serial, SameTokens, SameTickets, UNCHANGED <<pool, lastReset>>,
           \A u \in User : password'[u] >= password[u], password' \in [User -> Nat],
           NEW w \in Actor, NEW t \in AnyTask \cup {None}, task' = [task EXCEPT ![w] = t],
           t # None => Ready(w, t)
    PROVE  Serial'
<1>1. \A x \in Actor : task'[x] = IF x = w THEN t ELSE task[x] BY DEF IInv, Types
<1>2. \A x \in Actor : task'[x] # None => Ready(x, task[x])'
  <2> SUFFICES ASSUME NEW x \in Actor, task'[x] # None PROVE Ready(x, task[x])'
    OBVIOUS
  <2>1. CASE x = w
    <3>1. Ready(w, t)' BY <1>1, <2>1, StaysReady
    <3>2. task'[x] = t BY <1>1, <2>1
    <3> QED BY <2>1, <3>1, <3>2 DEF Ready, Placed, InTurn, LoginStands
  <2>2. CASE x # w
    <3>1. task'[x] = task[x] /\ Ready(x, task[x]) BY <1>1, <2>2 DEF Serial
    <3> QED BY <3>1, StaysReady DEF Ready, Placed, InTurn, LoginStands
  <2> QED BY <2>1, <2>2
<1>3. OneLoop' <=> OneLoop BY DEF OneLoop
<1>4. SerialSingleUse' BY <1>3 DEF Serial, SerialSingleUse, SameTokens
<1>5. SerialTickets' BY <1>3 DEF Serial, SerialTickets, SameTickets
<1>6. SerialResetEnds' BY <1>3 DEF Serial, SerialResetEnds, SameTokens
<1>7. lastReset' \in [User -> Nat] /\ \A u \in User : lastReset'[u] <= password'[u]
  BY DEF Serial, IInv, Types
<1> QED BY <1>2, <1>4, <1>5, <1>6, <1>7 DEF Serial

-----------------------------------------------------------------------------
(* Requests that begin or end, and steps that mark rows.                   *)

LEMMA BeginsInTurn ==
    ASSUME IInv, Serial, NEW w \in Actor, NEW t \in AnyTask, Starts(w, t),
           w \in Thread <=> t.op = "login",
           OneLoop /\ w \in Loop => InTurn(t), Alone => LoginStands(t)
    PROVE  Serial'
<1>1. /\ w \in pool /\ task' = [task EXCEPT ![w] = t]
      /\ UNCHANGED <<pool, token, ticket, password, lastReset>>
  BY DEF Starts, Idle, tables
<1>2. Ready(w, t) BY <1>1 DEF Ready, Placed
<1>3. SameTokens /\ SameTickets BY <1>1, TokensSame, TicketsSame
<1>4. password' \in [User -> Nat] /\ \A u \in User : password'[u] >= password[u]
  BY <1>1 DEF IInv, Types
<1> QED BY <1>1, <1>2, <1>3, <1>4, CalmStep

LEMMA LoopIsNoThread ==
    ASSUME NEW w \in Loop
    PROVE  w \notin Thread /\ w \in Actor
BY SessionAssumption DEF Actor

LEMMA LoginInTurn ==
    ASSUME IInv, Serial, NEW w \in Actor, NEW u \in User, Login(w, u)
    PROVE  Serial'
<1> DEFINE op == IF w \in Thread THEN "login" ELSE "form"
           r == Request(op, u, "access")
           t == [r EXCEPT !.auth = password[u]]
<1>0. (op = "login" \/ op = "form") /\ (op = "login" <=> w \in Thread) OBVIOUS
<1> HIDE DEF op
<1>1. r \in AnyTask /\ r.op = op /\ r.id = u BY <1>0 DEF Request, AnyTask
<1>2. password[u] \in Nat /\ lastReset[u] \in Nat /\ lastReset[u] <= password[u]
  BY DEF IInv, Types, Serial
<1> HIDE DEF r
<1>3. t \in AnyTask /\ t.op = op /\ t.id = u /\ t.auth = password[u] BY <1>1, <1>2 DEF AnyTask
<1>4. Starts(w, t) BY DEF Login, r, op
<1> HIDE DEF t
<1>5. InTurn(t) BY <1>0, <1>3 DEF InTurn
<1>6. LoginStands(t) BY <1>2, <1>3 DEF LoginStands
<1> QED BY <1>0, <1>3, <1>4, <1>5, <1>6, BeginsInTurn

LEMMA ChangePasswordInTurn ==
    ASSUME IInv, Serial, NEW w \in Actor, NEW u \in User, ChangePassword(w, u)
    PROVE  Serial'
<1> DEFINE t == Request("change", u, "commit")
<1>1. t \in AnyTask /\ t.op = "change" /\ t.todo = "commit" BY FreshTask DEF Request
<1>2. Starts(w, t) /\ w \in Loop BY DEF ChangePassword
<1> HIDE DEF t
<1>3. InTurn(t) /\ LoginStands(t) BY <1>1 DEF InTurn, LoginStands
<1> QED BY <1>1, <1>2, <1>3, BeginsInTurn, LoopIsNoThread

LEMMA RequestResetInTurn ==
    ASSUME IInv, Serial, NEW w \in Actor, NEW u \in User, RequestReset(w, u)
    PROVE  Serial'
<1> DEFINE r == Request("request", u, "commit")
           t == [r EXCEPT !.seen = TicketsOf(u)]
<1>1. r \in AnyTask /\ r.op = "request" /\ r.todo = "commit" /\ r.user = u
  <2>1. r \in AnyTask BY FreshTask
  <2> QED BY <2>1 DEF Request
<1>2. TicketsOf(u) \in SUBSET Nat
  BY RowsOfSeq DEF TicketsOf, IInv, Types
<1> HIDE DEF r
<1>3. /\ t \in AnyTask /\ t.op = "request" /\ t.todo = "commit" /\ t.user = u
      /\ t.seen = TicketsOf(u)
  BY <1>1, <1>2 DEF AnyTask
<1>4. Starts(w, t) /\ w \in Loop BY DEF RequestReset, r
<1> HIDE DEF t
<1>5. InTurn(t) /\ LoginStands(t) BY <1>3 DEF InTurn, LoginStands, TicketsOf
<1> QED BY <1>3, <1>4, <1>5, BeginsInTurn, LoopIsNoThread

(* A token with a valid row has not been exchanged.                        *)
LEMMA RefreshInTurn ==
    ASSUME IInv, Serial, NEW w \in Actor, NEW i \in DOMAIN token, Refresh(w, i)
    PROVE  Serial'
<1> DEFINE r == Request("refresh", token[i].user, "revoke")
           t == [r EXCEPT !.id = token[i].id, !.arg = i, !.auth = token[i].auth]
<1>1. i \in Nat /\ i # 0 /\ token[i] \in Row BY RowsOfSeq DEF IInv, Types
<1>2. token[i].user \in User /\ token[i].id \in User \cup {None} /\ token[i].auth \in Nat
  BY <1>1 DEF Row
<1>3. r \in AnyTask /\ r.op = "refresh" /\ r.todo = "revoke"
  <2>1. r \in AnyTask BY <1>2, FreshTask
  <2> QED BY <2>1 DEF Request
<1>4. Starts(w, t) /\ w \in Loop /\ token[i].state = "valid"
  BY DEF Refresh, LiveToken
<1> HIDE DEF r
<1>5. /\ t \in AnyTask /\ t.op = "refresh" /\ t.arg = i /\ t.id = token[i].id
      /\ t.auth = token[i].auth
  BY <1>1, <1>2, <1>3 DEF AnyTask
<1> HIDE DEF t
<1>6. \A j \in DOMAIN token : token[j].parent # i BY <1>1, <1>4 DEF IInv, Exchanged
<1>7. InTurn(t) BY <1>1, <1>5, <1>6 DEF InTurn
<1>8. Alone => LoginStands(t) BY <1>4, <1>5 DEF Alone, Serial, SerialResetEnds, LoginStands
<1> QED BY <1>4, <1>5, <1>7, <1>8, BeginsInTurn, LoopIsNoThread

LEMMA LogoutInTurn ==
    ASSUME IInv, Serial, NEW w \in Actor, NEW i \in DOMAIN token, Logout(w, i)
    PROVE  Serial'
<1> DEFINE t == Request("logout", token[i].id, "delete")
<1>1. token[i] \in Row BY RowsOfSeq DEF IInv, Types
<1>2. token[i].id \in User BY <1>1 DEF Row, Logout
<1>3. t \in AnyTask /\ t.op = "logout" BY <1>2, FreshTask
<1>4. Starts(w, t) /\ w \in Loop BY DEF Logout
<1>5. t.todo = "delete" BY DEF Request
<1> HIDE DEF t
<1>6. InTurn(t) /\ LoginStands(t) BY <1>3, <1>5 DEF InTurn, LoginStands
<1> QED BY <1>3, <1>4, <1>6, BeginsInTurn, LoopIsNoThread

LEMMA ResetPasswordInTurn ==
    ASSUME IInv, Serial, NEW w \in Actor, NEW k \in DOMAIN ticket, ResetPassword(w, k)
    PROVE  Serial'
<1> DEFINE r == Request("reset", ticket[k].user, "load")
           t == [r EXCEPT !.arg = k]
<1>1. k \in Nat /\ ticket[k] \in Reset BY RowsOfSeq DEF IInv, Types
<1>2. ticket[k].user \in User /\ ticket[k].uses \in Nat BY <1>1 DEF Reset
<1>3. r \in AnyTask /\ r.op = "reset" /\ r.todo = "load" BY <1>2, FreshTask DEF Request
<1>4. Starts(w, t) /\ w \in Loop /\ ticket[k].state = "valid"
  BY DEF ResetPassword, LiveTicket
<1> HIDE DEF r
<1>5. t \in AnyTask /\ t.op = "reset" /\ t.todo = "load" /\ t.arg = k
  BY <1>1, <1>3 DEF AnyTask
<1> HIDE DEF t
<1>6. ticket[k].uses = 0 BY <1>2, <1>4 DEF IInv, UsedTicketIsSpent
<1>7. InTurn(t) /\ LoginStands(t) BY <1>4, <1>5, <1>6 DEF InTurn, LoginStands
<1> QED BY <1>4, <1>5, <1>7, BeginsInTurn, LoopIsNoThread

(* A request goes on, or ends, and tokens are at most marked.              *)
LEMMA GoesInTurn ==
    ASSUME IInv, Serial, UNCHANGED <<pool, ticket, lastReset>>,
           UNCHANGED token \/ MarksTokens,
           \A u \in User : password'[u] >= password[u], password' \in [User -> Nat],
           NEW w \in Actor, NEW t \in AnyTask \cup {None}, task' = [task EXCEPT ![w] = t],
           t # None => Ready(w, t)
    PROVE  Serial'
<1>1. SameTokens /\ SameTickets BY TokensSame, TicketsSame, MarksSame
<1> QED BY <1>1, CalmStep

LEMMA RevokeInTurn ==
    ASSUME IInv, Serial, NEW w \in Actor, Revoke(w)
    PROVE  Serial'
<1> USE DEF Revoke, At, Goes
<1> DEFINE t == [task[w] EXCEPT !.todo = "reload"]
<1>1. task[w] \in AnyTask /\ Ready(w, task[w]) /\ task[w].todo = "revoke"
  BY DEF IInv, Types, Serial
<1>2. t \in AnyTask /\ t.todo = "reload" /\ t.op = task[w].op /\ t.arg = task[w].arg
      /\ t.id = task[w].id /\ t.user = task[w].user /\ t.auth = task[w].auth
      /\ t.seen = task[w].seen
  BY <1>1 DEF AnyTask
<1>3. MarksTokens
  <2>1. "spent" \in RowState \ {"valid"} BY DEF RowState
  <2> QED BY <2>1 DEF MarksTokens
<1>4. task' = [task EXCEPT ![w] = t] /\ UNCHANGED <<pool, ticket, password, lastReset>>
  BY DEF IInv, Types
<1> HIDE DEF t
<1>5. Ready(w, t) BY <1>1, <1>2 DEF Ready, Placed, InTurn, LoginStands
<1>6. password' \in [User -> Nat] /\ \A u \in User : password'[u] >= password[u]
  BY <1>4 DEF IInv, Types
<1> QED BY <1>2, <1>3, <1>4, <1>5, <1>6, GoesInTurn

LEMMA ReloadInTurn ==
    ASSUME IInv, Serial, NEW w \in Actor, Reload(w)
    PROVE  Serial'
<1> USE DEF Reload, At, Goes
<1> DEFINE t == [task[w] EXCEPT !.todo = "access"]
<1>1. task[w] \in AnyTask /\ Ready(w, task[w]) /\ task[w].todo = "reload"
  BY DEF IInv, Types, Serial
<1>2. t \in AnyTask /\ t.todo = "access" /\ t.op = task[w].op /\ t.arg = task[w].arg
      /\ t.id = task[w].id /\ t.user = task[w].user /\ t.auth = task[w].auth
      /\ t.seen = task[w].seen
  BY <1>1 DEF AnyTask
<1>4. task' = [task EXCEPT ![w] = t] /\ UNCHANGED <<pool, token, ticket, password, lastReset>>
  BY DEF IInv, Types
<1> HIDE DEF t
<1>5. Ready(w, t) BY <1>1, <1>2 DEF Ready, Placed, InTurn, LoginStands
<1>6. password' \in [User -> Nat] /\ \A u \in User : password'[u] >= password[u]
  BY <1>4 DEF IInv, Types
<1> QED BY <1>2, <1>4, <1>5, <1>6, GoesInTurn

LEMMA LoadTicketInTurn ==
    ASSUME IInv, Serial, NEW w \in Actor, LoadTicket(w)
    PROVE  Serial'
<1> USE DEF LoadTicket, At, Goes
<1> DEFINE row == ticket[task[w].arg]
           todo == IF row.state = "deleted" \/ row.uses > 0 THEN "blind" ELSE "commit"
           t == [task[w] EXCEPT !.todo = todo]
<1>1. task[w] \in AnyTask /\ Ready(w, task[w]) /\ task[w].todo = "load"
  BY DEF IInv, Types, Serial
<1>2. todo \in {"blind", "commit"} OBVIOUS
<1>3. OneLoop /\ w \in Loop /\ task[w].op = "reset" => todo = "commit"
  BY <1>1 DEF Ready, InTurn
<1>4. task' = [task EXCEPT ![w].todo = todo] /\ UNCHANGED <<pool, token, ticket, password, lastReset>>
  OBVIOUS
<1> HIDE DEF todo
<1>5. t \in AnyTask /\ t.todo = todo /\ t.op = task[w].op /\ t.arg = task[w].arg
        /\ t.id = task[w].id /\ t.user = task[w].user /\ t.seen = task[w].seen
  BY <1>1, <1>2 DEF AnyTask
<1>6. task' = [task EXCEPT ![w] = t] BY <1>4 DEF IInv, Types
<1> HIDE DEF t
<1>7. OneLoop /\ w \in Loop => InTurn(t) BY <1>1, <1>3, <1>5 DEF Ready, InTurn
<1>8. Ready(w, t) BY <1>1, <1>2, <1>5, <1>7 DEF Ready, Placed, LoginStands
<1>9. password' \in [User -> Nat] /\ \A u \in User : password'[u] >= password[u]
  BY <1>4 DEF IInv, Types
<1> QED BY <1>4, <1>5, <1>6, <1>8, <1>9, GoesInTurn

LEMMA EndsInTurn ==
    ASSUME IInv, Serial, NEW w \in Actor, RevokeTokens(w) \/ Abandon(w)
    PROVE  Serial'
<1>1. UNCHANGED token \/ MarksTokens BY DeletedMarks DEF RevokeTokens, Abandon
<1>2. task' = [task EXCEPT ![w] = None] /\ UNCHANGED <<pool, ticket, password, lastReset>>
  BY DEF RevokeTokens, Abandon, Done
<1>3. password' \in [User -> Nat] /\ \A u \in User : password'[u] >= password[u]
  BY <1>2 DEF IInv, Types
<1> QED BY <1>1, <1>2, <1>3, GoesInTurn

LEMMA CommitChangeInTurn ==
    ASSUME IInv, Serial, NEW w \in Actor, CommitChange(w)
    PROVE  Serial'
<1> USE DEF CommitChange, At
<1>1. task[w].user \in User BY DEF IInv, Types, AnyTask
<1>2. password' \in [User -> Nat] BY <1>1, ReplacedType
<1>3. \A u \in User : password'[u] >= password[u] BY <1>1 DEF Replaced, IInv, Types
<1>4. task' = [task EXCEPT ![w] = None] /\ UNCHANGED <<pool, token, ticket, lastReset>>
  BY DEF Done
<1> QED BY <1>2, <1>3, <1>4, GoesInTurn

LEMMA ExpireInTurn ==
    ASSUME IInv, Serial, Expire
    PROVE  Serial'
<1>1. UNCHANGED <<pool, password, task, lastReset>> BY DEF Expire
<1>2. SameTokens
  <2>1. CASE UNCHANGED token BY <2>1, TokensSame
  <2>2. ASSUME NEW j \in DOMAIN token, token' = [token EXCEPT ![j].state = "spent"]
        PROVE  SameTokens
    <3>1. "spent" \in RowState \ {"valid"} BY DEF RowState
    <3>2. MarksTokens BY <2>2, <3>1 DEF MarksTokens
    <3> QED BY <3>2, MarksSame
  <2> QED BY <2>1, <2>2 DEF Expire
<1>3. SameTickets
  <2>1. CASE UNCHANGED ticket BY <2>1, TicketsSame
  <2>2. ASSUME NEW j \in DOMAIN ticket, ticket[j].state = "valid",
               ticket' = [ticket EXCEPT ![j].state = "spent"]
        PROVE  SameTickets
    <3>1. \A k \in DOMAIN ticket : ticket[k] \in Reset BY TicketsAsRows
    <3> QED BY <2>2, <3>1 DEF SameTickets, Reset
  <2> QED BY <2>1, <2>2 DEF Expire
<1>4. PICK w \in Loop : TRUE BY SessionAssumption
<1>5. w \in Actor /\ task[w] \in AnyTask \cup {None} /\ task' = [task EXCEPT ![w] = task[w]]
  BY <1>1, <1>4 DEF Actor, IInv, Types
<1>6. task[w] # None => Ready(w, task[w]) BY <1>5 DEF Serial
<1>7. password' \in [User -> Nat] /\ \A u \in User : password'[u] >= password[u]
  BY <1>1 DEF IInv, Types
<1> QED BY <1>1, <1>2, <1>3, <1>5, <1>6, <1>7, CalmStep

-----------------------------------------------------------------------------
(* Requests that issue tokens                                              *)

(* Nobody else is at work for the loop when a token is exchanged.          *)
LEMMA IssueInTurn ==
    ASSUME IInv, Serial, NEW tok \in Seq(Row), Len(tok) = Len(token),
           \A i \in DOMAIN token :
              /\ tok[i].kind = token[i].kind /\ tok[i].parent = token[i].parent
              /\ tok[i].id = token[i].id /\ tok[i].auth = token[i].auth
              /\ tok[i].state = token[i].state,
           NEW row \in Row, token' = Append(tok, row),
           UNCHANGED <<pool, ticket, password, lastReset>>,
           NEW w \in Actor, w \in pool, row.parent # 0 => w \in Loop,
           OneLoop /\ row.parent # 0 =>
              \A i \in DOMAIN token : token[i].parent = row.parent => token[i].kind # row.kind,
           Alone /\ row.id # None => row.auth >= lastReset[row.id],
           NEW t \in AnyTask \cup {None}, task' = [task EXCEPT ![w] = t],
           task'[w] # None => Ready(w, task[w])'
    PROVE  Serial'
<1>1. Len(token) \in Nat /\ DOMAIN token = 1 .. Len(token) /\ DOMAIN tok = DOMAIN token
  BY RowsOfSeq DEF IInv, Types
<1>2. /\ \A i \in DOMAIN token : token'[i] = tok[i]
      /\ \A i \in DOMAIN token' : i \in DOMAIN token \/ i = Len(token) + 1
      /\ token'[Len(token) + 1] = row
  BY <1>1, Appended
<1>3. (OneLoop' <=> OneLoop) /\ (Alone' <=> Alone) BY DEF OneLoop, Alone
<1>4. \A x \in Actor : task'[x] = IF x = w THEN t ELSE task[x] BY DEF IInv, Types
<1>5. ASSUME NEW x \in Actor, task'[x] # None
      PROVE  Ready(x, task[x])'
  <2>1. CASE x = w BY <1>5, <2>1
  <2>2. CASE x # w
    <3>1. task'[x] = task[x] /\ Ready(x, task[x]) BY <1>4, <1>5, <2>2 DEF Serial
    <3>2. x \in pool BY <3>1 DEF Ready, Placed
    <3>3. ASSUME OneLoop, x \in Loop PROVE InTurn(task[x])'
      <4>1. InTurn(task[x]) BY <3>1, <3>3 DEF Ready
      <4>2. row.parent = 0 BY <2>2, <3>2, <3>3 DEF OneLoop
      <4> QED BY <1>2, <3>1, <4>1, <4>2 DEF InTurn
    <3>4. Placed(x, task[x])' BY <3>1 DEF Ready, Placed
    <3>5. Alone => LoginStands(task[x])' BY <3>1 DEF Ready, LoginStands
    <3> QED BY <1>3, <3>3, <3>4, <3>5 DEF Ready
  <2> QED BY <2>1, <2>2
<1>6. SerialSingleUse'
  <2> SUFFICES ASSUME OneLoop, NEW i \in DOMAIN token', NEW j \in DOMAIN token',
                      token'[i].parent = token'[j].parent, token'[i].parent # 0,
                      token'[i].kind = token'[j].kind
               PROVE  i = j
    BY <1>3 DEF SerialSingleUse
  <2>1. CASE i \in DOMAIN token /\ j \in DOMAIN token
    BY <1>2, <2>1 DEF Serial, SerialSingleUse
  <2>2. CASE i \in DOMAIN token /\ j = Len(token) + 1 BY <1>2, <2>2
  <2>3. CASE j \in DOMAIN token /\ i = Len(token) + 1 BY <1>2, <2>3
  <2> QED BY <1>2, <2>1, <2>2, <2>3
<1>7. SerialTickets' BY <1>3 DEF Serial, SerialTickets
<1>8. SerialResetEnds'
  <2> SUFFICES ASSUME Alone, NEW i \in DOMAIN token', token'[i].state = "valid",
                      token'[i].id # None
               PROVE  token'[i].auth >= lastReset[token'[i].id]
    BY <1>3 DEF SerialResetEnds, Alone
  <2>1. CASE i \in DOMAIN token
    <3>1. /\ token'[i].state = token[i].state /\ token'[i].id = token[i].id
          /\ token'[i].auth = token[i].auth
      BY <1>2, <2>1
    <3> QED BY <2>1, <3>1 DEF Serial, SerialResetEnds, Alone
  <2>2. CASE i = Len(token) + 1 BY <1>2, <2>2
  <2> QED BY <1>2, <2>1, <2>2
<1>9. lastReset' \in [User -> Nat] /\ \A u \in User : lastReset'[u] <= password'[u]
  BY DEF Serial
<1> QED BY <1>5, <1>6, <1>7, <1>8, <1>9 DEF Serial

LEMMA IssuedFrom ==
    ASSUME NEW t \in AnyTask, NEW kind, NEW id
    PROVE  /\ Issued(kind, id, t).kind = kind /\ Issued(kind, id, t).id = id
           /\ Issued(kind, id, t).auth = t.auth
           /\ Issued(kind, id, t).parent = IF t.op = "refresh" THEN t.arg ELSE 0
BY DEF Issued

LEMMA IssueAccessInTurn ==
    ASSUME IInv, Serial, NEW w \in Actor, IssueAccess(w)
    PROVE  Serial'
<1> USE DEF IssueAccess, At
<1> DEFINE row == Issued("access", task[w].id, task[w])
           t == [task[w] EXCEPT !.todo = "refresh", !.access = Len(token) + 1]
<1>1. task[w] \in AnyTask /\ task[w].todo = "access" /\ Ready(w, task[w])
  BY DEF IInv, Types, Serial
<1>2. /\ row \in Row /\ row.kind = "access" /\ row.id = task[w].id /\ row.auth = task[w].auth
      /\ row.parent = IF task[w].op = "refresh" THEN task[w].arg ELSE 0
  BY <1>1, IssuedRow, IssuedFrom DEF AnyTask
<1>3. Len(token) + 1 \in Nat /\ token \in Seq(Row) /\ Len(token) \in Nat
      /\ DOMAIN token = 1 .. Len(token)
  BY RowsOfSeq DEF IInv, Types
<1>4. /\ t \in AnyTask /\ t.todo = "refresh" /\ t.op = task[w].op /\ t.arg = task[w].arg
      /\ t.id = task[w].id /\ t.user = task[w].user /\ t.auth = task[w].auth
      /\ t.seen = task[w].seen
  BY <1>1, <1>3 DEF AnyTask
<1>5. task' = [task EXCEPT ![w] = t] BY DEF IInv, Types
<1>6. token' = Append(token, row) /\ UNCHANGED <<pool, ticket, password, lastReset>> OBVIOUS
<1> HIDE DEF t, row
<1>7. w \in pool /\ (task[w].op = "refresh" => w \in Loop)
  BY <1>1 DEF Ready, Placed, Actor
<1>8. OneLoop /\ w \in Loop => InTurn(task[w]) BY <1>1 DEF Ready
<1>9. OneLoop /\ row.parent # 0 => \A i \in DOMAIN token : token[i].parent # row.parent
  BY <1>1, <1>2, <1>7, <1>8 DEF InTurn
<1>10. Alone /\ row.id # None => row.auth >= lastReset[row.id]
  BY <1>1, <1>2 DEF Ready, LoginStands
<1>11. /\ \A i \in DOMAIN token : token'[i] = token[i]
       /\ \A i \in DOMAIN token' : i \in DOMAIN token \/ token'[i] = row
  BY <1>2, <1>3, <1>6, Appended
<1>12. Ready(w, task[w])'
  <2>0. task'[w] = t BY <1>5 DEF IInv, Types
  <2>1. OneLoop /\ w \in Loop => InTurn(task[w])'
    <3> SUFFICES ASSUME OneLoop, w \in Loop PROVE InTurn(task[w])' OBVIOUS
    <3>1. InTurn(task[w]) BY <1>8
    <3>2. ASSUME t.op = "refresh", NEW i \in DOMAIN token', token'[i].parent = t.arg
          PROVE  token'[i].kind = "access"
      <4>1. i \notin DOMAIN token BY <1>1, <1>4, <1>11, <3>1, <3>2 DEF InTurn
      <4> QED BY <1>2, <1>11, <4>1
    <3> QED BY <1>4, <1>6, <2>0, <3>1, <3>2 DEF InTurn
  <2>2. Placed(w, task[w])' BY <1>1, <1>4, <1>6, <2>0 DEF Ready, Placed
  <2>3. (OneLoop' <=> OneLoop) /\ (Alone' <=> Alone) BY <1>6 DEF OneLoop, Alone
  <2>4. Alone => LoginStands(task[w])' BY <1>1, <1>4, <1>6, <2>0 DEF Ready, LoginStands
  <2> QED BY <2>1, <2>2, <2>3, <2>4 DEF Ready
<1>13. row.parent # 0 => w \in Loop BY <1>2, <1>7
<1> QED BY <1>2, <1>3, <1>4, <1>5, <1>6, <1>7, <1>9, <1>10, <1>12, <1>13, IssueInTurn

(* Where no thread serves logins, the refresh token has the owner of its   *)
(* request.                                                                *)
LEMMA IssueRefreshInTurn ==
    ASSUME IInv, Serial, NEW w \in Actor, IssueRefresh(w)
    PROVE  Serial'
<1> USE DEF IssueRefresh, At, Done
<1> DEFINE a == task[w].access
           tok == [token EXCEPT ![a].held = TRUE]
           row == Issued("refresh", RefreshId(task[w]), task[w])
<1>1. task[w] \in AnyTask /\ task[w].todo = "refresh" /\ Ready(w, task[w])
  BY DEF IInv, Types, Serial
<1>2. RefreshId(task[w]) \in User \cup {None} BY <1>1 DEF RefreshId, AnyTask
<1>3. /\ row \in Row /\ row.kind = "refresh" /\ row.id = RefreshId(task[w])
      /\ row.auth = task[w].auth
      /\ row.parent = IF task[w].op = "refresh" THEN task[w].arg ELSE 0
  BY <1>1, <1>2, IssuedRow, IssuedFrom
<1>4. /\ Len(token) \in Nat /\ DOMAIN token = 1 .. Len(token) /\ token \in Seq(Row)
      /\ \A i \in DOMAIN token : token[i] \in Row
  BY RowsOfSeq DEF IInv, Types
<1>5. \A i \in DOMAIN token : tok[i] = IF i = a THEN [token[i] EXCEPT !.held = TRUE] ELSE token[i]
  OBVIOUS
<1>6. \A i \in DOMAIN token :
        /\ tok[i] \in Row
        /\ tok[i].kind = token[i].kind /\ tok[i].parent = token[i].parent
        /\ tok[i].id = token[i].id /\ tok[i].auth = token[i].auth
        /\ tok[i].state = token[i].state
  BY <1>4, <1>5 DEF Row
<1>7. tok \in [1 .. Len(token) -> Row] BY <1>4, <1>6
<1>8. tok \in Seq(Row) /\ Len(tok) = Len(token)
  <2>1. tok \in Seq(Row) BY <1>4, <1>7, SeqOfRows
  <2> QED BY <2>1, <1>4, <1>7, RowsOfSeq
<1>9. token' = Append(tok, row) /\ UNCHANGED <<pool, ticket, password, lastReset>> OBVIOUS
<1>10. task' = [task EXCEPT ![w] = None] OBVIOUS
<1> HIDE DEF tok, row
<1>11. w \in pool /\ (task[w].op = "refresh" => w \in Loop)
  BY <1>1 DEF Ready, Placed, Actor
<1>12. OneLoop /\ row.parent # 0 =>
         \A i \in DOMAIN token : token[i].parent = row.parent => token[i].kind # row.kind
  BY <1>1, <1>3, <1>11 DEF Ready, InTurn
<1>13. Alone /\ row.id # None => row.auth >= lastReset[row.id]
  <2> SUFFICES ASSUME Alone, row.id # None PROVE row.auth >= lastReset[row.id]
    OBVIOUS
  <2>1. row.id = task[w].id BY <1>1, <1>3 DEF Ready, Placed, Alone, RefreshId
  <2> QED BY <1>1, <1>3, <2>1 DEF Ready, LoginStands
<1>14. row.parent # 0 => w \in Loop BY <1>3, <1>11
<1>15. task'[w] = None BY <1>10 DEF IInv, Types
<1> QED BY <1>3, <1>6, <1>8, <1>9, <1>10, <1>11, <1>12, <1>13, <1>14, <1>15, IssueInTurn

-----------------------------------------------------------------------------
(* Commits about tickets: no other request of the loop is in progress.     *)

LEMMA CommitRequestInTurn ==
    ASSUME IInv, Serial, NEW w \in Actor, CommitRequest(w)
    PROVE  Serial'
<1> USE DEF CommitRequest, At
<1> DEFINE rest == [k \in DOMAIN ticket |->
                      IF k \in task[w].seen THEN [ticket[k] EXCEPT !.state = "deleted"]
                      ELSE ticket[k]]
           row == [user |-> task[w].user, state |-> "valid", uses |-> 0]
<1>1. /\ task[w] \in AnyTask /\ task[w].op = "request" /\ Ready(w, task[w])
      /\ task[w].user \in User
  BY DEF IInv, Types, AnyTask, Serial
<1>2. row \in Reset /\ row.user = task[w].user /\ row.uses = 0
  BY <1>1 DEF Reset, RowState
<1>3. \A k \in DOMAIN ticket :
        /\ rest[k] \in Reset
        /\ rest[k].user = ticket[k].user /\ rest[k].uses = ticket[k].uses
        /\ rest[k].state = "valid" => ticket[k].state = "valid"
        /\ k \in task[w].seen => rest[k].state = "deleted"
  BY TicketsAsRows DEF Reset, RowState
<1>4. rest \in [1 .. Len(ticket) -> Reset] BY <1>3, TicketsAsRows
<1>5. rest \in Seq(Reset) /\ Len(rest) = Len(ticket) /\ DOMAIN rest = DOMAIN ticket
  BY <1>4, SeqOfRows, TicketsAsRows, RowsOfSeq
<1>6. /\ ticket' = Append(rest, row) /\ task' = [task EXCEPT ![w] = None]
      /\ UNCHANGED <<pool, token, password, lastReset>>
  BY DEF Done
<1> HIDE DEF rest, row
<1>7. /\ \A k \in DOMAIN ticket : ticket'[k] = rest[k]
      /\ \A k \in DOMAIN ticket' : k \in DOMAIN ticket \/ k = Len(ticket) + 1
      /\ ticket'[Len(ticket) + 1] = row
  <2>1. LET a == Append(rest, row) IN
        /\ \A i \in DOMAIN rest : a[i] = rest[i]
        /\ a[Len(rest) + 1] = row
        /\ \A i \in DOMAIN a : i \in DOMAIN rest \/ i = Len(rest) + 1
    BY <1>2, <1>5, Appended
  <2> QED BY <1>5, <1>6, <2>1
<1>8. (OneLoop' <=> OneLoop) /\ (Alone' <=> Alone) BY <1>6 DEF OneLoop, Alone
<1>9. w \in pool /\ w \in Loop BY <1>1 DEF Ready, Placed, Actor
<1>10. ASSUME NEW x \in Actor, task'[x] # None
       PROVE  Ready(x, task[x])'
  <2>1. x # w /\ task'[x] = task[x] /\ Ready(x, task[x])
    BY <1>6, <1>10 DEF IInv, Types, Serial
  <2>2. ~ (OneLoop /\ x \in Loop) BY <1>9, <2>1 DEF Ready, Placed, OneLoop
  <2>3. Placed(x, task[x])' BY <1>6, <2>1 DEF Ready, Placed
  <2>4. Alone => LoginStands(task[x])' BY <1>6, <2>1 DEF Ready, LoginStands
  <2> QED BY <1>8, <2>2, <2>3, <2>4 DEF Ready
<1>11. SerialTickets'
  <2> SUFFICES ASSUME OneLoop PROVE SerialTickets' BY <1>8 DEF SerialTickets
  <2>1. InTurn(task[w]) BY <1>1, <1>9 DEF Ready
  <2>2. \A k \in DOMAIN ticket : ticket[k].user = task[w].user => rest[k].state # "valid"
    BY <1>1, <1>3, <2>1 DEF InTurn
  <2>3. \A k \in DOMAIN ticket' : ticket'[k].uses <= 1
    BY <1>2, <1>3, <1>7 DEF Serial, SerialTickets
  <2>4. ASSUME NEW k \in DOMAIN ticket', NEW l \in DOMAIN ticket',
               ticket'[k].user = ticket'[l].user,
               ticket'[k].state = "valid", ticket'[l].state = "valid"
        PROVE  k = l
    <3>1. CASE k \in DOMAIN ticket /\ l \in DOMAIN ticket
      BY <1>3, <1>7, <2>4, <3>1 DEF Serial, SerialTickets
    <3>2. ASSUME NEW m \in DOMAIN ticket, ticket'[m].user = row.user
          PROVE  ticket'[m].state # "valid"
      <4>1. ticket'[m] = rest[m] /\ ticket[m].user = task[w].user BY <1>2, <1>3, <1>7, <3>2
      <4> QED BY <2>2, <4>1
    <3>3. \A m \in DOMAIN ticket' : m \notin DOMAIN ticket => ticket'[m] = row BY <1>7
    <3> QED BY <1>7, <2>4, <3>1, <3>2, <3>3
  <2> QED BY <2>3, <2>4 DEF SerialTickets
<1>12. SerialSingleUse' /\ SerialResetEnds'
  BY <1>6, <1>8 DEF Serial, SerialSingleUse, SerialResetEnds
<1>13. lastReset' \in [User -> Nat] /\ \A u \in User : lastReset'[u] <= password'[u]
  BY <1>6 DEF Serial
<1> QED BY <1>10, <1>11, <1>12, <1>13 DEF Serial

LEMMA CommitResetInTurn ==
    ASSUME IInv, Serial, NEW w \in Actor, CommitReset(w)
    PROVE  Serial'
<1> USE DEF CommitReset, At
<1> DEFINE k == task[w].arg
           u == task[w].user
<1>1. /\ task[w] \in AnyTask /\ u \in User /\ task[w].op = "reset" /\ Ready(w, task[w])
      /\ Resets(task[w])
  BY DEF IInv, Types, Tasks, AnyTask, Serial
<1>2. k \in DOMAIN ticket /\ ticket[k] \in Reset BY <1>1, TicketsAsRows DEF Resets
<1>3. /\ task' = [task EXCEPT ![w] = None] /\ UNCHANGED pool
      /\ password' = [password EXCEPT ![u] = @ + 1]
      /\ lastReset' = [lastReset EXCEPT ![u] = password'[u]]
      /\ token' = Deleted(u)
  BY DEF Done, Replaced
<1>4. (OneLoop' <=> OneLoop) /\ (Alone' <=> Alone) BY <1>3 DEF OneLoop, Alone
<1>5. w \in pool /\ w \in Loop BY <1>1 DEF Ready, Placed, Actor
<1>6. lastReset' \in [User -> Nat] /\ \A v \in User : lastReset'[v] <= password'[v]
  <2>1. password \in [User -> Nat] /\ lastReset \in [User -> Nat] BY DEF IInv, Types, Serial
  <2>2. password'[u] \in Nat BY <1>1, <1>3, <2>1
  <2>3. ASSUME NEW v \in User PROVE lastReset'[v] <= password'[v]
    <3>1. CASE v = u BY <1>1, <1>3, <2>1, <2>2, <3>1
    <3>2. CASE v # u
      <4>1. lastReset'[v] = lastReset[v] /\ password'[v] = password[v] BY <1>3, <2>1, <3>2
      <4> QED BY <4>1 DEF Serial
    <3> QED BY <3>1, <3>2
  <2> QED BY <1>3, <2>1, <2>2, <2>3
<1>7. ASSUME NEW x \in Actor, task'[x] # None
      PROVE  Ready(x, task[x])'
  <2>1. x # w /\ task'[x] = task[x] /\ Ready(x, task[x])
    BY <1>3, <1>7 DEF IInv, Types, Serial
  <2>2. ~ (OneLoop /\ x \in Loop) BY <1>5, <2>1 DEF Ready, Placed, OneLoop
  <2>3. ~ Alone BY <2>1, <2>2 DEF Ready, Placed, Alone, Actor
  <2>4. Placed(x, task[x])' BY <1>3, <2>1 DEF Ready, Placed
  <2> QED BY <1>4, <2>2, <2>3, <2>4 DEF Ready
<1>8. SameTokens BY <1>3, DeletedMarks, MarksSame
<1>9. SerialSingleUse' BY <1>4, <1>8 DEF Serial, SerialSingleUse, SameTokens
<1>10. SerialTickets'
  <2> SUFFICES ASSUME OneLoop PROVE SerialTickets' BY <1>4 DEF SerialTickets
  <2>1. InTurn(task[w]) BY <1>1, <1>5 DEF Ready
  <2>2. ticket' = [ticket EXCEPT ![k] = Used(ticket[k])] /\ ticket[k].uses = 0
    BY <1>1, <2>1 DEF InTurn
  <2>3. Used(ticket[k]).uses = 1 /\ Used(ticket[k]).state = "spent"
    BY <1>2, <2>2 DEF Used, Reset
  <2>4. DOMAIN ticket' = DOMAIN ticket
        /\ \A l \in DOMAIN ticket : ticket'[l] = IF l = k THEN Used(ticket[k]) ELSE ticket[l]
    BY <2>2
  <2> QED BY <2>3, <2>4 DEF Serial, SerialTickets
<1>11. SerialResetEnds'
  <2> SUFFICES ASSUME Alone, NEW i \in DOMAIN token', token'[i].state = "valid",
                      token'[i].id # None
               PROVE  token'[i].auth >= lastReset'[token'[i].id]
    BY <1>4 DEF SerialResetEnds, Alone
  <2>1. /\ i \in DOMAIN token /\ token[i].state = "valid" /\ token'[i].id = token[i].id
        /\ token'[i].auth = token[i].auth
    BY <1>8 DEF SameTokens
  <2>2. token[i] \in Row BY <2>1, RowsOfSeq DEF IInv, Types
  <2>3. token[i].id # u
    <3>1. ASSUME token[i].id = u PROVE token'[i].state = "deleted"
      BY <1>3, <2>1, <2>2, <3>1 DEF Deleted, RowsOf, Row
    <3> QED BY <3>1
  <2>4. lastReset'[token[i].id] = lastReset[token[i].id]
    BY <1>3, <2>1, <2>2, <2>3 DEF Serial, Row
  <2>5. token[i].auth >= lastReset[token[i].id] BY <2>1 DEF Serial, SerialResetEnds, Alone
  <2> QED BY <2>1, <2>4, <2>5
<1> QED BY <1>6, <1>7, <1>9, <1>10, <1>11 DEF Serial

-----------------------------------------------------------------------------
LEMMA InitSerial == Init => Serial
<1> SUFFICES ASSUME Init PROVE Serial OBVIOUS
<1>1. DOMAIN token = {} /\ DOMAIN ticket = {} BY DEF Init
<1>2. lastReset \in [User -> Nat] /\ \A u \in User : lastReset[u] <= password[u] BY DEF Init
<1>3. \A w \in Actor : task[w] = None BY DEF Init
<1> QED BY <1>1, <1>2, <1>3 DEF Serial, SerialSingleUse, SerialTickets, SerialResetEnds

LEMMA StutterSerial ==
    ASSUME IInv, Serial, UNCHANGED vars
    PROVE  Serial'
<1>1. (OneLoop' <=> OneLoop) /\ (Alone' <=> Alone) BY DEF vars, OneLoop, Alone
<1>2. ASSUME NEW x \in Actor, task'[x] # None PROVE Ready(x, task[x])'
  BY <1>1, <1>2 DEF vars, Serial, Ready, Placed, InTurn, LoginStands
<1> QED BY <1>1, <1>2 DEF vars, Serial, SerialSingleUse, SerialTickets, SerialResetEnds

LEMMA NextSerial == IInv /\ Serial /\ [Next]_vars => Serial'
<1> SUFFICES ASSUME IInv, Serial, [Next]_vars PROVE Serial' OBVIOUS
<1>1. CASE UNCHANGED vars BY <1>1, StutterSerial
<1>2. CASE Next
  BY <1>2, LoginInTurn, ChangePasswordInTurn, RequestResetInTurn, RefreshInTurn, LogoutInTurn,
     ResetPasswordInTurn, IssueAccessInTurn, IssueRefreshInTurn, RevokeInTurn, ReloadInTurn,
     EndsInTurn, CommitChangeInTurn, CommitRequestInTurn, LoadTicketInTurn, CommitResetInTurn,
     ExpireInTurn DEF Next
<1> QED BY <1>1, <1>2

LEMMA InTurnAlways == Spec => []Serial
BY InitSerial, NextSerial, Invariance, PTL DEF Spec

(* With one event loop, next to any number of login threads, a refresh     *)
(* token is exchanged at most once.                                        *)
THEOREM SessionsSingleUse == Spec => []SerialSingleUse
<1>1. Serial => SerialSingleUse BY DEF Serial
<1> QED BY <1>1, InTurnAlways, PTL

(* With one event loop a user has at most one ticket that is valid, and a  *)
(* ticket replaces a password at most once.                                *)
THEOREM SessionsTickets == Spec => []SerialTickets
<1>1. Serial => SerialTickets BY DEF Serial
<1> QED BY <1>1, InTurnAlways, PTL

(* With one event loop and no login threads, a token that names a user and *)
(* is valid goes back to a login after that user's last reset.             *)
THEOREM SessionsResetEnds == Spec => []SerialResetEnds
<1>1. Serial => SerialResetEnds BY DEF Serial
<1> QED BY <1>1, InTurnAlways, PTL

-----------------------------------------------------------------------------
(* How many tokens, tickets and passwords there can be.  What the requests *)
(* under way have still to issue counts as issued.                         *)
Owes(t, kind) ==
    \/ t.todo \in {"revoke", "reload", "access"}
    \/ t.todo = "refresh" /\ kind = "refresh"
OwedTokens == {p \in Actor \X {"access", "refresh"} : task[p[1]] # None /\ Owes(task[p[1]], p[2])}
Requesting == {w \in Actor : task[w] # None /\ task[w].op = "request"}
Replacing == {w \in Actor : task[w] # None /\ task[w].op \in {"change", "reset"}}

(* So many have been asked for.                                            *)
CountedTokens == IsFiniteSet(OwedTokens) /\ Len(token) + Cardinality(OwedTokens) <= 2 * served
CountedTickets == IsFiniteSet(Requesting) /\ Len(ticket) + Cardinality(Requesting) <= served
CountedPasswords ==
    /\ IsFiniteSet(Replacing)
    /\ \A u \in User : password[u] + Cardinality(Replacing) <= served
    /\ \A k \in DOMAIN ticket : ticket[k].uses + Cardinality(Replacing) <= served

Within(t) ==
    /\ t.arg \in TokenNo \cup {0} /\ t.access \in TokenNo \cup {0}
    /\ t.auth \in Version /\ t.seen \subseteq TicketNo
Bounded ==
    /\ pool \in SUBSET Actor /\ served \in 0 .. MaxRequests
    /\ lastReset \in [User -> Version]
    /\ \A i \in DOMAIN token : token[i].auth \in Version
    /\ \A w \in Actor : task[w] # None => Within(task[w])

Counts == CountedTokens /\ CountedTickets /\ CountedPasswords /\ Bounded

LEMMA Fewer ==
    ASSUME NEW S, IsFiniteSet(S), NEW T \in SUBSET S
    PROVE  /\ IsFiniteSet(T) /\ Cardinality(S) \in Nat /\ Cardinality(T) \in Nat
           /\ Cardinality(T) <= Cardinality(S)
BY FS_Subset, FS_CardinalityType

LEMMA OneFewer ==
    ASSUME NEW S, IsFiniteSet(S), NEW x \in S, NEW T \in SUBSET (S \ {x})
    PROVE  /\ IsFiniteSet(T) /\ Cardinality(S) \in Nat /\ Cardinality(T) \in Nat
           /\ Cardinality(T) + 1 <= Cardinality(S)
<1>1. IsFiniteSet(S \ {x}) /\ Cardinality(S \ {x}) = Cardinality(S) - 1
  BY FS_RemoveElement
<1> QED BY <1>1, Fewer, FS_CardinalityType

LEMMA OneMore ==
    ASSUME NEW S, IsFiniteSet(S), NEW x, NEW T \in SUBSET (S \cup {x})
    PROVE  /\ IsFiniteSet(T) /\ Cardinality(S) \in Nat /\ Cardinality(T) \in Nat
           /\ Cardinality(T) <= Cardinality(S) + 1
<1>1. Cardinality(S) \in Nat BY FS_CardinalityType
<1>2. IsFiniteSet(S \cup {x}) /\ Cardinality(S \cup {x}) \in {Cardinality(S), Cardinality(S) + 1}
  BY FS_AddElement
<1> QED BY <1>1, <1>2, Fewer

(* The tables are within what was counted.                                 *)
LEMMA InRange ==
    ASSUME IInv, Counts
    PROVE  /\ Len(token) \in Nat /\ DOMAIN token = 1 .. Len(token)
           /\ Len(ticket) \in Nat /\ DOMAIN ticket = 1 .. Len(ticket)
           /\ DOMAIN token \subseteq TokenNo /\ DOMAIN ticket \subseteq TicketNo
           /\ TicketNo \subseteq TokenNo
           /\ \A u \in User : password[u] \in Version
           /\ \A k \in DOMAIN ticket : ticket[k] \in Reset /\ ticket[k].uses \in Version
           /\ \A i \in DOMAIN token : token[i] \in Row /\ token[i].parent \in TokenNo \cup {0}
           /\ served \in Nat /\ served <= MaxRequests /\ MaxRequests \in Nat
<1>1. Len(token) \in Nat /\ DOMAIN token = 1 .. Len(token)
      /\ \A i \in DOMAIN token : token[i] \in Row
  BY RowsOfSeq DEF IInv, Types
<1>2. served \in Nat /\ served <= MaxRequests /\ MaxRequests \in Nat
  BY SessionAssumption DEF Counts, Bounded
<1>3. Cardinality(OwedTokens) \in Nat /\ Cardinality(Requesting) \in Nat
      /\ Cardinality(Replacing) \in Nat
  BY FS_CardinalityType DEF Counts, CountedTokens, CountedTickets, CountedPasswords
<1>4. Len(token) <= 2 * MaxRequests /\ Len(ticket) <= MaxRequests
  BY <1>1, <1>2, <1>3, TicketsAsRows DEF Counts, CountedTokens, CountedTickets
<1>5. \A u \in User : password[u] \in Version
  BY <1>2, <1>3 DEF Counts, CountedPasswords, IInv, Types, Version
<1>6. \A k \in DOMAIN ticket : ticket[k] \in Reset /\ ticket[k].uses \in Version
  BY <1>2, <1>3, TicketsAsRows DEF Counts, CountedPasswords, Reset, Version
<1>7. DOMAIN token \subseteq TokenNo /\ DOMAIN ticket \subseteq TicketNo /\ TicketNo \subseteq TokenNo
  BY <1>1, <1>2, <1>4, TicketsAsRows DEF TokenNo, TicketNo
<1>8. \A i \in DOMAIN token : token[i].parent \in TokenNo \cup {0}
  BY <1>7 DEF IInv, Exchanged
<1> QED BY <1>1, <1>2, <1>5, <1>6, <1>7, <1>8, TicketsAsRows

LEMMA CountedTypes == IInv /\ Counts => TypeOK
<1> SUFFICES ASSUME IInv, Counts PROVE TypeOK OBVIOUS
<1>1. \A i \in DOMAIN token : token[i] \in TokenRow
  BY InRange DEF Row, TokenRow, Counts, Bounded
<1>2. \A k \in DOMAIN ticket : ticket[k] \in TicketRow BY InRange DEF Reset, TicketRow
<1>3. token \in Seq(TokenRow) /\ ticket \in Seq(TicketRow)
  <2>1. token = [i \in 1 .. Len(token) |-> token[i]] /\ ticket = [k \in 1 .. Len(ticket) |-> ticket[k]]
    BY InRange, RowsOfSeq DEF IInv, Types
  <2>2. token \in [1 .. Len(token) -> TokenRow] /\ ticket \in [1 .. Len(ticket) -> TicketRow]
    BY <1>1, <1>2, <2>1, InRange
  <2> QED BY <2>2, InRange, SeqOfRows
<1>4. \A w \in Actor : task[w] \in Task \cup {None}
  BY DEF IInv, Types, Counts, Bounded, AnyTask, Task, Within
<1>5. task \in [Actor -> Task \cup {None}] BY <1>4 DEF IInv, Types
<1>6. password \in [User -> Version] BY InRange DEF IInv, Types
<1> QED BY <1>3, <1>5, <1>6, InRange DEF TypeOK, Counts, Bounded

(* A step of w changes only what w owes.                                   *)
LEMMA OthersOwe ==
    ASSUME NEW w \in Actor, \A x \in Actor \ {w} : task'[x] = task[x]
    PROVE  /\ OwedTokens' \subseteq (OwedTokens \cup {<<w, "access">>}) \cup {<<w, "refresh">>}
           /\ Requesting' \subseteq Requesting \cup {w} /\ Replacing' \subseteq Replacing \cup {w}
           /\ task'[w] = None =>
                /\ OwedTokens' \subseteq OwedTokens \ {<<w, "access">>, <<w, "refresh">>}
                /\ Requesting' \subseteq Requesting \ {w} /\ Replacing' \subseteq Replacing \ {w}
           /\ task[w] # None /\ task'[w].op = task[w].op =>
                Requesting' \subseteq Requesting /\ Replacing' \subseteq Replacing
           /\ task[w] # None /\ (\A kind : Owes(task'[w], kind) => Owes(task[w], kind)) =>
                OwedTokens' \subseteq OwedTokens
BY DEF OwedTokens, Requesting, Replacing

(* A step that issues nothing and asks for nothing.                        *)
LEMMA NothingIssued ==
    ASSUME IInv, IInv', Counts, NEW w \in Actor, \A x \in Actor \ {w} : task'[x] = task[x],
           \/ task'[w] = None
           \/ /\ task[w] # None /\ task'[w].op = task[w].op /\ Within(task'[w])
              /\ \A kind : Owes(task'[w], kind) => Owes(task[w], kind),
           DOMAIN token' = DOMAIN token, DOMAIN ticket' = DOMAIN ticket,
           \A i \in DOMAIN token : token'[i].auth = token[i].auth,
           \A k \in DOMAIN ticket : ticket'[k].uses = ticket[k].uses,
           UNCHANGED <<pool, served, password, lastReset>>
    PROVE  Counts'
<1>1. Len(token') = Len(token) /\ Len(ticket') = Len(ticket)
  <2>1. /\ Len(token) \in Nat /\ DOMAIN token = 1 .. Len(token)
        /\ Len(token') \in Nat /\ DOMAIN token' = 1 .. Len(token')
        /\ Len(ticket) \in Nat /\ DOMAIN ticket = 1 .. Len(ticket)
        /\ Len(ticket') \in Nat /\ DOMAIN ticket' = 1 .. Len(ticket')
    BY RowsOfSeq DEF IInv, Types
  <2> QED BY <2>1
<1>2. OwedTokens' \subseteq OwedTokens /\ Requesting' \subseteq Requesting
      /\ Replacing' \subseteq Replacing
  BY OthersOwe
<1>3. CountedTokens'
  BY <1>1, <1>2, Fewer, InRange DEF Counts, CountedTokens
<1>4. CountedTickets' BY <1>1, <1>2, Fewer, InRange DEF Counts, CountedTickets
<1>5. CountedPasswords'
  <2>1. /\ IsFiniteSet(Replacing') /\ Cardinality(Replacing) \in Nat
        /\ Cardinality(Replacing') \in Nat /\ Cardinality(Replacing') <= Cardinality(Replacing)
    BY <1>2, Fewer DEF Counts, CountedPasswords
  <2>2. /\ \A u \in User : password[u] \in Nat
        /\ \A k \in DOMAIN ticket : ticket[k].uses \in Nat
        /\ served \in Nat
    BY InRange DEF IInv, Types, Reset
  <2> QED BY <2>1, <2>2 DEF Counts, CountedPasswords
<1>6. Bounded' BY DEF Counts, Bounded, Within
<1> QED BY <1>3, <1>4, <1>5, <1>6 DEF Counts

(* A request that begins owes two tokens, a ticket and a password at most. *)
LEMMA BeginCounts ==
    ASSUME IInv, Counts, NEW w \in Actor, NEW t, Starts(w, t), Within(t)
    PROVE  Counts'
<1> USE DEF Starts, tables
<1>1. task'[w] = t /\ \A x \in Actor \ {w} : task'[x] = task[x] BY DEF IInv, Types
<1>2. served \in Nat /\ served < MaxRequests /\ MaxRequests \in Nat /\ served' = served + 1
  BY InRange
<1>3. CountedTokens'
  <2> DEFINE some == OwedTokens \cup {<<w, "access">>}
  <2>1. /\ IsFiniteSet(some) /\ Cardinality(some) \in Nat /\ Cardinality(OwedTokens) \in Nat
        /\ Cardinality(some) <= Cardinality(OwedTokens) + 1
    BY OneMore DEF Counts, CountedTokens
  <2>2. OwedTokens' \subseteq some \cup {<<w, "refresh">>} BY <1>1, OthersOwe
  <2> HIDE DEF some
  <2>3. /\ IsFiniteSet(OwedTokens') /\ Cardinality(OwedTokens') \in Nat
        /\ Cardinality(OwedTokens') <= Cardinality(some) + 1
    BY <2>1, <2>2, OneMore
  <2> QED BY <1>2, <2>1, <2>3, InRange DEF Counts, CountedTokens
<1>4. CountedTickets'
  <2>1. Requesting' \subseteq Requesting \cup {w} BY <1>1, OthersOwe
  <2>2. /\ IsFiniteSet(Requesting') /\ Cardinality(Requesting) \in Nat
        /\ Cardinality(Requesting') \in Nat /\ Cardinality(Requesting') <= Cardinality(Requesting) + 1
    BY <2>1, OneMore DEF Counts, CountedTickets
  <2> QED BY <1>2, <2>2, InRange DEF Counts, CountedTickets
<1>5. CountedPasswords'
  <2>1. Replacing' \subseteq Replacing \cup {w} BY <1>1, OthersOwe
  <2>2. /\ IsFiniteSet(Replacing') /\ Cardinality(Replacing) \in Nat
        /\ Cardinality(Replacing') \in Nat /\ Cardinality(Replacing') <= Cardinality(Replacing) + 1
    BY <2>1, OneMore DEF Counts, CountedPasswords
  <2>3. /\ \A u \in User : password[u] \in Nat
        /\ \A k \in DOMAIN ticket : ticket[k].uses \in Nat
    BY InRange DEF IInv, Types, Reset
  <2>4. /\ \A u \in User : password[u] + Cardinality(Replacing) <= served
        /\ \A k \in DOMAIN ticket : ticket[k].uses + Cardinality(Replacing) <= served
    BY DEF Counts, CountedPasswords
  <2>5. \A u \in User : password[u] + Cardinality(Replacing') <= served'
    BY <1>2, <2>2, <2>3, <2>4
  <2>6. \A k \in DOMAIN ticket : ticket[k].uses + Cardinality(Replacing') <= served'
    BY <1>2, <2>2, <2>3, <2>4
  <2> QED BY <2>2, <2>5, <2>6 DEF CountedPasswords
<1>6. Bounded' BY <1>1, <1>2 DEF Counts, Bounded, Within
<1> QED BY <1>3, <1>4, <1>5, <1>6 DEF Counts

LEMMA PlainWithin ==
    ASSUME IInv, Counts, NEW op, NEW u, NEW todo
    PROVE  Within(Request(op, u, todo))
BY InRange DEF Request, Within, Version

LEMMA LoginCounts == ASSUME IInv, Counts, NEW w \in Actor, NEW u \in User, Login(w, u) PROVE Counts'
<1> DEFINE t == [Request(IF w \in Thread THEN "login" ELSE "form", u, "access")
                   EXCEPT !.auth = password[u]]
<1>1. Within(t) BY InRange DEF Request, Within, Version
<1> QED BY <1>1, BeginCounts DEF Login

LEMMA RefreshCounts ==
    ASSUME IInv, Counts, NEW w \in Actor, NEW i \in DOMAIN token, Refresh(w, i)
    PROVE  Counts'
<1> DEFINE t == [Request("refresh", token[i].user, "revoke")
                   EXCEPT !.id = token[i].id, !.arg = i, !.auth = token[i].auth]
<1>1. i \in TokenNo /\ token[i].auth \in Version BY InRange DEF Counts, Bounded
<1>2. Within(t) BY <1>1 DEF Request, Within
<1> QED BY <1>2, BeginCounts DEF Refresh

LEMMA RequestResetCounts ==
    ASSUME IInv, Counts, NEW w \in Actor, NEW u \in User, RequestReset(w, u)
    PROVE  Counts'
<1> DEFINE t == [Request("request", u, "commit") EXCEPT !.seen = TicketsOf(u)]
<1>1. TicketsOf(u) \subseteq TicketNo BY InRange DEF TicketsOf
<1>2. Within(t) BY <1>1, InRange DEF Request, Within, Version
<1> QED BY <1>2, BeginCounts DEF RequestReset

LEMMA ResetPasswordCounts ==
    ASSUME IInv, Counts, NEW w \in Actor, NEW k \in DOMAIN ticket, ResetPassword(w, k)
    PROVE  Counts'
<1> DEFINE t == [Request("reset", ticket[k].user, "load") EXCEPT !.arg = k]
<1>1. k \in TokenNo BY InRange
<1>2. Within(t) BY <1>1, InRange DEF Request, Within, Version
<1> QED BY <1>2, BeginCounts DEF ResetPassword

-----------------------------------------------------------------------------
LEMMA AppendCounts ==
    ASSUME NEW S, NEW s \in Seq(S), NEW e
    PROVE  /\ Len(Append(s, e)) = Len(s) + 1 /\ Len(s) \in Nat
           /\ \A i \in DOMAIN Append(s, e) : i \in DOMAIN s \/ Append(s, e)[i] = e
           /\ \A i \in DOMAIN s : i \in DOMAIN Append(s, e) /\ Append(s, e)[i] = s[i]
<1>1. Len(s) \in Nat /\ DOMAIN s = 1 .. Len(s) BY LenProperties
<1> QED BY <1>1

(* A step of w that leaves Requesting and Replacing as they are, or fewer.*)
LEMMA OthersCounted ==
    ASSUME IInv, Counts, Requesting' \subseteq Requesting, Replacing' \subseteq Replacing,
           UNCHANGED <<ticket, password, served>>
    PROVE  CountedTickets' /\ CountedPasswords'
<1>1. /\ IsFiniteSet(Replacing') /\ Cardinality(Replacing) \in Nat
      /\ Cardinality(Replacing') \in Nat /\ Cardinality(Replacing') <= Cardinality(Replacing)
      /\ IsFiniteSet(Requesting') /\ Cardinality(Requesting) \in Nat
      /\ Cardinality(Requesting') \in Nat /\ Cardinality(Requesting') <= Cardinality(Requesting)
  BY Fewer DEF Counts, CountedPasswords, CountedTickets
<1>2. /\ \A u \in User : password[u] \in Nat
      /\ \A k \in DOMAIN ticket : ticket[k].uses \in Nat
      /\ served \in Nat /\ Len(ticket) \in Nat
  BY InRange DEF IInv, Types, Reset
<1>3. /\ \A u \in User : password[u] + Cardinality(Replacing) <= served
      /\ \A k \in DOMAIN ticket : ticket[k].uses + Cardinality(Replacing) <= served
      /\ Len(ticket) + Cardinality(Requesting) <= served
  BY DEF Counts, CountedPasswords, CountedTickets
<1>4. \A u \in User : password[u] + Cardinality(Replacing') <= served BY <1>1, <1>2, <1>3
<1>5. \A k \in DOMAIN ticket : ticket[k].uses + Cardinality(Replacing') <= served
  BY <1>1, <1>2, <1>3
<1>6. CountedPasswords' BY <1>1, <1>4, <1>5 DEF CountedPasswords
<1>7. CountedTickets' BY <1>1, <1>2, <1>3 DEF CountedTickets
<1> QED BY <1>6, <1>7

LEMMA IssueAccessCounts == ASSUME IInv, Counts, NEW w \in Actor, IssueAccess(w) PROVE Counts'
<1> USE DEF IssueAccess, At
<1> DEFINE row == Issued("access", task[w].id, task[w])
<1>1. /\ task[w] \in AnyTask /\ task[w] # None /\ task[w].todo = "access" /\ Within(task[w])
  BY DEF IInv, Types, Counts, Bounded
<1> DEFINE t == [task[w] EXCEPT !.todo = "refresh", !.access = Len(token) + 1]
<1>2. task'[w] = t /\ \A x \in Actor \ {w} : task'[x] = task[x] BY DEF IInv, Types
<1>a. /\ t.op = task[w].op /\ t.todo = "refresh" /\ t.arg = task[w].arg
      /\ t.auth = task[w].auth /\ t.seen = task[w].seen /\ t.access = Len(token) + 1
  BY <1>1 DEF AnyTask
<1> HIDE DEF t
<1>3. /\ task'[w].op = task[w].op /\ task'[w].todo = "refresh" /\ task'[w].arg = task[w].arg
      /\ task'[w].auth = task[w].auth /\ task'[w].seen = task[w].seen
      /\ task'[w].access = Len(token) + 1
  BY <1>2, <1>a
<1>4. /\ Len(token') = Len(token) + 1 /\ Len(token) \in Nat
      /\ \A i \in DOMAIN token' : token'[i].auth \in Version
  <2>1. row.auth \in Version BY <1>1 DEF Issued, Within
  <2> QED BY <2>1, AppendCounts DEF IInv, Types, Counts, Bounded
<1>5. <<w, "access">> \in OwedTokens BY <1>1 DEF OwedTokens, Owes
<1>6. OwedTokens' \subseteq OwedTokens \ {<<w, "access">>}
  <2>1. OwedTokens' \subseteq OwedTokens
    <3>1. \A kind : Owes(task'[w], kind) => Owes(task[w], kind) BY <1>1, <1>3 DEF Owes
    <3> QED BY <1>1, <1>2, <3>1, OthersOwe
  <2>2. <<w, "access">> \notin OwedTokens' BY <1>3 DEF OwedTokens, Owes
  <2> QED BY <2>1, <2>2
<1>7. IsFiniteSet(OwedTokens') /\ Cardinality(OwedTokens) \in Nat /\ Cardinality(OwedTokens') \in Nat
      /\ Cardinality(OwedTokens') + 1 <= Cardinality(OwedTokens)
  BY <1>5, <1>6, OneFewer DEF Counts, CountedTokens
<1>8. CountedTokens' BY <1>4, <1>7, InRange DEF Counts, CountedTokens
<1>9. CountedTickets' /\ CountedPasswords'
  <2>1. Requesting' \subseteq Requesting /\ Replacing' \subseteq Replacing
    BY <1>1, <1>2, <1>3, OthersOwe
  <2> QED BY <2>1, OthersCounted
<1>10. Len(token) + 1 \in TokenNo
  BY <1>4, <1>7, InRange DEF Counts, CountedTokens, TokenNo
<1>11. Within(task'[w]) BY <1>1, <1>3, <1>10 DEF Within
<1>12. Bounded' BY <1>2, <1>4, <1>11 DEF Counts, Bounded, Within
<1> QED BY <1>8, <1>9, <1>12 DEF Counts

LEMMA IssueRefreshCounts == ASSUME IInv, Counts, NEW w \in Actor, IssueRefresh(w) PROVE Counts'
<1> USE DEF IssueRefresh, At, Done
<1> DEFINE a == task[w].access
           tok == [token EXCEPT ![a].held = TRUE]
           row == Issued("refresh", RefreshId(task[w]), task[w])
<1>1. /\ task[w] \in AnyTask /\ task[w] # None /\ task[w].todo = "refresh" /\ Within(task[w])
  BY DEF IInv, Types, Counts, Bounded
<1>2. task'[w] = None /\ \A x \in Actor \ {w} : task'[x] = task[x] BY DEF IInv, Types
<1>3. /\ Len(token') = Len(token) + 1 /\ Len(token) \in Nat
      /\ \A i \in DOMAIN token' : token'[i].auth \in Version
  <2>1. row.auth \in Version BY <1>1 DEF Issued, Within
  <2>2. /\ DOMAIN token = 1 .. Len(token) /\ Len(token) \in Nat
        /\ \A i \in DOMAIN token : token[i] \in Row
    BY RowsOfSeq DEF IInv, Types
  <2>3. \A i \in DOMAIN token : tok[i] \in Row /\ tok[i].auth = token[i].auth
    <3>1. \A i \in DOMAIN token :
            tok[i] = IF i = a THEN [token[i] EXCEPT !.held = TRUE] ELSE token[i]
      OBVIOUS
    <3> QED BY <2>2, <3>1 DEF Row
  <2>4. tok \in [1 .. Len(token) -> Row] BY <2>2, <2>3
  <2>5. tok \in Seq(Row) BY <2>2, <2>4, SeqOfRows
  <2>6. Len(tok) = Len(token) /\ DOMAIN tok = DOMAIN token BY <2>2, <2>4, <2>5, RowsOfSeq
  <2>7. token' = Append(tok, row) OBVIOUS
  <2>8. \A i \in DOMAIN token : tok[i].auth \in Version BY <2>3 DEF Counts, Bounded
  <2> HIDE DEF tok, row
  <2>9. /\ Len(token') = Len(tok) + 1
        /\ \A i \in DOMAIN token' : i \in DOMAIN tok \/ token'[i] = row
        /\ \A i \in DOMAIN tok : token'[i] = tok[i]
    BY ONLY <2>5, <2>7, AppendCounts
  <2> QED BY <2>1, <2>2, <2>6, <2>8, <2>9
<1>4. <<w, "refresh">> \in OwedTokens BY <1>1 DEF OwedTokens, Owes
<1>5. OwedTokens' \subseteq OwedTokens \ {<<w, "refresh">>}
      /\ Requesting' \subseteq Requesting /\ Replacing' \subseteq Replacing
  BY <1>2, OthersOwe
<1>6. IsFiniteSet(OwedTokens') /\ Cardinality(OwedTokens) \in Nat /\ Cardinality(OwedTokens') \in Nat
      /\ Cardinality(OwedTokens') + 1 <= Cardinality(OwedTokens)
  BY <1>4, <1>5, OneFewer DEF Counts, CountedTokens
<1>7. CountedTokens' BY <1>3, <1>6, InRange DEF Counts, CountedTokens
<1>8. CountedTickets' /\ CountedPasswords' BY <1>5, OthersCounted
<1>9. Bounded' BY <1>2, <1>3 DEF Counts, Bounded, Within
<1> QED BY <1>7, <1>8, <1>9 DEF Counts

LEMMA CommitRequestCounts ==
    ASSUME IInv, Counts, NEW w \in Actor, CommitRequest(w)
    PROVE  Counts'
<1> USE DEF CommitRequest, At, Done
<1> DEFINE old == [k \in DOMAIN ticket |->
                     IF k \in task[w].seen THEN [ticket[k] EXCEPT !.state = "deleted"]
                     ELSE ticket[k]]
           row == [user |-> task[w].user, state |-> "valid", uses |-> 0]
<1>1. task[w] # None /\ task[w].op = "request" OBVIOUS
<1>2. task'[w] = None /\ \A x \in Actor \ {w} : task'[x] = task[x] BY DEF IInv, Types
<1>3. /\ Len(ticket') = Len(ticket) + 1 /\ Len(ticket) \in Nat
      /\ \A k \in DOMAIN ticket' :
           ticket'[k].uses = 0 \/ (k \in DOMAIN ticket /\ ticket'[k].uses = ticket[k].uses)
  <2>1. row.uses = 0 OBVIOUS
  <2>2. /\ DOMAIN ticket = 1 .. Len(ticket) /\ Len(ticket) \in Nat
        /\ \A k \in DOMAIN ticket : ticket[k] \in Reset
    BY RowsOfSeq DEF IInv, Types
  <2>3. \A k \in DOMAIN ticket : old[k] \in Reset /\ old[k].uses = ticket[k].uses
    BY <2>2 DEF Reset, RowState
  <2>4. old \in [1 .. Len(ticket) -> Reset] BY <2>2, <2>3
  <2>5. old \in Seq(Reset) BY <2>2, <2>4, SeqOfRows
  <2>6. Len(old) = Len(ticket) /\ DOMAIN old = DOMAIN ticket BY <2>2, <2>4, <2>5, RowsOfSeq
  <2>7. ticket' = Append(old, row) OBVIOUS
  <2> HIDE DEF old, row
  <2>8. /\ Len(ticket') = Len(old) + 1
        /\ \A k \in DOMAIN ticket' : k \in DOMAIN old \/ ticket'[k] = row
        /\ \A k \in DOMAIN old : ticket'[k] = old[k]
    BY ONLY <2>5, <2>7, AppendCounts
  <2> QED BY <2>1, <2>2, <2>3, <2>6, <2>8
<1>4. w \in Requesting BY <1>1 DEF Requesting
<1>5. /\ OwedTokens' \subseteq OwedTokens
      /\ Requesting' \subseteq Requesting \ {w} /\ Replacing' \subseteq Replacing
  BY <1>2, OthersOwe
<1>6. CountedTokens'
  BY <1>5, Fewer, InRange DEF Counts, CountedTokens
<1>7. CountedTickets'
  <2>1. /\ IsFiniteSet(Requesting') /\ Cardinality(Requesting) \in Nat
        /\ Cardinality(Requesting') \in Nat
        /\ Cardinality(Requesting') + 1 <= Cardinality(Requesting)
    BY <1>4, <1>5, OneFewer DEF Counts, CountedTickets
  <2> QED BY <1>3, <2>1, InRange DEF Counts, CountedTickets
<1>8. CountedPasswords'
  <2>1. /\ IsFiniteSet(Replacing') /\ Cardinality(Replacing) \in Nat
        /\ Cardinality(Replacing') \in Nat /\ Cardinality(Replacing') <= Cardinality(Replacing)
    BY <1>5, Fewer DEF Counts, CountedPasswords
  <2>2. /\ User # {} /\ \A u \in User : password[u] \in Nat
        /\ \A k \in DOMAIN ticket : ticket[k].uses \in Nat
        /\ served \in Nat
    <3>1. task[w].user \in User BY <1>1 DEF IInv, Types, AnyTask
    <3> QED BY <3>1, InRange DEF IInv, Types, Reset
  <2>3. Cardinality(Replacing) <= served BY <2>1, <2>2 DEF Counts, CountedPasswords
  <2> QED BY <1>3, <2>1, <2>2, <2>3 DEF Counts, CountedPasswords
<1>9. Bounded' BY <1>2 DEF Counts, Bounded, Within
<1> QED BY <1>6, <1>7, <1>8, <1>9 DEF Counts

(* A request ends that replaces a password, and marks at most one ticket.  *)
LEMMA ReplaceCounts ==
    ASSUME IInv, IInv', Counts, NEW w \in Actor, task[w] # None, task[w].op \in {"change", "reset"},
           NEW u \in User, Replaced(u), Done(w), UNCHANGED <<pool, served>>,
           DOMAIN token' = DOMAIN token, DOMAIN ticket' = DOMAIN ticket,
           \A i \in DOMAIN token : token'[i].auth = token[i].auth,
           \A k \in DOMAIN ticket : ticket'[k].uses \in {ticket[k].uses, ticket[k].uses + 1},
           \A v \in User : lastReset'[v] \in {lastReset[v], password'[v]},
           DOMAIN lastReset' = User, lastReset' = [v \in DOMAIN lastReset' |-> lastReset'[v]]
    PROVE  Counts'
<1>1. Len(token') = Len(token) /\ Len(ticket') = Len(ticket)
  <2>1. /\ Len(token) \in Nat /\ DOMAIN token = 1 .. Len(token)
        /\ Len(token') \in Nat /\ DOMAIN token' = 1 .. Len(token')
        /\ Len(ticket) \in Nat /\ DOMAIN ticket = 1 .. Len(ticket)
        /\ Len(ticket') \in Nat /\ DOMAIN ticket' = 1 .. Len(ticket')
    BY RowsOfSeq DEF IInv, Types
  <2> QED BY <2>1
<1>2. task'[w] = None /\ \A x \in Actor \ {w} : task'[x] = task[x] BY DEF IInv, Types, Done
<1>3. /\ OwedTokens' \subseteq OwedTokens /\ Requesting' \subseteq Requesting
      /\ Replacing' \subseteq Replacing \ {w}
  BY <1>2, OthersOwe
<1>4. w \in Replacing BY DEF Replacing
<1>5. CountedTokens' BY <1>1, <1>3, Fewer, InRange DEF Counts, CountedTokens
<1>6. CountedTickets' BY <1>1, <1>3, Fewer, InRange DEF Counts, CountedTickets
<1>7. CountedPasswords'
  <2>1. /\ IsFiniteSet(Replacing') /\ Cardinality(Replacing) \in Nat
        /\ Cardinality(Replacing') \in Nat
        /\ Cardinality(Replacing') + 1 <= Cardinality(Replacing)
    BY <1>3, <1>4, OneFewer DEF Counts, CountedPasswords
  <2>2. /\ \A v \in User : password[v] \in Nat
        /\ \A k \in DOMAIN ticket : ticket[k].uses \in Nat
        /\ served \in Nat
    BY InRange DEF IInv, Types, Reset
  <2>3. \A v \in User : password'[v] \in {password[v], password[v] + 1}
    BY DEF Replaced, IInv, Types
  <2> QED BY <2>1, <2>2, <2>3 DEF Counts, CountedPasswords
<1>8. \A v \in User : password'[v] \in Version
  <2>1. Cardinality(Replacing') \in Nat BY <1>7, FS_CardinalityType DEF CountedPasswords
  <2>2. \A v \in User : password'[v] \in Nat BY DEF IInv, Types
  <2> QED BY <1>7, <2>1, <2>2, InRange DEF CountedPasswords, Version
<1>9. lastReset' \in [User -> Version] BY <1>8 DEF Counts, Bounded
<1>10. Bounded' BY <1>2, <1>9 DEF Counts, Bounded, Within
<1> QED BY <1>5, <1>6, <1>7, <1>10 DEF Counts

-----------------------------------------------------------------------------
LEMMA MarksKeepAuth ==
    ASSUME IInv, MarksTokens
    PROVE  DOMAIN token' = DOMAIN token /\ \A i \in DOMAIN token : token'[i].auth = token[i].auth
<1>1. \A i \in DOMAIN token : token[i] \in Row BY RowsOfSeq DEF IInv, Types
<1>2. ASSUME NEW i \in DOMAIN token PROVE token'[i].auth = token[i].auth
  <2>1. CASE token'[i] = token[i] BY <2>1
  <2>2. ASSUME NEW st \in RowState \ {"valid"}, token'[i] = [token[i] EXCEPT !.state = st]
        PROVE  token'[i].auth = token[i].auth
    BY <1>1, <2>2 DEF Row
  <2> QED BY <2>1, <2>2 DEF MarksTokens
<1> QED BY <1>2 DEF MarksTokens

(* A request goes on to issue no more than it had to.                      *)
LEMMA GoesCounts ==
    ASSUME IInv, IInv', Counts, NEW w \in Actor, task[w] # None, NEW todo, Goes(w, todo),
           todo = "access" => task[w].todo = "reload",
           todo \in {"reload", "commit", "blind", "access"},
           todo = "reload" => task[w].todo = "revoke",
           UNCHANGED token \/ MarksTokens,
           UNCHANGED <<pool, ticket, password, lastReset, served>>
    PROVE  Counts'
<1> DEFINE t == [task[w] EXCEPT !.todo = todo]
<1>1. task[w] \in AnyTask /\ Within(task[w]) BY DEF IInv, Types, Counts, Bounded
<1>2. task'[w] = t /\ \A x \in Actor \ {w} : task'[x] = task[x] BY DEF Goes, IInv, Types
<1>3. /\ t.op = task[w].op /\ t.todo = todo /\ t.arg = task[w].arg
      /\ t.auth = task[w].auth /\ t.seen = task[w].seen /\ t.access = task[w].access
  BY <1>1 DEF AnyTask
<1> HIDE DEF t
<1>4. task'[w].op = task[w].op /\ Within(task'[w]) BY <1>1, <1>2, <1>3 DEF Within
<1>5. \A kind : Owes(task'[w], kind) => Owes(task[w], kind)
  BY <1>2, <1>3 DEF Owes
<1>6. DOMAIN token' = DOMAIN token /\ \A i \in DOMAIN token : token'[i].auth = token[i].auth
  BY MarksKeepAuth
<1> QED BY <1>2, <1>4, <1>5, <1>6, NothingIssued

LEMMA RevokeCounts == ASSUME IInv, IInv', Counts, NEW w \in Actor, Revoke(w) PROVE Counts'
<1>1. MarksTokens
  <2>1. "spent" \in RowState \ {"valid"} BY DEF RowState
  <2> QED BY <2>1 DEF Revoke, MarksTokens
<1> QED BY <1>1, GoesCounts DEF Revoke, At

LEMMA ReloadCounts == ASSUME IInv, IInv', Counts, NEW w \in Actor, Reload(w) PROVE Counts'
BY GoesCounts DEF Reload, At

LEMMA LoadTicketCounts == ASSUME IInv, IInv', Counts, NEW w \in Actor, LoadTicket(w) PROVE Counts'
<1> DEFINE row == ticket[task[w].arg]
           todo == IF row.state = "deleted" \/ row.uses > 0 THEN "blind" ELSE "commit"
<1>1. todo \in {"blind", "commit"} OBVIOUS
<1>2. Goes(w, todo) BY DEF LoadTicket
<1> HIDE DEF todo
<1> QED BY <1>1, <1>2, GoesCounts DEF LoadTicket, At

(* A request ends that issues nothing.                                     *)
LEMMA EndsCounts ==
    ASSUME IInv, IInv', Counts, NEW w \in Actor, Done(w), UNCHANGED token \/ MarksTokens,
           UNCHANGED <<pool, ticket, password, lastReset, served>>
    PROVE  Counts'
<1>1. task'[w] = None /\ \A x \in Actor \ {w} : task'[x] = task[x] BY DEF Done, IInv, Types
<1>2. DOMAIN token' = DOMAIN token /\ \A i \in DOMAIN token : token'[i].auth = token[i].auth
  BY MarksKeepAuth
<1> QED BY <1>1, <1>2, NothingIssued

LEMMA RevokeTokensCounts ==
    ASSUME IInv, IInv', Counts, NEW w \in Actor, RevokeTokens(w)
    PROVE  Counts'
BY DeletedMarks, EndsCounts DEF RevokeTokens

LEMMA AbandonCounts == ASSUME IInv, IInv', Counts, NEW w \in Actor, Abandon(w) PROVE Counts'
BY EndsCounts DEF Abandon

LEMMA CommitChangeCounts ==
    ASSUME IInv, IInv', Counts, NEW w \in Actor, CommitChange(w)
    PROVE  Counts'
<1>1. task[w].user \in User BY DEF CommitChange, At, IInv, Types, AnyTask
<1>2. DOMAIN lastReset' = User /\ lastReset' = [v \in DOMAIN lastReset' |-> lastReset'[v]]
  BY DEF CommitChange, Counts, Bounded
<1> QED BY <1>1, <1>2, ReplaceCounts DEF CommitChange, At

LEMMA CommitResetCounts ==
    ASSUME IInv, IInv', Counts, NEW w \in Actor, CommitReset(w)
    PROVE  Counts'
<1> USE DEF CommitReset, At
<1> DEFINE k == task[w].arg
<1>1. /\ task[w] # None /\ task[w].op = "reset" /\ task[w].user \in User /\ k \in DOMAIN ticket
  BY DEF IInv, Types, AnyTask, Tasks, Resets
<1>2. \A j \in DOMAIN ticket : ticket[j] \in Reset BY TicketsAsRows
<1>3. /\ DOMAIN ticket' = DOMAIN ticket
      /\ \A j \in DOMAIN ticket : ticket'[j].uses \in {ticket[j].uses, ticket[j].uses + 1}
  <2>1. CASE ticket' = [ticket EXCEPT ![k] = Used(ticket[k])]
    <3>1. Used(ticket[k]).uses = ticket[k].uses + 1 BY <1>1, <1>2 DEF Used, Reset
    <3> QED BY <2>1, <3>1
  <2>2. CASE ticket' = [ticket EXCEPT ![k].uses = @ + 1]
    <3> DEFINE row == [ticket[k] EXCEPT !.uses = ticket[k].uses + 1]
    <3>1. row.uses = ticket[k].uses + 1 BY <1>1, <1>2 DEF Reset
    <3>2. ticket' = [ticket EXCEPT ![k] = row] BY <2>2
    <3> HIDE DEF row
    <3> QED BY <3>1, <3>2
  <2> QED BY <2>1, <2>2
<1>4. /\ \A v \in User : lastReset'[v] \in {lastReset[v], password'[v]}
      /\ DOMAIN lastReset' = User /\ lastReset' = [v \in DOMAIN lastReset' |-> lastReset'[v]]
  BY <1>1 DEF Counts, Bounded
<1>5. DOMAIN token' = DOMAIN token /\ \A i \in DOMAIN token : token'[i].auth = token[i].auth
  BY DeletedMarks, MarksKeepAuth
<1> QED BY <1>1, <1>3, <1>4, <1>5, ReplaceCounts

LEMMA ExpireCounts == ASSUME IInv, IInv', Counts, Expire PROVE Counts'
<1>1. PICK w \in Actor : TRUE BY SessionAssumption DEF Actor
<1> DEFINE Same ==
      /\ DOMAIN token' = DOMAIN token /\ DOMAIN ticket' = DOMAIN ticket
      /\ \A i \in DOMAIN token : token'[i].auth = token[i].auth
      /\ \A k \in DOMAIN ticket : ticket'[k].uses = ticket[k].uses
<1>2. Same
  <2>1. ASSUME NEW i \in DOMAIN token, token' = [token EXCEPT ![i].state = "spent"], UNCHANGED ticket
        PROVE  Same
    <3>1. "spent" \in RowState \ {"valid"} BY DEF RowState
    <3>2. MarksTokens BY <2>1, <3>1 DEF MarksTokens
    <3> QED BY <2>1, <3>2, MarksKeepAuth
  <2>2. ASSUME NEW k \in DOMAIN ticket, ticket' = [ticket EXCEPT ![k].state = "spent"], UNCHANGED token
        PROVE  Same
    <3>1. \A j \in DOMAIN ticket : ticket[j] \in Reset BY TicketsAsRows
    <3>2. [ticket[k] EXCEPT !.state = "spent"].uses = ticket[k].uses BY <3>1 DEF Reset
    <3> QED BY <2>2, <3>2
  <2> QED BY <2>1, <2>2 DEF Expire
<1>3. CASE task[w] = None BY <1>2, <1>3, NothingIssued DEF Expire
<1>4. CASE task[w] # None
  <2>1. Within(task'[w]) BY <1>4 DEF Expire, Counts, Bounded
  <2>2. task'[w] = task[w] /\ task'[w].op = task[w].op BY DEF Expire
  <2> QED BY <1>2, <1>4, <2>1, <2>2, NothingIssued DEF Expire, Owes
<1> QED BY <1>3, <1>4

LEMMA PlainCounts ==
    ASSUME IInv, Counts, NEW w \in Actor,
           (\E u \in User : ChangePassword(w, u)) \/ (\E i \in DOMAIN token : Logout(w, i))
    PROVE  Counts'
BY PlainWithin, BeginCounts DEF ChangePassword, Logout

LEMMA InitCounts == Init => Counts
<1> SUFFICES ASSUME Init PROVE Counts OBVIOUS
<1> USE DEF Init
<1>1. OwedTokens = {} /\ Requesting = {} /\ Replacing = {}
  BY DEF OwedTokens, Requesting, Replacing
<1>2. Len(token) = 0 /\ Len(ticket) = 0 /\ DOMAIN token = {} /\ DOMAIN ticket = {} OBVIOUS
<1>3. IsFiniteSet({}) /\ Cardinality({}) = 0 BY FS_EmptySet
<1>4. CountedTokens /\ CountedTickets /\ CountedPasswords
  BY <1>1, <1>2, <1>3 DEF CountedTokens, CountedTickets, CountedPasswords
<1>5. Bounded BY <1>2, SessionAssumption DEF Bounded, Version
<1> QED BY <1>4, <1>5 DEF Counts

LEMMA NextCounts == IInv /\ Counts /\ [Next]_vars => Counts'
<1> SUFFICES ASSUME IInv, Counts, [Next]_vars PROVE Counts' OBVIOUS
<1>1. IInv' BY NextInv
<1>2. CASE UNCHANGED vars
  <2>1. OwedTokens' = OwedTokens /\ Requesting' = Requesting /\ Replacing' = Replacing
    BY <1>2 DEF vars, OwedTokens, Requesting, Replacing
  <2> QED BY <1>2, <2>1 DEF vars, Counts, CountedTokens, CountedTickets, CountedPasswords,
                            Bounded, Within
<1>3. CASE Next
  BY <1>1, <1>3, LoginCounts, PlainCounts, RequestResetCounts, RefreshCounts,
     ResetPasswordCounts, IssueAccessCounts, IssueRefreshCounts, RevokeCounts, ReloadCounts,
     RevokeTokensCounts, CommitChangeCounts, CommitRequestCounts, LoadTicketCounts,
     CommitResetCounts, AbandonCounts, ExpireCounts DEF Next
<1> QED BY <1>2, <1>3

(* Numbers included, every variable has its type: since a request issues   *)
(* at most two tokens and one ticket and replaces at most one password,    *)
(* there are never more of them than the requests begun account for.       *)
THEOREM SessionsTypeOK == Spec => []TypeOK
BY InitInv, NextInv, InitCounts, NextCounts, CountedTypes, PTL DEF Spec
=============================================================================
