---------------------------- MODULE Roles_proofs -----------------------------
(***************************************************************************)
(* Proofs about Roles for any number of roles, users, permissions, slots   *)
(* and server processes.                                                   *)
(***************************************************************************)
EXTENDS Roles, TLAPS

(* What the shape of the handlers fixes: which request can be where.       *)
Shape(t) ==
    /\ t.op # "give" => t.role \in Role
    /\ t.todo = "load" => t.op \in {"update", "delete"}
    /\ t.todo = "log" => t.op = "delete"
    /\ t.todo = "role" => t.op = "give"

Shapes == \A s \in Slot : task[s] # None => Shape(task[s])

(* What a handler has loaded in its turn is what the tables hold.          *)
Fresh(t) ==
    /\ t.todo = "load" => /\ t.me.role # None /\ Exists(t.me.role)
                          /\ t.old = role[t.me.role].perms
    /\ t.todo = "commit" /\ t.op \in RoleOp =>
         Exists(t.role) /\ t.old = role[t.role].perms
    /\ t.todo = "commit" /\ t.op = "delete" => t.found = HoldersNow(t)
    /\ t.todo \in {"role", "commit"} /\ t.op \in UserOp /\ ~OnOneself(t) =>
         t.row = user[t.target]
    /\ t.todo = "commit" /\ t.op = "give" =>
         /\ t.row.role # None /\ Exists(t.row.role)
         /\ t.old = role[t.row.role].perms

(* In one process at most one handler is in its turn.                      *)
OneRuns == \A s, t \in Slot : Running(s) /\ Running(t) => s = t
Serial == OneProcess => OneRuns /\ \A s \in Slot : Running(s) => Fresh(task[s])

IInv == TypeOK /\ RoleReferences /\ Shapes /\ Serial

-----------------------------------------------------------------------------
LEMMA RowsAreNotNone ==
    /\ None # Deleted
    /\ \A row \in RoleRow : row # None /\ row # Deleted
BY RoleAssumption DEF RoleRow, Registry!RoleRow

LEMMA ExistingRow ==
    ASSUME TypeOK, NEW r \in Role, Exists(r)
    PROVE  role[r] \in RoleRow
BY DEF TypeOK, Exists, Registry!Exists

LEMMA InitInv == Init => IInv
<1> SUFFICES ASSUME Init PROVE IInv OBVIOUS
<1>1. TypeOK
  <2>1. role \in [Role -> RoleRow \cup {None, Deleted}]
    BY RoleAssumption DEF Init, RoleRow, Registry!RoleRow
  <2> QED BY <2>1, RoleAssumption DEF Init, TypeOK, UserRow, Registry!UserRow
<1>2. RoleReferences
  <2> SUFFICES ASSUME NEW u \in User, user[u].role # None PROVE Exists(user[u].role)
    BY DEF RoleReferences
  <2>1. role[user[u].role] # None BY DEF Init
  <2>2. user[u].role \in Role BY DEF Init, UserRow, Registry!UserRow
  <2>3. role[user[u].role] # Deleted
    BY <2>1, <2>2, RowsAreNotNone, RoleAssumption DEF Init, RoleRow, Registry!RoleRow
  <2> QED BY <2>1, <2>3 DEF Exists, Registry!Exists
<1>3. Shapes /\ Serial BY DEF Init, Shapes, Serial, OneRuns, Running
<1> QED BY <1>1, <1>2, <1>3 DEF IInv

-----------------------------------------------------------------------------
(* A handler that goes on without changing a table.                        *)
LEMMA HandlerStep ==
    ASSUME IInv, NEW s \in Slot, NEW t \in Task, MayRun(s),
           task' = [task EXCEPT ![s] = t], UNCHANGED <<place, role, user, served>>,
           Shape(t), OneProcess /\ t.todo \notin Waiting => Fresh(t)
    PROVE  IInv'
<1>1. TypeOK' BY DEF IInv, TypeOK
<1>2. RoleReferences'
  BY DEF IInv, RoleReferences, Exists, Registry!Exists
<1>3. \A x \in Slot : task'[x] = IF x = s THEN t ELSE task[x]
  BY DEF IInv, TypeOK
<1>4. Shapes'
  BY <1>3 DEF IInv, Shapes, Shape
<1>5. ASSUME OneProcess PROVE OneRuns' /\ \A x \in Slot : Running(x)' => Fresh(task[x])'
  <2>1. \A x \in Slot \ {s} : ~Running(x) BY <1>5 DEF MayRun, OneProcess
  <2>2. \A x \in Slot \ {s} : ~Running(x)' BY <2>1, <1>3 DEF Running
  <2>3. OneRuns' BY <2>2 DEF OneRuns
  <2>4. ASSUME Running(s)' PROVE Fresh(task[s])'
    <3>1. t.todo \notin Waiting BY <2>4, <1>3 DEF Running, Waiting
    <3>2. Fresh(t) BY <3>1, <1>5
    <3>3. task'[s] = t BY <1>3
    <3> QED BY <3>2, <3>3 DEF Fresh, HoldersNow, OnOneself, Exists, Registry!Exists
  <2> QED BY <2>2, <2>3, <2>4
<1>6. Serial' BY <1>5 DEF Serial, OneProcess
<1> QED BY <1>1, <1>2, <1>4, <1>6 DEF IInv

(* A slot that is free, or becomes free, with its tables written by a      *)
(* handler whose turn it was.                                              *)
LEMMA WriterStep ==
    ASSUME IInv, TypeOK', RoleReferences', NEW s \in Slot, UNCHANGED place,
           OneProcess => \A x \in Slot \ {s} : ~Running(x),
           task' = [task EXCEPT ![s] = None]
    PROVE  IInv'
<1>1. \A x \in Slot : task'[x] = IF x = s THEN None ELSE task[x]
  BY DEF IInv, TypeOK
<1>2. Shapes' BY <1>1 DEF IInv, Shapes, Shape
<1>3. ASSUME OneProcess PROVE \A x \in Slot : ~Running(x)'
  BY <1>1, <1>3 DEF Running
<1>4. Serial' BY <1>3 DEF Serial, OneProcess, OneRuns
<1> QED BY <1>2, <1>4 DEF IInv

-----------------------------------------------------------------------------
LEMMA CreateRoleStep ==
    ASSUME IInv, NEW s \in Slot, NEW r \in Role, NEW P \in Lists, CreateRole(s, r, P)
    PROVE  IInv'
<1> USE DEF CreateRole, Registry!Create
<1>1. [perms |-> P] \in RoleRow BY RoleAssumption DEF RoleRow, Registry!RoleRow
<1>2. TypeOK' BY <1>1, RoleAssumption DEF IInv, TypeOK
<1>3. RoleReferences'
  <2>1. \A q \in Role : Exists(q) => Exists(q)'
    BY <1>1, RowsAreNotNone DEF IInv, TypeOK, Exists, Registry!Exists
  <2>2. \A u \in User : user[u].role \in Role \cup {None}
    BY DEF IInv, TypeOK, UserRow, Registry!UserRow
  <2> QED BY <2>1, <2>2 DEF IInv, RoleReferences
<1>4. task' = [task EXCEPT ![s] = None] BY DEF IInv, TypeOK, Idle
<1>5. OneProcess => \A x \in Slot \ {s} : ~Running(x) BY DEF MayRun, OneProcess
<1> QED BY <1>2, <1>3, <1>4, <1>5, WriterStep

LEMMA GetCurrentUserStep ==
    ASSUME IInv, NEW s \in Slot, NEW op \in RoleOp \cup UserOp \cup {"delete"},
           NEW by \in User, NEW r \in Role \cup {None}, NEW u \in User, NEW P \in SUBSET Perm,
           op # "give" => r \in Role, GetCurrentUser(s, op, by, r, u, P)
    PROVE  IInv'
<1> DEFINE t == [op |-> op, by |-> by, me |-> user[by], role |-> r, target |-> u,
                 perms |-> P, old |-> {}, row |-> user[by], found |-> {}, todo |-> "start"]
<1>1. t \in Task BY DEF IInv, TypeOK, Task
<1>2. task' = [task EXCEPT ![s] = t] BY DEF GetCurrentUser
<1>3. \A x \in Slot : task'[x] = IF x = s THEN t ELSE task[x]
  BY <1>2 DEF IInv, TypeOK
<1>4. TypeOK' BY <1>1, <1>2, RoleAssumption DEF IInv, TypeOK, GetCurrentUser
<1>5. RoleReferences' BY DEF IInv, RoleReferences, Exists, Registry!Exists, GetCurrentUser
<1>6. Shapes' BY <1>3 DEF IInv, Shapes, Shape
<1>7. \A x \in Slot : Running(x)' => Running(x) /\ task'[x] = task[x]
  BY <1>3 DEF Running, Waiting
<1>8. Serial'
  BY <1>7 DEF IInv, Serial, OneProcess, OneRuns, Fresh, HoldersNow, OnOneself, Exists,
              Registry!Exists, GetCurrentUser
<1> QED BY <1>4, <1>5, <1>6, <1>8 DEF IInv

LEMMA ChangePermissionStep ==
    ASSUME IInv, NEW s \in Slot, ChangePermission(s)
    PROVE  IInv'
<1> USE DEF ChangePermission, Step, At, Goes
<1> DEFINE t == [task[s] EXCEPT !.old = role[task[s].role].perms, !.todo = "commit"]
<1>1. task[s] \in Task /\ Shape(task[s]) BY DEF IInv, TypeOK, Shapes
<1>2. task[s].role \in Role BY <1>1 DEF Shape
<1>3. role[task[s].role] \in RoleRow BY <1>2, ExistingRow DEF IInv
<1>4. t \in Task BY <1>1, <1>3 DEF Task, RoleRow, Registry!RoleRow
<1>5. t.op = task[s].op /\ t.role = task[s].role /\ t.todo = "commit"
        /\ t.old = role[task[s].role].perms
  BY <1>1 DEF Task
<1>6. Shape(t) BY <1>1, <1>5 DEF Shape
<1>7. Fresh(t) BY <1>5 DEF Fresh, UserOp, RoleOp
<1> QED BY <1>4, <1>6, <1>7, HandlerStep

LEMMA CheckPermissionStep ==
    ASSUME IInv, NEW s \in Slot, CheckPermission(s)
    PROVE  IInv'
<1> USE DEF CheckPermission, Step, At, Goes
<1> DEFINE t == [task[s] EXCEPT !.old = role[task[s].me.role].perms, !.todo = "load"]
<1>1. task[s] \in Task /\ Shape(task[s]) BY DEF IInv, TypeOK, Shapes
<1>2. task[s].me.role \in Role /\ Exists(task[s].me.role)
  BY <1>1 DEF Task, UserRow, Registry!UserRow, Permitted
<1>3. role[task[s].me.role] \in RoleRow BY <1>2, ExistingRow DEF IInv
<1>4. t \in Task BY <1>1, <1>3 DEF Task, RoleRow, Registry!RoleRow
<1>5. t.op = task[s].op /\ t.role = task[s].role /\ t.todo = "load" /\ t.me = task[s].me
        /\ t.old = role[task[s].me.role].perms
  BY <1>1 DEF Task
<1>6. Shape(t) BY <1>1, <1>5 DEF Shape
<1>7. Fresh(t) BY <1>2, <1>5, RoleAssumption DEF Fresh
<1> QED BY <1>4, <1>6, <1>7, HandlerStep

LEMMA LoadRoleStep ==
    ASSUME IInv, NEW s \in Slot, LoadRole(s)
    PROVE  IInv'
<1> USE DEF LoadRole, Step, At, Goes
<1> DEFINE old == IF task[s].role = task[s].me.role THEN task[s].old
                  ELSE role[task[s].role].perms
           todo == IF task[s].op = "update" THEN "commit" ELSE "log"
           t == [task[s] EXCEPT !.old = old, !.todo = todo]
<1>1. task[s] \in Task /\ Shape(task[s]) BY DEF IInv, TypeOK, Shapes
<1>2. task[s].role \in Role /\ task[s].op \in {"update", "delete"} BY <1>1 DEF Shape
<1>3. role[task[s].role] \in RoleRow BY <1>2, ExistingRow DEF IInv
<1>4. old \in SUBSET Perm BY <1>1, <1>3 DEF Task, RoleRow, Registry!RoleRow
<1>5. t \in Task BY <1>1, <1>4 DEF Task
<1>6. t.op = task[s].op /\ t.role = task[s].role /\ t.todo = todo /\ t.old = old
  BY <1>1 DEF Task
<1>7. Shape(t) BY <1>1, <1>2, <1>6 DEF Shape
<1>8. ASSUME OneProcess, t.todo \notin Waiting PROVE Fresh(t)
  <2>1. t.todo = "commit" /\ t.op = "update" BY <1>2, <1>6, <1>8 DEF Waiting
  <2>2. Running(s) BY <1>2 DEF Running, Waiting
  <2>3. Fresh(task[s]) BY <2>2, <1>8 DEF IInv, Serial
  <2>4. t.old = role[t.role].perms /\ Exists(t.role) BY <2>3, <1>6 DEF Fresh
  <2> QED BY <2>1, <2>4 DEF Fresh, UserOp
<1>9. task' = [task EXCEPT ![s] = t] /\ MayRun(s) OBVIOUS
<1> QED BY <1>5, <1>7, <1>8, <1>9, HandlerStep

LEMMA FindHoldersStep ==
    ASSUME IInv, NEW s \in Slot, FindHolders(s)
    PROVE  IInv'
<1> USE DEF FindHolders, Step, At, Goes
<1> DEFINE t == [task[s] EXCEPT !.found = HoldersNow(task[s]), !.todo = "commit"]
<1>1. task[s] \in Task /\ Shape(task[s]) BY DEF IInv, TypeOK, Shapes
<1>2. t \in Task BY <1>1 DEF Task, HoldersNow
<1>3. t.op = "delete" /\ t.role = task[s].role /\ t.todo = "commit"
        /\ t.found = HoldersNow(task[s])
  BY <1>1 DEF Task, Shape
<1>4. Shape(t) BY <1>1, <1>3 DEF Shape
<1>5. Fresh(t) BY <1>3 DEF Fresh, UserOp, RoleOp, HoldersNow
<1> QED BY <1>2, <1>4, <1>5, HandlerStep

LEMMA LoadTargetStep ==
    ASSUME IInv, NEW s \in Slot, LoadTarget(s)
    PROVE  IInv'
<1> USE DEF LoadTarget, Step, At, Goes
<1> DEFINE todo == IF task[s].op = "give" THEN "role" ELSE "commit"
           t == [task[s] EXCEPT !.row = Loaded(task[s]), !.todo = todo]
<1>1. task[s] \in Task /\ Shape(task[s]) BY DEF IInv, TypeOK, Shapes
<1>2. Loaded(task[s]) \in UserRow BY <1>1 DEF Loaded, Task, IInv, TypeOK
<1>3. t \in Task BY <1>1, <1>2 DEF Task
<1>4. t.op = task[s].op /\ t.role = task[s].role /\ t.todo = todo /\ t.row = Loaded(task[s])
        /\ t.by = task[s].by /\ t.target = task[s].target
  BY <1>1 DEF Task
<1>5. Shape(t) BY <1>1, <1>4 DEF Shape
<1>6. Fresh(t) BY <1>4 DEF Fresh, UserOp, RoleOp, Loaded, OnOneself
<1>7. task' = [task EXCEPT ![s] = t] /\ MayRun(s) OBVIOUS
<1> QED BY <1>3, <1>5, <1>6, <1>7, HandlerStep

LEMMA LoadRoleOfTargetStep ==
    ASSUME IInv, NEW s \in Slot, LoadRoleOfTarget(s)
    PROVE  IInv'
<1> USE DEF LoadRoleOfTarget, Step, At, Goes
<1> DEFINE t == [task[s] EXCEPT !.old = role[task[s].row.role].perms, !.todo = "commit"]
<1>1. task[s] \in Task /\ Shape(task[s]) /\ task[s].op = "give"
  BY DEF IInv, TypeOK, Shapes, Shape
<1>2. task[s].row.role \in Role /\ Exists(task[s].row.role)
  BY <1>1 DEF Task, UserRow, Registry!UserRow
<1>3. role[task[s].row.role] \in RoleRow BY <1>2, ExistingRow DEF IInv
<1>4. t \in Task BY <1>1, <1>3 DEF Task, RoleRow, Registry!RoleRow
<1>5. t.op = "give" /\ t.todo = "commit" /\ t.old = role[task[s].row.role].perms
        /\ t.row = task[s].row /\ t.by = task[s].by /\ t.target = task[s].target
  BY <1>1 DEF Task
<1>6. Shape(t) BY <1>5 DEF Shape
<1>7. ASSUME OneProcess PROVE Fresh(t)
  <2>1. Running(s) BY DEF Running, Waiting
  <2>2. Fresh(task[s]) BY <2>1, <1>7 DEF IInv, Serial
  <2>3. ~OnOneself(t) => t.row = user[t.target]
    BY <2>2, <1>1, <1>5 DEF Fresh, OnOneself, UserOp
  <2> QED BY <2>3, <1>2, <1>5, RoleAssumption DEF Fresh, RoleOp
<1>8. task' = [task EXCEPT ![s] = t] /\ MayRun(s) OBVIOUS
<1> QED BY <1>4, <1>6, <1>7, <1>8, HandlerStep

-----------------------------------------------------------------------------
(* Who commits.                                                            *)
LEMMA CommitterIsAlone ==
    ASSUME IInv, NEW s \in Slot, At(s, "commit")
    PROVE  /\ task[s] \in Task /\ Shape(task[s]) /\ task[s].todo = "commit"
           /\ OneProcess => Fresh(task[s])
           /\ OneProcess => \A x \in Slot \ {s} : ~Running(x)
<1>1. Running(s) BY DEF Running, Waiting, At
<1>2. OneProcess => Fresh(task[s]) BY <1>1 DEF IInv, Serial
<1>3. OneProcess => \A x \in Slot \ {s} : ~Running(x) BY <1>1 DEF IInv, Serial, OneRuns
<1> QED BY <1>2, <1>3 DEF IInv, TypeOK, Shapes, At

LEMMA NewListIsList ==
    ASSUME NEW t \in Task, t.op \in RoleOp
    PROVE  NewList(t) \in SUBSET Perm
<1>1. t.old \in SUBSET Perm /\ t.perms \in SUBSET Perm BY DEF Task
<1>2. CASE t.op = "add" BY <1>1, <1>2 DEF NewList
<1>3. CASE t.op = "remove" BY <1>1, <1>3 DEF NewList
<1>4. CASE t.op = "update" BY <1>1, <1>4 DEF NewList
<1> QED BY <1>2, <1>3, <1>4 DEF RoleOp

LEMMA CommitRoleTables ==
    ASSUME IInv, NEW s \in Slot, CommitRole(s), Done(s), UNCHANGED <<place, served>>
    PROVE  /\ TypeOK' /\ RoleReferences'
           /\ \A r \in Role : role[r] = Deleted => role'[r] = Deleted
<1> USE DEF CommitRole, Done
<1>1. task[s] \in Task /\ Shape(task[s]) BY CommitterIsAlone
<1>2. task[s].role \in Role BY <1>1 DEF Shape, RoleOp
<1>3. Exists(task[s].role) BY DEF Matches
<1>4. [perms |-> NewList(task[s])] \in RoleRow
  BY <1>1, NewListIsList DEF RoleRow, Registry!RoleRow
<1>5. TypeOK' BY <1>2, <1>4 DEF IInv, TypeOK
<1>6. \A q \in Role : Exists(q) => Exists(q)'
  BY <1>4, RowsAreNotNone DEF IInv, TypeOK, Exists, Registry!Exists
<1>7. \A u \in User : user[u].role \in Role \cup {None}
  BY DEF IInv, TypeOK, UserRow, Registry!UserRow
<1>8. RoleReferences' BY <1>6, <1>7 DEF IInv, RoleReferences
<1>9. \A r \in Role : role[r] = Deleted => role'[r] = Deleted
  BY <1>3 DEF IInv, TypeOK, Exists, Registry!Exists
<1> QED BY <1>5, <1>8, <1>9

LEMMA CommitDeleteTables ==
    ASSUME IInv, NEW s \in Slot, CommitDelete(s), Done(s), UNCHANGED <<place, served>>
    PROVE  /\ TypeOK' /\ RoleReferences'
           /\ \A r \in Role : role[r] = Deleted => role'[r] = Deleted
<1> USE DEF CommitDelete, Done
<1>1. task[s] \in Task /\ task[s].role \in Role BY CommitterIsAlone DEF Shape
<1>2. \A u \in User : user[u] \in UserRow BY DEF IInv, TypeOK
<1>3. \A u \in User : [user[u] EXCEPT !.role = None] \in UserRow
  BY <1>2 DEF UserRow, Registry!UserRow
<1>4. user' \in [User -> UserRow] BY <1>2, <1>3
<1>5. TypeOK' BY <1>1, <1>4 DEF IInv, TypeOK
<1>6. \A r \in Role : role'[r] = IF r = task[s].role THEN Deleted ELSE role[r]
  BY <1>1 DEF IInv, TypeOK
<1>7. RoleReferences'
  <2> SUFFICES ASSUME NEW u \in User, user'[u].role # None
               PROVE  Exists(user[u].role)'
    BY DEF RoleReferences
  <2>1. u \notin task[s].found
    <3> SUFFICES ASSUME u \in task[s].found PROVE FALSE OBVIOUS
    <3>1. user'[u] = [user[u] EXCEPT !.role = None] OBVIOUS
    <3> QED BY <3>1, <1>2 DEF UserRow, Registry!UserRow
  <2>2. user'[u] = user[u] BY <2>1
  <2>3. user[u].role # task[s].role BY <2>1 DEF Unreferenced
  <2>4. user[u].role \in Role BY <2>2, <1>2 DEF UserRow, Registry!UserRow
  <2>5. Exists(user[u].role) BY <2>2 DEF IInv, RoleReferences
  <2> QED BY <2>2, <2>3, <2>4, <2>5, <1>6 DEF Exists, Registry!Exists
<1> QED BY <1>5, <1>6, <1>7

LEMMA CommitAssignTables ==
    ASSUME IInv, NEW s \in Slot, CommitAssign(s), Done(s), UNCHANGED <<place, served>>
    PROVE  TypeOK' /\ RoleReferences'
<1> USE DEF CommitAssign, Done
<1>1. task[s] \in Task /\ task[s].role \in Role /\ task[s].target \in User
  BY CommitterIsAlone DEF Shape, UserOp, Task
<1>2. CASE task[s].role = task[s].row.role
  <2>1. UNCHANGED user BY <1>2
  <2> QED BY <2>1 DEF IInv, TypeOK, RoleReferences, Exists, Registry!Exists
<1>3. CASE task[s].role # task[s].row.role
  <2>1. user' = [user EXCEPT ![task[s].target].role = task[s].role] BY <1>3
  <2>2. \A u \in User : user[u] \in UserRow BY DEF IInv, TypeOK
  <2>3. [user[task[s].target] EXCEPT !.role = task[s].role] \in UserRow
    BY <1>1, <2>2 DEF UserRow, Registry!UserRow
  <2>4. TypeOK' BY <2>1, <2>3 DEF IInv, TypeOK
  <2>5. \A u \in User : user'[u].role = task[s].role \/ user'[u] = user[u]
    BY <1>1, <2>1, <2>2 DEF IInv, TypeOK, UserRow, Registry!UserRow
  <2>6. RoleReferences'
    BY <1>3, <2>5 DEF IInv, RoleReferences, Exists, Registry!Exists
  <2> QED BY <2>4, <2>6
<1> QED BY <1>2, <1>3

LEMMA CommitGiveTables ==
    ASSUME IInv, NEW s \in Slot, CommitGive(s), Done(s), UNCHANGED <<place, served>>
    PROVE  TypeOK' /\ RoleReferences'
<1> USE DEF CommitGive, Done
<1> DEFINE list == task[s].row.own \cup (task[s].perms \ task[s].old)
<1>1. task[s] \in Task /\ task[s].target \in User BY CommitterIsAlone DEF Task
<1>2. list \in SUBSET Perm BY <1>1 DEF Task, UserRow, Registry!UserRow
<1>3. CASE UNCHANGED user
  BY <1>3 DEF IInv, TypeOK, RoleReferences, Exists, Registry!Exists
<1>4. CASE user' = [user EXCEPT ![task[s].target].own = list]
  <2>1. \A u \in User : user[u] \in UserRow BY DEF IInv, TypeOK
  <2>2. [user[task[s].target] EXCEPT !.own = list] \in UserRow
    BY <1>1, <1>2, <2>1 DEF UserRow, Registry!UserRow
  <2>3. TypeOK' BY <1>4, <2>2 DEF IInv, TypeOK
  <2>4. \A u \in User : user'[u].role = user[u].role
    BY <1>1, <1>4, <2>1 DEF IInv, TypeOK, UserRow, Registry!UserRow
  <2>5. RoleReferences'
    BY <2>4 DEF IInv, RoleReferences, Exists, Registry!Exists
  <2> QED BY <2>3, <2>5
<1> QED BY <1>3, <1>4

LEMMA CommitStep ==
    ASSUME IInv, NEW s \in Slot, Commit(s)
    PROVE  IInv'
<1>1. At(s, "commit") BY DEF Commit, CommitRole, CommitDelete, CommitAssign, CommitGive
<1>2. TypeOK' /\ RoleReferences'
  BY CommitRoleTables, CommitDeleteTables, CommitAssignTables, CommitGiveTables DEF Commit
<1>3. OneProcess => \A x \in Slot \ {s} : ~Running(x) BY <1>1, CommitterIsAlone
<1> QED BY <1>2, <1>3, WriterStep DEF Commit, Done

LEMMA AbandonStep ==
    ASSUME IInv, NEW s \in Slot, Abandon(s)
    PROVE  IInv'
<1> USE DEF Abandon, Done
<1>1. \A x \in Slot : task'[x] = IF x = s THEN None ELSE task[x] BY DEF IInv, TypeOK
<1>2. TypeOK' BY DEF IInv, TypeOK
<1>3. RoleReferences' BY DEF IInv, RoleReferences, Exists, Registry!Exists
<1>4. Shapes' BY <1>1 DEF IInv, Shapes, Shape
<1>5. \A x \in Slot : Running(x)' => Running(x) /\ task'[x] = task[x] BY <1>1 DEF Running
<1>6. Serial'
  BY <1>5 DEF IInv, Serial, OneProcess, OneRuns, Fresh, HoldersNow, OnOneself, Exists,
              Registry!Exists
<1> QED BY <1>2, <1>3, <1>4, <1>6 DEF IInv

LEMMA NextInv == IInv /\ [Next]_vars => IInv'
<1> SUFFICES ASSUME IInv, [Next]_vars PROVE IInv' OBVIOUS
<1>1. CASE UNCHANGED vars
  <2>1. TypeOK' BY <1>1 DEF vars, IInv, TypeOK
  <2>2. RoleReferences' BY <1>1 DEF vars, IInv, RoleReferences, Exists, Registry!Exists
  <2>3. Shapes' BY <1>1 DEF vars, IInv, Shapes, Shape
  <2>4. Serial'
    BY <1>1 DEF vars, IInv, Serial, OneProcess, OneRuns, Running, Fresh, HoldersNow, OnOneself,
                Exists, Registry!Exists
  <2> QED BY <2>1, <2>2, <2>3, <2>4 DEF IInv
<1>2. ASSUME NEW s \in Slot, NEW by \in User, NEW r \in Role, NEW P \in Lists,
             CreateRole(s, r, P)
      PROVE  IInv'
  BY <1>2, CreateRoleStep
<1>3. ASSUME NEW s \in Slot, NEW by \in User, NEW r \in Role, NEW p \in Perm,
             NEW op \in {"add", "remove"}, GetCurrentUser(s, op, by, r, by, {p})
      PROVE  IInv'
  BY <1>3, GetCurrentUserStep DEF RoleOp
<1>4. ASSUME NEW s \in Slot, NEW by \in User, NEW r \in Role, NEW P \in Lists,
             GetCurrentUser(s, "update", by, r, by, P)
      PROVE  IInv'
  BY <1>4, GetCurrentUserStep, RoleAssumption DEF RoleOp
<1>5. ASSUME NEW s \in Slot, NEW by \in User, NEW r \in Role,
             GetCurrentUser(s, "delete", by, r, by, {})
      PROVE  IInv'
  BY <1>5, GetCurrentUserStep
<1>6. ASSUME NEW s \in Slot, NEW by \in User, NEW r \in Role, NEW u \in User,
             GetCurrentUser(s, "assign", by, r, u, {})
      PROVE  IInv'
  <2>1. "assign" \in UserOp /\ "assign" # "give" /\ {} \in SUBSET Perm BY DEF UserOp
  <2> QED BY <1>6, <2>1, GetCurrentUserStep
<1>7. ASSUME NEW s \in Slot, NEW by \in User, NEW u \in User, NEW P \in Lists,
             GetCurrentUser(s, "give", by, None, u, P)
      PROVE  IInv'
  BY <1>7, GetCurrentUserStep, RoleAssumption DEF UserOp
<1>8. ASSUME NEW s \in Slot,
             \/ ChangePermission(s) \/ CheckPermission(s) \/ LoadRole(s) \/ FindHolders(s)
             \/ LoadTarget(s) \/ LoadRoleOfTarget(s)
             \/ Commit(s) \/ Abandon(s)
      PROVE  IInv'
  BY <1>8, ChangePermissionStep, CheckPermissionStep, LoadRoleStep, FindHoldersStep,
     LoadTargetStep, LoadRoleOfTargetStep, CommitStep, AbandonStep
<1> QED BY <1>1, <1>2, <1>3, <1>4, <1>5, <1>6, <1>7, <1>8 DEF Next

LEMMA Invariance == Spec => []IInv
BY InitInv, NextInv, PTL DEF Spec

(* Type correctness.                                                       *)
THEOREM RolesTypeOK == Spec => []TypeOK
<1>1. IInv => TypeOK BY DEF IInv
<1> QED BY <1>1, Invariance, PTL

(* With any number of processes no user is left with a role that is gone:  *)
(* the check of the foreign key at the deletion and at the assignment is   *)
(* enough, whatever rows the sessions hold.                                *)
THEOREM RolesReferences == Spec => []RoleReferences
<1>1. IInv => RoleReferences BY DEF IInv
<1> QED BY <1>1, Invariance, PTL

-----------------------------------------------------------------------------
LEMMA NoResurrectionStep ==
    IInv /\ [Next]_vars => [\A r \in Role : role[r] = Deleted => role'[r] = Deleted]_role
<1> SUFFICES ASSUME IInv, [Next]_vars, NEW q \in Role, role[q] = Deleted, role' # role
             PROVE  role'[q] = Deleted
  OBVIOUS
<1>1. ASSUME NEW s \in Slot, NEW r \in Role, NEW P \in Lists, CreateRole(s, r, P)
      PROVE  role'[q] = Deleted
  BY <1>1, RowsAreNotNone DEF CreateRole, Registry!Create, IInv, TypeOK
<1>2. ASSUME NEW s \in Slot, Commit(s)
      PROVE  role'[q] = Deleted
  <2>1. CASE CommitRole(s) BY <1>2, <2>1, CommitRoleTables DEF Commit
  <2>2. CASE CommitDelete(s) BY <1>2, <2>2, CommitDeleteTables DEF Commit
  <2> QED BY <1>2, <2>1, <2>2 DEF Commit, CommitAssign, CommitGive
<1>3. \A s \in Slot : \A op, by, r, u, P : ~GetCurrentUser(s, op, by, r, u, P)
  BY DEF GetCurrentUser
<1>4. \A s \in Slot : \A todo, t : ~Step(s, todo, t) BY DEF Step
<1>5. \A s \in Slot : ~Abandon(s) BY DEF Abandon
<1>6. Next BY DEF vars
<1>7. PICK s \in Slot : \/ \E r \in Role, P \in Lists : CreateRole(s, r, P)
                      \/ Commit(s)
  <2>1. \A s \in Slot : /\ ~ChangePermission(s) /\ ~CheckPermission(s)
                       /\ ~FindHolders(s) /\ ~LoadRole(s)
                       /\ ~LoadTarget(s) /\ ~LoadRoleOfTarget(s)
    BY <1>4 DEF ChangePermission, CheckPermission, LoadRole, FindHolders, LoadTarget,
                LoadRoleOfTarget
  <2> QED BY <1>3, <1>5, <1>6, <2>1 DEF Next
<1> QED BY <1>1, <1>2, <1>7

(* With any number of processes, a role that was deleted stays deleted,    *)
(* also if a change of it was loaded before.                               *)
THEOREM RolesNoResurrection == Spec => NoResurrection
BY Invariance, NoResurrectionStep, PTL DEF Spec, NoResurrection

-----------------------------------------------------------------------------
(* A column set to the value it has.                                       *)
LEMMA SameColumn ==
    /\ \A row \in UserRow : [row EXCEPT !.role = row.role] = row
    /\ \A row \in UserRow : [row EXCEPT !.own = row.own] = row
    /\ \A row \in RoleRow, P \in SUBSET Perm : [row EXCEPT !.perms = P] = [perms |-> P]
BY DEF UserRow, Registry!UserRow, RoleRow, Registry!RoleRow

LEMMA CommitKeepsPromise ==
    ASSUME IInv, OneProcess, NEW s \in Slot, Commit(s), ~OnOneself(task[s])
    PROVE  Promised(task[s])
<1> DEFINE t == task[s]
<1>1. At(s, "commit") BY DEF Commit, CommitRole, CommitDelete, CommitAssign, CommitGive
<1>2. t \in Task /\ Shape(t) /\ Fresh(t) /\ t.todo = "commit" BY <1>1, CommitterIsAlone
<1>3. \A u \in User : user[u] \in UserRow BY DEF IInv, TypeOK
<1>4. CASE CommitRole(s)
  <2>1. t.op \in RoleOp BY <1>4 DEF CommitRole
  <2>2. t.role \in Role BY <1>2, <2>1 DEF Shape, RoleOp
  <2>3. Exists(t.role) /\ t.old = role[t.role].perms BY <1>2, <2>1 DEF Fresh
  <2>4. role[t.role] \in RoleRow BY <2>2, <2>3, ExistingRow DEF IInv
  <2>5. NewList(t) \in SUBSET Perm BY <1>2, <2>1, NewListIsList
  <2>6. role' = [role EXCEPT ![t.role].perms = NewList(t)]
    <3>1. [role[t.role] EXCEPT !.perms = NewList(t)] = [perms |-> NewList(t)]
      BY <2>4, <2>5, SameColumn
    <3>2. CASE role' = [role EXCEPT ![t.role] = [perms |-> NewList(t)]] BY <3>1, <3>2
    <3>3. CASE NewList(t) = t.old /\ UNCHANGED role
      <4>1. [perms |-> NewList(t)] = role[t.role]
        BY <3>3, <2>3, <2>4 DEF RoleRow, Registry!RoleRow
      <4> QED BY <3>1, <3>3, <4>1 DEF IInv, TypeOK
    <3> QED BY <3>2, <3>3, <1>4 DEF CommitRole
  <2>7. UNCHANGED user BY <1>4 DEF CommitRole
  <2>8. Registry!Exists(t.role) BY <2>3 DEF Exists
  <2>9. CASE t.op = "add"
    BY <2>3, <2>6, <2>7, <2>8, <2>9 DEF Promised, Registry!Add, NewList
  <2>10. CASE t.op = "remove"
    BY <2>3, <2>6, <2>7, <2>8, <2>10 DEF Promised, Registry!Remove, NewList
  <2>11. CASE t.op = "update"
    BY <2>3, <2>6, <2>7, <2>8, <2>11 DEF Promised, Registry!Replace, NewList
  <2> QED BY <2>1, <2>9, <2>10, <2>11 DEF RoleOp
<1>5. CASE CommitDelete(s)
  <2>1. t.op = "delete" BY <1>5 DEF CommitDelete
  <2>2. t.found = {u \in User : user[u].role = t.role} BY <1>2, <2>1 DEF Fresh, HoldersNow
  <2>3. user' = [u \in User |-> IF user[u].role = t.role
                                THEN [user[u] EXCEPT !.role = None] ELSE user[u]]
    BY <1>5, <2>2 DEF CommitDelete
  <2> QED BY <1>5, <2>1, <2>3 DEF CommitDelete, Promised, Registry!Delete
<1>6. CASE CommitAssign(s)
  <2>1. t.op = "assign" /\ t.role \in Role /\ t.target \in User
    BY <1>2, <1>6 DEF CommitAssign, Shape, Task
  <2>2. t.row = user[t.target] BY <1>2, <2>1 DEF Fresh, UserOp
  <2>3. Exists(t.role)
    <3>1. CASE t.role = t.row.role
      BY <2>1, <2>2, <3>1, RoleAssumption DEF IInv, RoleReferences
    <3>2. CASE t.role # t.row.role BY <1>6, <3>2 DEF CommitAssign
    <3> QED BY <3>1, <3>2
  <2>4. user' = [user EXCEPT ![t.target].role = t.role]
    <3>1. CASE t.role = t.row.role
      <4>1. [user[t.target] EXCEPT !.role = t.role] = user[t.target]
        BY <1>3, <2>1, <2>2, <3>1, SameColumn
      <4> QED BY <1>6, <3>1, <4>1 DEF CommitAssign, IInv, TypeOK
    <3>2. CASE t.role # t.row.role BY <1>6, <3>2 DEF CommitAssign
    <3> QED BY <3>1, <3>2
  <2> QED BY <1>6, <2>1, <2>3, <2>4 DEF CommitAssign, Promised, Registry!Assign, Exists
<1>7. CASE CommitGive(s)
  <2>1. t.op = "give" /\ t.target \in User BY <1>2, <1>7 DEF CommitGive, Task
  <2>2. t.row = user[t.target] /\ t.row.role # None /\ t.old = role[t.row.role].perms
    BY <1>2, <2>1 DEF Fresh, UserOp
  <2> DEFINE list == t.row.own \cup (t.perms \ t.old)
  <2>3. user' = [user EXCEPT ![t.target].own = list]
    <3>1. CASE list = t.row.own /\ UNCHANGED user
      <4>1. [user[t.target] EXCEPT !.own = list] = user[t.target]
        BY <1>3, <2>1, <2>2, <3>1, SameColumn
      <4> QED BY <3>1, <4>1 DEF IInv, TypeOK
    <3> QED BY <1>7, <3>1 DEF CommitGive
  <2>4. user' = [user EXCEPT ![t.target].own =
                   @ \cup (t.perms \ role[user[t.target].role].perms)]
    BY <2>2, <2>3
  <2> QED BY <1>7, <2>1, <2>2, <2>4 DEF CommitGive, Promised, Registry!Give
<1> QED BY <1>4, <1>5, <1>6, <1>7 DEF Commit

LEMMA SerialAtomicStep ==
    IInv /\ [Next]_vars =>
      [OneProcess => \A s \in Slot :
         Commit(s) /\ ~OnOneself(task[s]) => Promised(task[s])]_vars
BY CommitKeepsPromise

(* In one process every request that is not about its caller implements    *)
(* the step RoleRegistry promises for it, however the requests interleave  *)
(* at the await and at their dependencies.                                 *)
THEOREM RolesSerialAtomic == Spec => SerialAtomic
BY Invariance, SerialAtomicStep, PTL DEF Spec, SerialAtomic

=============================================================================
