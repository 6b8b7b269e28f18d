-------------------------------- MODULE Roles --------------------------------
(***************************************************************************)
(* routers/roles.py and the role and permission routes of routers/users.py *)
(* The permissions of a role, and those assigned to a user, are one JSON   *)
(* list each, which a handler reads, changes and writes back as a whole.   *)
(*                                                                         *)
(* Handlers share their process as in EventLoop; delete_role awaits the    *)
(* activity log between its checks and the deletion.  A session hands out  *)
(* the object it has already, and get_current_user has loaded the caller   *)
(* before the handler has its turn (todo = "start"): a handler whose       *)
(* target is the caller, or the caller's role, works on the row as it was  *)
(* when it was loaded first.                                               *)
(*                                                                         *)
(* Left out: name and description of a role (a name that is taken is a     *)
(* request that fails), and refusals, which change nothing.                *)
(***************************************************************************)
EXTENDS Naturals, EventLoop

CONSTANTS Role, User, Perm, Deleted,
          ToUpdate, ToDelete, Anything,   (* "role.update", "role.delete", *)
                                          (* "*.*"                         *)
          Lists,        (* bound: the lists roles and requests come with   *)
          MaxRequests   (* bound: requests begun                           *)

ASSUME RoleAssumption ==
    /\ None # Deleted /\ None \notin Role
    /\ {None, Deleted} \cap [perms : SUBSET Perm] = {}
    /\ {ToUpdate, ToDelete, Anything} \subseteq Perm
    /\ Lists \subseteq SUBSET Perm
    /\ MaxRequests \in Nat

VARIABLES
    role,     (* as in RoleRegistry                                        *)
    user,     (* as in RoleRegistry                                        *)
    served    (* number of requests begun                                  *)

vars == <<place, role, user, task, served>>

Registry == INSTANCE RoleRegistry

RoleRow == Registry!RoleRow
UserRow == Registry!UserRow
Exists(r) == Registry!Exists(r)

RoleOp == {"add", "remove", "update"}
UserOp == {"assign", "give"}

(* `me' is the caller's row as get_current_user found it, `role', `target' *)
(* and `perms' what the request names, `old' and `row' the list or the     *)
(* user as the handler's session has it, `found' the users whose role      *)
(* delete_role is going to clear.                                          *)
Task == [op : RoleOp \cup UserOp \cup {"delete"}, by : User, me : UserRow,
         role : Role \cup {None}, target : User, perms : SUBSET Perm,
         old : SUBSET Perm, row : UserRow, found : SUBSET User,
         todo : {"start", "load", "role", "log", "commit"}]

-----------------------------------------------------------------------------
Init ==
    /\ place \in [Slot -> Process]
    /\ role \in [Role -> {[perms |-> P] : P \in Lists} \cup {None}]
    /\ user \in [User -> {row \in UserRow : /\ row.role = None \/ role[row.role] # None
                                          /\ row.own = {}}]
    /\ task = [s \in Slot |-> None]
    /\ served = 0

(* POST /roles and POST /roles/no-auth-crit: an INSERT under a fresh key;  *)
(* only the first asks for the role super_user_do.                         *)
CreateRole(s, r, P) ==
    /\ Idle(s) /\ MayRun(s) /\ served < MaxRequests
    /\ served' = served + 1
    /\ Registry!Create(r, P)
    /\ UNCHANGED <<place, task>>

(* get_current_user of a request.                                          *)
GetCurrentUser(s, op, by, r, u, P) ==
    /\ Idle(s) /\ served < MaxRequests
    /\ task' = [task EXCEPT ![s] =
                  [op |-> op, by |-> by, me |-> user[by], role |-> r, target |-> u,
                   perms |-> P, old |-> {}, row |-> user[by], found |-> {},
                   todo |-> "start"]]
    /\ served' = served + 1
    /\ UNCHANGED <<place, role, user>>

(* The handler goes on from `todo' to t.                                   *)
Step(s, todo, t) ==
    /\ At(s, todo) /\ Goes(s, t)
    /\ UNCHANGED <<place, role, user, served>>

(* POST /permissions/add, /permissions/remove: 404 without the role, 400   *)
(* if the permission is there already, or is not.                          *)
Changeable(t) ==
    \/ t.op = "add" /\ t.perms \cap role[t.role].perms = {}
    \/ t.op = "remove" /\ t.perms \subseteq role[t.role].perms

ChangePermission(s) ==
    /\ task[s] # None /\ task[s].op \in {"add", "remove"}
    /\ Exists(task[s].role) /\ Changeable(task[s])
    /\ Step(s, "start", [task[s] EXCEPT !.old = role[task[s].role].perms, !.todo = "commit"])

(* check_full_permission with no resource, where only the first layer can  *)
(* refuse: the right is in the caller's role, as it is now, or among the   *)
(* caller's own permissions, as loaded before.                             *)
Permitted(t) ==
    /\ t.me.role # None /\ Exists(t.me.role)
    /\ \/ (IF t.op = "update" THEN ToUpdate ELSE ToDelete) \in role[t.me.role].perms \cup t.me.own
       \/ Anything \in role[t.me.role].perms

(* PUT and DELETE /roles/{id}: the permission check.  It has loaded the    *)
(* caller's role, which may be the one to change.                          *)
CheckPermission(s) ==
    /\ task[s] # None /\ task[s].op \in {"update", "delete"}
    /\ Permitted(task[s])
    /\ Step(s, "start", [task[s] EXCEPT !.old = role[task[s].me.role].perms, !.todo = "load"])

LoadRole(s) ==
    /\ At(s, "load") /\ Exists(task[s].role)
    /\ LET t == task[s] IN
       Step(s, "load", [t EXCEPT !.old = IF t.role = t.me.role THEN @ ELSE role[t.role].perms,
                                 !.todo = IF t.op = "update" THEN "commit" ELSE "log"])

(* Bug: the users the session knew to have the role before the await.      *)
HoldersThen(t) == IF t.me.role = t.role THEN {t.by} ELSE {}
(* Bug: rows where their keys are meant.                                   *)
HolderRows(t) == {user[u] : u \in User}
(* db.delete and the flush of the commit: SELECT the users with the role.  *)
HoldersNow(t) == {u \in User : user[u].role = t.role}

FindHolders(s) ==
    /\ task[s] # None
    /\ Step(s, "log", [task[s] EXCEPT !.found = HoldersNow(task[s]), !.todo = "commit"])

(* The row of a target: the session knows the caller's already.            *)
Loaded(t) == IF t.target = t.by THEN t.me ELSE user[t.target]

(* PUT /users/{id} with a role_id.                                         *)
LoadTarget(s) ==
    /\ task[s] # None /\ task[s].op \in UserOp
    /\ LET t == task[s] IN
       Step(s, "start", [t EXCEPT !.row = Loaded(t),
                                  !.todo = IF t.op = "give" THEN "role" ELSE "commit"])

(* PUT /users/{id}/permissions: the role of the target as loaded must be   *)
(* there; what it has is not added.                                        *)
LoadRoleOfTarget(s) ==
    /\ At(s, "role")
    /\ LET t == task[s] IN
       /\ t.row.role # None /\ Exists(t.row.role)
       /\ Step(s, "role", [t EXCEPT !.old = role[t.row.role].perms, !.todo = "commit"])

-----------------------------------------------------------------------------
(* The list a handler leaves.                                              *)
NewList(t) == CASE t.op = "add" -> t.old \cup t.perms
                [] t.op = "remove" -> t.old \ t.perms
                [] t.op = "update" -> t.perms

(* Bug: an UPDATE that matches no row inserts it.                          *)
Upsert(r) == TRUE
(* An UPDATE that matches no row is an error.                              *)
Matches(r) == Exists(r)

(* A list replaces the whole list in the row.  If it has the elements of   *)
(* the list that was loaded, it is only sent when their order differs.     *)
CommitRole(s) ==
    /\ At(s, "commit") /\ task[s].op \in RoleOp
    /\ LET t == task[s] IN
       /\ Matches(t.role)
       /\ \/ role' = [role EXCEPT ![t.role] = [perms |-> NewList(t)]]
          \/ NewList(t) = t.old /\ UNCHANGED role
    /\ UNCHANGED user

(* Bug: no foreign key.                                                    *)
NothingElse(t) == TRUE
(* The foreign key users.role_id: the DELETE fails if anyone still has the *)
(* role.                                                                   *)
Unreferenced(t) == \A u \in User \ t.found : user[u].role # t.role

CommitDelete(s) ==
    /\ At(s, "commit") /\ task[s].op = "delete"
    /\ LET t == task[s] IN
       /\ Unreferenced(t)
       /\ role' = [role EXCEPT ![t.role] = Deleted]
       /\ user' = [u \in User |-> IF u \in t.found THEN [user[u] EXCEPT !.role = None]
                                  ELSE user[u]]

(* get_changes assigns, and the commit sends, a role that differs from the *)
(* one loaded; the foreign key wants it to exist.                          *)
CommitAssign(s) ==
    /\ At(s, "commit") /\ task[s].op = "assign"
    /\ LET t == task[s] IN
       user' = IF t.role = t.row.role THEN user
               ELSE [user EXCEPT ![t.target].role = t.role]
    /\ task[s].role # task[s].row.role => Exists(task[s].role)
    /\ UNCHANGED role

CommitGive(s) ==
    /\ At(s, "commit") /\ task[s].op = "give"
    /\ LET t == task[s]
           list == t.row.own \cup (t.perms \ t.old) IN
       \/ user' = [user EXCEPT ![t.target].own = list]
       \/ list = t.row.own /\ UNCHANGED user
    /\ UNCHANGED role

Commit(s) ==
    /\ CommitRole(s) \/ CommitDelete(s) \/ CommitAssign(s) \/ CommitGive(s)
    /\ Done(s)
    /\ UNCHANGED <<place, served>>

(* The request is refused or fails, or its process dies.                   *)
Abandon(s) ==
    /\ task[s] # None
    /\ Done(s)
    /\ UNCHANGED <<place, role, user, served>>

Next ==
    \/ \E s \in Slot, by \in User :
         \/ \E r \in Role :
              \/ \E P \in Lists : CreateRole(s, r, P)
              \/ \E p \in Perm, op \in {"add", "remove"} :
                   GetCurrentUser(s, op, by, r, by, {p})
              \/ \E P \in Lists : GetCurrentUser(s, "update", by, r, by, P)
              \/ GetCurrentUser(s, "delete", by, r, by, {})
              \/ \E u \in User : GetCurrentUser(s, "assign", by, r, u, {})
         \/ \E u \in User, P \in Lists : GetCurrentUser(s, "give", by, None, u, P)
    \/ \E s \in Slot :
         \/ ChangePermission(s) \/ CheckPermission(s) \/ LoadRole(s) \/ FindHolders(s)
         \/ LoadTarget(s) \/ LoadRoleOfTarget(s)
         \/ Commit(s) \/ Abandon(s)

Spec == Init /\ [][Next]_vars

-----------------------------------------------------------------------------
(* Every variable has its type.                                            *)
TypeOK ==
    /\ place \in [Slot -> Process]
    /\ role \in [Role -> RoleRow \cup {None, Deleted}]
    /\ user \in [User -> UserRow]
    /\ task \in [Slot -> Task \cup {None}]
    /\ served \in 0 .. MaxRequests

(* However many processes run, no user is left with a role that is gone:   *)
(* delete_role clears the role of the users it finds when it deletes, also *)
(* of those who were given it while it awaited the log.                    *)
RoleReferences == \A u \in User : user[u].role # None => Exists(user[u].role)

(* However many processes run, a change of a role that was loaded before   *)
(* the role was deleted does not bring it back.                            *)
NoResurrection ==
    [][\A r \in Role : role[r] = Deleted => role'[r] = Deleted]_role

(* The one-step effect of the request t.                                   *)
Promised(t) ==
    \/ t.op = "add" /\ Registry!Add(t.role, t.perms)
    \/ t.op = "remove" /\ Registry!Remove(t.role, t.perms)
    \/ t.op = "update" /\ Registry!Replace(t.role, t.perms)
    \/ t.op = "delete" /\ Registry!Delete(t.role)
    \/ t.op = "assign" /\ Registry!Assign(t.target, t.role)
    \/ t.op = "give" /\ Registry!Give(t.target, t.perms)

OnOneself(t) == t.op \in UserOp /\ t.by = t.target

(* In one server process every request takes effect as if it were the only *)
(* one: no grant, removal or assignment is lost to another, and a deletion *)
(* that awaits the log still takes the role from exactly its holders.  Not *)
(* so for a request on the caller, whose row is older than the handler.    *)
SerialAtomic ==
    [][OneProcess => \A s \in Slot :
          Commit(s) /\ ~OnOneself(task[s]) => Promised(task[s])]_vars

=============================================================================
