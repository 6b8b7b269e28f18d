--------------------------- MODULE AssetAssignment ---------------------------
(***************************************************************************)
(* routers/a_assignment.py: who holds an asset.  assign, unassign and      *)
(* reassign load the asset, perhaps the user, commit the asset's columns   *)
(* department_id and responsible_officer_id, and then commit a row of      *)
(* asset_lifecycle_events in a transaction of its own.  routers/users.py   *)
(* changes the status and the department of users meanwhile.  No handler   *)
(* awaits between its load and its last commit, so only handlers of        *)
(* different server processes interleave.  Departments are never removed   *)
(* from their table, hence constant.                                       *)
(*                                                                         *)
(* One row is older than its handler: get_current_user has loaded the user *)
(* who calls in a thread of the pool, before the handler starts, and a     *)
(* query in the same session returns that very object.  So who assigns an  *)
(* asset to himself is judged by what he was then.                         *)
(***************************************************************************)
EXTENDS Naturals, FiniteSets, SequencesExt, UnitOfWork

CONSTANTS Asset, User, Dept, Worker, None,
          MaxRequests   (* bound: requests that change an assignment       *)

ASSUME AssignmentAssumption ==
    /\ None \notin Asset \cup User \cup Dept
    /\ Worker # {} /\ IsFiniteSet(Worker)
    /\ MaxRequests \in Nat

VARIABLES
    pool,      (* the server processes of this deployment, fixed           *)
    user,      (* table users: status and department                       *)
    asset,     (* table assets: department_id, responsible_officer_id      *)
    caller,    (* the row get_current_user last loaded for a user, or None *)
    task,      (* the request a process is working on, or None             *)
    history,   (* table asset_lifecycle_events, oldest first               *)
    served,    (* number of requests begun                                 *)
    changes,   (* requests whose change of the asset is committed, in order *)
    died       (* those whose process died before the event was committed  *)

vars == <<pool, user, asset, caller, task, history, served, changes, died>>
ghosts == <<changes, died>>

UserRow == [active : BOOLEAN, dept : Dept]
AssetRow == [dept : Dept \cup {None}, officer : User \cup {None}]
Operation == {"assign", "unassign", "reassign"}
Request == 1 .. MaxRequests
Task == [id : Request, op : Operation, asset : Asset, old : AssetRow, new : AssetRow,
         officer : User \cup {None}, dept : Dept \cup {None},
         self : UserRow \cup {None},
         todo : {"load", "commit", "record"}]
(* What None stands for is no request.                                     *)
ASSUME NoneIsNoRequest == None \notin Task

Event == [id : Request, asset : Asset, op : Operation, assignment : AssetRow]

(* Bug: empty strings where the columns are to be NULL.                    *)
EmptyStrings == [dept |-> "", officer |-> ""]
Nobody == [dept |-> None, officer |-> None]

Idle(w) == w \in pool /\ task[w] = None

-----------------------------------------------------------------------------
(* Assets start unassigned, or with a department and perhaps one of its    *)
(* users.                                                                  *)
Init ==
    /\ pool \in (SUBSET Worker) \ {{}}
    /\ user \in [User -> UserRow]
    /\ asset \in [Asset -> {Nobody} \cup
                    {row \in AssetRow : /\ row.dept # None
                                        /\ row.officer # None =>
                                             user[row.officer].dept = row.dept}]
    /\ caller = [u \in User |-> None]
    /\ task = [w \in Worker |-> None]
    /\ history = <<>> /\ served = 0
    /\ changes = <<>> /\ died = {}

(* get_current_user of a request by u, in whatever process.                *)
GetCurrentUser(u) ==
    /\ served < MaxRequests
    /\ caller' = [caller EXCEPT ![u] = user[u]]
    /\ UNCHANGED <<pool, user, asset, task, history, served, ghosts>>

(* The request passes its checks on the asset as loaded.                   *)
Begin(w, op, a, officer, dept, self, new, todo) ==
    /\ Idle(w)
    /\ served < MaxRequests
    /\ served' = served + 1
    /\ task' = [task EXCEPT ![w] =
                  [id |-> served + 1, op |-> op, asset |-> a, old |-> asset[a],
                   new |-> new, officer |-> officer, dept |-> dept,
                   self |-> self, todo |-> todo]]
    /\ UNCHANGED <<pool, user, asset, caller, history, ghosts>>

(* 409 unless department and officer are both NULL.                        *)
Free(row) == row.dept = None /\ row.officer = None

(* A request names a user, a department or both.  A department alone is    *)
(* assigned at once; assign leaves the officer, who is NULL, and reassign  *)
(* removes him.                                                            *)
AssignDept(w, a, d) ==
    /\ Free(asset[a])
    /\ Begin(w, "assign", a, None, d, None, [asset[a] EXCEPT !.dept = d], "commit")

ReassignDept(w, a, d) ==
    Begin(w, "reassign", a, None, d, None, [dept |-> d, officer |-> None], "commit")

(* With a user, his row is the next query.  `self' is None, or u's row as  *)
(* get_current_user loaded it if u is the caller.                          *)
AssignUser(w, a, u, d, self) ==
    /\ Free(asset[a])
    /\ Begin(w, "assign", a, u, d, self, asset[a], "load")

ReassignUser(w, a, u, d, self) ==
    Begin(w, "reassign", a, u, d, self, asset[a], "load")

Unassign(w, a) ==
    /\ ~ Free(asset[a])
    /\ Begin(w, "unassign", a, None, None, None, Nobody, "commit")

(* Bug: the asset stays in the department it is in.                        *)
StaysInDept(usr, row) == row.dept
(* The department of an asset that is given to a user.                     *)
DeptOf(usr, row) == usr.dept

(* The user must be active and, if the request names a department, in it.  *)
LoadUser(w) ==
    /\ task[w] # None /\ task[w].todo = "load"
    /\ LET u == task[w].officer
           usr == IF task[w].self # None THEN task[w].self ELSE user[u] IN
       /\ usr.active
       /\ task[w].dept \in {None, usr.dept}
       /\ task' = [task EXCEPT ![w].todo = "commit",
                               ![w].new = [dept |-> DeptOf(usr, task[w].old), officer |-> u]]
    /\ UNCHANGED <<pool, user, asset, caller, history, served, ghosts>>

-----------------------------------------------------------------------------
(* Bug: unassign returns without an event.                                 *)
UnassignUnrecorded(t) == IF t.op = "unassign" THEN None ELSE [t EXCEPT !.todo = "record"]
(* What is left of the request after its first commit.                     *)
AfterCommit(t) == [t EXCEPT !.todo = "record"]

CommitAsset(w) ==
    /\ task[w] # None /\ task[w].todo = "commit"
    /\ LET t == task[w] IN
       /\ asset' = [asset EXCEPT ![t.asset] = Written(@, t.old, t.new)]
       /\ task' = [task EXCEPT ![w] = AfterCommit(t)]
       /\ changes' = Append(changes, t.id)
    /\ UNCHANGED <<pool, user, caller, history, served, died>>

(* Bug: the event repeats what the asset was before.                       *)
EventOfOld(t) == [id |-> t.id, asset |-> t.asset, op |-> t.op, assignment |-> t.old]
(* The event tells the new assignment; "unassigned" tells that there is    *)
(* none.                                                                   *)
EventOf(t) == [id |-> t.id, asset |-> t.asset, op |-> t.op, assignment |-> t.new]

CommitEvent(w) ==
    /\ task[w] # None /\ task[w].todo = "record"
    /\ history' = Append(history, EventOf(task[w]))
    /\ task' = [task EXCEPT ![w] = None]
    /\ UNCHANGED <<pool, user, asset, caller, served, ghosts>>

(* The request is refused or fails before its first commit, or its process *)
(* dies at any time.                                                       *)
Abandon(w) ==
    /\ task[w] # None
    /\ task' = [task EXCEPT ![w] = None]
    /\ died' = IF task[w].todo = "record" THEN died \cup {task[w].id} ELSE died
    /\ UNCHANGED <<pool, user, asset, caller, history, served, changes>>

-----------------------------------------------------------------------------
(* users.py: PUT /{user_id}/status and DELETE /{user_id}.                  *)
PatchUserStatus(w, u) ==
    /\ Idle(w)
    /\ user' = [user EXCEPT ![u].active = ~ @]
    /\ UNCHANGED <<pool, asset, caller, task, history, served, ghosts>>

(* PUT /{user_id}: the columns that differ from the request are set; there *)
(* is no check, so load and commit need not be told apart.                 *)
PatchUserDetails(w, u, row) ==
    /\ Idle(w)
    /\ user' = [user EXCEPT ![u] = row]
    /\ UNCHANGED <<pool, asset, caller, task, history, served, ghosts>>

Next ==
    \/ \E u \in User : GetCurrentUser(u)
    \/ \E w \in Worker :
      \/ \E a \in Asset, d \in Dept : AssignDept(w, a, d) \/ ReassignDept(w, a, d)
      \/ \E a \in Asset, u \in User, d \in Dept \cup {None} :
           \E self \in {None, caller[u]} :
              AssignUser(w, a, u, d, self) \/ ReassignUser(w, a, u, d, self)
      \/ \E a \in Asset : Unassign(w, a)
      \/ LoadUser(w)
      \/ CommitAsset(w)
      \/ CommitEvent(w)
      \/ Abandon(w)
      \/ \E u \in User : PatchUserStatus(w, u)
      \/ \E u \in User, row \in UserRow : PatchUserDetails(w, u, row)

Spec == Init /\ [][Next]_vars

-----------------------------------------------------------------------------
(* Every variable has its type.                                            *)
TypeOK ==
    /\ pool \in (SUBSET Worker) \ {{}}
    /\ user \in [User -> UserRow]
    /\ asset \in [Asset -> AssetRow]
    /\ caller \in [User -> UserRow \cup {None}]
    /\ task \in [Worker -> Task \cup {None}]
    /\ history \in Seq(Event)
    /\ served \in 0 .. MaxRequests
    /\ changes \in Seq(Request)
    /\ died \subseteq Request

Recorded == {history[i].id : i \in DOMAIN history}
Recording == {task[w].id : w \in {v \in Worker : task[v] # None /\ task[v].todo = "record"}}

(* However the processes interleave and wherever one dies, the history has *)
(* an event for every committed change that is neither about to be         *)
(* recorded nor the last act of a dead process, only for those, and only   *)
(* one.                                                                    *)
OneEventPerChange ==
    /\ Recorded = ToSet(changes) \ (Recording \cup died)
    /\ \A i, j \in DOMAIN history : history[i].id = history[j].id => i = j

OneProcess == Cardinality(pool) = 1

(* With one server process an asset is handed by somebody else to a user   *)
(* only while he is active, and the asset goes to the department he        *)
(* belongs to: no change of the user slips in between the check and the    *)
(* commit.                                                                 *)
SerialOfficerFits ==
    [][\A w \in pool : OneProcess /\ task[w] # None /\ task[w].self = None =>
         \A a \in Asset :
           asset'[a] # asset[a] /\ asset'[a].officer # None =>
             /\ user[asset'[a].officer].active
             /\ user[asset'[a].officer].dept = asset'[a].dept]_vars

(* No later event is about the same asset.                                 *)
Latest(i) == \A j \in DOMAIN history : history[j].asset = history[i].asset => j <= i

(* With one server process, and no death between its two commits, the last *)
(* event of an asset tells who holds it.                                   *)
SerialHistory ==
    OneProcess /\ died = {} /\ Recording = {} =>
        \A i \in DOMAIN history :
            Latest(i) => history[i].assignment = asset[history[i].asset]

(* a_assignment.py:58 "Asset already assigned to department or user": an   *)
(* assign request never replaces an assignment.                            *)
AssignKeepsHolder ==
    [][\A w \in Worker :
         task[w] # None /\ task[w].op = "assign" /\ task[w].todo = "commit"
           /\ changes' # changes /\ task'[w] # task[w]
         => Free(asset[task[w].asset])]_vars

=============================================================================
