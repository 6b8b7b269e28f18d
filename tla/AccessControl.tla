--------------------------- MODULE AccessControl ----------------------------
(***************************************************************************)
(* services/policy_eval.py and the requests it guards: DELETE              *)
(* /{asset_id}/unassign and PUT /{asset_id}/reassign of a_assignment.py.   *)
(* get_current_user loads the caller in a thread; the handler then loads   *)
(* the asset, the caller's role and the policies, each by a query of its   *)
(* own, and commits.  Others change roles, users, policies and assets      *)
(* meanwhile.                                                              *)
(*                                                                         *)
(* The thresholds on an asset's value are asked only of an action that     *)
(* creates or approves, which none of these is; the priority of a policy   *)
(* only chooses the one the log names.                                     *)
(***************************************************************************)
EXTENDS FiniteSets, Naturals, EventLoop

CONSTANTS Asset, Dept, County, Category, User, Role, Perm, Policy,
          Unassign, Reassign,   (* two permissions                         *)
          Anything,             (* the permission *.*                      *)
          All,                  (* the entry * of a scope                  *)
          MaxRequests           (* bound: requests and changes of others   *)

ASSUME AccessAssumption ==
    /\ {Unassign, Reassign, Anything} \subseteq Perm
    /\ None \notin Asset \cup Dept \cup County \cup Category \cup User \cup Role
    /\ None \notin [dept : Dept \cup {None}, county : County \cup {None}, category : Category]
    /\ All \notin Dept \cup Category
    /\ \A list \in SUBSET (Dept \cup County \cup Category \cup {All}) : list # None
    /\ MaxRequests \in Nat

VARIABLES
    user,       (* table users                                             *)
    role,       (* table roles: permissions                                *)
    policy,     (* table abac_policies                                     *)
    asset,      (* table assets                                            *)
    served

vars == <<place, task, user, role, policy, asset, served>>
tables == <<user, role, policy, asset>>

Action == {Unassign, Reassign}
(* access_scope: None stands for a key that is not there.  The keys are    *)
(* there with a list, and an empty list is a list.                         *)
ScopeRow ==
    [departments : {None} \cup SUBSET (Dept \cup {All}), geographic : {None} \cup SUBSET County,
     categories : {None} \cup SUBSET (Category \cup {All})]
UserRow ==
    [role : Role \cup {None}, assigned : SUBSET Perm, dept : Dept,
     county : County \cup {None}, scope : ScopeRow]
AssetRow == [dept : Dept \cup {None}, county : County \cup {None}, category : Category]
(* The enum PolicyEffect has the values "allow" and "deny".  `category' is *)
(* a condition on the resource, or None; `dept' one on the user.           *)
PolicyRow ==
    [effect : {"allow", "deny"}, active : BOOLEAN, action : Action,
     category : Category \cup {None}, dept : Dept \cup {None}]

-----------------------------------------------------------------------------
(* Layer 1: the role.                                                      *)

RolePerms(me) == IF me.role = None THEN {} ELSE role[me.role]
(* What get_user_perms lists; without a role it raises 404.                *)
Shown(me) == IF me.role = None THEN {} ELSE RolePerms(me) \cup me.assigned

(* `perms' are those of the role.                                          *)
Grants(perms, me, action) == action \in perms \cup me.assigned \/ Anything \in perms
(* Bug: the user's own permissions count without a role.                   *)
GrantsWithoutRole(me, action) == Grants(RolePerms(me), me, action)
CheckRolePermission(me, action) ==
    me.role # None /\ Grants(RolePerms(me), me, action)

-----------------------------------------------------------------------------
(* Layer 2: the scope.  A key of access_scope replaces the default.        *)

DefaultScope(me) ==
    [departments |-> {me.dept}, categories |-> {},
     geographic |-> IF me.county = None THEN {} ELSE {me.county}]
MergedScope(me) ==
    [k \in DOMAIN me.scope |-> IF me.scope[k] = None THEN DefaultScope(me)[k] ELSE me.scope[k]]

(* An empty list restricts nothing.  A county has no entry that stands for *)
(* all.  It is normalised (lower case, underscores) before it is looked up *)
(* and the entries are not: a county here is its normalised name, and an   *)
(* entry spelled in another way one that no resource has.                  *)
InList(x, list) == list = {} \/ All \in list \/ x \in list
InCounties(x, list) == list = {} \/ x \in list

(* Bug: the list is asked for the user's own department too.               *)
ListedDepartment(me, d) == InList(d, MergedScope(me).departments)
DepartmentAllowed(me, d) == d # me.dept => InList(d, MergedScope(me).departments)

CheckAccessScope(me, resource) ==
    /\ resource.dept # None => DepartmentAllowed(me, resource.dept)
    /\ resource.county # None => InCounties(resource.county, MergedScope(me).geographic)
    /\ InList(resource.category, MergedScope(me).categories)

-----------------------------------------------------------------------------
(* Layer 3: the policies.                                                  *)

Matches(p, me, action, resource) ==
    /\ policy[p].active /\ policy[p].action = action
    /\ policy[p].dept \in {None, me.dept}
    /\ policy[p].category \in {None, resource.category}

(* The value of the effect is compared with "DENY".                        *)
EvaluatePolicies(me, action, resource) ==
    IF \E p \in Policy : Matches(p, me, action, resource) /\ policy[p].effect = "DENY"
    THEN "DENY" ELSE "ALLOW"

-----------------------------------------------------------------------------
(* The guarded requests.  `granted' is history: the role has allowed the   *)
(* action at some time since the request was made.                         *)

(* get_current_user, in its thread.                                        *)
Ask(s, u, action, a, to) ==
    /\ Idle(s) /\ served < MaxRequests
    /\ action = Unassign <=> to = None
    /\ task' = [task EXCEPT ![s] =
                  [todo |-> "start", me |-> user[u], action |-> action, asset |-> a, to |-> to,
                   resource |-> None, granted |-> CheckRolePermission(user[u], action)]]
    /\ served' = served + 1 /\ UNCHANGED <<place, tables>>

(* Bug: no resource for the scope to be checked against.                   *)
LoadNoAsset(s) ==
    /\ At(s, "start") /\ Goes(s, [task[s] EXCEPT !.todo = "role"])
    /\ UNCHANGED <<place, tables, served>>

LoadAsset(s) ==
    /\ At(s, "start")
    /\ Goes(s, [task[s] EXCEPT !.todo = "role", !.resource = asset[task[s].asset]])
    /\ UNCHANGED <<place, tables, served>>

(* The role is loaded when its permissions are first asked for.            *)
CheckRole(s) ==
    /\ At(s, "role")
    /\ IF CheckRolePermission(task[s].me, task[s].action)
            /\ CheckAccessScope(task[s].me, task[s].resource)
         THEN Goes(s, [task[s] EXCEPT !.todo = "policies"])
         ELSE MayRun(s) /\ Done(s)
    /\ UNCHANGED <<place, tables, served>>

CheckPolicies(s) ==
    /\ At(s, "policies")
    /\ IF EvaluatePolicies(task[s].me, task[s].action, task[s].resource) # "DENY"
         THEN Goes(s, [task[s] EXCEPT !.todo = "commit"])
         ELSE MayRun(s) /\ Done(s)
    /\ UNCHANGED <<place, tables, served>>

(* The asset goes to another department, or to none.                       *)
Commit(s) ==
    /\ At(s, "commit") /\ MayRun(s)
    /\ asset' = [asset EXCEPT ![task[s].asset].dept = task[s].to]
    /\ Done(s)
    /\ UNCHANGED <<place, user, role, policy, served>>

-----------------------------------------------------------------------------
(* What others do meanwhile; each of these loads a row and sets it.        *)

Elsewhere(s) ==
    /\ Idle(s) /\ MayRun(s) /\ served < MaxRequests
    /\ served' = served + 1 /\ UNCHANGED place

GrantedBy(r, perms, t) ==
    t.granted \/ (t.me.role = r /\ Grants(perms, t.me, t.action))

(* update_role, add_permission, remove_permission.                         *)
ChangeRole(s, r, perms) ==
    /\ Elsewhere(s)
    /\ role' = [role EXCEPT ![r] = perms] /\ UNCHANGED <<user, policy, asset>>
    /\ task' = [t \in Slot |-> IF Idle(t) THEN None ELSE
                   [task[t] EXCEPT !.granted = GrantedBy(r, perms, task[t])]]

(* give_user_permissions_adm and patch_user_details_adm.                   *)
ChangeUser(s, u, r, perms) ==
    /\ Elsewhere(s)
    /\ user' = [user EXCEPT ![u].role = r, ![u].assigned = perms]
    /\ UNCHANGED <<role, policy, asset, task>>

(* There is no route for policies: they are edited in the database.        *)
ChangePolicy(p) ==
    /\ served < MaxRequests /\ served' = served + 1
    /\ policy' = [policy EXCEPT ![p].active = ~ @]
    /\ UNCHANGED <<place, task, user, role, asset>>

(* assign: it has no check of permissions.                                 *)
Assign(s, a, d) ==
    /\ Elsewhere(s) /\ asset[a].dept = None
    /\ asset' = [asset EXCEPT ![a].dept = d] /\ UNCHANGED <<user, role, policy, task>>

-----------------------------------------------------------------------------
(* Bound: users and scopes of every kind are looked at as they stand;      *)
(* requests are made by users with a default scope or with one that names  *)
(* departments, and others give and take the guarded permissions.          *)

NoScope == [departments |-> None, geographic |-> None, categories |-> None]
Caller ==
    {[role |-> r, assigned |-> {}, dept |-> d, county |-> None, scope |-> sc] :
        r \in Role \cup {None}, d \in Dept,
        sc \in {[NoScope EXCEPT !.departments = ds] : ds \in {None} \cup {{x} : x \in Dept}}}
Given == {{}, {Unassign}, {Reassign, Anything}}

NoPolicy == [effect |-> "allow", active |-> FALSE, action |-> Unassign,
             category |-> None, dept |-> None]
Holder ==
    {[role |-> r, assigned |-> perms, dept |-> d, county |-> None, scope |-> NoScope] :
        r \in Role \cup {None}, perms \in SUBSET Perm, d \in Dept}
Scoped ==
    {[role |-> None, assigned |-> {}, dept |-> d, county |-> c, scope |-> sc] :
        d \in Dept, c \in County \cup {None}, sc \in ScopeRow}
InForce == {[NoPolicy EXCEPT !.effect = e, !.active = TRUE] : e \in {"allow", "deny"}}

AnyPermissions ==
    /\ user \in [User -> Holder]
    /\ role \in [Role -> SUBSET Perm] /\ policy = [p \in Policy |-> NoPolicy]
    /\ served = MaxRequests
AnyScope ==
    /\ user \in [User -> Scoped]
    /\ role = [r \in Role |-> {}] /\ policy = [p \in Policy |-> NoPolicy]
    /\ served = MaxRequests
AnyRequest ==
    /\ user \in [User -> Caller] /\ role \in [Role -> Given]
    /\ policy \in [Policy -> InForce]
    /\ served = 0

Init ==
    /\ AnyPermissions \/ AnyScope \/ AnyRequest
    /\ asset \in [Asset -> {row \in AssetRow : row.county = None}]
    /\ place \in [Slot -> Process] /\ (served = MaxRequests => OneProcess)
    /\ task = [s \in Slot |-> None]

Next ==
    \/ \E s \in Slot :
         \/ \E u \in User, a \in Asset, action \in Action, to \in Dept \cup {None} :
              Ask(s, u, action, a, to)
         \/ LoadAsset(s) \/ CheckRole(s) \/ CheckPolicies(s) \/ Commit(s)
         \/ \E r \in Role, perms \in Given : ChangeRole(s, r, perms)
         \/ \E u \in User, r \in Role, perms \in Given : ChangeUser(s, u, r, perms)
         \/ \E a \in Asset, d \in Dept : Assign(s, a, d)
    \/ \E p \in Policy : ChangePolicy(p)

Spec == Init /\ [][Next]_vars

-----------------------------------------------------------------------------
(* Properties                                                              *)

Task ==
    [todo : {"start", "role", "policies", "commit"}, me : UserRow, action : Action,
     asset : Asset, to : Dept \cup {None}, resource : AssetRow \cup {None},
     granted : BOOLEAN]

(* Types, and an asset loaded wherever it is needed.                       *)
TypeOK ==
    /\ user \in [User -> UserRow] /\ role \in [Role -> SUBSET Perm]
    /\ policy \in [Policy -> PolicyRow] /\ asset \in [Asset -> AssetRow]
    /\ \A s \in Slot : task[s] # None =>
         task[s] \in Task /\ (task[s].resource = None => task[s].todo = "start")
    /\ served \in 0 .. MaxRequests

Commits(s) == At(s, "commit") /\ task'[s] = None

(* A guarded request changes an asset only if the caller's role, the one   *)
(* he had when he asked, has granted the action at some time since; and    *)
(* in one process it grants it still, and the asset as it is is still in   *)
(* his scope: no change slips in between the check and the commit.         *)
ActsAreAuthorised ==
    [][\A s \in Slot : Commits(s) =>
         LET t == task[s] IN
         /\ t.granted
         /\ OneProcess => /\ CheckRolePermission(t.me, t.action)
                          /\ CheckAccessScope(t.me, asset[t.asset])]_vars

(* What GET /me/permissions lists is granted, and what is granted is       *)
(* listed, or the role lists the permission for anything: *.* among the    *)
(* user's own permissions is listed and grants nothing more.               *)
PermissionsShown ==
    \A u \in User, action \in Action :
      CheckRolePermission(user[u], action)
        <=> \/ action \in Shown(user[u])
            \/ Anything \in Shown(user[u]) /\ Anything \in RolePerms(user[u])

(* A user is never refused the department he is in for its sake, and a     *)
(* list with fewer departments, counties or categories, but not an empty   *)
(* one, allows no more than it did: with an empty list he may do anything. *)
ScopeNarrows ==
    \A u \in User, d \in Dept, c \in County \cup {None}, k \in Category :
      LET me == user[u]
          r == [dept |-> d, county |-> c, category |-> k]
          Narrower(key) == {x \in SUBSET MergedScope(me)[key] : x # {}}
          With(key, x) == [me EXCEPT !.scope[key] = x]
      IN /\ me.dept = d => DepartmentAllowed(me, d)
         /\ \A key \in DOMAIN me.scope : \A x \in Narrower(key) :
              CheckAccessScope(With(key, x), r) => CheckAccessScope(me, r)
         /\ \A key \in DOMAIN me.scope :
              CheckAccessScope(me, r) => CheckAccessScope(With(key, {}), r)

(* policy_eval.py:228 "DENY policies override ALLOW policies": a request   *)
(* that an active policy denies changes nothing.                           *)
DenyOverrides ==
    [][\A s \in Slot, p \in Policy : Commits(s) =>
         ~ (Matches(p, task[s].me, task[s].action, task[s].resource)
             /\ policy[p].effect = "deny")]_vars

=============================================================================
