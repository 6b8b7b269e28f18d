------------------------ MODULE AccessControl_proofs ------------------------
(***************************************************************************)
(* Proofs about AccessControl for any number of users, roles, assets,      *)
(* policies, slots and server processes.                                   *)
(***************************************************************************)
EXTENDS AccessControl, TLAPS

(* What a request has passed, as long as nobody interferes.                *)
Passed(t) ==
    /\ t.resource = asset[t.asset]
    /\ t.todo \in {"policies", "commit"} =>
         CheckRolePermission(t.me, t.action) /\ CheckAccessScope(t.me, t.resource)

(* `granted' is true whenever the role grants the action, and past the     *)
(* check of the role.                                                      *)
History(t) ==
    t.todo \in {"policies", "commit"} \/ CheckRolePermission(t.me, t.action) => t.granted

Histories == \A s \in Slot : task[s] # None => History(task[s])
OneRuns == \A s, t \in Slot : Running(s) /\ Running(t) => s = t
Serial == OneProcess => OneRuns /\ \A s \in Slot : Running(s) => Passed(task[s])
Tasks == task = [s \in Slot |-> task[s]]

IInv == TypeOK /\ Tasks /\ Histories /\ Serial

-----------------------------------------------------------------------------
LEMMA ScopeIsScope ==
    /\ NoScope \in ScopeRow
    /\ \A D \in {None} \cup SUBSET (Dept \cup {All}) : [NoScope EXCEPT !.departments = D] \in ScopeRow
BY DEF NoScope, ScopeRow

(* The rows of the initial states have their types.                        *)
LEMMA HolderType == Holder \subseteq UserRow
BY ScopeIsScope DEF Holder, UserRow

LEMMA ScopedType == Scoped \subseteq UserRow
BY DEF Scoped, UserRow

LEMMA CallerType == Caller \subseteq UserRow
<1>1. \A D \in {None} \cup {{x} : x \in Dept} : [NoScope EXCEPT !.departments = D] \in ScopeRow
  BY ScopeIsScope
<1>2. \A r \in Role \cup {None}, d \in Dept, sc \in ScopeRow :
        [role |-> r, assigned |-> {}, dept |-> d, county |-> None, scope |-> sc] \in UserRow
  BY DEF UserRow
<1> QED BY <1>1, <1>2 DEF Caller

LEMMA InitialPolicies == NoPolicy \in PolicyRow /\ InForce \subseteq PolicyRow
BY DEF NoPolicy, InForce, PolicyRow, Action

LEMMA GivenArePerms == Given \subseteq SUBSET Perm
BY AccessAssumption DEF Given

LEMMA InitTables ==
    ASSUME AnyPermissions \/ AnyScope \/ AnyRequest
    PROVE  /\ user \in [User -> UserRow] /\ role \in [Role -> SUBSET Perm]
           /\ policy \in [Policy -> PolicyRow] /\ served \in 0 .. MaxRequests
<1>1. MaxRequests \in 0 .. MaxRequests /\ 0 \in 0 .. MaxRequests BY AccessAssumption
<1>2. CASE AnyPermissions BY <1>1, <1>2, HolderType, InitialPolicies DEF AnyPermissions
<1>3. CASE AnyScope 
  <2>1. role \in [Role -> SUBSET Perm] BY <1>3 DEF AnyScope
  <2> QED BY <1>1, <1>3, <2>1, ScopedType, InitialPolicies DEF AnyScope
<1>4. CASE AnyRequest
  BY <1>1, <1>4, CallerType, InitialPolicies, GivenArePerms DEF AnyRequest
<1> QED BY <1>2, <1>3, <1>4

LEMMA InitInv == Init => IInv
<1> SUFFICES ASSUME Init PROVE IInv OBVIOUS
<1>1. asset \in [Asset -> AssetRow] BY DEF Init
<1>2. TypeOK BY <1>1, InitTables DEF Init, TypeOK
<1>3. Tasks /\ Histories /\ Serial
  BY DEF Init, Tasks, Histories, Serial, OneRuns, Running
<1> QED BY <1>2, <1>3 DEF IInv

-----------------------------------------------------------------------------
(* A handler goes on to be t, or is done, and changes no table.            *)
LEMMA HandlerStep ==
    ASSUME IInv, NEW s \in Slot, NEW t \in Task \cup {None}, MayRun(s),
           task' = [task EXCEPT ![s] = t], UNCHANGED <<place, tables, served>>,
           t # None => History(t) /\ (t.resource = None => t.todo = "start"),
           OneProcess /\ t # None => Passed(t)
    PROVE  IInv'
<1> USE DEF tables
<1>1. \A x \in Slot : task'[x] = IF x = s THEN t ELSE task[x] BY DEF IInv, Tasks
<1>2. TypeOK' BY <1>1 DEF IInv, TypeOK
<1>3. Tasks' BY DEF IInv, Tasks
<1>4. Histories' BY <1>1 DEF IInv, Histories, History, CheckRolePermission, RolePerms
<1>5. ASSUME OneProcess PROVE OneRuns' /\ \A x \in Slot : Running(x)' => Passed(task[x])'
  <2>1. \A x \in Slot \ {s} : ~Running(x) BY <1>5 DEF MayRun, OneProcess
  <2>2. \A x \in Slot \ {s} : ~Running(x)' BY <2>1, <1>1 DEF Running
  <2>3. Running(s)' => Passed(task[s])'
    BY <1>1, <1>5 DEF Running, Passed, CheckRolePermission, RolePerms
  <2> QED BY <2>2, <2>3 DEF OneRuns
<1>6. Serial' BY <1>5 DEF Serial, OneProcess
<1> QED BY <1>2, <1>3, <1>4, <1>6 DEF IInv

(* Whoever may run is alone in one process.                                *)
LEMMA Alone ==
    ASSUME OneProcess, NEW s \in Slot, MayRun(s)
    PROVE  \A x \in Slot \ {s} : ~Running(x)
BY DEF MayRun, OneProcess

LEMMA AskStep ==
    ASSUME IInv, NEW s \in Slot, NEW u \in User, NEW a \in Asset, NEW action \in Action,
           NEW to \in Dept \cup {None}, Ask(s, u, action, a, to)
    PROVE  IInv'
<1> USE DEF Ask, tables
<1> DEFINE t == [todo |-> "start", me |-> user[u], action |-> action, asset |-> a, to |-> to,
                 resource |-> None, granted |-> CheckRolePermission(user[u], action)]
<1>1. t \in Task
  <2>1. CheckRolePermission(user[u], action) \in BOOLEAN BY DEF CheckRolePermission
  <2> QED BY <2>1 DEF IInv, TypeOK, Task
<1>2. \A x \in Slot : task'[x] = IF x = s THEN t ELSE task[x] BY DEF IInv, Tasks
<1>3. TypeOK'
  <2>1. served' \in 0 .. MaxRequests BY AccessAssumption DEF IInv, TypeOK
  <2> QED BY <1>1, <1>2, <2>1 DEF IInv, TypeOK
<1>4. Tasks' BY DEF IInv, Tasks
<1>5. Histories'
  <2>1. ~ (t.todo \in {"policies", "commit"}) /\ t.me = user[u] /\ t.action = action
          /\ t.granted = CheckRolePermission(user[u], action)
    OBVIOUS
  <2>2. ASSUME NEW x \in Slot, x # s, task'[x] # None PROVE History(task[x])'
    <3>1. task'[x] = task[x] /\ History(task[x]) BY <1>2, <2>2 DEF IInv, Histories
    <3> QED BY <3>1 DEF History, CheckRolePermission, RolePerms
  <2>3. History(task[s])'
    BY <1>2, <2>1, Zenon DEF History, CheckRolePermission, RolePerms
  <2> QED BY <2>1, <2>2, <2>3 DEF Histories
<1>6. \A x \in Slot : Running(x)' => Running(x) /\ task'[x] = task[x]
  BY <1>2 DEF Running, Waiting
<1>7. Serial'
  BY <1>6 DEF IInv, Serial, OneProcess, OneRuns, Passed, CheckRolePermission, RolePerms
<1> QED BY <1>3, <1>4, <1>5, <1>7 DEF IInv

LEMMA LoadAssetStep ==
    ASSUME IInv, NEW s \in Slot, LoadAsset(s)
    PROVE  IInv'
<1> USE DEF LoadAsset, At, Goes
<1> DEFINE t == [task[s] EXCEPT !.todo = "role", !.resource = asset[task[s].asset]]
<1>1. task[s] \in Task /\ History(task[s]) BY DEF IInv, TypeOK, Histories
<1>2. asset[task[s].asset] \in AssetRow BY <1>1 DEF IInv, TypeOK, Task
<1>3. t \in Task BY <1>1, <1>2 DEF Task
<1>4. /\ t.todo = "role" /\ t.me = task[s].me /\ t.action = task[s].action
      /\ t.asset = task[s].asset /\ t.granted = task[s].granted
      /\ t.resource = asset[t.asset]
  BY <1>1 DEF Task
<1>5. History(t) BY <1>1, <1>4 DEF History
<1>6. t.resource # None BY <1>2, <1>4, AccessAssumption DEF AssetRow
<1>7. Passed(t) BY <1>4 DEF Passed
<1> QED BY <1>3, <1>5, <1>6, <1>7, HandlerStep

LEMMA CheckRoleStep ==
    ASSUME IInv, NEW s \in Slot, CheckRole(s)
    PROVE  IInv'
<1> USE DEF CheckRole, At, Goes, Done
<1>1. task[s] \in Task /\ History(task[s]) /\ task[s].resource # None
  BY DEF IInv, TypeOK, Histories
<1>2. CASE /\ CheckRolePermission(task[s].me, task[s].action)
           /\ CheckAccessScope(task[s].me, task[s].resource)
  <2> DEFINE t == [task[s] EXCEPT !.todo = "policies"]
  <2>1. t \in Task BY <1>1 DEF Task
  <2>2. /\ t.todo = "policies" /\ t.me = task[s].me /\ t.action = task[s].action
        /\ t.asset = task[s].asset /\ t.granted = task[s].granted
        /\ t.resource = task[s].resource
    BY <1>1 DEF Task
  <2>3. History(t) BY <1>1, <1>2, <2>2 DEF History
  <2>4. Running(s) BY DEF Running, Waiting
  <2>5. OneProcess => Passed(t) BY <1>2, <2>2, <2>4 DEF IInv, Serial, Passed
  <2>6. task' = [task EXCEPT ![s] = t] /\ MayRun(s) BY <1>2
  <2> QED BY <1>1, <2>1, <2>2, <2>3, <2>5, <2>6, HandlerStep
<1>3. CASE ~ (/\ CheckRolePermission(task[s].me, task[s].action)
              /\ CheckAccessScope(task[s].me, task[s].resource))
  <2>1. task' = [task EXCEPT ![s] = None] /\ MayRun(s) BY <1>3
  <2> QED BY <2>1, HandlerStep
<1> QED BY <1>2, <1>3

LEMMA CheckPoliciesStep ==
    ASSUME IInv, NEW s \in Slot, CheckPolicies(s)
    PROVE  IInv'
<1> USE DEF CheckPolicies, At, Goes, Done
<1> DEFINE ok == EvaluatePolicies(task[s].me, task[s].action, task[s].resource) # "DENY"
<1>1. task[s] \in Task /\ History(task[s]) /\ task[s].resource # None
  BY DEF IInv, TypeOK, Histories
<1>2. CASE ok
  <2> DEFINE t == [task[s] EXCEPT !.todo = "commit"]
  <2>1. t \in Task BY <1>1 DEF Task
  <2>2. /\ t.todo = "commit" /\ t.me = task[s].me /\ t.action = task[s].action
        /\ t.asset = task[s].asset /\ t.granted = task[s].granted
        /\ t.resource = task[s].resource
    BY <1>1 DEF Task
  <2>3. History(t) BY <1>1, <2>2 DEF History
  <2>4. Running(s) BY DEF Running, Waiting
  <2>5. OneProcess => Passed(t) BY <2>2, <2>4 DEF IInv, Serial, Passed
  <2>6. task' = [task EXCEPT ![s] = t] /\ MayRun(s) BY <1>2
  <2> QED BY <1>1, <2>1, <2>2, <2>3, <2>5, <2>6, HandlerStep
<1>3. CASE ~ ok
  <2>1. task' = [task EXCEPT ![s] = None] /\ MayRun(s) BY <1>3
  <2> QED BY <2>1, HandlerStep
<1> QED BY <1>2, <1>3

(* The tables change while nobody else in the process is in its turn.      *)
LEMMA CommitStep ==
    ASSUME IInv, NEW s \in Slot, Commit(s)
    PROVE  IInv'
<1> USE DEF Commit, At, Done
<1>1. task[s] \in Task BY DEF IInv, TypeOK
<1>2. task[s].asset \in Asset /\ task[s].to \in Dept \cup {None} BY <1>1 DEF Task
<1>3. \A x \in Slot : task'[x] = IF x = s THEN None ELSE task[x] BY DEF IInv, Tasks
<1>4. asset' \in [Asset -> AssetRow]
  <2>1. asset[task[s].asset] \in AssetRow BY <1>2 DEF IInv, TypeOK
  <2>2. [asset[task[s].asset] EXCEPT !.dept = task[s].to] \in AssetRow
    BY <1>2, <2>1 DEF AssetRow
  <2> QED BY <2>2 DEF IInv, TypeOK
<1>5. TypeOK' BY <1>3, <1>4 DEF IInv, TypeOK
<1>6. Tasks' BY DEF IInv, Tasks
<1>7. Histories' BY <1>3 DEF IInv, Histories, History, CheckRolePermission, RolePerms
<1>8. OneProcess => \A x \in Slot : ~Running(x)' BY <1>3, Alone DEF Running
<1>9. Serial' BY <1>8 DEF Serial, OneProcess, OneRuns
<1> QED BY <1>5, <1>6, <1>7, <1>9 DEF IInv

LEMMA ElsewhereIsAlone ==
    ASSUME NEW s \in Slot, Elsewhere(s), OneProcess
    PROVE  \A x \in Slot : ~Running(x)
BY Alone DEF Elsewhere, Running, Idle

LEMMA ServedType ==
    ASSUME IInv, served < MaxRequests
    PROVE  served + 1 \in 0 .. MaxRequests
BY AccessAssumption DEF IInv, TypeOK

LEMMA ChangeRoleStep ==
    ASSUME IInv, NEW s \in Slot, NEW r \in Role, NEW perms \in Given, ChangeRole(s, r, perms)
    PROVE  IInv'
<1> USE DEF ChangeRole
<1>1. \A x \in Slot : task'[x] = IF task[x] = None THEN None ELSE
                        [task[x] EXCEPT !.granted = GrantedBy(r, perms, task[x])]
  BY DEF Idle
<1>2. \A x \in Slot : task[x] # None =>
        /\ task'[x] \in Task
        /\ task'[x].todo = task[x].todo /\ task'[x].me = task[x].me
        /\ task'[x].action = task[x].action /\ task'[x].resource = task[x].resource
        /\ task'[x].granted = GrantedBy(r, perms, task[x])
  <2> SUFFICES ASSUME NEW x \in Slot, task[x] # None
               PROVE  /\ task'[x] \in Task
                      /\ task'[x].todo = task[x].todo /\ task'[x].me = task[x].me
                      /\ task'[x].action = task[x].action /\ task'[x].resource = task[x].resource
                      /\ task'[x].granted = GrantedBy(r, perms, task[x])
    OBVIOUS
  <2>1. task[x] \in Task BY DEF IInv, TypeOK
  <2>2. GrantedBy(r, perms, task[x]) \in BOOLEAN
    <3>1. task[x].granted \in BOOLEAN BY <2>1 DEF Task
    <3> QED BY <3>1 DEF GrantedBy
  <2> QED BY <1>1, <2>1, <2>2 DEF Task
<1>3. TypeOK'
  <2>1. role' \in [Role -> SUBSET Perm] BY GivenArePerms DEF IInv, TypeOK
  <2>2. served' \in 0 .. MaxRequests BY ServedType DEF Elsewhere
  <2> QED BY <1>1, <1>2, <2>1, <2>2 DEF IInv, TypeOK
<1>4. Tasks' BY DEF Tasks
<1>5. Histories'
  <2> SUFFICES ASSUME NEW x \in Slot, task'[x] # None PROVE History(task[x])'
    BY DEF Histories
  <2>1. task[x] # None /\ History(task[x]) /\ task[x] \in Task
    BY <1>1 DEF IInv, TypeOK, Histories
  <2>2. role'[r] = perms /\ \A q \in Role \ {r} : role'[q] = role[q]
    BY DEF IInv, TypeOK
  <2>3. task[x].me.role \in Role \cup {None} BY <2>1 DEF Task, UserRow
  <2>4. CASE task[x].todo \in {"policies", "commit"} \/ task[x].granted
    BY <1>2, <2>1, <2>4 DEF History, GrantedBy
  <2>5. CASE /\ task[x].todo \notin {"policies", "commit"}
             /\ CheckRolePermission(task[x].me, task[x].action)'
    <3> DEFINE me == task[x].me
               action == task[x].action
    <3>1. me.role # None /\ Grants(role'[me.role], me, action)
      BY <1>2, <2>1, <2>5 DEF CheckRolePermission, RolePerms
    <3>2. CASE me.role = r BY <1>2, <2>1, <2>2, <3>1, <3>2 DEF GrantedBy, History
    <3>3. CASE me.role # r
      <4>1. role'[me.role] = role[me.role] BY <2>2, <2>3, <3>1, <3>3
      <4>2. CheckRolePermission(me, action)
        BY <3>1, <4>1 DEF CheckRolePermission, RolePerms
      <4>3. task[x].granted BY <2>1, <4>2 DEF History
      <4> QED BY <1>2, <2>1, <4>3 DEF GrantedBy, History
    <3> QED BY <3>2, <3>3
  <2> QED BY <1>2, <2>1, <2>4, <2>5 DEF History, CheckRolePermission, RolePerms
<1>6. OneProcess => \A x \in Slot : ~Running(x)'
  BY <1>1, <1>2, ElsewhereIsAlone DEF Running
<1>7. Serial' BY <1>6 DEF Serial, OneProcess, OneRuns, Elsewhere
<1> QED BY <1>3, <1>4, <1>5, <1>7 DEF IInv

(* The others leave the requests alone.                                    *)
LEMMA OthersStep ==
    ASSUME IInv, TypeOK', UNCHANGED <<place, task, role>>,
           UNCHANGED asset \/ (OneProcess => \A x \in Slot : ~Running(x))
    PROVE  IInv'
<1>1. Tasks' BY DEF IInv, Tasks
<1>2. Histories' BY DEF IInv, Histories, History, CheckRolePermission, RolePerms
<1>3. Serial'
  BY DEF IInv, Serial, OneProcess, OneRuns, Running, Passed, CheckRolePermission, RolePerms
<1> QED BY <1>1, <1>2, <1>3 DEF IInv

LEMMA ChangeUserStep ==
    ASSUME IInv, NEW s \in Slot, NEW u \in User, NEW r \in Role, NEW perms \in Given,
           ChangeUser(s, u, r, perms)
    PROVE  IInv'
<1> USE DEF ChangeUser
<1>1. user' \in [User -> UserRow]
  <2>1. user[u] \in UserRow BY DEF IInv, TypeOK
  <2>2. [user[u] EXCEPT !.role = r, !.assigned = perms] \in UserRow
    BY <2>1, GivenArePerms DEF UserRow
  <2>3. user' = [user EXCEPT ![u] = [user[u] EXCEPT !.role = r, !.assigned = perms]]
    BY DEF IInv, TypeOK
  <2> QED BY <2>2, <2>3 DEF IInv, TypeOK
<1>2. TypeOK' BY <1>1, ServedType DEF IInv, TypeOK, Elsewhere
<1> QED BY <1>2, OthersStep DEF Elsewhere

LEMMA ChangePolicyStep ==
    ASSUME IInv, NEW p \in Policy, ChangePolicy(p)
    PROVE  IInv'
<1> USE DEF ChangePolicy
<1>1. policy' \in [Policy -> PolicyRow]
  <2>1. policy[p] \in PolicyRow BY DEF IInv, TypeOK
  <2>2. (~ policy[p].active) \in BOOLEAN OBVIOUS
  <2>3. [policy[p] EXCEPT !.active = ~ policy[p].active] \in PolicyRow
    BY <2>1, <2>2 DEF PolicyRow
  <2> QED BY <2>3 DEF IInv, TypeOK
<1>2. TypeOK' BY <1>1, ServedType DEF IInv, TypeOK
<1> QED BY <1>2, OthersStep

LEMMA AssignStep ==
    ASSUME IInv, NEW s \in Slot, NEW a \in Asset, NEW d \in Dept, Assign(s, a, d)
    PROVE  IInv'
<1> USE DEF Assign
<1>1. asset' \in [Asset -> AssetRow]
  <2>1. asset[a] \in AssetRow BY DEF IInv, TypeOK
  <2>2. [asset[a] EXCEPT !.dept = d] \in AssetRow BY <2>1 DEF AssetRow
  <2> QED BY <2>2 DEF IInv, TypeOK
<1>2. TypeOK' BY <1>1, ServedType DEF IInv, TypeOK, Elsewhere
<1> QED BY <1>2, OthersStep, ElsewhereIsAlone DEF Elsewhere

-----------------------------------------------------------------------------
LEMMA NextInv == IInv /\ [Next]_vars => IInv'
<1> SUFFICES ASSUME IInv, [Next]_vars PROVE IInv' OBVIOUS
<1>1. CASE UNCHANGED vars
  <2>1. TypeOK' BY <1>1 DEF vars, IInv, TypeOK
  <2> QED BY <1>1, <2>1, OthersStep DEF vars
<1>2. CASE Next
  BY <1>2, AskStep, LoadAssetStep, CheckRoleStep, CheckPoliciesStep, CommitStep,
     ChangeRoleStep, ChangeUserStep, ChangePolicyStep, AssignStep DEF Next
<1> QED BY <1>1, <1>2

LEMMA Invariance == Spec => []IInv
BY InitInv, NextInv, PTL DEF Spec

(* Type correctness; the asset is loaded wherever it is looked at.         *)
THEOREM AccessTypeOK == Spec => []TypeOK
<1>1. IInv => TypeOK BY DEF IInv
<1> QED BY <1>1, Invariance, PTL

LEMMA ActsAreAuthorisedStep ==
    IInv /\ [Next]_vars =>
      [\A s \in Slot : Commits(s) =>
         LET t == task[s] IN
         /\ t.granted
         /\ OneProcess => /\ CheckRolePermission(t.me, t.action)
                          /\ CheckAccessScope(t.me, asset[t.asset])]_vars
<1> SUFFICES ASSUME IInv, NEW s \in Slot, Commits(s)
             PROVE  /\ task[s].granted
                    /\ OneProcess => /\ CheckRolePermission(task[s].me, task[s].action)
                                     /\ CheckAccessScope(task[s].me, asset[task[s].asset])
  OBVIOUS
<1> USE DEF Commits, At
<1>1. task[s].granted BY DEF IInv, Histories, History
<1>2. Running(s) BY DEF Running, Waiting
<1>3. OneProcess => Passed(task[s]) BY <1>2 DEF IInv, Serial
<1> QED BY <1>1, <1>3 DEF Passed

(* With any number of processes a guarded request commits only if its      *)
(* role has granted the action at some time since it was made, and in one  *)
(* process only if it does at the commit and the asset is in scope then.   *)
THEOREM AccessActsAreAuthorised == Spec => ActsAreAuthorised
BY Invariance, ActsAreAuthorisedStep, PTL DEF Spec, ActsAreAuthorised

-----------------------------------------------------------------------------
(* The operators of the first two layers, for each user as the row stands. *)

LEMMA ShownIsGranted == TypeOK => PermissionsShown
<1> SUFFICES ASSUME TypeOK, NEW u \in User, NEW action \in Action
             PROVE  CheckRolePermission(user[u], action)
                      <=> \/ action \in Shown(user[u])
                          \/ Anything \in Shown(user[u]) /\ Anything \in RolePerms(user[u])
  BY DEF PermissionsShown
<1> QED BY DEF CheckRolePermission, Grants, Shown, RolePerms

(* What GET /me/permissions lists is granted, and the other way round, up  *)
(* to the permission for anything.                                         *)
THEOREM AccessPermissionsShown == Spec => []PermissionsShown
<1>1. IInv => TypeOK BY DEF IInv
<1> QED BY <1>1, ShownIsGranted, Invariance, PTL

Keys == {"departments", "geographic", "categories"}
Entries == SUBSET (Dept \cup County \cup Category \cup {All})

LEMMA ScopeShape ==
    ASSUME NEW me \in UserRow
    PROVE  /\ me.scope \in ScopeRow /\ DOMAIN me.scope = Keys /\ "scope" \in DOMAIN me
           /\ \A key \in Keys : MergedScope(me)[key] \in Entries
<1>1. me.scope \in ScopeRow /\ me.dept \in Dept /\ me.county \in County \cup {None}
        /\ "scope" \in DOMAIN me
  BY DEF UserRow
<1>2. DOMAIN me.scope = Keys /\ \A key \in Keys : me.scope[key] \in Entries \cup {None}
  BY <1>1 DEF ScopeRow, Keys, Entries
<1>3. \A key \in Keys : DefaultScope(me)[key] \in Entries
  BY <1>1 DEF DefaultScope, Keys, Entries
<1>4. \A key \in Keys : MergedScope(me)[key] =
        IF me.scope[key] = None THEN DefaultScope(me)[key] ELSE me.scope[key]
  BY <1>2 DEF MergedScope
<1> QED BY <1>1, <1>2, <1>3, <1>4

(* A list in place of another: the other keys are as before.               *)
LEMMA OtherList ==
    ASSUME NEW me \in UserRow, NEW key \in Keys, NEW x \in Entries
    PROVE  LET you == [me EXCEPT !.scope[key] = x] IN
           /\ you.dept = me.dept
           /\ \A j \in Keys : MergedScope(you)[j] = IF j = key THEN x ELSE MergedScope(me)[j]
<1> DEFINE you == [me EXCEPT !.scope[key] = x]
<1>1. you.dept = me.dept /\ you.county = me.county
        /\ you.scope = [me.scope EXCEPT ![key] = x]
  BY DEF UserRow
<1> HIDE DEF you
<1>2. DOMAIN me.scope = Keys BY ScopeShape
<1>3. DOMAIN you.scope = Keys
      /\ \A j \in Keys : you.scope[j] = IF j = key THEN x ELSE me.scope[j]
  BY <1>1, <1>2
<1>4. x # None BY AccessAssumption DEF Entries
<1>5. DefaultScope(you) = DefaultScope(me) BY <1>1 DEF DefaultScope
<1>6. \A j \in Keys : MergedScope(you)[j] = IF j = key THEN x ELSE MergedScope(me)[j]
  BY <1>2, <1>3, <1>4, <1>5 DEF MergedScope
<1> QED BY <1>1, <1>6 DEF you

LEMMA FewerNarrow == TypeOK => ScopeNarrows
<1> SUFFICES ASSUME TypeOK, NEW u \in User, NEW d \in Dept, NEW c \in County \cup {None},
                    NEW k \in Category
             PROVE  LET me == user[u]
                        r == [dept |-> d, county |-> c, category |-> k]
                        Narrower(key) == {x \in SUBSET MergedScope(me)[key] : x # {}}
                        With(key, x) == [me EXCEPT !.scope[key] = x]
                    IN /\ me.dept = d => DepartmentAllowed(me, d)
                       /\ \A key \in DOMAIN me.scope : \A x \in Narrower(key) :
                            CheckAccessScope(With(key, x), r) => CheckAccessScope(me, r)
                       /\ \A key \in DOMAIN me.scope :
                            CheckAccessScope(me, r) => CheckAccessScope(With(key, {}), r)
  BY DEF ScopeNarrows
<1> DEFINE me == user[u]
           r == [dept |-> d, county |-> c, category |-> k]
           With(key, x) == [me EXCEPT !.scope[key] = x]
<1>1. me \in UserRow BY DEF TypeOK
<1>2. r.dept = d /\ r.county = c /\ r.category = k OBVIOUS
<1> HIDE DEF me, r
<1>3. me.dept = d => DepartmentAllowed(me, d) BY DEF DepartmentAllowed
<1>4. DOMAIN me.scope = Keys BY <1>1, ScopeShape
<1>5. ASSUME NEW key \in Keys, NEW x \in SUBSET MergedScope(me)[key], x # {}
      PROVE  CheckAccessScope(With(key, x), r) => CheckAccessScope(me, r)
  <2>1. x \in Entries BY <1>1, ScopeShape DEF Entries
  <2>2. /\ With(key, x).dept = me.dept
        /\ \A j \in Keys : MergedScope(With(key, x))[j] =
                             IF j = key THEN x ELSE MergedScope(me)[j]
    BY <1>1, <2>1, OtherList
  <2> QED
    BY <1>2, <1>5, <2>2 DEF CheckAccessScope, DepartmentAllowed, InList, InCounties, Keys
<1>6. ASSUME NEW key \in Keys
      PROVE  CheckAccessScope(me, r) => CheckAccessScope(With(key, {}), r)
  <2>1. {} \in Entries BY DEF Entries
  <2>2. /\ With(key, {}).dept = me.dept
        /\ \A j \in Keys : MergedScope(With(key, {}))[j] =
                             IF j = key THEN {} ELSE MergedScope(me)[j]
    BY <1>1, <2>1, OtherList
  <2> QED BY <1>2, <2>2 DEF CheckAccessScope, DepartmentAllowed, InList, InCounties, Keys
<1> QED BY <1>3, <1>4, <1>5, <1>6 DEF me, r

(* A user is never refused his own department, a shorter list that is not  *)
(* empty allows no more, and an empty one no less.                         *)
THEOREM AccessScopeNarrows == Spec => []ScopeNarrows
<1>1. IInv => TypeOK BY DEF IInv
<1> QED BY <1>1, FewerNarrow, Invariance, PTL

=============================================================================
