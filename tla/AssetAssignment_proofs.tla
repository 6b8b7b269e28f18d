----------------------- MODULE AssetAssignment_proofs -----------------------
(***************************************************************************)
(* Proofs about AssetAssignment for any number of processes, assets,       *)
(* users, departments and requests.                                        *)
(***************************************************************************)
EXTENDS AssetAssignment, SequenceTheorems, FiniteSetTheorems, TLAPS

Changed == ToSet(changes)

(* The requests in progress are of deployed processes, told apart by their *)
(* number, and those that have changed their asset are about to record it. *)
Sound(w, t) ==
    /\ w \in pool /\ t.id <= served /\ t.id \notin died
    /\ t.todo = "record" <=> t.id \in Changed
    /\ t.todo = "load" => t.officer # None
Requests ==
    /\ \A w \in Worker : task[w] # None => Sound(w, task[w])
    /\ \A v, w \in Worker : task[v] # None /\ task[w] # None /\ task[v].id = task[w].id => v = w
    /\ \A n \in Changed \cup died : n <= served

(* What the request t goes by is so still, until it changes its asset: the *)
(* asset, and the officer if somebody else hands it to him.                *)
Current(t) ==
    /\ t.todo # "record" => asset[t.asset] = t.old
    /\ t.todo = "commit" /\ t.self = None /\ t.new.officer # None =>
         user[t.new.officer].active /\ user[t.new.officer].dept = t.new.dept
Serial == OneProcess => \A w \in Worker : task[w] # None => Current(task[w])

IInv == TypeOK /\ OneEventPerChange /\ Requests /\ Serial

-----------------------------------------------------------------------------
LEMMA Appended ==
    ASSUME NEW S, NEW s \in Seq(S), NEW e \in S
    PROVE  /\ Append(s, e) \in Seq(S) /\ Len(s) \in Nat
           /\ DOMAIN s = 1 .. Len(s) /\ DOMAIN Append(s, e) = 1 .. Len(s) + 1
           /\ \A i \in DOMAIN s : Append(s, e)[i] = s[i]
           /\ Append(s, e)[Len(s) + 1] = e
           /\ ToSet(Append(s, e)) = ToSet(s) \cup {e}
<1>1. Len(s) \in Nat /\ DOMAIN s = 1 .. Len(s) BY LenProperties
<1>2. Append(s, e) \in Seq(S) /\ Len(Append(s, e)) = Len(s) + 1 BY AppendProperties
<1>3. DOMAIN Append(s, e) = 1 .. Len(s) + 1 BY <1>2, LenProperties
<1>4. \A i \in DOMAIN s : Append(s, e)[i] = s[i] BY <1>1, AppendProperties
<1>5. Append(s, e)[Len(s) + 1] = e BY AppendProperties
<1>6. DOMAIN Append(s, e) = DOMAIN s \cup {Len(s) + 1} BY <1>1, <1>3
<1>7. ToSet(Append(s, e)) = ToSet(s) \cup {e} BY <1>4, <1>5, <1>6 DEF ToSet
<1> QED BY <1>1, <1>2, <1>3, <1>4, <1>5, <1>7

LEMMA WrittenAsset ==
    ASSUME NEW row \in AssetRow, NEW old \in AssetRow, NEW new \in AssetRow
    PROVE  /\ Written(row, old, new) \in AssetRow
           /\ row = old => Written(row, old, new) = new
<1>1. Written(row, old, new) = [dept |-> IF new.dept # old.dept THEN new.dept ELSE row.dept,
                                officer |-> IF new.officer # old.officer THEN new.officer
                                            ELSE row.officer]
  BY DEF Written, AssetRow
<1> QED BY <1>1 DEF AssetRow

(* In a deployment of one process there is one request at a time.          *)
LEMMA Alone ==
    ASSUME IInv, OneProcess, NEW v \in pool, NEW w \in pool
    PROVE  v = w
<1>1. IsFiniteSet(pool) BY AssignmentAssumption, FS_Subset DEF IInv, TypeOK
<1>2. PICK x : pool = {x} BY <1>1, FS_Singleton DEF OneProcess
<1> QED BY <1>2

LEMMA InitInv == Init => IInv
<1> SUFFICES ASSUME Init PROVE IInv OBVIOUS
<1>1. history = <<>> /\ changes = <<>> /\ DOMAIN history = {} /\ DOMAIN changes = {}
  BY DEF Init
<1>2. \A w \in Worker : task[w] = None BY DEF Init
<1>3. asset \in [Asset -> AssetRow] BY DEF Init, AssetRow, Nobody
<1>4. TypeOK BY <1>1, <1>3, AssignmentAssumption DEF Init, TypeOK
<1>5. Changed = {} /\ Recorded = {} /\ Recording = {} /\ died = {}
  BY <1>1, <1>2 DEF Init, Changed, ToSet, Recorded, Recording
<1>6. OneEventPerChange BY <1>1, <1>5 DEF OneEventPerChange, Changed
<1>7. Requests /\ Serial BY <1>2, <1>5 DEF Requests, Serial
<1> QED BY <1>4, <1>6, <1>7 DEF IInv

-----------------------------------------------------------------------------
(* One lemma for each action.                                              *)

LEMMA BeginStep ==
    ASSUME IInv, NEW w \in Worker, NEW op \in Operation, NEW a \in Asset,
           NEW officer \in User \cup {None}, NEW dept \in Dept \cup {None},
           NEW self \in UserRow \cup {None}, NEW new \in AssetRow,
           NEW todo \in {"load", "commit"},
           todo = "load" => officer # None, todo = "commit" => new.officer = None,
           Begin(w, op, a, officer, dept, self, new, todo)
    PROVE  IInv'
<1> DEFINE t == [id |-> served + 1, op |-> op, asset |-> a, old |-> asset[a], new |-> new,
                 officer |-> officer, dept |-> dept, self |-> self, todo |-> todo]
<1>1. /\ w \in pool /\ task[w] = None /\ served < MaxRequests /\ served' = served + 1
      /\ task' = [task EXCEPT ![w] = t]
      /\ UNCHANGED <<pool, user, asset, caller, history, changes, died>>
  BY DEF Begin, Idle, ghosts
<1>2. served \in Nat /\ MaxRequests \in Nat /\ served + 1 \in Request
  BY <1>1, AssignmentAssumption DEF IInv, TypeOK, Request
<1>3. t \in Task BY <1>2 DEF Task, IInv, TypeOK
<1> HIDE DEF t
<1>4. t.id = served + 1 /\ t.officer = officer /\ t.todo = todo /\ t.asset = a
      /\ t.old = asset[a] /\ t.new = new
  BY DEF t
<1>5. \A v \in Worker : task'[v] = IF v = w THEN t ELSE task[v] BY <1>1 DEF IInv, TypeOK
<1>6. TypeOK' BY <1>1, <1>2, <1>3 DEF IInv, TypeOK
<1>7. Recording' = Recording BY <1>1, <1>4, <1>5 DEF Recording
<1>8. OneEventPerChange' BY <1>1, <1>7 DEF IInv, OneEventPerChange, Recorded
<1>9. Requests'
  <2>1. Changed' = Changed /\ died' = died BY <1>1 DEF Changed
  <2>2. \A n \in Changed \cup died : n \in Nat /\ n <= served
    <3>1. \A n \in Changed : n \in Request
      <4>1. \A i \in DOMAIN changes : changes[i] \in Request
        BY LenProperties DEF IInv, TypeOK
      <4> QED BY <4>1 DEF Changed, ToSet
    <3>2. \A n \in died : n \in Request BY DEF IInv, TypeOK
    <3> QED BY <1>2, <3>1, <3>2 DEF IInv, Requests, Request
  <2>3. \A v \in Worker : task[v] # None => task[v].id \in Nat /\ task[v].id <= served
    BY DEF IInv, Requests, Sound, TypeOK, Task, Request
  <2>4. \A v \in Worker : task'[v] # None => Sound(v, task[v])'
    <3> SUFFICES ASSUME NEW v \in Worker, task'[v] # None PROVE Sound(v, task[v])'
      OBVIOUS
    <3>1. CASE v = w BY <3>1, <1>1, <1>2, <1>4, <1>5, <2>1, <2>2 DEF Sound
    <3>2. CASE v # w BY <3>2, <1>1, <1>2, <1>5, <2>1, <2>3 DEF IInv, Requests, Sound
    <3> QED BY <3>1, <3>2
  <2>5. \A u, v \in Worker : task'[u] # None /\ task'[v] # None /\ task'[u].id = task'[v].id
                               => u = v
    BY <1>2, <1>4, <1>5, <2>3 DEF IInv, Requests
  <2>6. \A n \in Changed' \cup died' : n <= served' BY <1>1, <1>2, <2>1, <2>2
  <2> QED BY <2>4, <2>5, <2>6 DEF Requests
<1>10. Serial'
  BY <1>1, <1>4, <1>5 DEF IInv, Serial, OneProcess, Current
<1> QED BY <1>6, <1>8, <1>9, <1>10 DEF IInv

LEMMA AssignDeptStep ==
    ASSUME IInv, NEW w \in Worker, NEW a \in Asset, NEW d \in Dept, AssignDept(w, a, d)
    PROVE  IInv'
<1>1. asset[a] \in AssetRow /\ asset[a].officer = None BY DEF IInv, TypeOK, AssignDept, Free
<1>2. [asset[a] EXCEPT !.dept = d] \in AssetRow
      /\ [asset[a] EXCEPT !.dept = d].officer = None
  BY <1>1 DEF AssetRow
<1> QED BY <1>2, BeginStep DEF AssignDept, Operation

LEMMA ReassignDeptStep ==
    ASSUME IInv, NEW w \in Worker, NEW a \in Asset, NEW d \in Dept, ReassignDept(w, a, d)
    PROVE  IInv'
<1>1. [dept |-> d, officer |-> None] \in AssetRow BY DEF AssetRow
<1> QED BY <1>1, BeginStep DEF ReassignDept, Operation

LEMMA ToUserStep ==
    ASSUME IInv, NEW w \in Worker, NEW a \in Asset, NEW u \in User, NEW d \in Dept \cup {None},
           NEW self \in {None, caller[u]}, AssignUser(w, a, u, d, self) \/ ReassignUser(w, a, u, d, self)
    PROVE  IInv'
<1>1. asset[a] \in AssetRow /\ self \in UserRow \cup {None} /\ u # None
  BY AssignmentAssumption DEF IInv, TypeOK
<1> QED BY <1>1, BeginStep DEF AssignUser, ReassignUser, Operation

LEMMA UnassignStep ==
    ASSUME IInv, NEW w \in Worker, NEW a \in Asset, Unassign(w, a)
    PROVE  IInv'
<1>1. Nobody \in AssetRow /\ Nobody.officer = None BY DEF Nobody, AssetRow
<1> QED BY <1>1, BeginStep DEF Unassign, Operation

(* A request goes on, or ends, without a change of asset or user.          *)
LEMMA GetCurrentUserStep ==
    ASSUME IInv, NEW u \in User, GetCurrentUser(u)
    PROVE  IInv'
<1>1. UNCHANGED <<pool, user, asset, task, history, served, changes, died>>
      /\ caller' = [caller EXCEPT ![u] = user[u]]
  BY DEF GetCurrentUser, ghosts
<1>2. TypeOK' BY <1>1 DEF IInv, TypeOK
<1>3. OneEventPerChange' BY <1>1 DEF IInv, OneEventPerChange, Recorded, Recording
<1>4. Requests' BY <1>1 DEF IInv, Requests, Sound, Changed
<1>5. Serial' BY <1>1 DEF IInv, Serial, Current, OneProcess
<1> QED BY <1>2, <1>3, <1>4, <1>5 DEF IInv

LEMMA LoadUserStep ==
    ASSUME IInv, NEW w \in Worker, LoadUser(w)
    PROVE  IInv'
<1> DEFINE t == task[w]
           u == t.officer
           usr == IF t.self # None THEN t.self ELSE user[u]
           new == [dept |-> DeptOf(usr, t.old), officer |-> u]
           next == [t EXCEPT !.todo = "commit", !.new = new]
<1>1. /\ t # None /\ t.todo = "load" /\ usr.active
      /\ task' = [task EXCEPT ![w] = next]
      /\ UNCHANGED <<pool, user, asset, caller, history, served, changes, died>>
  BY DEF LoadUser, ghosts, IInv, TypeOK
<1>2. t \in Task /\ u \in User BY <1>1 DEF IInv, TypeOK, Requests, Sound, Task
<1>3. usr \in UserRow BY <1>2 DEF Task, IInv, TypeOK
<1>4. new \in AssetRow BY <1>2, <1>3 DEF AssetRow, DeptOf, UserRow
<1> HIDE DEF usr, new
<1>5. next \in Task BY <1>2, <1>4 DEF Task
<1>6. /\ next.id = t.id /\ next.todo = "commit" /\ next.asset = t.asset /\ next.old = t.old
      /\ next.new = new /\ next.self = t.self
  BY <1>2 DEF Task
<1> HIDE DEF next
<1>7. \A v \in Worker : task'[v] = IF v = w THEN next ELSE task[v] BY <1>1 DEF IInv, TypeOK
<1>8. TypeOK' BY <1>1, <1>5 DEF IInv, TypeOK
<1>9. Recording' = Recording BY <1>1, <1>6, <1>7 DEF Recording
<1>10. OneEventPerChange' BY <1>1, <1>9 DEF IInv, OneEventPerChange, Recorded
<1>11. Requests'
  <2>1. Changed' = Changed BY <1>1 DEF Changed
  <2>2. \A v \in Worker : task'[v] # None => Sound(v, task[v])'
    BY <1>1, <1>6, <1>7, <2>1 DEF IInv, Requests, Sound
  <2>3. \A v, x \in Worker : task'[v] # None /\ task'[x] # None /\ task'[v].id = task'[x].id
                               => v = x
    BY <1>1, <1>6, <1>7 DEF IInv, Requests
  <2> QED BY <1>1, <2>1, <2>2, <2>3 DEF IInv, Requests
<1>12. Serial'
  <2>1. next.self = None => user[u].active /\ user[u].dept = new.dept /\ new.officer = u
    BY <1>1, <1>6 DEF usr, new, DeptOf
  <2> QED BY <1>1, <1>6, <1>7, <2>1 DEF IInv, Serial, Current, OneProcess, new
<1> QED BY <1>8, <1>10, <1>11, <1>12 DEF IInv

LEMMA CommitAssetStep ==
    ASSUME IInv, NEW w \in Worker, CommitAsset(w)
    PROVE  /\ IInv'
           /\ OneProcess => asset' = [asset EXCEPT ![task[w].asset] = task[w].new]
<1> DEFINE t == task[w]
           next == [t EXCEPT !.todo = "record"]
<1>1. /\ t # None /\ t.todo = "commit"
      /\ asset' = [asset EXCEPT ![t.asset] = Written(asset[t.asset], t.old, t.new)]
      /\ task' = [task EXCEPT ![w] = next]
      /\ changes' = Append(changes, t.id)
      /\ UNCHANGED <<pool, user, caller, history, served, died>>
  BY DEF CommitAsset, AfterCommit, IInv, TypeOK
<1>2. t \in Task BY <1>1 DEF IInv, TypeOK
<1>3. next \in Task /\ next # None BY <1>2, NoneIsNoRequest DEF Task
<1>4. next.id = t.id /\ next.todo = "record" BY <1>2 DEF Task
<1> HIDE DEF next
<1>5. \A v \in Worker : task'[v] = IF v = w THEN next ELSE task[v] BY <1>1 DEF IInv, TypeOK
<1>6. t.id \in Request /\ t.asset \in Asset /\ t.old \in AssetRow /\ t.new \in AssetRow
  BY <1>2 DEF Task
<1>7. Changed' = Changed \cup {t.id} /\ changes' \in Seq(Request)
  BY <1>1, <1>6, Appended DEF IInv, TypeOK, Changed
<1>8. TypeOK'
  <2>1. Written(asset[t.asset], t.old, t.new) \in AssetRow
    BY <1>6, WrittenAsset DEF IInv, TypeOK
  <2> QED BY <1>1, <1>3, <1>7, <2>1 DEF IInv, TypeOK
<1>9. Sound(w, t) /\ t.id \notin Changed BY <1>1 DEF IInv, Requests, Sound
<1>10. OneEventPerChange'
  <2>1. Recording' = Recording \cup {t.id} BY <1>1, <1>3, <1>4, <1>5 DEF Recording
  <2>2. Recorded' = Recorded /\ died' = died /\ history' = history BY <1>1 DEF Recorded
  <2>3. Recorded = Changed \ (Recording \cup died) BY DEF IInv, OneEventPerChange, Changed
  <2>4. Recorded' = Changed' \ (Recording' \cup died') BY <1>7, <1>9, <2>1, <2>2, <2>3
  <2> QED BY <2>2, <2>4 DEF IInv, OneEventPerChange, Changed
<1>11. Requests'
  <2>1. \A v \in Worker : v # w /\ task[v] # None => task[v].id # t.id
    BY <1>1 DEF IInv, Requests
  <2>2. \A v \in Worker : task'[v] # None => Sound(v, task[v])'
    <3> SUFFICES ASSUME NEW v \in Worker, task'[v] # None PROVE Sound(v, task[v])'
      OBVIOUS
    <3>1. CASE v = w BY <3>1, <1>1, <1>4, <1>5, <1>7, <1>9 DEF Sound
    <3>2. CASE v # w BY <3>2, <1>1, <1>5, <1>7, <2>1 DEF IInv, Requests, Sound
    <3> QED BY <3>1, <3>2
  <2>3. \A v, x \in Worker : task'[v] # None /\ task'[x] # None /\ task'[v].id = task'[x].id
                               => v = x
    BY <1>1, <1>4, <1>5 DEF IInv, Requests
  <2>4. \A n \in Changed' \cup died' : n <= served'
    BY <1>1, <1>7, <1>9 DEF IInv, Requests, Sound
  <2> QED BY <2>2, <2>3, <2>4 DEF Requests
<1>12. ASSUME OneProcess
       PROVE  /\ \A v \in Worker : task'[v] # None => v = w
              /\ asset' = [asset EXCEPT ![t.asset] = t.new]
  <2>1. \A v \in Worker : task[v] # None => v = w
    BY <1>1, <1>12, Alone DEF IInv, Requests, Sound
  <2>2. asset[t.asset] = t.old BY <1>1, <1>12 DEF IInv, Serial, Current
  <2> QED BY <1>1, <1>5, <1>6, <2>1, <2>2, WrittenAsset
<1>13. Serial'
  <2> SUFFICES ASSUME OneProcess', NEW v \in Worker, task'[v] # None PROVE Current(task[v])'
    BY DEF Serial
  <2>1. v = w BY <1>1, <1>12 DEF OneProcess
  <2> QED BY <1>4, <1>5, <2>1 DEF Current
<1> QED BY <1>8, <1>10, <1>11, <1>12, <1>13 DEF IInv

LEMMA CommitEventStep ==
    ASSUME IInv, NEW w \in Worker, CommitEvent(w)
    PROVE  IInv'
<1> DEFINE t == task[w]
           e == EventOf(t)
<1>1. /\ t # None /\ t.todo = "record"
      /\ history' = Append(history, e) /\ task' = [task EXCEPT ![w] = None]
      /\ UNCHANGED <<pool, user, asset, caller, served, changes, died>>
  BY DEF CommitEvent, ghosts
<1>2. t \in Task BY <1>1 DEF IInv, TypeOK
<1>3. e \in Event /\ e.id = t.id BY <1>2 DEF EventOf, Event, Task
<1> HIDE DEF e
<1>4. \A v \in Worker : task'[v] = IF v = w THEN None ELSE task[v] BY <1>1 DEF IInv, TypeOK
<1>5. /\ history' \in Seq(Event) /\ Len(history) \in Nat
      /\ DOMAIN history = 1 .. Len(history) /\ DOMAIN history' = 1 .. Len(history) + 1
      /\ \A i \in DOMAIN history : history'[i] = history[i]
      /\ history'[Len(history) + 1] = e
  BY <1>1, <1>3, Appended DEF IInv, TypeOK
<1>6. \A i \in DOMAIN history' : i \in DOMAIN history \/ i = Len(history) + 1 BY <1>5
<1>7. TypeOK' BY <1>1, <1>5 DEF IInv, TypeOK
<1>8. Sound(w, t) /\ t.id \in Changed BY <1>1 DEF IInv, Requests, Sound
<1>9. OneEventPerChange'
  <2>1. Recorded' = Recorded \cup {t.id} BY <1>3, <1>5, <1>6 DEF Recorded
  <2>2. Recording' = Recording \ {t.id}
    <3>1. \A v \in Worker : v # w /\ task[v] # None => task[v].id # t.id
      BY <1>1 DEF IInv, Requests
    <3> QED BY <1>4, <3>1 DEF Recording
  <2>3. t.id \in Recording BY <1>1 DEF Recording
  <2>4. Recorded = Changed \ (Recording \cup died) BY DEF IInv, OneEventPerChange, Changed
  <2>5. Changed' = Changed /\ died' = died BY <1>1 DEF Changed
  <2>6. Recorded' = Changed' \ (Recording' \cup died')
    BY <1>8, <2>1, <2>2, <2>4, <2>5 DEF Sound
  <2>7. \A i \in DOMAIN history : history[i].id # t.id BY <2>3, <2>4 DEF Recorded
  <2>8. \A i, j \in DOMAIN history' : history'[i].id = history'[j].id => i = j
    BY <1>3, <1>5, <1>6, <2>7 DEF IInv, OneEventPerChange
  <2> QED BY <2>6, <2>8 DEF OneEventPerChange, Changed
<1>10. Requests' BY <1>1, <1>4 DEF IInv, Requests, Sound, Changed
<1>11. Serial' BY <1>1, <1>4 DEF IInv, Serial, Current, OneProcess
<1> QED BY <1>7, <1>9, <1>10, <1>11 DEF IInv

LEMMA AbandonStep ==
    ASSUME IInv, NEW w \in Worker, Abandon(w)
    PROVE  IInv'
<1> DEFINE t == task[w]
<1>1. /\ t # None /\ task' = [task EXCEPT ![w] = None]
      /\ died' = IF t.todo = "record" THEN died \cup {t.id} ELSE died
      /\ UNCHANGED <<pool, user, asset, caller, history, served, changes>>
  BY DEF Abandon
<1>2. t \in Task /\ t.id \in Request BY <1>1 DEF IInv, TypeOK, Task
<1>3. \A v \in Worker : task'[v] = IF v = w THEN None ELSE task[v] BY <1>1 DEF IInv, TypeOK
<1>4. TypeOK' BY <1>1, <1>2 DEF IInv, TypeOK
<1>5. Sound(w, t) BY <1>1 DEF IInv, Requests
<1>6. \A v \in Worker : v # w /\ task[v] # None => task[v].id # t.id
  BY <1>1 DEF IInv, Requests
<1>7. OneEventPerChange'
  <2>1. Recording' \cup died' = Recording \cup died
    <3>1. CASE t.todo = "record"
      <4>1. Recording = Recording' \cup {t.id} BY <1>1, <1>3, <3>1 DEF Recording
      <4> QED BY <1>1, <3>1, <4>1
    <3>2. CASE t.todo # "record"
      <4>1. Recording' = Recording BY <1>3, <3>2 DEF Recording
      <4> QED BY <1>1, <3>2, <4>1
    <3> QED BY <3>1, <3>2
  <2> QED BY <1>1, <2>1 DEF IInv, OneEventPerChange, Recorded
<1>8. Requests'
  <2>1. \A v \in Worker : task'[v] # None => Sound(v, task[v])'
    BY <1>1, <1>3, <1>6 DEF IInv, Requests, Sound, Changed
  <2>2. \A n \in Changed' \cup died' : n <= served'
    BY <1>1, <1>5 DEF IInv, Requests, Sound, Changed
  <2> QED BY <1>3, <2>1, <2>2 DEF IInv, Requests
<1>9. Serial' BY <1>1, <1>3 DEF IInv, Serial, Current, OneProcess
<1> QED BY <1>4, <1>7, <1>8, <1>9 DEF IInv

(* Users change between the requests of one process, and under those of    *)
(* several.                                                                *)
LEMMA PatchUserStep ==
    ASSUME IInv, NEW w \in Worker, NEW u \in User,
           \/ PatchUserStatus(w, u) \/ \E row \in UserRow : PatchUserDetails(w, u, row)
    PROVE  IInv'
<1>1. w \in pool /\ task[w] = None
      /\ UNCHANGED <<pool, asset, caller, task, history, served, changes, died>>
  BY DEF PatchUserStatus, PatchUserDetails, Idle, ghosts
<1>2. user' \in [User -> UserRow]
  <2>1. user \in [User -> UserRow] BY DEF IInv, TypeOK
  <2>2. CASE PatchUserStatus(w, u) BY <2>1, <2>2 DEF PatchUserStatus, UserRow
  <2>3. CASE \E row \in UserRow : PatchUserDetails(w, u, row) BY <2>1, <2>3 DEF PatchUserDetails
  <2> QED BY <2>2, <2>3
<1>3. TypeOK' BY <1>1, <1>2 DEF IInv, TypeOK
<1>4. OneEventPerChange' BY <1>1 DEF IInv, OneEventPerChange, Recorded, Recording
<1>5. Requests' BY <1>1 DEF IInv, Requests, Sound, Changed
<1>6. OneProcess => \A v \in Worker : task[v] = None
  BY <1>1, Alone DEF IInv, Requests, Sound
<1>7. Serial' BY <1>1, <1>6 DEF Serial, OneProcess
<1> QED BY <1>3, <1>4, <1>5, <1>7 DEF IInv

LEMMA NextInv == IInv /\ [Next]_vars => IInv'
<1> SUFFICES ASSUME IInv, [Next]_vars PROVE IInv' OBVIOUS
<1>1. CASE UNCHANGED vars
  BY <1>1 DEF IInv, TypeOK, OneEventPerChange, Recorded, Recording, Requests, Sound, Changed,
              Serial, Current, OneProcess, vars, ghosts
<1>2. CASE Next
  BY <1>2, AssignDeptStep, ReassignDeptStep, ToUserStep, UnassignStep, GetCurrentUserStep,
     LoadUserStep, CommitAssetStep, CommitEventStep, AbandonStep, PatchUserStep DEF Next
<1> QED BY <1>1, <1>2

LEMMA Invariance == Spec => []IInv
BY InitInv, NextInv, PTL DEF Spec

(* Type correctness.                                                       *)
THEOREM AssignmentTypeOK == Spec => []TypeOK
<1>1. IInv => TypeOK BY DEF IInv
<1> QED BY <1>1, Invariance, PTL

(* However many processes change assignments, and wherever one of them     *)
(* dies, each committed change has exactly one event in the history, one   *)
(* that is about to be written, or a death to account for it.              *)
THEOREM AssignmentRecorded == Spec => []OneEventPerChange
<1>1. IInv => OneEventPerChange BY DEF IInv
<1> QED BY <1>1, Invariance, PTL

-----------------------------------------------------------------------------
(* With one process and no death in between, the last event of an asset    *)
(* tells who holds it, or the request that is to write the next one does.  *)
Told ==
    OneProcess /\ died = {} =>
      /\ \A w \in Worker : task[w] # None /\ task[w].todo = "record" =>
            asset[task[w].asset] = task[w].new
      /\ \A i \in DOMAIN history : Latest(i) =>
            \/ history[i].assignment = asset[history[i].asset]
            \/ \E w \in Worker : /\ task[w] # None /\ task[w].todo = "record"
                                /\ task[w].asset = history[i].asset

(* Asset and history stay, and so do the requests that are to write one.   *)
LEMMA ToldStays ==
    ASSUME Told, UNCHANGED <<pool, asset, history>>, died' = {} => died = {},
           NEW w \in Worker, \A v \in Worker \ {w} : task'[v] = task[v],
           task[w] # None => task[w].todo # "record" \/ died' # {},
           task'[w] # None => task'[w].todo # "record"
    PROVE  Told'
<1> SUFFICES ASSUME OneProcess', died' = {} PROVE Told' BY DEF Told
<1>1. OneProcess /\ died = {} BY DEF OneProcess
<1>2. \A i : Latest(i)' <=> Latest(i) BY DEF Latest
<1>3. \A v \in Worker : task'[v] # None /\ task'[v].todo = "record" => task'[v] = task[v]
  OBVIOUS
<1>4. \A v \in Worker : task[v] # None /\ task[v].todo = "record" => task'[v] = task[v]
  OBVIOUS
<1> QED BY <1>1, <1>2, <1>3, <1>4 DEF Told

LEMMA CommitAssetTold ==
    ASSUME IInv, Told, NEW w \in Worker, CommitAsset(w)
    PROVE  Told'
<1> DEFINE t == task[w]
<1> SUFFICES ASSUME OneProcess', died' = {} PROVE Told' BY DEF Told
<1>1. OneProcess /\ died = {} /\ UNCHANGED history /\ t # None /\ t.todo = "commit"
  BY DEF OneProcess, CommitAsset
<1>2. asset' = [asset EXCEPT ![t.asset] = t.new] BY <1>1, CommitAssetStep
<1>3. t \in Task /\ t.asset \in Asset BY <1>1 DEF IInv, TypeOK, Task
<1>4. /\ task'[w] # None /\ task'[w].todo = "record"
      /\ task'[w].asset = t.asset /\ task'[w].new = t.new
  <2> DEFINE next == [t EXCEPT !.todo = "record"]
  <2>1. next \in Task /\ next.todo = "record" /\ next.asset = t.asset /\ next.new = t.new
    BY <1>3 DEF Task
  <2>2. task'[w] = next BY DEF CommitAsset, AfterCommit, IInv, TypeOK
  <2> QED BY <2>1, <2>2, NoneIsNoRequest
<1>5. \A v \in Worker : v # w => task[v] = None /\ task'[v] = None
  <2>1. \A v \in Worker : v # w => task'[v] = task[v] BY DEF CommitAsset, IInv, TypeOK
  <2>2. \A v \in Worker : task[v] # None => v = w
    BY <1>1, Alone DEF IInv, Requests, Sound
  <2> QED BY <2>1, <2>2
<1>6. asset'[t.asset] = t.new /\ \A a \in Asset \ {t.asset} : asset'[a] = asset[a]
  BY <1>2, <1>3 DEF IInv, TypeOK
<1>7. \A i \in DOMAIN history : history[i].asset \in Asset
  <2>1. \A i \in DOMAIN history : history[i] \in Event BY LenProperties DEF IInv, TypeOK
  <2> QED BY <2>1 DEF Event
<1>8. ASSUME NEW i \in DOMAIN history', Latest(i)'
      PROVE  \/ history'[i].assignment = asset'[history'[i].asset]
             \/ \E v \in Worker : /\ task'[v] # None /\ task'[v].todo = "record"
                                 /\ task'[v].asset = history'[i].asset
  <2>1. i \in DOMAIN history /\ history'[i] = history[i] /\ Latest(i)
    BY <1>1, <1>8 DEF Latest
  <2>2. CASE history[i].asset = t.asset BY <1>4, <2>1, <2>2
  <2>3. CASE history[i].asset # t.asset
    <3>1. history[i].assignment = asset[history[i].asset]
      BY <1>1, <1>5, <2>1 DEF Told
    <3> QED BY <1>6, <1>7, <2>1, <2>3, <3>1
  <2> QED BY <2>2, <2>3
<1>9. \A v \in Worker : task'[v] # None /\ task'[v].todo = "record" =>
        asset'[task'[v].asset] = task'[v].new
  BY <1>4, <1>5, <1>6
<1> QED BY <1>8, <1>9 DEF Told

LEMMA CommitEventTold ==
    ASSUME IInv, Told, NEW w \in Worker, CommitEvent(w)
    PROVE  Told'
<1> DEFINE t == task[w]
           e == EventOf(t)
<1> SUFFICES ASSUME OneProcess', died' = {} PROVE Told' BY DEF Told
<1>1. /\ OneProcess /\ died = {} /\ UNCHANGED asset /\ t # None /\ t.todo = "record"
      /\ history' = Append(history, e)
  BY DEF OneProcess, CommitEvent, ghosts
<1>2. t \in Task BY <1>1 DEF IInv, TypeOK
<1>3. e \in Event /\ e.asset = t.asset /\ e.assignment = t.new BY <1>2 DEF EventOf, Event, Task
<1> HIDE DEF e
<1>4. /\ Len(history) \in Nat /\ DOMAIN history = 1 .. Len(history)
      /\ DOMAIN history' = 1 .. Len(history) + 1
      /\ \A i \in DOMAIN history : history'[i] = history[i]
      /\ history'[Len(history) + 1] = e
  BY <1>1, <1>3, Appended DEF IInv, TypeOK
<1>5. \A v \in Worker : task[v] # None => v = w
  BY <1>1, Alone DEF IInv, Requests, Sound
<1>6. \A v \in Worker : task'[v] = None BY <1>5 DEF CommitEvent, IInv, TypeOK
<1>7. asset[t.asset] = t.new BY <1>1 DEF Told
<1>8. ASSUME NEW i \in DOMAIN history', Latest(i)'
      PROVE  history'[i].assignment = asset'[history'[i].asset]
  <2>1. CASE i = Len(history) + 1 BY <1>1, <1>3, <1>4, <1>7, <2>1
  <2>2. CASE i \in DOMAIN history
    <3>1. history'[i] = history[i] BY <1>4, <2>2
    <3>2. Latest(i) BY <1>4, <1>8, <2>2, <3>1 DEF Latest
    <3>3. history[i].asset # t.asset
      <4>1. Len(history) + 1 \in DOMAIN history' /\ ~ (Len(history) + 1 <= i) BY <1>4, <2>2
      <4> QED BY <1>3, <1>4, <1>8, <3>1, <4>1 DEF Latest
    <3>4. history[i].assignment = asset[history[i].asset]
      BY <1>1, <1>5, <2>2, <3>2, <3>3 DEF Told
    <3> QED BY <1>1, <3>1, <3>4
  <2> QED BY <1>4, <2>1, <2>2
<1> QED BY <1>6, <1>8 DEF Told

LEMMA InitTold == Init => Told
<1> SUFFICES ASSUME Init PROVE Told OBVIOUS
<1>1. DOMAIN history = {} /\ \A w \in Worker : task[w] = None BY DEF Init
<1> QED BY <1>1 DEF Told

(* A request begins, goes on before its commit, or ends.                   *)
LEMMA BeginTold ==
    ASSUME IInv, Told, NEW w \in Worker, NEW op, NEW a, NEW officer, NEW dept, NEW self,
           NEW new, NEW todo \in {"load", "commit"},
           Begin(w, op, a, officer, dept, self, new, todo)
    PROVE  Told'
<1>1. /\ task[w] = None /\ task'[w].todo = todo /\ \A v \in Worker \ {w} : task'[v] = task[v]
      /\ UNCHANGED <<pool, asset, history, died>>
  BY DEF Begin, Idle, ghosts, IInv, TypeOK
<1> QED BY <1>1, ToldStays

LEMMA LoadUserTold ==
    ASSUME IInv, Told, NEW w \in Worker, LoadUser(w)
    PROVE  Told'
<1>1. /\ task[w] # None /\ task[w].todo = "load"
      /\ \A v \in Worker \ {w} : task'[v] = task[v]
      /\ UNCHANGED <<pool, asset, history, died>>
  BY DEF LoadUser, ghosts, IInv, TypeOK
<1>2. task[w] \in Task BY <1>1 DEF IInv, TypeOK
<1>3. task'[w].todo = "commit" BY <1>2 DEF LoadUser, IInv, TypeOK, Task
<1> QED BY <1>1, <1>3, ToldStays

LEMMA AbandonTold ==
    ASSUME IInv, Told, NEW w \in Worker, Abandon(w)
    PROVE  Told'
<1>1. /\ task'[w] = None /\ \A v \in Worker \ {w} : task'[v] = task[v]
      /\ died' = IF task[w].todo = "record" THEN died \cup {task[w].id} ELSE died
      /\ UNCHANGED <<pool, asset, history>>
  BY DEF Abandon, IInv, TypeOK
<1> QED BY <1>1, ToldStays

LEMMA UserTold ==
    ASSUME Told, UNCHANGED <<pool, asset, task, history, died>>
    PROVE  Told'
BY DEF Told, OneProcess, Latest

LEMMA NextTold == IInv /\ Told /\ [Next]_vars => Told'
<1> SUFFICES ASSUME IInv, Told, [Next]_vars PROVE Told' OBVIOUS
<1>1. CASE UNCHANGED vars BY <1>1, UserTold DEF vars, ghosts
<1>2. ASSUME NEW u \in User, GetCurrentUser(u) PROVE Told'
  BY <1>2, UserTold DEF GetCurrentUser, ghosts
<1>3. ASSUME NEW w \in Worker, NEW a \in Asset, NEW d \in Dept,
             AssignDept(w, a, d) \/ ReassignDept(w, a, d)
      PROVE  Told'
  BY <1>3, BeginTold DEF AssignDept, ReassignDept
<1>4. ASSUME NEW w \in Worker, NEW a \in Asset, NEW u \in User, NEW d \in Dept \cup {None},
             NEW self \in {None, caller[u]},
             AssignUser(w, a, u, d, self) \/ ReassignUser(w, a, u, d, self)
      PROVE  Told'
  BY <1>4, BeginTold DEF AssignUser, ReassignUser
<1>5. ASSUME NEW w \in Worker, NEW a \in Asset, Unassign(w, a) PROVE Told'
  BY <1>5, BeginTold DEF Unassign
<1>6. ASSUME NEW w \in Worker, NEW u \in User,
             PatchUserStatus(w, u) \/ \E row \in UserRow : PatchUserDetails(w, u, row)
      PROVE  Told'
  BY <1>6, UserTold DEF PatchUserStatus, PatchUserDetails, ghosts
<1> QED
  BY <1>1, <1>2, <1>3, <1>4, <1>5, <1>6, LoadUserTold, CommitAssetTold, CommitEventTold,
     AbandonTold DEF Next

(* In one process, while no request has died between its two commits, the  *)
(* last event of an asset tells who holds it.                              *)
THEOREM AssignmentHistory == Spec => []SerialHistory
<1>1. Init => Told BY InitTold
<1>2. Told => SerialHistory BY DEF Told, SerialHistory, Recording
<1> QED BY <1>1, <1>2, Invariance, NextTold, PTL DEF Spec

LEMMA OfficerFitsStep ==
    IInv /\ [Next]_vars =>
      [\A w \in pool : OneProcess /\ task[w] # None /\ task[w].self = None =>
         \A a \in Asset :
           asset'[a] # asset[a] /\ asset'[a].officer # None =>
             /\ user[asset'[a].officer].active
             /\ user[asset'[a].officer].dept = asset'[a].dept]_vars
<1> SUFFICES ASSUME IInv, [Next]_vars, NEW w \in pool, OneProcess, task[w] # None,
                    task[w].self = None, NEW a \in Asset, asset'[a] # asset[a],
                    asset'[a].officer # None
             PROVE  /\ user[asset'[a].officer].active
                    /\ user[asset'[a].officer].dept = asset'[a].dept
  OBVIOUS
<1>1. PICK v \in Worker : CommitAsset(v)
  <2>1. asset' # asset /\ Next BY DEF vars
  <2>2. \A b \in Asset, v \in Worker, d \in Dept : ~AssignDept(v, b, d) /\ ~ReassignDept(v, b, d)
    BY <2>1 DEF AssignDept, ReassignDept, Begin
  <2>3. \A b \in Asset, v \in Worker, u \in User, d \in Dept \cup {None} :
          \A self \in {None, caller[u]} :
             ~AssignUser(v, b, u, d, self) /\ ~ReassignUser(v, b, u, d, self)
    BY <2>1 DEF AssignUser, ReassignUser, Begin
  <2>4. \A b \in Asset, v \in Worker : ~Unassign(v, b) BY <2>1 DEF Unassign, Begin
  <2>5. \A v \in Worker : ~LoadUser(v) /\ ~CommitEvent(v) /\ ~Abandon(v)
    BY <2>1 DEF LoadUser, CommitEvent, Abandon
  <2>6. \A u \in User : ~GetCurrentUser(u) BY <2>1 DEF GetCurrentUser
  <2>7. \A v \in Worker, u \in User : /\ ~PatchUserStatus(v, u)
                                     /\ \A row \in UserRow : ~PatchUserDetails(v, u, row)
    BY <2>1 DEF PatchUserStatus, PatchUserDetails
  <2> QED BY <2>1, <2>2, <2>3, <2>4, <2>5, <2>6, <2>7 DEF Next
<1>2. task[v] # None /\ task[v].todo = "commit" BY <1>1 DEF CommitAsset
<1>3. v = w BY <1>2, Alone DEF IInv, Requests, Sound
<1>4. asset' = [asset EXCEPT ![task[w].asset] = task[w].new] BY <1>1, <1>3, CommitAssetStep
<1>5. asset'[a] = task[w].new BY <1>4 DEF IInv, TypeOK
<1>6. w \in Worker BY DEF IInv, TypeOK
<1> QED BY <1>2, <1>3, <1>5, <1>6 DEF IInv, Serial, Current

(* In one process an asset is handed to a user by somebody else only while *)
(* he is active, and goes to his department.                               *)
THEOREM AssignmentOfficerFits == Spec => SerialOfficerFits
BY Invariance, OfficerFitsStep, PTL DEF Spec, SerialOfficerFits

=============================================================================
