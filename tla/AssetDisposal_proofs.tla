------------------------ MODULE AssetDisposal_proofs ------------------------
(***************************************************************************)
(* Proofs about AssetDisposal for any number of assets, disposals, users   *)
(* and server processes.                                                   *)
(***************************************************************************)
EXTENDS AssetDisposal, FiniteSetTheorems, TLAPS

(* A commit leaves a disposal row whose columns each come from the row or  *)
(* from the session.                                                       *)
LEMMA WrittenDisposal ==
    ASSUME NEW row \in DisposalRow, NEW old \in DisposalRow, NEW new \in DisposalRow
    PROVE  /\ Written(row, old, new) \in DisposalRow
           /\ \A c \in {"asset", "status", "date", "approver", "proceeds"} :
                Written(row, old, new)[c] = IF new[c] # old[c] THEN new[c] ELSE row[c]
<1>1. DOMAIN row = {"asset", "status", "date", "approver", "proceeds"}
  BY DEF DisposalRow
<1>2. \A c \in {"asset", "status", "date", "approver", "proceeds"} :
                Written(row, old, new)[c] = IF new[c] # old[c] THEN new[c] ELSE row[c]
  BY <1>1 DEF Written
<1>3. Written(row, old, new) =
        [asset    |-> IF new.asset # old.asset THEN new.asset ELSE row.asset,
         status   |-> IF new.status # old.status THEN new.status ELSE row.status,
         date     |-> IF new.date # old.date THEN new.date ELSE row.date,
         approver |-> IF new.approver # old.approver THEN new.approver ELSE row.approver,
         proceeds |-> IF new.proceeds # old.proceeds THEN new.proceeds ELSE row.proceeds]
  BY <1>1 DEF Written
<1> QED
  BY <1>2, <1>3 DEF DisposalRow

LEMMA WrittenAsset ==
    ASSUME NEW row \in AssetRow, NEW old \in AssetRow, NEW new \in AssetRow
    PROVE  /\ Written(row, old, new) \in AssetRow
           /\ Written(row, old, new).status =
                IF new.status # old.status THEN new.status ELSE row.status
<1>1. DOMAIN row = {"status", "date", "value"}
  BY DEF AssetRow
<1>2. Written(row, old, new) =
        [status |-> IF new.status # old.status THEN new.status ELSE row.status,
         date   |-> IF new.date # old.date THEN new.date ELSE row.date,
         value  |-> IF new.value # old.value THEN new.value ELSE row.value]
  BY <1>1 DEF Written
<1> QED
  BY <1>2 DEF AssetRow

-----------------------------------------------------------------------------
(* The inductive invariant.  A row past "initiated" has a date, a row past *)
(* "scheduled" an approver.                                                *)
RowAuthorised(row) ==
    /\ row.status # "initiated" => row.date # None
    /\ row.status \in {"approved", "executed", "undone"} => row.approver # None

RowsAuthorised == \A d \in Disposal : disposal[d] # None => RowAuthorised(disposal[d])

(* A session may be stale, but not about what only ever gets set: in the   *)
(* table `file' the row exists, belongs to the asset, and has a date and   *)
(* an approver if the session saw them.                                    *)
EditSound(file, a, e) ==
    /\ file[e.id] # None /\ file[e.id].asset = a
    /\ e.old.asset = a /\ e.new.asset = a
    /\ RowAuthorised(e.new)
    /\ e.new.status \in {"executed", "undone"} => e.old.approver # None
    /\ \A c \in {"date", "approver"} :
           e.old[c] # None => e.new[c] # None /\ file[e.id][c] # None

Approved(file, a) == \E d \in Disposal : /\ file[d] # None
                                         /\ file[d].asset = a
                                         /\ file[d].approver # None

TaskSound(file, t) ==
    /\ t.dis # None => EditSound(file, t.asset, t.dis)
    /\ t.todo = "load" => t.dis # None /\ t.dis.new.status \in {"executed", "undone"}
    /\ t.reg # None /\ t.reg.new.status = "Disposed" => Approved(file, t.asset)

TasksSound == \A w \in Worker : task[w] # None => TaskSound(disposal, task[w])

IInv == TypeOK /\ RowsAuthorised /\ TasksSound /\ DisposedWasApproved

-----------------------------------------------------------------------------
(* What no step takes away from a disposal: its row, its asset, its date   *)
(* and its approver.                                                       *)
Kept ==
    \A d \in Disposal : disposal[d] # None =>
        /\ disposal'[d] # None /\ disposal'[d].asset = disposal[d].asset
        /\ \A c \in {"date", "approver"} : disposal[d][c] # None => disposal'[d][c] # None

LEMMA ApprovedStaysApproved ==
    ASSUME Kept, NEW a \in Asset, Approved(disposal, a)
    PROVE  Approved(disposal', a)
BY DEF Approved, Kept

(* What a request knows survives the steps of the others.                  *)
LEMMA SoundStaysSound ==
    ASSUME Kept, NEW t \in Task, TaskSound(disposal, t)
    PROVE  TaskSound(disposal', t)
<1>1. ASSUME t.dis # None PROVE EditSound(disposal', t.asset, t.dis)
  <2>1. t.dis \in DisposalEdit BY <1>1 DEF Task
  <2>2. t.dis.id \in Disposal BY <2>1 DEF DisposalEdit
  <2> QED BY <1>1, <2>2 DEF TaskSound, EditSound, Kept
<1>2. ASSUME Approved(disposal, t.asset) PROVE Approved(disposal', t.asset)
  BY <1>2, ApprovedStaysApproved DEF Task
<1> QED BY <1>1, <1>2 DEF TaskSound

(* So only the request that moves needs a look.                            *)
LEMMA OneTaskMoves ==
    ASSUME TypeOK, TasksSound, Kept, NEW w \in Worker, NEW t \in Task \cup {None},
           task' = [task EXCEPT ![w] = t],
           t # None => TaskSound(disposal', t)
    PROVE  TasksSound'
<1>1. ASSUME NEW v \in Worker, task'[v] # None PROVE TaskSound(disposal', task'[v])
  <2>1. CASE v = w
    BY <1>1, <2>1 DEF TypeOK
  <2>2. CASE v # w
    <3>1. task'[v] = task[v] BY <2>2 DEF TypeOK
    <3>2. task[v] \in Task /\ TaskSound(disposal, task[v])
      BY <1>1, <3>1 DEF TypeOK, TasksSound
    <3>3. TaskSound(disposal', task[v]) BY <3>2, SoundStaysSound
    <3> QED BY <3>1, <3>3
  <2> QED BY <2>1, <2>2
<1> QED BY <1>1 DEF TasksSound

(* A step that only moves one request.                                     *)
LEMMA RequestStep ==
    ASSUME IInv, NEW w \in Worker, NEW t \in Task \cup {None},
           task' = [task EXCEPT ![w] = t], UNCHANGED <<pool, asset, disposal>>,
           t # None => TaskSound(disposal, t)
    PROVE  IInv'
<1>1. Kept BY DEF Kept
<1>2. TypeOK' BY DEF IInv, TypeOK
<1>3. RowsAuthorised' BY DEF IInv, RowsAuthorised
<1>4. TasksSound' BY <1>1, OneTaskMoves DEF IInv
<1>5. DisposedWasApproved' BY DEF IInv, DisposedWasApproved
<1> QED BY <1>2, <1>3, <1>4, <1>5 DEF IInv

(* A handler that has loaded a disposal of its asset.                      *)
LEMMA EditStep ==
    ASSUME IInv, NEW w \in Worker, NEW a \in Asset, NEW d \in Disposal,
           disposal[d] # None, disposal[d].asset = a,
           NEW new \in DisposalRow, new.asset = a,
           RowAuthorised(new),
           new.status \in {"executed", "undone"} => disposal[d].approver # None,
           \A c \in {"date", "approver"} : disposal[d][c] # None => new[c] # None,
           NEW todo \in {"load", "commit"},
           todo = "load" => new.status \in {"executed", "undone"},
           Edit(w, a, d, new, todo), UNCHANGED <<pool, asset, disposal>>
    PROVE  IInv'
<1> DEFINE e == [id |-> d, old |-> disposal[d], new |-> new]
           t == [asset |-> a, dis |-> e, reg |-> None, todo |-> todo]
<1>1. disposal[d] \in DisposalRow BY DEF IInv, TypeOK
<1>2. e \in DisposalEdit BY <1>1 DEF DisposalEdit
<1>3. t \in Task BY <1>2 DEF Task
<1>4. EditSound(disposal, a, e) BY DEF EditSound
<1>5. e # None BY <1>2, DisposalAssumption
<1>6. TaskSound(disposal, t) BY <1>4, <1>5 DEF TaskSound
<1>7. task' = [task EXCEPT ![w] = t] BY DEF Edit
<1> HIDE DEF t
<1> QED BY <1>3, <1>6, <1>7, RequestStep

-----------------------------------------------------------------------------
LEMMA InitSound == Init => IInv
<1> SUFFICES ASSUME Init PROVE IInv
  OBVIOUS
<1>1. TypeOK BY DEF Init, TypeOK, AssetRow, Status
<1>2. RowsAuthorised BY DEF Init, RowsAuthorised
<1>3. TasksSound BY DEF Init, TasksSound
<1>4. DisposedWasApproved BY DEF Init, DisposedWasApproved
<1> QED BY <1>1, <1>2, <1>3, <1>4 DEF IInv

(* A new record takes nothing from the others.                             *)
LEMMA InitDisposalSound ==
    ASSUME IInv, NEW w \in Worker, NEW a \in Asset, InitDisposal(w, a)
    PROVE  IInv'
<1> DEFINE row == [asset |-> a, status |-> "initiated", date |-> None,
                   approver |-> None, proceeds |-> None]
<1>1. PICK d \in Disposal : disposal[d] = None /\ disposal' = [disposal EXCEPT ![d] = row]
  BY DEF InitDisposal
<1>2. row \in DisposalRow BY DEF DisposalRow, DisposalStatus
<1>3. RowAuthorised(row) BY DEF RowAuthorised
<1> HIDE DEF row
<1>4. disposal' \in [Disposal -> DisposalRow \cup {None}] /\ disposal'[d] = row
      /\ \A c \in Disposal \ {d} : disposal'[c] = disposal[c]
  BY <1>1, <1>2 DEF IInv, TypeOK
<1>5. UNCHANGED <<pool, asset, task>> BY DEF InitDisposal
<1>6. Kept BY <1>1, <1>4 DEF Kept
<1>7. TypeOK' BY <1>4, <1>5 DEF IInv, TypeOK
<1>8. RowsAuthorised' BY <1>3, <1>4 DEF IInv, RowsAuthorised
<1>9. TasksSound'
  <2> SUFFICES ASSUME NEW v \in Worker, task'[v] # None PROVE TaskSound(disposal', task'[v])
    BY DEF TasksSound
  <2>1. task'[v] = task[v] /\ task[v] \in Task /\ TaskSound(disposal, task[v])
    BY <1>5 DEF IInv, TypeOK, TasksSound
  <2>2. TaskSound(disposal', task[v]) BY <1>6, <2>1, SoundStaysSound
  <2> QED BY <2>1, <2>2
<1>10. DisposedWasApproved'
  BY <1>1, <1>4, <1>5 DEF IInv, DisposedWasApproved
<1> QED BY <1>7, <1>8, <1>9, <1>10 DEF IInv

LEMMA ScheduleDisposalSound ==
    ASSUME IInv, NEW w \in Worker, NEW a \in Asset, NEW date \in Date,
           ScheduleDisposal(w, a, date)
    PROVE  IInv'
<1> DEFINE New(d) == [disposal[d] EXCEPT !.date = date, !.status = "scheduled"]
<1>1. PICK d \in InStatus(a, Schedulable) : Edit(w, a, d, New(d), "commit")
  BY DEF ScheduleDisposal
<1>2. d \in Disposal /\ disposal[d] # None /\ disposal[d].asset = a
      /\ disposal[d] \in DisposalRow
  BY <1>1 DEF InStatus, IInv, TypeOK
<1>3. date # None BY DisposalAssumption
<1>4. New(d) \in DisposalRow BY <1>2 DEF DisposalRow, DisposalStatus
<1>5. New(d).asset = a /\ New(d).status = "scheduled" /\ New(d).date = date
      /\ New(d).approver = disposal[d].approver
  BY <1>2 DEF DisposalRow
<1>6. UNCHANGED <<pool, asset, disposal>> BY DEF ScheduleDisposal
<1> HIDE DEF New
<1>7. RowAuthorised(New(d)) BY <1>3, <1>5 DEF RowAuthorised
<1> QED BY <1>1, <1>2, <1>3, <1>4, <1>5, <1>6, <1>7, EditStep

LEMMA ApproveDisposalSound ==
    ASSUME IInv, NEW w \in Worker, NEW a \in Asset, NEW user \in User,
           ApproveDisposal(w, a, user)
    PROVE  IInv'
<1> DEFINE New(d) == [disposal[d] EXCEPT !.status = "approved", !.approver = user]
<1>1. PICK d \in InStatus(a, Approvable) : Edit(w, a, d, New(d), "commit")
  BY DEF ApproveDisposal
<1>2. d \in Disposal /\ disposal[d] # None /\ disposal[d].asset = a
      /\ disposal[d] \in DisposalRow /\ disposal[d].status = "scheduled"
  BY <1>1 DEF InStatus, Approvable, IInv, TypeOK
<1>3. user # None BY DisposalAssumption
<1>4. disposal[d].date # None BY <1>2 DEF IInv, RowsAuthorised, RowAuthorised
<1>5. New(d) \in DisposalRow BY <1>2 DEF DisposalRow, DisposalStatus
<1>6. New(d).asset = a /\ New(d).status = "approved" /\ New(d).approver = user
      /\ New(d).date = disposal[d].date
  BY <1>2 DEF DisposalRow
<1>7. UNCHANGED <<pool, asset, disposal>> BY DEF ApproveDisposal
<1> HIDE DEF New
<1>8. RowAuthorised(New(d)) BY <1>3, <1>4, <1>6 DEF RowAuthorised
<1> QED BY <1>1, <1>2, <1>3, <1>5, <1>6, <1>7, <1>8, EditStep

LEMMA ExecuteDisposalSound ==
    ASSUME IInv, NEW w \in Worker, NEW a \in Asset, NEW proceeds \in Amount \cup {None},
           ExecuteDisposal(w, a, proceeds)
    PROVE  IInv'
<1> DEFINE New(d) == [disposal[d] EXCEPT
                        !.status = "executed",
                        !.proceeds = IF proceeds = None THEN @ ELSE proceeds]
<1>1. PICK d \in InStatus(a, Executable) : Edit(w, a, d, New(d), "load")
  BY DEF ExecuteDisposal
<1>2. d \in Disposal /\ disposal[d] # None /\ disposal[d].asset = a
      /\ disposal[d] \in DisposalRow /\ disposal[d].status = "approved"
  BY <1>1 DEF InStatus, Executable, IInv, TypeOK
<1>3. RowAuthorised(disposal[d]) BY <1>2 DEF IInv, RowsAuthorised
<1>4. New(d) \in DisposalRow BY <1>2 DEF DisposalRow, DisposalStatus
<1>5. New(d).asset = a /\ New(d).status = "executed"
      /\ New(d).approver = disposal[d].approver /\ New(d).date = disposal[d].date
  BY <1>2 DEF DisposalRow
<1>6. UNCHANGED <<pool, asset, disposal>> BY DEF ExecuteDisposal
<1> HIDE DEF New
<1>7. RowAuthorised(New(d)) /\ disposal[d].approver # None
  BY <1>2, <1>3, <1>5 DEF RowAuthorised
<1> QED BY <1>1, <1>2, <1>4, <1>5, <1>6, <1>7, EditStep

LEMMA UndoDisposalSound ==
    ASSUME IInv, NEW w \in Worker, NEW a \in Asset, UndoDisposal(w, a)
    PROVE  IInv'
<1> DEFINE New(d) == [disposal[d] EXCEPT !.status = Undone]
<1>1. PICK d \in InStatus(a, Undoable) : Edit(w, a, d, New(d), "load")
  BY DEF UndoDisposal
<1>2. d \in Disposal /\ disposal[d] # None /\ disposal[d].asset = a
      /\ disposal[d] \in DisposalRow /\ disposal[d].status = "executed"
  BY <1>1 DEF InStatus, Undoable, IInv, TypeOK
<1>3. RowAuthorised(disposal[d]) BY <1>2 DEF IInv, RowsAuthorised
<1>4. New(d) \in DisposalRow BY <1>2 DEF DisposalRow, DisposalStatus, Undone
<1>5. New(d).asset = a /\ New(d).status = "undone"
      /\ New(d).approver = disposal[d].approver /\ New(d).date = disposal[d].date
  BY <1>2 DEF DisposalRow, Undone
<1>6. UNCHANGED <<pool, asset, disposal>> BY DEF UndoDisposal
<1> HIDE DEF New
<1>7. RowAuthorised(New(d)) /\ disposal[d].approver # None
  BY <1>2, <1>3, <1>5 DEF RowAuthorised
<1> QED BY <1>1, <1>2, <1>4, <1>5, <1>6, <1>7, EditStep

LEMMA CommitNext ==
    ASSUME NEW x \in Task, NEW r \in AssetEdit
    PROVE  [x EXCEPT !.reg = r, !.todo = "commit"]
             = [asset |-> x.asset, dis |-> x.dis, reg |-> r, todo |-> "commit"]
<1> DEFINE y == [x EXCEPT !.reg = r]
<1>1. x = [asset |-> x.asset, dis |-> x.dis, reg |-> x.reg, todo |-> x.todo]
  BY DEF Task
<1>2. y = [asset |-> x.asset, dis |-> x.dis, reg |-> r, todo |-> x.todo]
  BY <1>1
<1> HIDE DEF y
<1>3. [y EXCEPT !.todo = "commit"]
        = [asset |-> x.asset, dis |-> x.dis, reg |-> r, todo |-> "commit"]
  BY <1>2
<1> QED BY <1>3 DEF y

(* The asset becomes Disposed in the session only on behalf of a disposal  *)
(* somebody approved.                                                      *)
LEMMA LoadAssetSound ==
    ASSUME IInv, NEW w \in Worker, LoadAsset(w)
    PROVE  IInv'
<1> DEFINE row == asset[task[w].asset]
           new == IF task[w].dis.new.status = "executed"
                  THEN Disposed(task[w].dis.new) ELSE Restored(row)
           reg == [old |-> row, new |-> new]
           t == [task[w] EXCEPT !.reg = reg, !.todo = "commit"]
<1>1. task[w] # None /\ task[w] \in Task /\ task[w].todo = "load"
      /\ TaskSound(disposal, task[w])
  BY DEF LoadAsset, IInv, TypeOK, TasksSound
<1>2. task[w].dis # None /\ task[w].dis \in DisposalEdit
      /\ task[w].dis.new \in DisposalRow /\ EditSound(disposal, task[w].asset, task[w].dis)
      /\ task[w].dis.new.status \in {"executed", "undone"}
  BY <1>1 DEF TaskSound, Task, DisposalEdit
<1>3. row \in AssetRow BY <1>1 DEF IInv, TypeOK, Task
<1>4. new \in AssetRow
  BY <1>2, <1>3 DEF AssetRow, DisposalRow, Status, Disposed, Restored
<1>5. reg \in AssetEdit BY <1>3, <1>4 DEF AssetEdit
<1>6. Approved(disposal, task[w].asset)
  BY <1>2 DEF Approved, EditSound, DisposalEdit
<1>7. task' = [task EXCEPT ![w].reg = reg, ![w].todo = "commit"]
      /\ UNCHANGED <<pool, asset, disposal>>
  BY DEF LoadAsset
<1> HIDE DEF reg
<1>8. t = [asset |-> task[w].asset, dis |-> task[w].dis, reg |-> reg, todo |-> "commit"]
  BY <1>1, <1>5, CommitNext
<1>9. t \in Task BY <1>1, <1>5, <1>8 DEF Task
<1>10. TaskSound(disposal, t)
  BY <1>1, <1>2, <1>6, <1>8 DEF TaskSound
<1>11. task' = [task EXCEPT ![w] = t]
  BY <1>1, <1>7 DEF IInv, TypeOK
<1> HIDE DEF t
<1> QED BY <1>7, <1>9, <1>10, <1>11, RequestStep

(* Activation, deactivation and marking never dispose of the asset.        *)
LEMMA SetStatusSound ==
    ASSUME IInv, NEW w \in Worker, NEW a \in Asset, NEW refused,
           NEW status \in Status \ {"Disposed"}, SetStatus(w, a, refused, status)
    PROVE  IInv'
<1> DEFINE new == [asset[a] EXCEPT !.status = status]
           reg == [old |-> asset[a], new |-> new]
           t == [asset |-> a, dis |-> None, todo |-> "commit", reg |-> reg]
<1>1. asset[a] \in AssetRow BY DEF IInv, TypeOK
<1>2. new \in AssetRow /\ new.status = status BY <1>1 DEF AssetRow
<1>3. t \in Task BY <1>1, <1>2 DEF Task, AssetEdit
<1>4. TaskSound(disposal, t) BY <1>2 DEF TaskSound
<1>5. task' = [task EXCEPT ![w] = t] /\ UNCHANGED <<pool, asset, disposal>>
  BY DEF SetStatus
<1> HIDE DEF t
<1> QED BY <1>3, <1>4, <1>5, RequestStep

LEMMA AbandonSound ==
    ASSUME IInv, NEW w \in Worker, Abandon(w)
    PROVE  IInv'
BY RequestStep DEF Abandon

(* The row a commit leaves keeps what the row on file had, and is          *)
(* authorised: a stage the session adds comes with the date and the        *)
(* approver of that stage, or with those the session had read.             *)
LEMMA CommittedRow ==
    ASSUME NEW e \in DisposalEdit, NEW a \in Asset,
           disposal[e.id] \in DisposalRow, RowAuthorised(disposal[e.id]),
           EditSound(disposal, a, e), NEW row, row = Written(disposal[e.id], e.old, e.new)
    PROVE  /\ row \in DisposalRow /\ row.asset = a /\ RowAuthorised(row)
           /\ \A c \in {"date", "approver"} : disposal[e.id][c] # None => row[c] # None
<1> DEFINE was == disposal[e.id]
<1>1. e.old \in DisposalRow /\ e.new \in DisposalRow BY DEF DisposalEdit
<1>2. row \in DisposalRow
      /\ \A c \in {"asset", "status", "date", "approver", "proceeds"} :
           row[c] = IF e.new[c] # e.old[c] THEN e.new[c] ELSE was[c]
  BY <1>1, WrittenDisposal
<1> HIDE DEF was
<1>3. /\ row.asset = IF e.new.asset # e.old.asset THEN e.new.asset ELSE was.asset
      /\ row.status = IF e.new.status # e.old.status THEN e.new.status ELSE was.status
      /\ row.date = IF e.new.date # e.old.date THEN e.new.date ELSE was.date
      /\ row.approver = IF e.new.approver # e.old.approver THEN e.new.approver ELSE was.approver
  BY <1>2
<1>4. was.asset = a /\ RowAuthorised(was) BY DEF was, EditSound
<1>5. e.old.asset = a /\ e.new.asset = a /\ RowAuthorised(e.new)
      /\ (e.old.date # None => e.new.date # None /\ was.date # None)
      /\ (e.old.approver # None => e.new.approver # None /\ was.approver # None)
  BY DEF was, EditSound
<1>6. (was.date # None => row.date # None) /\ (was.approver # None => row.approver # None)
  BY <1>3, <1>5
<1>7. RowAuthorised(row) BY <1>3, <1>4, <1>5 DEF RowAuthorised
<1> QED BY <1>2, <1>3, <1>4, <1>5, <1>6, <1>7 DEF was

LEMMA CommitSound ==
    ASSUME IInv, NEW w \in Worker, Commit(w)
    PROVE  IInv'
<1> DEFINE t == task[w]
           e == t.dis
           row == Written(disposal[e.id], e.old, e.new)
           reg == Written(asset[t.asset], t.reg.old, t.reg.new)
<1>1. t # None /\ t \in Task /\ TaskSound(disposal, t)
  BY DEF Commit, IInv, TypeOK, TasksSound
<1>2. /\ disposal' = IF e = None THEN disposal ELSE [disposal EXCEPT ![e.id] = row]
      /\ asset' = IF t.reg = None THEN asset ELSE [asset EXCEPT ![t.asset] = reg]
      /\ task' = [task EXCEPT ![w] = None] /\ pool' = pool
  BY DEF Commit
<1>3. disposal' \in [Disposal -> DisposalRow \cup {None}] /\ Kept /\ RowsAuthorised'
  <2>1. CASE e = None
    BY <1>2, <2>1 DEF IInv, TypeOK, RowsAuthorised, Kept
  <2>2. CASE e # None
    <3>1. e \in DisposalEdit /\ t.asset \in Asset /\ EditSound(disposal, t.asset, e)
      BY <1>1, <2>2 DEF Task, TaskSound
    <3>2. e.id \in Disposal /\ disposal[e.id] # None /\ disposal[e.id].asset = t.asset
      BY <3>1 DEF DisposalEdit, EditSound
    <3>3. disposal[e.id] \in DisposalRow /\ RowAuthorised(disposal[e.id])
      BY <3>2 DEF IInv, TypeOK, RowsAuthorised
    <3>4. row \in DisposalRow /\ row.asset = t.asset /\ RowAuthorised(row)
          /\ \A c \in {"date", "approver"} : disposal[e.id][c] # None => row[c] # None
      BY <3>1, <3>3, CommittedRow
    <3>5. row # None BY <3>4, DisposalAssumption
    <3> HIDE DEF e, row
    <3>6. disposal' = [disposal EXCEPT ![e.id] = row] BY <1>2, <2>2
    <3>7. disposal' \in [Disposal -> DisposalRow \cup {None}] /\ disposal'[e.id] = row
          /\ \A d \in Disposal \ {e.id} : disposal'[d] = disposal[d]
      BY <3>2, <3>4, <3>6 DEF IInv, TypeOK
    <3>8. Kept BY <3>2, <3>4, <3>5, <3>7 DEF Kept
    <3>9. RowsAuthorised' BY <3>4, <3>7 DEF IInv, RowsAuthorised
    <3> QED BY <3>7, <3>8, <3>9
  <2> QED BY <2>1, <2>2
<1>4. asset' \in [Asset -> AssetRow]
      /\ \A a \in Asset : asset'[a].status = "Disposed" =>
           asset[a].status = "Disposed" \/ Approved(disposal, a)
  <2>1. CASE t.reg = None
    BY <1>2, <2>1 DEF IInv, TypeOK
  <2>2. CASE t.reg # None
    <3>1. t.reg \in AssetEdit /\ t.asset \in Asset
          /\ (t.reg.new.status = "Disposed" => Approved(disposal, t.asset))
      BY <1>1, <2>2 DEF Task, TaskSound
    <3>2. reg \in AssetRow /\ reg.status = IF t.reg.new.status # t.reg.old.status
                                          THEN t.reg.new.status ELSE asset[t.asset].status
      BY <3>1, WrittenAsset DEF IInv, TypeOK, AssetEdit
    <3> HIDE DEF t, reg
    <3>3. asset' = [asset EXCEPT ![t.asset] = reg] BY <1>2, <2>2
    <3> QED BY <3>1, <3>2, <3>3 DEF IInv, TypeOK
  <2> QED BY <2>1, <2>2
<1>5. task' \in [Worker -> Task \cup {None}] BY <1>2 DEF IInv, TypeOK
<1>6. TypeOK' BY <1>2, <1>3, <1>4, <1>5 DEF IInv, TypeOK
<1>7. TasksSound' BY <1>2, <1>3, OneTaskMoves DEF IInv
<1>8. DisposedWasApproved'
  <2>1. ASSUME NEW a \in Asset, asset'[a].status = "Disposed" PROVE Approved(disposal, a)
    BY <1>4, <2>1 DEF IInv, DisposedWasApproved, Approved
  <2>2. ASSUME NEW a \in Asset, asset'[a].status = "Disposed" PROVE Approved(disposal', a)
    BY <1>3, <2>1, <2>2, ApprovedStaysApproved
  <2> QED BY <2>2 DEF DisposedWasApproved, Approved
<1> QED BY <1>3, <1>6, <1>7, <1>8 DEF IInv

-----------------------------------------------------------------------------
LEMMA NextSound == IInv /\ [Next]_vars => IInv'
<1> SUFFICES ASSUME IInv, [Next]_vars PROVE IInv'
  OBVIOUS
<1>1. CASE UNCHANGED vars
  BY <1>1 DEF vars, IInv, TypeOK, RowsAuthorised, TasksSound, DisposedWasApproved
<1>2. ASSUME NEW w \in Worker, NEW a \in Asset, InitDisposal(w, a) PROVE IInv'
  BY <1>2, InitDisposalSound
<1>3. ASSUME NEW w \in Worker, NEW a \in Asset, NEW date \in Date,
             ScheduleDisposal(w, a, date)
      PROVE  IInv'
  BY <1>3, ScheduleDisposalSound
<1>4. ASSUME NEW w \in Worker, NEW a \in Asset, NEW user \in User,
             ApproveDisposal(w, a, user)
      PROVE  IInv'
  BY <1>4, ApproveDisposalSound
<1>5. ASSUME NEW w \in Worker, NEW a \in Asset, NEW proceeds \in Amount \cup {None},
             ExecuteDisposal(w, a, proceeds)
      PROVE  IInv'
  BY <1>5, ExecuteDisposalSound
<1>6. ASSUME NEW w \in Worker, NEW a \in Asset, UndoDisposal(w, a) PROVE IInv'
  BY <1>6, UndoDisposalSound
<1>7. ASSUME NEW w \in Worker, NEW a \in Asset,
             ActivateAsset(w, a) \/ DeactivateAsset(w, a) \/ MarkForDisposal(w, a)
      PROVE  IInv'
  <2>1. {"Operational", "Impaired", "HeldForSale"} \subseteq Status \ {"Disposed"}
    BY DEF Status
  <2>2. CASE ActivateAsset(w, a)
    BY <2>1, <2>2, SetStatusSound DEF ActivateAsset
  <2>3. CASE DeactivateAsset(w, a)
    BY <2>1, <2>3, SetStatusSound DEF DeactivateAsset
  <2>4. CASE MarkForDisposal(w, a)
    BY <2>1, <2>4, SetStatusSound DEF MarkForDisposal
  <2> QED BY <1>7, <2>2, <2>3, <2>4
<1>8. ASSUME NEW w \in Worker, LoadAsset(w) PROVE IInv'
  BY <1>8, LoadAssetSound
<1>9. ASSUME NEW w \in Worker, Commit(w) PROVE IInv'
  BY <1>9, CommitSound
<1>10. ASSUME NEW w \in Worker, Abandon(w) PROVE IInv'
  BY <1>10, AbandonSound
<1> QED BY <1>1, <1>2, <1>3, <1>4, <1>5, <1>6, <1>7, <1>8, <1>9, <1>10 DEF Next

(* The tables and the requests always have their types: no handler writes  *)
(* a label that the enum columns do not have.                              *)
THEOREM TypeCorrect == Spec => []TypeOK
<1>1. IInv => TypeOK BY DEF IInv
<1> QED BY InitSound, NextSound, <1>1, PTL DEF Spec

(* Execute and undo check an approval they read earlier; that approval is  *)
(* never taken back, so with any number of processes a disposal goes past  *)
(* "scheduled" only with a date and an approver on file.                   *)
THEOREM DisposalAuthorised == Spec => []NoUnauthorisedDisposal
<1>1. IInv => NoUnauthorisedDisposal
  BY DEF IInv, RowsAuthorised, RowAuthorised, NoUnauthorisedDisposal
<1> QED BY InitSound, NextSound, <1>1, PTL DEF Spec

(* The register marks an asset Disposed only if somebody approved a        *)
(* disposal of that asset, however stale the executing session is.         *)
THEOREM DisposedApproved == Spec => []DisposedWasApproved
<1>1. IInv => DisposedWasApproved BY DEF IInv
<1> QED BY InitSound, NextSound, <1>1, PTL DEF Spec

-----------------------------------------------------------------------------
(* With one process.  A column is set at its stage and not before.         *)
Clean(row) ==
    /\ row.status = "initiated" => row.date = None
    /\ row.status \in {"initiated", "scheduled"} => row.approver = None
    /\ row.status \in {"initiated", "scheduled", "approved"} => row.proceeds = None

(* One stage further, and what was set is final.                           *)
Legal(old, new) ==
    /\ Stage[new.status] = Stage[old.status] + 1
    /\ \A c \in {"date", "approver", "proceeds"} : old[c] # None => new[c] = old[c]

(* The rows a request has loaded are as it loaded them, and what it makes  *)
(* of the asset is what it makes of the disposal.                          *)
InTurn(t) ==
    /\ t.dis # None =>
         /\ disposal[t.dis.id] = t.dis.old
         /\ Legal(t.dis.old, t.dis.new) /\ Clean(t.dis.new)
         /\ t.dis.old.status = "executed" => t.dis.new.status = "undone"
         /\ t.dis.new.status \notin {"executed", "undone"} => t.reg = None
         /\ t.todo = "commit" /\ t.dis.new.status \in {"executed", "undone"} => t.reg # None
         /\ t.reg # None /\ t.dis.new.status = "executed" => t.reg.new = Disposed(t.dis.new)
         /\ t.reg # None /\ t.dis.new.status = "undone" => t.reg.new.status # "Disposed"
    /\ t.reg # None => asset[t.asset] = t.reg.old
    /\ t.dis = None /\ t.reg # None => t.reg.new.status # "Disposed"

RowsClean == \A d \in Disposal : disposal[d] # None => Clean(disposal[d])
TasksInTurn == \A w \in Worker : task[w] # None => w \in pool /\ InTurn(task[w])
Serial == OneProcess => RowsClean /\ TasksInTurn /\ RegisterMatchesFile

LEMMA Stages ==
    /\ Stage["initiated"] = 1 /\ Stage["scheduled"] = 2 /\ Stage["approved"] = 3
    /\ Stage["executed"] = 4 /\ Stage["undone"] = 5
BY DEF Stage

LEMMA OneWorker ==
    ASSUME TypeOK, OneProcess, NEW v \in pool, NEW w \in pool
    PROVE  v = w
<1>1. IsFiniteSet(pool) BY DisposalAssumption, FS_Subset DEF TypeOK
<1>2. PICK x : pool = {x} BY <1>1, FS_Singleton DEF OneProcess
<1> QED BY <1>2

(* Where one process moves a request, there is no other.                   *)
LEMMA SerialRequestStep ==
    ASSUME IInv, Serial, OneProcess, NEW w \in pool, NEW t \in Task \cup {None},
           task' = [task EXCEPT ![w] = t], UNCHANGED <<pool, asset, disposal>>,
           t # None => InTurn(t)
    PROVE  Serial'
<1>1. RowsClean' BY DEF Serial, RowsClean
<1>2. TasksInTurn'
  <2>1. \A v \in Worker : task'[v] = IF v = w THEN t ELSE task[v] BY DEF IInv, TypeOK
  <2> QED BY <2>1 DEF Serial, TasksInTurn, InTurn
<1>3. RegisterMatchesFile' BY DEF Serial, RegisterMatchesFile, InStatus
<1> QED BY <1>1, <1>2, <1>3 DEF Serial

LEMMA SerialEditStep ==
    ASSUME IInv, Serial, OneProcess, NEW w \in pool, NEW a \in Asset, NEW d \in Disposal,
           disposal[d] \in DisposalRow, NEW new \in DisposalRow,
           Legal(disposal[d], new), Clean(new),
           disposal[d].status = "executed" => new.status = "undone",
           NEW todo \in {"load", "commit"},
           todo = "commit" => new.status \notin {"executed", "undone"},
           Edit(w, a, d, new, todo), UNCHANGED <<pool, asset, disposal>>
    PROVE  Serial'
<1> DEFINE e == [id |-> d, old |-> disposal[d], new |-> new]
           t == [asset |-> a, dis |-> e, reg |-> None, todo |-> todo]
<1>1. e \in DisposalEdit BY DEF DisposalEdit
<1>2. t \in Task BY <1>1 DEF Task
<1>3. InTurn(t) BY DEF InTurn
<1>4. task' = [task EXCEPT ![w] = t] BY DEF Edit
<1> HIDE DEF t
<1> QED BY <1>2, <1>3, <1>4, SerialRequestStep

LEMMA SerialInit == Init => Serial
<1> SUFFICES ASSUME Init PROVE Serial OBVIOUS
<1>1. RowsClean BY DEF Init, RowsClean
<1>2. TasksInTurn BY DEF Init, TasksInTurn
<1>3. RegisterMatchesFile
  <2>1. \A a \in Asset : asset[a].status # "Disposed" BY DEF Init
  <2> QED BY <2>1 DEF RegisterMatchesFile
<1> QED BY <1>1, <1>2, <1>3 DEF Serial

LEMMA SerialInitDisposal ==
    ASSUME IInv, Serial, OneProcess, NEW w \in Worker, NEW a \in Asset, InitDisposal(w, a)
    PROVE  Serial'
<1> DEFINE row == [asset |-> a, status |-> "initiated", date |-> None,
                   approver |-> None, proceeds |-> None]
<1>1. PICK d \in Disposal : disposal[d] = None /\ disposal' = [disposal EXCEPT ![d] = row]
  BY DEF InitDisposal
<1>2. w \in pool /\ task[w] = None /\ UNCHANGED <<pool, asset, task>>
  BY DEF InitDisposal, Idle
<1>3. \A v \in Worker : task[v] = None
  BY <1>2, OneWorker DEF IInv, Serial, TasksInTurn
<1>4. \A c \in Disposal : disposal'[c] = IF c = d THEN row ELSE disposal[c]
  BY <1>1 DEF IInv, TypeOK
<1>5. RowsClean' BY <1>4 DEF Serial, RowsClean, Clean
<1>6. TasksInTurn' BY <1>2, <1>3 DEF TasksInTurn
<1>7. RegisterMatchesFile'
  BY <1>1, <1>2, <1>4 DEF Serial, RegisterMatchesFile, InStatus
<1> QED BY <1>5, <1>6, <1>7 DEF Serial

LEMMA SerialSchedule ==
    ASSUME IInv, Serial, OneProcess, NEW w \in Worker, NEW a \in Asset, NEW date \in Date,
           ScheduleDisposal(w, a, date)
    PROVE  Serial'
<1> DEFINE New(d) == [disposal[d] EXCEPT !.date = date, !.status = "scheduled"]
<1>1. PICK d \in InStatus(a, Schedulable) : Edit(w, a, d, New(d), "commit")
  BY DEF ScheduleDisposal
<1>2. d \in Disposal /\ disposal[d] \in DisposalRow /\ disposal[d].status = "initiated"
      /\ Clean(disposal[d])
  BY <1>1 DEF InStatus, Schedulable, IInv, TypeOK, Serial, RowsClean
<1>3. New(d) \in DisposalRow BY <1>2 DEF DisposalRow, DisposalStatus
<1>4. New(d).status = "scheduled" /\ New(d).approver = disposal[d].approver
      /\ New(d).proceeds = disposal[d].proceeds
  BY <1>2 DEF DisposalRow
<1>5. w \in pool /\ UNCHANGED <<pool, asset, disposal>> BY DEF ScheduleDisposal, Idle
<1> HIDE DEF New
<1>6. Clean(New(d)) /\ Legal(disposal[d], New(d))
  BY <1>2, <1>4, Stages DEF Clean, Legal
<1> QED BY <1>1, <1>2, <1>3, <1>4, <1>5, <1>6, SerialEditStep

LEMMA SerialApprove ==
    ASSUME IInv, Serial, OneProcess, NEW w \in Worker, NEW a \in Asset, NEW user \in User,
           ApproveDisposal(w, a, user)
    PROVE  Serial'
<1> DEFINE New(d) == [disposal[d] EXCEPT !.status = "approved", !.approver = user]
<1>1. PICK d \in InStatus(a, Approvable) : Edit(w, a, d, New(d), "commit")
  BY DEF ApproveDisposal
<1>2. d \in Disposal /\ disposal[d] \in DisposalRow /\ disposal[d].status = "scheduled"
      /\ Clean(disposal[d])
  BY <1>1 DEF InStatus, Approvable, IInv, TypeOK, Serial, RowsClean
<1>3. New(d) \in DisposalRow BY <1>2 DEF DisposalRow, DisposalStatus
<1>4. New(d).status = "approved" /\ New(d).date = disposal[d].date
      /\ New(d).proceeds = disposal[d].proceeds
  BY <1>2 DEF DisposalRow
<1>5. w \in pool /\ UNCHANGED <<pool, asset, disposal>> BY DEF ApproveDisposal, Idle
<1> HIDE DEF New
<1>6. Clean(New(d)) /\ Legal(disposal[d], New(d))
  BY <1>2, <1>4, Stages DEF Clean, Legal
<1> QED BY <1>1, <1>2, <1>3, <1>4, <1>5, <1>6, SerialEditStep

LEMMA SerialExecute ==
    ASSUME IInv, Serial, OneProcess, NEW w \in Worker, NEW a \in Asset,
           NEW proceeds \in Amount \cup {None}, ExecuteDisposal(w, a, proceeds)
    PROVE  Serial'
<1> DEFINE New(d) == [disposal[d] EXCEPT
                        !.status = "executed",
                        !.proceeds = IF proceeds = None THEN @ ELSE proceeds]
<1>1. PICK d \in InStatus(a, Executable) : Edit(w, a, d, New(d), "load")
  BY DEF ExecuteDisposal
<1>2. d \in Disposal /\ disposal[d] \in DisposalRow /\ disposal[d].status = "approved"
      /\ Clean(disposal[d])
  BY <1>1 DEF InStatus, Executable, IInv, TypeOK, Serial, RowsClean
<1>3. New(d) \in DisposalRow BY <1>2 DEF DisposalRow, DisposalStatus
<1>4. New(d).status = "executed" /\ New(d).date = disposal[d].date
      /\ New(d).approver = disposal[d].approver
  BY <1>2 DEF DisposalRow
<1>5. w \in pool /\ UNCHANGED <<pool, asset, disposal>> BY DEF ExecuteDisposal, Idle
<1> HIDE DEF New
<1>6. Clean(New(d)) /\ Legal(disposal[d], New(d))
  BY <1>2, <1>4, Stages DEF Clean, Legal
<1> QED BY <1>1, <1>2, <1>3, <1>4, <1>5, <1>6, SerialEditStep

LEMMA SerialUndo ==
    ASSUME IInv, Serial, OneProcess, NEW w \in Worker, NEW a \in Asset, UndoDisposal(w, a)
    PROVE  Serial'
<1> DEFINE New(d) == [disposal[d] EXCEPT !.status = Undone]
<1>1. PICK d \in InStatus(a, Undoable) : Edit(w, a, d, New(d), "load")
  BY DEF UndoDisposal
<1>2. d \in Disposal /\ disposal[d] \in DisposalRow /\ disposal[d].status = "executed"
  BY <1>1 DEF InStatus, Undoable, IInv, TypeOK
<1>3. New(d) \in DisposalRow BY <1>2 DEF DisposalRow, DisposalStatus, Undone
<1>4. New(d).status = "undone" /\ New(d).date = disposal[d].date
      /\ New(d).approver = disposal[d].approver /\ New(d).proceeds = disposal[d].proceeds
  BY <1>2 DEF DisposalRow, Undone
<1>5. w \in pool /\ UNCHANGED <<pool, asset, disposal>> BY DEF UndoDisposal, Idle
<1> HIDE DEF New
<1>6. Clean(New(d)) /\ Legal(disposal[d], New(d))
  BY <1>2, <1>4, Stages DEF Clean, Legal
<1> QED BY <1>1, <1>2, <1>3, <1>4, <1>5, <1>6, SerialEditStep

LEMMA SerialLoadAsset ==
    ASSUME IInv, Serial, OneProcess, NEW w \in Worker, LoadAsset(w)
    PROVE  Serial'
<1> DEFINE row == asset[task[w].asset]
           new == IF task[w].dis.new.status = "executed"
                  THEN Disposed(task[w].dis.new) ELSE Restored(row)
           reg == [old |-> row, new |-> new]
           t == [task[w] EXCEPT !.reg = reg, !.todo = "commit"]
<1>1. /\ task[w] # None /\ task[w] \in Task /\ task[w].todo = "load"
      /\ TaskSound(disposal, task[w]) /\ w \in pool /\ InTurn(task[w])
  BY DEF LoadAsset, IInv, TypeOK, TasksSound, Serial, TasksInTurn
<1>2. task[w].dis # None /\ task[w].dis \in DisposalEdit
      /\ task[w].dis.new \in DisposalRow
      /\ task[w].dis.new.status \in {"executed", "undone"}
  BY <1>1 DEF TaskSound, Task, DisposalEdit
<1>3. row \in AssetRow BY <1>1 DEF IInv, TypeOK, Task
<1>4. new \in AssetRow
  BY <1>2, <1>3 DEF AssetRow, DisposalRow, Status, Disposed, Restored
<1>5. reg \in AssetEdit /\ reg # None BY <1>3, <1>4, DisposalAssumption DEF AssetEdit
<1>6. /\ reg.old = row
      /\ task[w].dis.new.status = "executed" => reg.new = Disposed(task[w].dis.new)
      /\ task[w].dis.new.status = "undone" => reg.new.status # "Disposed"
  BY <1>2 DEF Restored
<1>7. task' = [task EXCEPT ![w].reg = reg, ![w].todo = "commit"]
      /\ UNCHANGED <<pool, asset, disposal>>
  BY DEF LoadAsset
<1> HIDE DEF reg
<1>8. t = [asset |-> task[w].asset, dis |-> task[w].dis, reg |-> reg, todo |-> "commit"]
  BY <1>1, <1>5, CommitNext
<1>9. t \in Task BY <1>1, <1>5, <1>8 DEF Task
<1>10. InTurn(t) BY <1>1, <1>2, <1>5, <1>6, <1>8 DEF InTurn
<1>11. task' = [task EXCEPT ![w] = t] BY <1>1, <1>7 DEF IInv, TypeOK
<1> HIDE DEF t
<1> QED BY <1>1, <1>7, <1>9, <1>10, <1>11, SerialRequestStep

LEMMA SerialSetStatus ==
    ASSUME IInv, Serial, OneProcess, NEW w \in Worker, NEW a \in Asset, NEW refused,
           NEW status \in Status \ {"Disposed"}, SetStatus(w, a, refused, status)
    PROVE  Serial'
<1> DEFINE new == [asset[a] EXCEPT !.status = status]
           reg == [old |-> asset[a], new |-> new]
           t == [asset |-> a, dis |-> None, todo |-> "commit", reg |-> reg]
<1>1. asset[a] \in AssetRow BY DEF IInv, TypeOK
<1>2. new \in AssetRow /\ new.status = status BY <1>1 DEF AssetRow
<1>3. t \in Task BY <1>1, <1>2 DEF Task, AssetEdit
<1>4. InTurn(t) BY <1>2 DEF InTurn
<1>5. w \in pool /\ task' = [task EXCEPT ![w] = t] /\ UNCHANGED <<pool, asset, disposal>>
  BY DEF SetStatus, Idle
<1> HIDE DEF t
<1> QED BY <1>3, <1>4, <1>5, SerialRequestStep

LEMMA SerialAbandon ==
    ASSUME IInv, Serial, OneProcess, NEW w \in Worker, Abandon(w)
    PROVE  Serial'
<1>1. w \in pool BY DEF Abandon, Serial, TasksInTurn
<1> QED BY <1>1, SerialRequestStep DEF Abandon

(* A session that has the rows as they are writes what it made of them.    *)
LEMMA WrittenWhole ==
    /\ \A old, new \in DisposalRow : Written(old, old, new) = new
    /\ \A old, new \in AssetRow : Written(old, old, new) = new
<1>1. ASSUME NEW old \in DisposalRow, NEW new \in DisposalRow PROVE Written(old, old, new) = new
  <2>1. Written(old, old, new) = [asset |-> new.asset, status |-> new.status,
           date |-> new.date, approver |-> new.approver, proceeds |-> new.proceeds]
    BY DEF Written, DisposalRow
  <2> QED BY <2>1 DEF DisposalRow
<1>2. ASSUME NEW old \in AssetRow, NEW new \in AssetRow PROVE Written(old, old, new) = new
  <2>1. Written(old, old, new) = [status |-> new.status, date |-> new.date, value |-> new.value]
    BY DEF Written, AssetRow
  <2> QED BY <2>1 DEF AssetRow
<1> QED BY <1>1, <1>2

LEMMA SerialCommitted ==
    ASSUME IInv, Serial, OneProcess, NEW w \in Worker, Commit(w)
    PROVE  LET t == task[w] IN
           /\ t # None /\ t \in Task /\ InTurn(t) /\ TaskSound(disposal, t)
           /\ \A d \in Disposal :
                disposal'[d] = IF t.dis # None /\ d = t.dis.id THEN t.dis.new ELSE disposal[d]
           /\ \A a \in Asset :
                asset'[a] = IF t.reg # None /\ a = t.asset THEN t.reg.new ELSE asset[a]
           /\ \A v \in Worker : task'[v] = None
<1> DEFINE t == task[w]
<1>1. t # None /\ t \in Task /\ InTurn(t) /\ TaskSound(disposal, t) /\ w \in pool
      /\ t.todo = "commit"
  BY DEF Commit, IInv, TypeOK, TasksSound, Serial, TasksInTurn
<1>2. ASSUME NEW d \in Disposal
      PROVE  disposal'[d] = IF t.dis # None /\ d = t.dis.id THEN t.dis.new ELSE disposal[d]
  <2>1. CASE t.dis = None BY <2>1 DEF Commit
  <2>2. CASE t.dis # None
    <3>1. t.dis \in DisposalEdit BY <1>1, <2>2 DEF Task
    <3>2. t.dis.id \in Disposal /\ t.dis.old \in DisposalRow /\ t.dis.new \in DisposalRow
          /\ disposal[t.dis.id] = t.dis.old
      BY <1>1, <2>2, <3>1 DEF DisposalEdit, InTurn
    <3>3. Written(disposal[t.dis.id], t.dis.old, t.dis.new) = t.dis.new
      BY <3>2, WrittenWhole
    <3>4. disposal' = [disposal EXCEPT ![t.dis.id] =
                         Written(disposal[t.dis.id], t.dis.old, t.dis.new)]
      BY <2>2 DEF Commit
    <3> QED BY <2>2, <3>2, <3>3, <3>4 DEF IInv, TypeOK
  <2> QED BY <2>1, <2>2
<1>3. ASSUME NEW a \in Asset
      PROVE  asset'[a] = IF t.reg # None /\ a = t.asset THEN t.reg.new ELSE asset[a]
  <2>1. CASE t.reg = None BY <2>1 DEF Commit
  <2>2. CASE t.reg # None
    <3>1. t.reg \in AssetEdit /\ t.asset \in Asset BY <1>1, <2>2 DEF Task
    <3>2. t.reg.old \in AssetRow /\ t.reg.new \in AssetRow /\ asset[t.asset] = t.reg.old
      BY <1>1, <2>2, <3>1 DEF AssetEdit, InTurn
    <3>3. Written(asset[t.asset], t.reg.old, t.reg.new) = t.reg.new BY <3>2, WrittenWhole
    <3>4. asset' = [asset EXCEPT ![t.asset] = Written(asset[t.asset], t.reg.old, t.reg.new)]
      BY <2>2 DEF Commit
    <3> QED BY <2>2, <3>1, <3>3, <3>4 DEF IInv, TypeOK
  <2> QED BY <2>1, <2>2
<1>4. \A v \in Worker : task'[v] = None
  <2>1. \A v \in Worker : task[v] # None => v = w
    BY <1>1, OneWorker DEF IInv, Serial, TasksInTurn
  <2> QED BY <2>1 DEF Commit, IInv, TypeOK
<1> QED BY <1>1, <1>2, <1>3, <1>4

LEMMA SerialCommit ==
    ASSUME IInv, Serial, OneProcess, NEW w \in Worker, Commit(w)
    PROVE  Serial'
<1> DEFINE t == task[w]
<1>1. /\ t # None /\ t \in Task /\ InTurn(t) /\ TaskSound(disposal, t) /\ t.todo = "commit"
      /\ \A d \in Disposal :
           disposal'[d] = IF t.dis # None /\ d = t.dis.id THEN t.dis.new ELSE disposal[d]
      /\ \A a \in Asset :
           asset'[a] = IF t.reg # None /\ a = t.asset THEN t.reg.new ELSE asset[a]
      /\ \A v \in Worker : task'[v] = None
  BY SerialCommitted DEF Commit
<1>2. RowsClean' BY <1>1 DEF Serial, RowsClean, InTurn
<1>3. TasksInTurn' BY <1>1 DEF TasksInTurn
<1>4. ASSUME NEW a \in Asset, asset'[a].status = "Disposed"
      PROVE  \E d \in InStatus(a, {"executed"})' :
                asset'[a].date = disposal'[d].date /\ asset'[a].value = disposal'[d].proceeds
  <2>1. CASE t.reg # None /\ a = t.asset
    <3>1. t.dis # None /\ t.dis \in DisposalEdit /\ t.dis.new.status = "executed"
          /\ asset'[a] = Disposed(t.dis.new)
      BY <1>1, <1>4, <2>1 DEF InTurn, Task
    <3>2. t.dis.id \in Disposal /\ t.dis.new # None /\ t.dis.new.asset = a
          /\ disposal'[t.dis.id] = t.dis.new
      BY <1>1, <2>1, <3>1, DisposalAssumption DEF DisposalEdit, TaskSound, EditSound
    <3>3. t.dis.id \in InStatus(a, {"executed"})' BY <3>1, <3>2 DEF InStatus
    <3>4. asset'[a].date = t.dis.new.date /\ asset'[a].value = t.dis.new.proceeds
      BY <3>1 DEF Disposed
    <3> QED BY <3>2, <3>3, <3>4
  <2>2. CASE ~(t.reg # None /\ a = t.asset)
    <3>1. asset'[a] = asset[a] BY <1>1, <2>2
    <3>2. PICK d \in InStatus(a, {"executed"}) :
            asset[a].date = disposal[d].date /\ asset[a].value = disposal[d].proceeds
      BY <1>4, <3>1 DEF Serial, RegisterMatchesFile
    <3>3. d \in Disposal /\ disposal[d] # None /\ disposal[d].asset = a
          /\ disposal[d].status = "executed"
      BY <3>2 DEF InStatus
    <3>4. ~(t.dis # None /\ d = t.dis.id)
      <4> SUFFICES ASSUME t.dis # None, d = t.dis.id PROVE FALSE OBVIOUS
      <4>1. t.asset = a BY <1>1, <3>3 DEF TaskSound, EditSound
      <4>2. t.dis.new.status = "undone" BY <1>1, <3>3 DEF InTurn
      <4>3. t.reg # None BY <1>1, <4>2 DEF InTurn
      <4> QED BY <2>2, <4>1, <4>3
    <3>5. disposal'[d] = disposal[d] BY <1>1, <3>3, <3>4
    <3>6. d \in InStatus(a, {"executed"})' BY <3>3, <3>5 DEF InStatus
    <3> QED BY <3>1, <3>2, <3>5, <3>6
  <2> QED BY <2>1, <2>2
<1>5. RegisterMatchesFile' BY <1>4 DEF RegisterMatchesFile
<1> QED BY <1>2, <1>3, <1>5 DEF Serial

LEMMA SerialNext == IInv /\ Serial /\ [Next]_vars => Serial'
<1> SUFFICES ASSUME IInv, Serial, [Next]_vars, OneProcess' PROVE Serial'
  BY DEF Serial
<1>1. CASE UNCHANGED vars
  BY <1>1 DEF vars, Serial, OneProcess, RowsClean, TasksInTurn, InTurn, RegisterMatchesFile,
              InStatus
<1>2. CASE Next
  <2>1. pool' = pool
    BY <1>2 DEF Next, InitDisposal, ScheduleDisposal, ApproveDisposal, ExecuteDisposal,
           UndoDisposal, ActivateAsset, DeactivateAsset, MarkForDisposal, SetStatus, LoadAsset,
           Commit, Abandon
  <2>2. OneProcess BY <2>1 DEF OneProcess
  <2>3. {"Operational", "Impaired", "HeldForSale"} \subseteq Status \ {"Disposed"}
    BY DEF Status
  <2>4. ASSUME NEW w \in Worker, NEW a \in Asset,
               ActivateAsset(w, a) \/ DeactivateAsset(w, a) \/ MarkForDisposal(w, a)
        PROVE  Serial'
    BY <2>2, <2>3, <2>4, SerialSetStatus DEF ActivateAsset, DeactivateAsset, MarkForDisposal
  <2> QED BY <1>2, <2>2, <2>4, SerialInitDisposal, SerialSchedule, SerialApprove, SerialExecute,
             SerialUndo, SerialLoadAsset, SerialCommit, SerialAbandon DEF Next
<1> QED BY <1>1, <1>2

(* With one process the register shows of a Disposed asset what an         *)
(* executed disposal of that asset says, however many disposals there are. *)
THEOREM RegisterAgrees == Spec => []SerialRegister
<1>1. Serial => SerialRegister BY DEF Serial, SerialRegister
<1> QED BY InitSound, NextSound, SerialInit, SerialNext, <1>1, PTL DEF Spec

LEMMA WorkflowStep ==
    IInv /\ Serial /\ [Next]_vars =>
      [OneProcess =>
         \A d \in Disposal : disposal[d] # None /\ disposal'[d] # disposal[d] =>
             /\ Stage[disposal'[d].status] = Stage[disposal[d].status] + 1
             /\ \A c \in {"date", "approver", "proceeds"} :
                    disposal[d][c] # None => disposal'[d][c] = disposal[d][c]]_vars
<1> SUFFICES ASSUME IInv, Serial, [Next]_vars, OneProcess, NEW d \in Disposal,
                    disposal[d] # None, disposal'[d] # disposal[d]
             PROVE  Legal(disposal[d], disposal'[d])
  BY DEF Legal
<1>1. Next BY DEF vars
<1>2. \A w \in Worker, a \in Asset : ~InitDisposal(w, a)
  <2> SUFFICES ASSUME NEW w \in Worker, NEW a \in Asset, InitDisposal(w, a) PROVE FALSE
    OBVIOUS
  <2>1. PICK c \in Disposal : disposal[c] = None /\ \A x \in Disposal : x # c => disposal'[x] = disposal[x]
    BY DEF InitDisposal, IInv, TypeOK
  <2> QED BY <2>1
<1>3. PICK w \in Worker : Commit(w)
  BY <1>1, <1>2 DEF Next, ScheduleDisposal, ApproveDisposal, ExecuteDisposal, UndoDisposal,
         ActivateAsset, DeactivateAsset, MarkForDisposal, SetStatus, LoadAsset, Abandon
<1>4. /\ task[w].dis # None /\ d = task[w].dis.id /\ disposal'[d] = task[w].dis.new
      /\ InTurn(task[w])
  BY <1>3, SerialCommitted
<1> QED BY <1>4 DEF InTurn

(* With one process a disposal goes through its stages one at a time, and  *)
(* what is set at a stage stays.                                           *)
THEOREM WorkflowKept == Spec => SerialWorkflow
BY InitSound, NextSound, SerialInit, SerialNext, WorkflowStep, PTL DEF Spec, SerialWorkflow

=============================================================================
