-------------------------- MODULE Reporting_proofs --------------------------
(***************************************************************************)
(* Proofs about Reporting for any assets, departments, other rows, slots   *)
(* and server processes, and any number of writes.                         *)
(***************************************************************************)
EXTENDS Reporting, SequenceTheorems, FiniteSetTheorems, TLAPS

(* What a report has read is what the tables hold, and before its first    *)
(* query it has read nothing.                                              *)
UpToDate(t) ==
    /\ t.todo = "start" => DOMAIN t.got = {} /\ DOMAIN t.held = {}
    /\ \A q \in DOMAIN t.got : t.got[q] = Result(q, NoRows)
    /\ \A a \in DOMAIN t.held : t.held[a] = asset[a]

Fields == {"kind", "root", "todo", "queue", "got", "held"}
Shape(t) == t.todo \in {"start", "query"} /\ t = [x \in Fields |-> t[x]]

Shapes == \A s \in Slot : task[s] # None => Shape(task[s])
Tasks == task = [s \in Slot |-> task[s]]
Serial == OneProcess => \A s \in Slot : task[s] # None => UpToDate(task[s])

IInv == Tasks /\ Shapes /\ Serial

-----------------------------------------------------------------------------
(* What a query gives depends on the tables alone.                         *)
LEMMA ResultStays ==
    ASSUME UNCHANGED tables, NEW q
    PROVE  Result(q, NoRows)' = Result(q, NoRows)
<1>1. asset' = asset /\ dept' = dept /\ transfer' = transfer
      /\ disposal' = disposal /\ request' = request
  BY DEF tables
<1>2. Active' = Active /\ \A d : Children(d)' = Children(d)
  BY <1>1 DEF Active, Children
<1>3. \A d : Rows(d, NoRows)' = Rows(d, NoRows)
  BY <1>1 DEF Rows, Assets, NoRows
<1>4. \A d : (Recent \cap Requests(d))' = Recent \cap Requests(d)
  BY <1>1 DEF Recent, Requests
<1>5. Overdue' = Overdue
  BY <1>1 DEF Overdue, Ready, WithStatus, Requests
<1>6. /\ RecentDisposals' = RecentDisposals /\ AwaitingTransfers' = AwaitingTransfers
      /\ PendingTransfers' = PendingTransfers /\ PendingDisposals' = PendingDisposals
  BY <1>1 DEF RecentDisposals, AwaitingTransfers, PendingTransfers, PendingDisposals,
              Transfers, Disposals
<1>7. AcquiredLastMonth' = AcquiredLastMonth /\ AcquiredThisMonth' = AcquiredThisMonth
  BY <1>1 DEF AcquiredLastMonth, AcquiredThisMonth, Assets, LastMonth, ThisMonth
<1> QED BY <1>2, <1>3, <1>4, <1>5, <1>6, <1>7 DEF Result

(* The session's identity map makes no difference while it is up to date.  *)
LEMMA ResultFresh ==
    ASSUME NEW q, NEW held, \A a \in DOMAIN held : held[a] = asset[a]
    PROVE  /\ Result(q, held) = Result(q, NoRows)
           /\ q[1] = "assets" =>
                \A a \in DOMAIN Result(q, held) : Result(q, held)[a] = asset[a]
<1>1. \A d : Rows(d, held) = [a \in Assets(d) |-> asset[a]]
  BY DEF Rows
<1>2. \A d : Rows(d, NoRows) = [a \in Assets(d) |-> asset[a]]
  BY DEF Rows, NoRows
<1> QED BY <1>1, <1>2 DEF Result

(* A report goes on to be t, or is done, and no table changes.             *)
LEMMA ReportStep ==
    ASSUME IInv, NEW s \in Slot, NEW t, task' = [task EXCEPT ![s] = t],
           UNCHANGED <<place, tables>>, t # None => Shape(t),
           OneProcess /\ t # None => UpToDate(t)
    PROVE  IInv'
<1>1. \A r \in Slot : task'[r] = IF r = s THEN t ELSE task[r]
  BY DEF IInv, Tasks
<1>2. Tasks' BY <1>1 DEF IInv, Tasks
<1>3. Shapes' BY <1>1 DEF IInv, Shapes, Shape
<1>4. Serial'
  <2>1. asset' = asset /\ \A q : Result(q, NoRows)' = Result(q, NoRows)
    BY ResultStays DEF tables
  <2> SUFFICES ASSUME OneProcess, NEW r \in Slot, task'[r] # None
               PROVE  UpToDate(task[r])'
    BY DEF Serial, OneProcess
  <2>2. UpToDate(task'[r]) BY <1>1 DEF IInv, Serial
  <2> QED BY <2>1, <2>2 DEF UpToDate
<1> QED BY <1>2, <1>3, <1>4 DEF IInv

-----------------------------------------------------------------------------
LEMMA InitInv == Init => IInv
BY DEF Init, IInv, Tasks, Shapes, Serial

LEMMA AskInv ==
    ASSUME IInv, NEW s \in Slot, NEW kind \in Kind, NEW root \in Dept \cup {None},
           Ask(s, kind, root)
    PROVE  IInv'
<1> DEFINE t == [kind |-> kind, root |-> root, todo |-> "start",
                 queue |-> FirstQueries(kind, root), got |-> NoResults, held |-> NoRows]
<1>1. task' = [task EXCEPT ![s] = t] /\ UNCHANGED <<place, tables>> BY DEF Ask
<1>2. Shape(t)
  <2>1. DOMAIN t = Fields BY DEF Fields
  <2> QED BY <2>1 DEF Shape
<1>3. DOMAIN t.got = {} /\ DOMAIN t.held = {} BY DEF NoResults, NoRows
<1>4. UpToDate(t) BY <1>3 DEF UpToDate
<1> QED BY <1>1, <1>2, <1>4, ReportStep

LEMMA ShapeSkips ==
    ASSUME NEW t, Shape(t), NEW queue, NEW u, u = [t EXCEPT !.queue = queue]
    PROVE  Shape(u) /\ u.todo = t.todo /\ u.got = t.got /\ u.held = t.held
<1>1. DOMAIN t = Fields /\ t.todo \in {"start", "query"} BY DEF Shape
<1>2. /\ u = [x \in Fields |-> u[x]]
      /\ u.todo = t.todo /\ u.got = t.got /\ u.held = t.held
  BY <1>1 DEF Fields
<1> QED BY <1>1, <1>2 DEF Shape

LEMMA NextQueryInv ==
    ASSUME IInv, NEW s \in Slot, NextQuery(s)
    PROVE  IInv'
<1> DEFINE t == task[s]
           q == Head(t.queue)
           result == Result(q, t.held)
           got == [r \in DOMAIN t.got \cup {q} |-> IF r = q THEN result ELSE t.got[r]]
           held == IF q[1] = "assets" THEN result ELSE t.held
<1>1. t # None /\ UNCHANGED <<place, tables>> /\ Shape(t)
  BY DEF NextQuery, IInv, Shapes
<1>2. OneProcess => UpToDate(t) BY <1>1 DEF IInv, Serial
<1>3. CASE q \in DOMAIN t.got
  <2> DEFINE u == [t EXCEPT !.queue = Tail(t.queue)]
  <2>1. task' = [task EXCEPT ![s] = u] BY <1>3 DEF NextQuery, Goes
  <2>2. Shape(u) /\ u.todo = t.todo /\ u.got = t.got /\ u.held = t.held
    BY <1>1, ShapeSkips
  <2>3. OneProcess => UpToDate(u) BY <1>2, <2>2 DEF UpToDate
  <2> QED BY <1>1, <2>1, <2>2, <2>3, ReportStep
<1>4. CASE q \notin DOMAIN t.got
  <2>1. PICK queue \in FollowUps(q, result, Tail(t.queue)) :
          Goes(s, [t EXCEPT !.todo = "query", !.queue = queue, !.got = got, !.held = held])
    BY <1>4 DEF NextQuery
  <2> DEFINE u == [t EXCEPT !.todo = "query", !.queue = queue, !.got = got, !.held = held]
  <2>2. task' = [task EXCEPT ![s] = u] BY <2>1 DEF Goes
  <2>3. Shape(u) /\ u.todo = "query" /\ u.got = got /\ u.held = held
    <3> HIDE DEF t, q, result, got, held
    <3>1. DOMAIN t = Fields BY <1>1 DEF Shape
    <3>2. /\ u = [x \in Fields |-> u[x]]
          /\ u.todo = "query" /\ u.got = got /\ u.held = held
      BY <3>1 DEF Fields
    <3> QED BY <3>2 DEF Shape
  <2>4. ASSUME OneProcess PROVE UpToDate(u)
    <3>1. /\ result = Result(q, NoRows)
          /\ q[1] = "assets" => \A a \in DOMAIN result : result[a] = asset[a]
      BY <1>2, <2>4, ResultFresh DEF UpToDate
    <3>2. /\ DOMAIN got = {q} \cup DOMAIN t.got /\ got[q] = result
          /\ \A x \in DOMAIN t.got \ {q} : got[x] = t.got[x]
      OBVIOUS
    <3>3. \A x \in DOMAIN u.got : u.got[x] = Result(x, NoRows)
      BY <1>2, <2>3, <2>4, <3>1, <3>2 DEF UpToDate
    <3>4. \A a \in DOMAIN u.held : u.held[a] = asset[a]
      BY <1>2, <2>3, <2>4, <3>1 DEF UpToDate
    <3> QED BY <2>3, <3>3, <3>4 DEF UpToDate
  <2> QED BY <1>1, <2>2, <2>3, <2>4, ReportStep
<1> QED BY <1>3, <1>4

LEMMA EndInv ==
    ASSUME IInv, NEW s \in Slot, Answer(s) \/ Abandon(s)
    PROVE  IInv'
BY ReportStep DEF Answer, Abandon, Done

(* In one process the report that runs has read nothing yet, or the writer *)
(* could not run.                                                          *)
LEMMA WriterInv ==
    ASSUME IInv, NEW s \in Slot, Writer(s)
    PROVE  IInv'
<1>1. UNCHANGED <<place, task>> /\ Idle(s) /\ MayRun(s) BY DEF Writer
<1>2. Tasks' /\ Shapes' BY <1>1 DEF IInv, Tasks, Shapes, Shape
<1>3. Serial'
  <2> SUFFICES ASSUME OneProcess, NEW r \in Slot, task[r] # None
               PROVE  UpToDate(task[r])'
    BY <1>1 DEF Serial, OneProcess
  <2>1. task[r].todo = "start"
    BY <1>1 DEF OneProcess, Idle, MayRun, Running, Waiting, IInv, Shapes, Shape
  <2>2. DOMAIN task[r].got = {} /\ DOMAIN task[r].held = {}
    BY <2>1 DEF IInv, Serial, UpToDate
  <2> QED BY <1>1, <2>2 DEF UpToDate
<1> QED BY <1>2, <1>3 DEF IInv

LEMMA StepInv == IInv /\ [Next]_vars => IInv'
<1> SUFFICES ASSUME IInv, [Next]_vars PROVE IInv' OBVIOUS
<1>1. ASSUME UNCHANGED vars PROVE IInv'
  <2>1. UNCHANGED <<place, task>> /\ UNCHANGED tables BY <1>1 DEF vars
  <2>2. Tasks' /\ Shapes' BY <2>1 DEF IInv, Tasks, Shapes, Shape
  <2>3. asset' = asset /\ \A q : Result(q, NoRows)' = Result(q, NoRows)
    BY <2>1, ResultStays DEF tables
  <2>4. Serial' BY <2>1, <2>3 DEF IInv, Serial, OneProcess, UpToDate
  <2> QED BY <2>2, <2>4 DEF IInv
<1>2. ASSUME NEW s \in Slot, NEW kind \in Kind, NEW root \in Dept \cup {None},
             Ask(s, kind, root)
      PROVE  IInv'
  BY <1>2, AskInv
<1>3. ASSUME NEW s \in Slot, NextQuery(s) PROVE IInv' BY <1>3, NextQueryInv
<1>4. ASSUME NEW s \in Slot, Answer(s) \/ Abandon(s) PROVE IInv' BY <1>4, EndInv
<1>5. ASSUME NEW s \in Slot, Writer(s) PROVE IInv' BY <1>5, WriterInv
<1> QED BY <1>1, <1>2, <1>3, <1>4, <1>5 DEF Next

(* When a report has made its last query, each of its queries would still  *)
(* give what it gave, in one process with any number of slots: no handler  *)
(* writes between the queries of utils_r.py or departments.py.             *)
THEOREM ReportsOneMoment == Spec => []SerialReport
<1>1. IInv => SerialReport
  BY DEF IInv, Serial, UpToDate, SerialReport, Read, At
<1> QED BY <1>1, InitInv, StepInv, PTL DEF Spec

-----------------------------------------------------------------------------
(* The types of the tables, part by part.                                  *)
AssetRows == asset \in [Asset -> AssetRow]
DeptRows == dept \in [Dept -> DeptRow \cup {None}]
TransferRows == transfer \in [Transfer -> TransferRow \cup {None}]
DisposalRows == disposal \in [Disposal -> DisposalRow \cup {None}]
RequestRows == request \in [Request -> RequestRow \cup {None}]
Placed == \A a \in Asset : MayBeParent(asset[a].dept)
TablesOK == /\ AssetRows /\ DeptRows /\ TransferRows /\ DisposalRows /\ RequestRows
            /\ ParentsExist /\ Placed

LEMMA PlainTypes ==
    /\ PlainAsset \in AssetRow /\ PlainAsset.dept = None
    /\ Held \subseteq AssetRow /\ \A row \in Held : row.dept \in Dept \cup {None}
    /\ \A a \in Asset : /\ PlainTransfer(a) \in TransferRow
                        /\ PlainDisposal(a) \in DisposalRow
                        /\ PlainRequest(a) \in RequestRow
<1>1. (CHOOSE c \in Cat : TRUE) \in Cat BY ReportAssumption
<1>2. PlainAsset \in AssetRow /\ PlainAsset.dept = None
  BY <1>1, ReportAssumption DEF PlainAsset, AssetRow, AssetStatus
<1>3. \A d \in Dept \cup {None} : /\ [PlainAsset EXCEPT !.dept = d] \in AssetRow
                                 /\ [PlainAsset EXCEPT !.dept = d].dept = d
  BY <1>2 DEF AssetRow
<1>4. Held \subseteq AssetRow /\ \A row \in Held : row.dept \in Dept \cup {None}
  BY <1>3 DEF Held
<1>5. \A a \in Asset : PlainTransfer(a) \in TransferRow /\ PlainDisposal(a) \in DisposalRow
  BY DEF PlainTransfer, TransferRow, TransferStatus, PlainDisposal, DisposalRow, DisposalStatus
<1>6. \A a \in Asset : PlainRequest(a) \in RequestRow
  BY DEF PlainRequest, RequestRow, MaintenanceStatus
<1> QED BY <1>2, <1>4, <1>5, <1>6

LEMMA AllActiveOK == AllActive => DeptRows /\ ParentsExist /\ \A d \in Dept \cup {None} : MayBeParent(d)
<1>1. [parent |-> None, status |-> "active"] \in DeptRow BY DEF DeptRow, DeptStatus
<1>2. AllActive => \A d \in Dept : dept[d] # None /\ dept[d].parent = None
  BY <1>1, ReportAssumption DEF AllActive
<1> QED BY <1>1, <1>2 DEF AllActive, DeptRows, ParentsExist, MayBeParent

LEMMA NoWorkOK == NoWork => TransferRows /\ DisposalRows /\ RequestRows
BY DEF NoWork, TransferRows, DisposalRows, RequestRows

LEMMA InitTables == Init => TablesOK /\ writes \in 0 .. MaxWrites
<1> SUFFICES ASSUME Init PROVE TablesOK /\ writes \in 0 .. MaxWrites OBVIOUS
<1>1. 0 \in 0 .. MaxWrites /\ MaxWrites \in 0 .. MaxWrites BY ReportAssumption
<1>2. CASE AnyTree
  <2>1. MayBeParent(None) BY DEF MayBeParent
  <2>2. AssetRows /\ Placed BY <1>2, <2>1, PlainTypes DEF AnyTree, AssetRows, Placed
  <2> QED BY <1>1, <1>2, <2>2, NoWorkOK DEF AnyTree, TablesOK, DeptRows
<1>3. CASE AnyHolding
  <2>1. AssetRows /\ Placed BY <1>3, PlainTypes, AllActiveOK DEF AnyHolding, AssetRows, Placed
  <2>2. TransferRows /\ DisposalRows /\ RequestRows
    BY <1>3, PlainTypes DEF AnyHolding, TransferRows, DisposalRows, RequestRows
  <2> QED BY <1>1, <1>3, <2>1, <2>2, AllActiveOK DEF AnyHolding, TablesOK
<1>4. CASE AnyColumns
  <2>1. PICK a \in Asset, row \in {r \in AssetRow : Varies(r)} :
          asset = [b \in Asset |-> IF b = a THEN row ELSE PlainAsset]
    BY <1>4 DEF AnyColumns
  <2>2. AssetRows /\ \A b \in Asset : asset[b].dept \in Dept \cup {None}
    BY <2>1, PlainTypes DEF AssetRows, AssetRow
  <2> QED BY <1>1, <1>4, <2>2, AllActiveOK, NoWorkOK DEF AnyColumns, TablesOK, Placed
<1>5. CASE AnyRequests
  <2>1. AssetRows /\ Placed BY <1>5, PlainTypes, AllActiveOK DEF AnyRequests, AssetRows, Placed
  <2>2. TransferRows /\ DisposalRows /\ RequestRows
    BY <1>5 DEF AnyRequests, TransferRows, DisposalRows, RequestRows
  <2> QED BY <1>1, <1>5, <2>1, <2>2, AllActiveOK DEF AnyRequests, TablesOK
<1>6. CASE AnyTransfers
  <2>1. AssetRows /\ Placed BY <1>6, PlainTypes, AllActiveOK DEF AnyTransfers, AssetRows, Placed
  <2>2. TransferRows /\ DisposalRows /\ RequestRows
    BY <1>6 DEF AnyTransfers, TransferRows, DisposalRows, RequestRows
  <2> QED BY <1>1, <1>6, <2>1, <2>2, AllActiveOK DEF AnyTransfers, TablesOK
<1> QED BY <1>2, <1>3, <1>4, <1>5, <1>6 DEF Init

-----------------------------------------------------------------------------
(* A department that exists goes on to exist.                              *)
LEMMA DeptChange ==
    ASSUME TablesOK, NEW d \in Dept, NEW row \in DeptRow, MayBeParent(row.parent),
           dept' = [dept EXCEPT ![d] = row],
           UNCHANGED <<asset, transfer, disposal, request>>
    PROVE  TablesOK'
<1>1. AssetRows' /\ TransferRows' /\ DisposalRows' /\ RequestRows' /\ DeptRows'
  BY DEF TablesOK, AssetRows, TransferRows, DisposalRows, RequestRows, DeptRows
<1>2. \A e \in Dept : dept[e] # None => dept'[e] # None
  BY ReportAssumption DEF TablesOK, DeptRows
<1>3. \A p : MayBeParent(p) => MayBeParent(p)' BY <1>2 DEF MayBeParent
<1>4. Placed' BY <1>3 DEF TablesOK, Placed
<1>5. ParentsExist'
  BY <1>3 DEF TablesOK, ParentsExist, DeptRows
<1> QED BY <1>1, <1>4, <1>5 DEF TablesOK

LEMMA AssetChange ==
    ASSUME TablesOK, NEW a \in Asset, NEW row \in AssetRow, MayBeParent(row.dept),
           asset' = [asset EXCEPT ![a] = row], dept' = dept,
           TransferRows', DisposalRows', RequestRows'
    PROVE  TablesOK'
<1>1. AssetRows' /\ DeptRows' BY DEF TablesOK, AssetRows, DeptRows
<1>2. ParentsExist' /\ \A p : MayBeParent(p)' = MayBeParent(p)
  BY DEF TablesOK, ParentsExist, MayBeParent
<1>3. Placed' BY <1>2 DEF TablesOK, Placed, AssetRows
<1> QED BY <1>1, <1>2, <1>3 DEF TablesOK

LEMMA OtherChange ==
    ASSUME TablesOK, asset' = asset, dept' = dept, TransferRows', DisposalRows', RequestRows'
    PROVE  TablesOK'
BY DEF TablesOK, AssetRows, DeptRows, ParentsExist, Placed, MayBeParent

LEMMA DepartmentOK ==
    ASSUME TablesOK, NEW d \in Dept, NEW p \in Dept \cup {None}, NEW status \in DeptStatus,
           \/ CreateDepartment(d, p) \/ PatchDepartment(d, p)
           \/ ChangeDepartmentStatus(d, status)
    PROVE  TablesOK'
<1>1. CASE CreateDepartment(d, p)
  <2>1. [parent |-> p, status |-> "active"] \in DeptRow BY DEF DeptRow, DeptStatus
  <2> QED BY <1>1, <2>1, DeptChange DEF CreateDepartment
<1>2. CASE PatchDepartment(d, p)
  <2>1. dept[d] \in DeptRow BY <1>2 DEF PatchDepartment, TablesOK, DeptRows
  <2>2. [dept[d] EXCEPT !.parent = p] \in DeptRow /\ [dept[d] EXCEPT !.parent = p].parent = p
    BY <2>1 DEF DeptRow
  <2>3. dept' = [dept EXCEPT ![d] = [dept[d] EXCEPT !.parent = p]]
    BY <1>2 DEF PatchDepartment
  <2> QED BY <1>2, <2>2, <2>3, DeptChange DEF PatchDepartment
<1>3. CASE ChangeDepartmentStatus(d, status)
  <2>1. dept[d] \in DeptRow /\ MayBeParent(dept[d].parent)
    BY <1>3 DEF ChangeDepartmentStatus, TablesOK, DeptRows, ParentsExist
  <2>2. /\ [dept[d] EXCEPT !.status = status] \in DeptRow
        /\ [dept[d] EXCEPT !.status = status].parent = dept[d].parent
    BY <2>1 DEF DeptRow
  <2>3. dept' = [dept EXCEPT ![d] = [dept[d] EXCEPT !.status = status]]
    BY <1>3 DEF ChangeDepartmentStatus
  <2> QED BY <1>3, <2>1, <2>2, <2>3, DeptChange DEF ChangeDepartmentStatus
<1> QED BY <1>1, <1>2, <1>3

LEMMA StatusKept ==
    ASSUME TablesOK, NEW a \in Asset, NEW status \in AssetStatus,
           asset' = [asset EXCEPT ![a].status = status], dept' = dept,
           TransferRows', DisposalRows', RequestRows'
    PROVE  TablesOK'
<1>1. asset[a] \in AssetRow /\ MayBeParent(asset[a].dept)
  BY DEF TablesOK, AssetRows, Placed
<1>2. /\ [asset[a] EXCEPT !.status = status] \in AssetRow
      /\ [asset[a] EXCEPT !.status = status].dept = asset[a].dept
  BY <1>1 DEF AssetRow
<1>3. asset' = [asset EXCEPT ![a] = [asset[a] EXCEPT !.status = status]] OBVIOUS
<1> QED BY <1>1, <1>2, <1>3, AssetChange

LEMMA AssetOK ==
    ASSUME TablesOK, NEW a \in Asset, NEW d \in Dept \cup {None}, NEW u \in User \cup {None},
           \/ (d # None => dept[d] # None) /\ Assign(a, d, u)
           \/ Activate(a) \/ Deactivate(a) \/ MarkForDisposal(a)
    PROVE  TablesOK'
<1>1. CASE (d # None => dept[d] # None) /\ Assign(a, d, u)
  <2> DEFINE row == [asset[a] EXCEPT !.dept = d, !.officer = u]
  <2>1. asset[a] \in AssetRow BY DEF TablesOK, AssetRows
  <2>2. row \in AssetRow /\ row.dept = d BY <2>1 DEF AssetRow
  <2>3. MayBeParent(d) BY <1>1 DEF MayBeParent
  <2>4. asset' = [asset EXCEPT ![a] = row] BY <1>1 DEF Assign
  <2>5. dept' = dept /\ TransferRows' /\ DisposalRows' /\ RequestRows'
    BY <1>1 DEF Assign, TablesOK, TransferRows, DisposalRows, RequestRows
  <2> HIDE DEF row
  <2> QED BY <2>2, <2>3, <2>4, <2>5, AssetChange
<1>2. CASE Activate(a) \/ Deactivate(a) \/ MarkForDisposal(a)
  <2>1. PICK status \in AssetStatus : SetStatus(a, status)
    BY <1>2 DEF Activate, Deactivate, MarkForDisposal, AssetStatus
  <2>2. disposal' = disposal
    BY <1>2 DEF Activate, Deactivate, MarkForDisposal
  <2>3. dept' = dept /\ TransferRows' /\ DisposalRows' /\ RequestRows'
    BY <2>1, <2>2 DEF SetStatus, TablesOK, TransferRows, DisposalRows, RequestRows
  <2> QED BY <2>1, <2>3, StatusKept DEF SetStatus
<1> QED BY <1>1, <1>2

LEMMA InitiateOK ==
    ASSUME TablesOK, NEW t \in Transfer, NEW a \in Asset, InitiateTransfer(t, a)
    PROVE  TablesOK'
<1>1. asset' = asset /\ dept' = dept /\ DisposalRows' /\ RequestRows'
  BY DEF InitiateTransfer, TablesOK, DisposalRows, RequestRows
<1>2. [asset |-> a, status |-> "initiated", dated |-> FALSE] \in TransferRow
  BY DEF TransferRow, TransferStatus
<1>3. TransferRows' BY <1>2 DEF InitiateTransfer, TablesOK, TransferRows
<1> QED BY <1>1, <1>3, OtherChange

LEMMA SettleOK ==
    ASSUME TablesOK, NEW t \in Transfer,
           NEW status \in {"approved", "rejected", "completed", "cancelled"},
           SettleTransfer(t, status)
    PROVE  TablesOK'
<1>1. asset' = asset /\ dept' = dept /\ DisposalRows' /\ RequestRows'
  BY DEF SettleTransfer, TablesOK, DisposalRows, RequestRows
<1>2. [transfer[t] EXCEPT !.status = status] \in TransferRow
  BY DEF SettleTransfer, TablesOK, TransferRows, TransferRow, TransferStatus
<1>3. TransferRows' BY <1>2 DEF SettleTransfer, TablesOK, TransferRows
<1> QED BY <1>1, <1>3, OtherChange

LEMMA RequestOK == ASSUME TablesOK, NEW q \in Request, ApproveMaintenance(q) PROVE TablesOK'
<1>1. asset' = asset /\ dept' = dept /\ DisposalRows' /\ TransferRows'
  BY DEF ApproveMaintenance, TablesOK, DisposalRows, TransferRows
<1>2. [request[q] EXCEPT !.status = "approved"] \in RequestRow
  BY DEF ApproveMaintenance, TablesOK, RequestRows, RequestRow, MaintenanceStatus
<1>3. RequestRows' BY <1>2 DEF ApproveMaintenance, TablesOK, RequestRows
<1> QED BY <1>1, <1>3, OtherChange

LEMMA DisposalOK ==
    ASSUME TablesOK, NEW x \in Disposal, NEW a \in Asset, NEW recent \in BOOLEAN,
           \/ InitiateDisposal(x, a) \/ ScheduleDisposal(x, recent) \/ ApproveDisposal(x)
    PROVE  TablesOK'
<1>1. asset' = asset /\ dept' = dept /\ TransferRows' /\ RequestRows'
  BY DEF InitiateDisposal, ScheduleDisposal, ApproveDisposal, TablesOK, TransferRows, RequestRows
<1>2. DisposalRows'
  <2>1. CASE InitiateDisposal(x, a)
    <3>1. [asset |-> a, status |-> "initiated", recent |-> FALSE] \in DisposalRow
      BY DEF DisposalRow, DisposalStatus
    <3> QED BY <2>1, <3>1 DEF InitiateDisposal, TablesOK, DisposalRows
  <2>2. CASE ScheduleDisposal(x, recent)
    <3>1. disposal[x] \in DisposalRow
      BY <2>2 DEF ScheduleDisposal, Found, TablesOK, DisposalRows
    <3>2. [disposal[x] EXCEPT !.status = "scheduled", !.recent = recent] \in DisposalRow
      BY <3>1 DEF DisposalRow, DisposalStatus
    <3>3. disposal' = [disposal EXCEPT
                         ![x] = [disposal[x] EXCEPT !.status = "scheduled", !.recent = recent]]
      BY <2>2 DEF ScheduleDisposal
    <3> QED BY <3>2, <3>3 DEF TablesOK, DisposalRows
  <2>3. CASE ApproveDisposal(x)
    <3>1. disposal[x] \in DisposalRow
      BY <2>3 DEF ApproveDisposal, Found, TablesOK, DisposalRows
    <3>2. [disposal[x] EXCEPT !.status = "approved"] \in DisposalRow
      BY <3>1 DEF DisposalRow, DisposalStatus
    <3> QED BY <2>3, <3>2 DEF ApproveDisposal, TablesOK, DisposalRows
  <2> QED BY <2>1, <2>2, <2>3
<1> QED BY <1>1, <1>2, OtherChange

(* Execute and undo.                                                       *)
LEMMA SettledOK ==
    ASSUME TablesOK, NEW x \in Disposal, ExecuteDisposal(x) \/ UndoDisposal(x)
    PROVE  TablesOK'
<1>1. disposal[x] \in DisposalRow /\ disposal[x].asset \in Asset
  BY DEF ExecuteDisposal, UndoDisposal, Found, TablesOK, DisposalRows, DisposalRow
<1>2. PICK status \in DisposalStatus, ofAsset \in AssetStatus : Settle(x, status, ofAsset)
  BY DEF ExecuteDisposal, UndoDisposal, DisposalStatus, AssetStatus
<1>3. [disposal[x] EXCEPT !.status = status] \in DisposalRow
  BY <1>1 DEF DisposalRow
<1>4. DisposalRows' BY <1>2, <1>3 DEF Settle, TablesOK, DisposalRows
<1>5. dept' = dept /\ TransferRows' /\ RequestRows'
  BY <1>2 DEF Settle, SetStatus, TablesOK, TransferRows, RequestRows
<1>6. CASE SetStatus(disposal[x].asset, ofAsset)
  BY <1>1, <1>4, <1>5, <1>6, StatusKept DEF SetStatus
<1>7. CASE asset' = asset
  BY <1>4, <1>5, <1>7, OtherChange
<1> QED BY <1>2, <1>6, <1>7 DEF Settle

LEMMA WriteOK == ASSUME TablesOK, Write PROVE TablesOK'
<1>1. "active" \in DeptStatus BY DEF DeptStatus
<1>2. CASE \E d \in Dept :
             \/ \E p \in Dept \cup {None} : CreateDepartment(d, p) \/ PatchDepartment(d, p)
             \/ \E status \in DeptStatus : ChangeDepartmentStatus(d, status)
  BY <1>1, <1>2, DepartmentOK
<1>3. CASE \E a \in Asset :
             \/ \E d \in Dept \cup {None}, u \in User \cup {None} :
                  (d # None => dept[d] # None) /\ Assign(a, d, u)
             \/ Activate(a) \/ Deactivate(a) \/ MarkForDisposal(a)
  BY <1>3, AssetOK
<1>4. CASE \E a \in Asset, t \in Transfer : InitiateTransfer(t, a) BY <1>4, InitiateOK
<1>5. CASE \E a \in Asset, x \in Disposal : InitiateDisposal(x, a) BY <1>5, DisposalOK
<1>6. CASE \E x \in Disposal :
             \/ \E recent \in BOOLEAN : ScheduleDisposal(x, recent)
             \/ ApproveDisposal(x) \/ ExecuteDisposal(x) \/ UndoDisposal(x)
  <2> PICK x \in Disposal :
             \/ \E recent \in BOOLEAN : ScheduleDisposal(x, recent)
             \/ ApproveDisposal(x) \/ ExecuteDisposal(x) \/ UndoDisposal(x)
    BY <1>6
  <2>1. CASE ExecuteDisposal(x) \/ UndoDisposal(x) BY <2>1, SettledOK
  <2>2. CASE (\E recent \in BOOLEAN : ScheduleDisposal(x, recent)) \/ ApproveDisposal(x)
    <3>1. disposal[x] \in DisposalRow
      BY <2>2 DEF ScheduleDisposal, ApproveDisposal, Found, TablesOK, DisposalRows
    <3>2. disposal[x].asset \in Asset BY <3>1 DEF DisposalRow
    <3> QED BY <2>2, <3>2, DisposalOK
  <2> QED BY <2>1, <2>2
<1> QED BY <1>2, <1>3, <1>4, <1>5, <1>6, SettleOK, RequestOK DEF Write

(* Tables keep their types, every department's parent and every asset's    *)
(* department exists, whatever departments.py, a_transfer.py and the       *)
(* commits of the other routes do.                                         *)
THEOREM ReportingTypeOK == Spec => []TypeOK
<1> USE DEF TablesOK, AssetRows, DeptRows, TransferRows, DisposalRows, RequestRows, Placed
<1>1. Init => TypeOK BY InitTables DEF Init, TypeOK
<1>2. TypeOK /\ [Next]_vars => TypeOK'
  <2> SUFFICES ASSUME TypeOK, [Next]_vars PROVE TypeOK' OBVIOUS
  <2>1. CASE UNCHANGED vars
    BY <2>1 DEF TypeOK, vars, tables, ParentsExist, MayBeParent
  <2>2. CASE /\ UNCHANGED tables /\ writes' = writes
             /\ touched' = {} \/ touched' = touched
    BY <2>2 DEF TypeOK, tables, ParentsExist, MayBeParent
  <2>3. ASSUME NEW s \in Slot, Writer(s) PROVE TypeOK'
    <3>1. TablesOK' BY <2>3, WriteOK DEF Writer, TypeOK
    <3>2. touched' \subseteq Asset \cup Dept BY <2>3 DEF Writer, TypeOK
    <3>3. writes' \in 0 .. MaxWrites BY <2>3, ReportAssumption DEF Writer, TypeOK
    <3> QED BY <3>1, <3>2, <3>3 DEF TypeOK
  <2> QED BY <2>1, <2>2, <2>3 DEF Next, Ask, NextQuery, Answer, Abandon
<1> QED BY <1>1, <1>2, PTL DEF Spec

-----------------------------------------------------------------------------
(* A report of several queries while others write: what it has read of     *)
(* rows nobody changed since it began, and what it has still to ask.       *)
Query == {"departments", "children", "assets", "requests", "disposals", "awaiting", "overdue",
          "transfers", "pending"} \X (Dept \cup {None})
Waits(queue, q) == \E i \in DOMAIN queue : queue[i] = q
Asked(got, queue, q) == q \in DOMAIN got \/ Waits(queue, q)

(* The rows of the assets of d, as far as nobody changed them.             *)
Fresh(rows, d) ==
    \A a \in Asset \ touched :
        /\ a \in DOMAIN rows <=> (~asset[a].deleted /\ asset[a].dept = d)
        /\ a \in DOMAIN rows => rows[a] = asset[a]
FreshHeld(held) ==
    DOMAIN held \subseteq Asset /\ \A a \in DOMAIN held \ touched : held[a] = asset[a]
AllOf == <<"departments", None>>
Compares(todo, queue, got, held) ==
    /\ queue \in Seq(Query)
    /\ todo = "start" => got = NoResults /\ queue = <<AllOf>>
    /\ todo = "query" =>
         /\ AllOf \in DOMAIN got /\ got[AllOf] \subseteq Dept
         /\ \A d \in got[AllOf] : Asked(got, queue, <<"assets", d>>)
         /\ \A i \in DOMAIN queue : queue[i][1] \in {"assets", "requests"}
    /\ \A d \in Dept : <<"assets", d>> \in DOMAIN got => Fresh(got[<<"assets", d>>], d)
    /\ FreshHeld(held)

(* The departments right below p, as far as nobody changed them.           *)
Below(p, ds) ==
    \A d \in Dept \ touched : dept[d] # None /\ dept[d].parent = p => d \in ds
Walks(root, queue, got) ==
    /\ root \in Dept /\ queue \in Seq(Query)
    /\ Asked(got, queue, <<"children", root>>)
    /\ \A i \in DOMAIN queue : queue[i][1] = "children"
    /\ \A p \in Dept : <<"children", p>> \in DOMAIN got =>
         LET ds == got[<<"children", p>>] IN
         /\ ds \subseteq Dept /\ Below(p, ds)
         /\ \A d \in ds : Asked(got, queue, <<"children", d>>)

Rests(t) ==
    /\ t.kind = "comparison" => Compares(t.todo, t.queue, t.got, t.held)
    /\ t.kind = "hierarchy" => Walks(t.root, t.queue, t.got)
Alone == \A s, r \in Slot : task[s] # None /\ task[r] # None => s = r
RestInv == Tasks /\ Shapes /\ Alone /\ \A s \in Slot : task[s] # None => Rests(task[s])

-----------------------------------------------------------------------------
(* Sequences of queries                                                    *)
LEMMA QueueTail ==
    ASSUME NEW S, NEW s \in Seq(S), s # <<>>
    PROVE  /\ Head(s) \in S /\ Head(s) = s[1] /\ 1 \in DOMAIN s /\ Tail(s) \in Seq(S)
           /\ \A i \in DOMAIN Tail(s) : i + 1 \in DOMAIN s /\ Tail(s)[i] = s[i + 1]
           /\ \A q : Waits(s, q) => q = Head(s) \/ Waits(Tail(s), q)
<1>1. /\ Len(s) \in Nat /\ Len(s) >= 1 /\ DOMAIN s = 1 .. Len(s)
  BY EmptySeq, LenProperties
<1>2. /\ Head(s) = s[1] /\ Tail(s) \in Seq(S) /\ Len(Tail(s)) = Len(s) - 1
      /\ \A i \in 1 .. Len(Tail(s)) : Tail(s)[i] = s[i + 1]
  BY HeadTailProperties
<1>3. DOMAIN Tail(s) = 1 .. Len(s) - 1 BY <1>2, LenProperties
<1>4. \A i \in DOMAIN Tail(s) : i + 1 \in DOMAIN s /\ Tail(s)[i] = s[i + 1]
  BY <1>1, <1>2, <1>3
<1>5. ASSUME NEW q, Waits(s, q) PROVE q = Head(s) \/ Waits(Tail(s), q)
  <2>1. PICK i \in DOMAIN s : s[i] = q BY <1>5 DEF Waits
  <2>2. CASE i = 1 BY <1>2, <2>1, <2>2
  <2>3. CASE i # 1
    <3>1. i - 1 \in DOMAIN Tail(s) /\ Tail(s)[i - 1] = s[i] BY <1>1, <1>2, <1>3, <2>1, <2>3
    <3> QED BY <2>1, <3>1 DEF Waits
  <2> QED BY <2>2, <2>3
<1> QED BY <1>1, <1>2, <1>4, <1>5

LEMMA Listed ==
    ASSUME NEW S, IsFiniteSet(S), NEW ds \in SetToSeqs(S)
    PROVE  /\ ds \in Seq(S) /\ Len(ds) \in Nat /\ DOMAIN ds = 1 .. Len(ds)
           /\ \A d \in S : \E i \in DOMAIN ds : ds[i] = d
           /\ \A i \in DOMAIN ds : ds[i] \in S
<1> DEFINE n == Cardinality(S)
           D == 1 .. n
<1>1. n \in Nat BY FS_CardinalityType
<1>2. ds \in [D -> S] /\ \A i, j \in D : i # j => ds[i] # ds[j] BY DEF SetToSeqs
<1>3. IsFiniteSet(D) /\ Cardinality(D) = n BY <1>1, FS_Interval
<1>4. ds \in Injection(D, S) BY <1>2 DEF Injection, IsInjective
<1>5. ds \in Surjection(D, S) BY <1>3, <1>4, FS_Injection
<1>6. \A d \in S : \E i \in D : ds[i] = d BY <1>5 DEF Surjection
<1>7. ds \in Seq(S) /\ Len(ds) = n BY <1>1, <1>2
<1> QED BY <1>1, <1>2, <1>6, <1>7

LEMMA ComparedQueue ==
    ASSUME NEW S \in SUBSET Dept, NEW ds \in SetToSeqs(S)
    PROVE  /\ PerDepartment(ds) \in Seq(Query)
           /\ \A i \in DOMAIN PerDepartment(ds) : PerDepartment(ds)[i][1] \in {"assets", "requests"}
           /\ \A d \in S : Waits(PerDepartment(ds), <<"assets", d>>)
<1> DEFINE p == PerDepartment(ds)
           n == Len(ds)
<1>1. IsFiniteSet(S) BY FS_Subset, ColumnsAssumption
<1>2. /\ n \in Nat /\ DOMAIN ds = 1 .. n /\ \A d \in S : \E i \in 1 .. n : ds[i] = d
      /\ \A i \in 1 .. n : ds[i] \in S
  BY <1>1, Listed
<1>3. \A i \in 1 .. 2 * n : (i + 1) \div 2 \in 1 .. n BY <1>2
<1>4. /\ DOMAIN p = 1 .. 2 * n
      /\ \A i \in 1 .. 2 * n :
           p[i] = <<IF i % 2 = 1 THEN "assets" ELSE "requests", ds[(i + 1) \div 2]>>
  BY DEF PerDepartment
<1> HIDE DEF p, n
<1>5. \A i \in 1 .. 2 * n : p[i] \in Query /\ p[i][1] \in {"assets", "requests"}
  <2> TAKE i \in 1 .. 2 * n
  <2> DEFINE d == ds[(i + 1) \div 2]
  <2>1. d \in Dept BY <1>2, <1>3
  <2>2. CASE i % 2 = 1
    <3>1. p[i] = <<"assets", d>> BY <1>4, <2>2
    <3> HIDE DEF d
    <3> QED BY <2>1, <3>1 DEF Query
  <2>3. CASE i % 2 # 1
    <3>1. p[i] = <<"requests", d>> BY <1>4, <2>3
    <3> HIDE DEF d
    <3> QED BY <2>1, <3>1 DEF Query
  <2> QED BY <2>2, <2>3
<1>6. p \in Seq(Query)
  <2>1. 2 * n \in Nat BY <1>2
  <2>2. p = [i \in 1 .. 2 * n |-> p[i]] BY <1>4 DEF p, PerDepartment, n
  <2>3. p \in [1 .. 2 * n -> Query] BY <1>5, <2>2
  <2> QED BY <2>1, <2>3
<1>7. ASSUME NEW d \in S PROVE Waits(p, <<"assets", d>>)
  <2>1. PICK i \in 1 .. n : ds[i] = d BY <1>2
  <2>2. /\ 2 * i - 1 \in 1 .. 2 * n /\ (2 * i - 1) % 2 = 1
        /\ ((2 * i - 1) + 1) \div 2 = i
    BY <1>2
  <2>3. p[2 * i - 1] = <<"assets", d>> BY <1>4, <2>1, <2>2
  <2> QED BY <1>4, <2>2, <2>3 DEF Waits
<1> QED BY <1>4, <1>5, <1>6, <1>7 DEF p

LEMMA WalkedQueue ==
    ASSUME NEW S \in SUBSET Dept, NEW ds \in SetToSeqs(S), NEW rest \in Seq(Query),
           \A i \in DOMAIN rest : rest[i][1] = "children"
    PROVE  LET p == [i \in DOMAIN ds |-> <<"children", ds[i]>>] \o rest IN
           /\ p \in Seq(Query)
           /\ \A i \in DOMAIN p : p[i][1] = "children"
           /\ \A d \in S : Waits(p, <<"children", d>>)
           /\ \A q : Waits(rest, q) => Waits(p, q)
<1> DEFINE c == [i \in DOMAIN ds |-> <<"children", ds[i]>>]
           p == c \o rest
<1>1. IsFiniteSet(S) BY FS_Subset, ColumnsAssumption
<1>2. /\ Len(ds) \in Nat /\ DOMAIN ds = 1 .. Len(ds) /\ \A d \in S : \E i \in DOMAIN ds : ds[i] = d
      /\ \A i \in DOMAIN ds : ds[i] \in S
  BY <1>1, Listed
<1>3. \A i \in DOMAIN ds : <<"children", ds[i]>> \in Query BY <1>2 DEF Query
<1>4. c \in Seq(Query) /\ Len(c) = Len(ds) /\ DOMAIN c = DOMAIN ds
      /\ \A i \in DOMAIN c : c[i] = <<"children", ds[i]>>
  BY <1>2, <1>3
<1>5. Len(rest) \in Nat /\ DOMAIN rest = 1 .. Len(rest) BY LenProperties
<1> HIDE DEF c
<1>6. /\ p \in Seq(Query) /\ DOMAIN p = 1 .. Len(c) + Len(rest)
      /\ \A i \in 1 .. Len(c) + Len(rest) :
           p[i] = IF i <= Len(c) THEN c[i] ELSE rest[i - Len(c)]
  BY <1>4, ConcatProperties, LenProperties
<1> HIDE DEF p
<1>7. \A i \in DOMAIN p : p[i][1] = "children"
  <2> TAKE i \in DOMAIN p
  <2>1. CASE i <= Len(c)
    <3>1. i \in DOMAIN c /\ p[i] = c[i] BY <1>2, <1>4, <1>5, <1>6, <2>1
    <3> QED BY <1>4, <3>1
  <2>2. CASE ~(i <= Len(c))
    <3>1. i - Len(c) \in DOMAIN rest /\ p[i] = rest[i - Len(c)]
      BY <1>2, <1>4, <1>5, <1>6, <2>2
    <3> QED BY <3>1
  <2> QED BY <2>1, <2>2
<1>8. ASSUME NEW d \in S PROVE Waits(p, <<"children", d>>)
  <2>1. PICK i \in DOMAIN ds : ds[i] = d BY <1>2
  <2>2. i \in DOMAIN p /\ p[i] = c[i] BY <1>2, <1>4, <1>5, <1>6
  <2> QED BY <1>4, <2>1, <2>2 DEF Waits
<1>9. ASSUME NEW q, Waits(rest, q) PROVE Waits(p, q)
  <2>1. PICK i \in DOMAIN rest : rest[i] = q BY <1>9 DEF Waits
  <2>2. /\ Len(c) + i \in DOMAIN p /\ ~(Len(c) + i <= Len(c)) /\ (Len(c) + i) - Len(c) = i
    BY <1>2, <1>4, <1>5, <1>6
  <2>3. p[Len(c) + i] = rest[i] BY <1>6, <2>2
  <2> QED BY <2>1, <2>2, <2>3 DEF Waits
<1> QED BY <1>6, <1>7, <1>8, <1>9 DEF p, c

-----------------------------------------------------------------------------
(* The next query of a comparison                                          *)
LEMMA RowsFresh ==
    ASSUME NEW held, FreshHeld(held), NEW d \in Dept \cup {None}
    PROVE  FreshHeld(Rows(d, held)) /\ (d \in Dept => Fresh(Rows(d, held), d))
<1>1. DOMAIN Rows(d, held) = Assets(d) BY DEF Rows
<1>2. \A a \in Assets(d) : Rows(d, held)[a] = IF a \in DOMAIN held THEN held[a] ELSE asset[a]
  BY DEF Rows
<1>3. Assets(d) \subseteq Asset BY DEF Assets
<1>4. \A a \in Assets(d) \ touched : Rows(d, held)[a] = asset[a] BY <1>2 DEF FreshHeld
<1>5. d \in Dept => Fresh(Rows(d, held), d)
  BY <1>1, <1>4, ReportAssumption DEF Fresh, Assets
<1> QED BY <1>1, <1>3, <1>4, <1>5 DEF FreshHeld

LEMMA ComparesAgain ==
    ASSUME NEW todo \in {"start", "query"}, NEW queue, NEW got, NEW held,
           Compares(todo, queue, got, held), queue # <<>>, Head(queue) \in DOMAIN got
    PROVE  Compares(todo, Tail(queue), got, held)
<1>1. todo = "query" BY DEF Compares, NoResults
<1>2. /\ Tail(queue) \in Seq(Query)
      /\ \A i \in DOMAIN Tail(queue) : i + 1 \in DOMAIN queue /\ Tail(queue)[i] = queue[i + 1]
      /\ \A q : Waits(queue, q) => q = Head(queue) \/ Waits(Tail(queue), q)
  BY QueueTail DEF Compares
<1>3. \A i \in DOMAIN Tail(queue) : Tail(queue)[i][1] \in {"assets", "requests"}
  BY <1>1, <1>2 DEF Compares
<1>4. \A d \in got[AllOf] : Asked(got, Tail(queue), <<"assets", d>>)
  BY <1>1, <1>2 DEF Compares, Asked
<1> QED BY <1>1, <1>2, <1>3, <1>4 DEF Compares

(* The first query is made, and now and more are what is got and asked.    *)
Asks(queue, got, held, more, now) ==
    LET q == Head(queue)
        result == Result(q, held)
    IN /\ queue # <<>> /\ q \notin DOMAIN got
       /\ more \in FollowUps(q, result, Tail(queue))
       /\ DOMAIN now = DOMAIN got \cup {q} /\ now[q] = result
       /\ \A r \in DOMAIN got : now[r] = got[r]
HeldNext(queue, held) ==
    IF Head(queue)[1] = "assets" THEN Result(Head(queue), held) ELSE held

LEMMA ComparesNext ==
    ASSUME NEW todo \in {"start", "query"}, NEW queue, NEW got, NEW held,
           Compares(todo, queue, got, held), NEW more, NEW now,
           Asks(queue, got, held, more, now)
    PROVE  Compares("query", more, now, HeldNext(queue, held))
<1> DEFINE q == Head(queue)
           result == Result(q, held)
           rows == IF q[1] = "assets" THEN result ELSE held
<1> USE DEF Asks, HeldNext
<1>1. /\ q \in Query /\ q = queue[1] /\ 1 \in DOMAIN queue /\ Tail(queue) \in Seq(Query)
      /\ \A i \in DOMAIN Tail(queue) : i + 1 \in DOMAIN queue /\ Tail(queue)[i] = queue[i + 1]
      /\ \A r : Waits(queue, r) => r = q \/ Waits(Tail(queue), r)
  BY QueueTail DEF Compares
<1>2. /\ q \in DOMAIN now /\ DOMAIN now = DOMAIN got \cup {q} /\ now[q] = result
      /\ \A r \in DOMAIN got : r \in DOMAIN now /\ now[r] = got[r]
  OBVIOUS
<1>3. CASE todo = "start"
  <2>1. q = AllOf /\ DOMAIN got = {} BY <1>3, <1>1 DEF Compares, NoResults
  <2>2. q[1] = "departments" /\ rows = held BY <2>1 DEF AllOf
  <2>3. result = Active /\ Active \in SUBSET Dept BY <2>2 DEF Result, Active
  <2>4. PICK ds \in SetToSeqs(Active) : more = PerDepartment(ds) BY <2>2, <2>3 DEF FollowUps
  <2>5. /\ more \in Seq(Query) /\ \A i \in DOMAIN more : more[i][1] \in {"assets", "requests"}
        /\ \A d \in Active : Waits(more, <<"assets", d>>)
    BY <2>3, <2>4, ComparedQueue
  <2>6. \A d : <<"assets", d>> \notin DOMAIN now BY <1>2, <2>1 DEF AllOf
  <2>7. FreshHeld(rows) BY <2>2 DEF Compares
  <2>8. AllOf \in DOMAIN now /\ now[AllOf] = Active BY <1>2, <2>1, <2>3
  <2>9. \A d \in Active : Asked(now, more, <<"assets", d>>) BY <2>5 DEF Asked
  <2> HIDE DEF Active, AllOf
  <2> QED BY <2>3, <2>5, <2>6, <2>7, <2>8, <2>9 DEF Compares
<1>4. CASE todo = "query"
  <2>1. q[1] \in {"assets", "requests"} BY <1>1, <1>4 DEF Compares
  <2>2. more = Tail(queue) BY <2>1 DEF FollowUps
  <2>3. q[2] \in Dept \cup {None} /\ q = <<q[1], q[2]>> BY <1>1 DEF Query
  <2>4. /\ FreshHeld(rows)
        /\ \A d \in Dept : q = <<"assets", d>> => Fresh(result, d)
    <3>1. CASE q[1] = "assets"
      <4>1. result = Rows(q[2], held) /\ rows = result BY <3>1 DEF Result
      <4>2. FreshHeld(result) /\ (q[2] \in Dept => Fresh(result, q[2]))
        BY <2>3, <4>1, RowsFresh DEF Compares
      <4> QED BY <2>3, <4>1, <4>2
    <3>2. CASE q[1] # "assets" BY <3>2 DEF Compares
    <3> QED BY <3>1, <3>2
  <2>5. \A d \in Dept : <<"assets", d>> \in DOMAIN now => Fresh(now[<<"assets", d>>], d)
    <3> TAKE d \in Dept
    <3>1. CASE q = <<"assets", d>> BY <1>2, <2>4, <3>1
    <3>2. CASE q # <<"assets", d>> BY <1>2, <3>2 DEF Compares
    <3> QED BY <3>1, <3>2
  <2>6. AllOf \in DOMAIN now /\ now[AllOf] = got[AllOf] BY <1>2, <1>4 DEF Compares
  <2>7. \A d \in got[AllOf] : Asked(now, more, <<"assets", d>>)
    BY <1>1, <1>2, <1>4, <2>2 DEF Compares, Asked
  <2>8. \A i \in DOMAIN more : more[i][1] \in {"assets", "requests"}
    BY <1>1, <1>4, <2>2 DEF Compares
  <2>9. got[AllOf] \subseteq Dept BY <1>4 DEF Compares
  <2> QED BY <1>1, <2>2, <2>4, <2>5, <2>6, <2>7, <2>8, <2>9 DEF Compares
<1> QED BY <1>3, <1>4

(* The next query of a hierarchy                                           *)
LEMMA WalksAgain ==
    ASSUME NEW root, NEW queue, NEW got, Walks(root, queue, got), queue # <<>>,
           Head(queue) \in DOMAIN got
    PROVE  Walks(root, Tail(queue), got)
<1>1. /\ Tail(queue) \in Seq(Query)
      /\ \A i \in DOMAIN Tail(queue) : i + 1 \in DOMAIN queue /\ Tail(queue)[i] = queue[i + 1]
      /\ \A q : Waits(queue, q) => q = Head(queue) \/ Waits(Tail(queue), q)
  BY QueueTail DEF Walks
<1>2. \A q : Asked(got, queue, q) => Asked(got, Tail(queue), q) BY <1>1 DEF Asked
<1>3. \A i \in DOMAIN Tail(queue) : Tail(queue)[i][1] = "children" BY <1>1 DEF Walks
<1> QED BY <1>1, <1>2, <1>3 DEF Walks

LEMMA WalksNext ==
    ASSUME NEW root, NEW queue, NEW got, NEW held, Walks(root, queue, got),
           NEW more, NEW now, Asks(queue, got, held, more, now)
    PROVE  Walks(root, more, now)
<1> DEFINE q == Head(queue)
           result == Result(q, held)
<1> USE DEF Asks
<1>1. /\ q \in Query /\ q = queue[1] /\ 1 \in DOMAIN queue /\ Tail(queue) \in Seq(Query)
      /\ \A i \in DOMAIN Tail(queue) : i + 1 \in DOMAIN queue /\ Tail(queue)[i] = queue[i + 1]
      /\ \A r : Waits(queue, r) => r = q \/ Waits(Tail(queue), r)
  BY QueueTail DEF Walks
<1>2. /\ q \in DOMAIN now /\ DOMAIN now = DOMAIN got \cup {q} /\ now[q] = result
      /\ \A r \in DOMAIN got : r \in DOMAIN now /\ now[r] = got[r]
  OBVIOUS
<1>3. q[1] = "children" /\ q[2] \in Dept \cup {None} /\ q = <<"children", q[2]>>
  BY <1>1 DEF Walks, Query
<1>4. result = Children(q[2]) /\ result \in SUBSET Dept BY <1>3 DEF Result, Children
<1>5. PICK ds \in SetToSeqs(result) :
        more = [i \in DOMAIN ds |-> <<"children", ds[i]>>] \o Tail(queue)
  BY <1>3 DEF FollowUps
<1>6. \A i \in DOMAIN Tail(queue) : Tail(queue)[i][1] = "children" BY <1>1 DEF Walks
<1>7. /\ more \in Seq(Query) /\ \A i \in DOMAIN more : more[i][1] = "children"
      /\ \A d \in result : Waits(more, <<"children", d>>)
      /\ \A r : Waits(Tail(queue), r) => Waits(more, r)
  BY <1>1, <1>4, <1>5, <1>6, WalkedQueue
<1>8. \A r : Asked(got, queue, r) => Asked(now, more, r) BY <1>1, <1>2, <1>7 DEF Asked
<1>9. ASSUME NEW p \in Dept, <<"children", p>> \in DOMAIN now
      PROVE  LET ds2 == now[<<"children", p>>] IN
             /\ ds2 \subseteq Dept /\ Below(p, ds2)
             /\ \A d \in ds2 : Asked(now, more, <<"children", d>>)
  <2>1. CASE q = <<"children", p>>
    <3>1. now[<<"children", p>>] = Children(p) BY <1>2, <1>3, <1>4, <2>1
    <3>2. Below(p, Children(p)) BY DEF Below, Children
    <3>3. \A d \in Children(p) : Asked(now, more, <<"children", d>>)
      BY <1>2, <1>7, <2>1, <3>1 DEF Asked
    <3> QED BY <1>2, <1>4, <2>1, <3>1, <3>2, <3>3
  <2>2. CASE q # <<"children", p>>
    <3>1. <<"children", p>> \in DOMAIN got /\ now[<<"children", p>>] = got[<<"children", p>>]
      BY <1>2, <1>9, <2>2
    <3> QED BY <1>8, <3>1 DEF Walks
  <2> QED BY <2>1, <2>2
<1>10. root \in Dept /\ Asked(now, more, <<"children", root>>) BY <1>8 DEF Walks
<1> QED BY <1>7, <1>9, <1>10 DEF Walks

-----------------------------------------------------------------------------
LEMMA InitRest == Init => RestInv
BY DEF Init, RestInv, Tasks, Shapes, Alone

LEMMA AskRest ==
    ASSUME RestInv, NEW s \in Slot, NEW kind \in Kind, NEW root \in Dept \cup {None},
           Ask(s, kind, root)
    PROVE  RestInv'
<1> DEFINE t == [kind |-> kind, root |-> root, todo |-> "start",
                 queue |-> FirstQueries(kind, root), got |-> NoResults, held |-> NoRows]
<1>1. task' = [task EXCEPT ![s] = t] BY DEF Ask
<1>2. /\ task'[s] = t /\ \A r \in Slot \ {s} : task'[r] = None
      /\ task' = [r \in Slot |-> task'[r]]
  BY <1>1 DEF Ask, Quiet, Idle, RestInv, Tasks
<1>3. Shape(t)
  <2>1. DOMAIN t = Fields BY DEF Fields
  <2> QED BY <2>1 DEF Shape
<1>4. /\ t.kind = kind /\ t.root = root /\ t.todo = "start" /\ t.got = NoResults
      /\ t.held = NoRows /\ t.queue = FirstQueries(kind, root)
  OBVIOUS
<1>5. DOMAIN NoResults = {} /\ DOMAIN NoRows = {} BY DEF NoResults, NoRows
<1>6. ASSUME kind = "comparison" PROVE Compares("start", <<AllOf>>, NoResults, NoRows)'
  <2>1. AllOf \in Query BY DEF AllOf, Query
  <2>2. <<AllOf>> \in Seq(Query) BY <2>1
  <2> QED BY <1>5, <2>2 DEF Compares, FreshHeld
<1>7. kind = "comparison" => FirstQueries(kind, root) = <<AllOf>> BY DEF FirstQueries, AllOf
<1>8. ASSUME kind = "hierarchy" PROVE Walks(root, <<<<"children", root>>>>, NoResults)'
  <2>1. root \in Dept BY <1>8 DEF Ask
  <2> DEFINE first == <<"children", root>>
  <2>2. first \in Query /\ first[1] = "children" BY <2>1 DEF Query
  <2> HIDE DEF first
  <2>3. <<first>> \in Seq(Query) /\ DOMAIN <<first>> = {1} /\ <<first>>[1] = first BY <2>2
  <2>4. Waits(<<first>>, first) BY <2>3 DEF Waits
  <2>5. \A i \in DOMAIN <<first>> : <<first>>[i][1] = "children" BY <2>2, <2>3
  <2>6. Walks(root, <<first>>, NoResults)' BY <1>5, <2>1, <2>3, <2>4, <2>5 DEF Walks, Asked, first
  <2> QED BY <2>6 DEF first
<1>9. kind = "hierarchy" => FirstQueries(kind, root) = <<<<"children", root>>>>
  BY DEF FirstQueries
<1> HIDE DEF t
<1>10. Rests(task[s])' BY <1>2, <1>4, <1>6, <1>7, <1>8, <1>9 DEF Rests
<1>11. Tasks' /\ Shapes' /\ Alone' BY <1>2, <1>3 DEF Tasks, Shapes, Shape, Alone
<1> QED BY <1>2, <1>10, <1>11 DEF RestInv

(* A report that is at rest stays so, whatever is changed and touched.     *)
LEMMA RestsKept ==
    ASSUME touched \subseteq touched',
           \A a \in Asset \ touched' : asset'[a] = asset[a],
           \A d \in Dept \ touched' : dept'[d] = dept[d],
           NEW r \in Slot, NEW t, task'[r] = t, Rests(t)
    PROVE  Rests(task[r])'
<1>1. \A rows, d : Fresh(rows, d) => Fresh(rows, d)' BY DEF Fresh
<1>2. \A held : FreshHeld(held) => FreshHeld(held)' BY DEF FreshHeld
<1>3. \A p, ds : Below(p, ds) => Below(p, ds)' BY DEF Below
<1>4. t.kind = "comparison" => Compares(t.todo, t.queue, t.got, t.held)'
  BY <1>1, <1>2 DEF Rests, Compares
<1>5. t.kind = "hierarchy" => Walks(t.root, t.queue, t.got)'
  BY <1>3 DEF Rests, Walks
<1>6. Rests(t)' BY <1>4, <1>5 DEF Rests
<1> QED BY <1>6 DEF Rests

(* The report that runs goes on to be t, and no table changes.             *)
LEMMA GoesOnRest ==
    ASSUME RestInv, NEW s \in Slot, task[s] # None, NEW t, Shape(t), Rests(t),
           task' = [task EXCEPT ![s] = t], UNCHANGED <<asset, dept, touched>>
    PROVE  RestInv'
<1>1. task'[s] = t /\ \A r \in Slot \ {s} : task'[r] = task[r] BY DEF RestInv, Tasks
<1>2. Tasks' BY DEF RestInv, Tasks
<1>3. Alone' BY <1>1 DEF RestInv, Alone
<1>4. \A r \in Slot : task'[r] # None => r = s BY <1>1 DEF RestInv, Alone
<1>5. Shapes' BY <1>1, <1>4 DEF Shapes, Shape
<1>6. Rests(task[s])' BY <1>1, RestsKept
<1> QED BY <1>2, <1>3, <1>4, <1>5, <1>6 DEF RestInv

LEMMA NextQueryRest ==
    ASSUME RestInv, NEW s \in Slot, NextQuery(s)
    PROVE  RestInv'
<1> DEFINE t == task[s]
           q == Head(t.queue)
           result == Result(q, t.held)
           got == [r \in DOMAIN t.got \cup {q} |-> IF r = q THEN result ELSE t.got[r]]
           held == IF q[1] = "assets" THEN result ELSE t.held
<1>1. /\ t # None /\ t.queue # <<>> /\ Shape(t) /\ Rests(t) /\ t.todo \in {"start", "query"}
      /\ UNCHANGED <<asset, dept, touched>>
  BY DEF NextQuery, RestInv, Shapes, Shape, tables
<1>2. CASE q \in DOMAIN t.got
  <2> DEFINE u == [t EXCEPT !.queue = Tail(t.queue)]
  <2>1. task' = [task EXCEPT ![s] = u] BY <1>2 DEF NextQuery, Goes
  <2>2. Shape(u) /\ u.todo = t.todo /\ u.got = t.got /\ u.held = t.held
    <3>1. Shape(t) BY <1>1
    <3> HIDE DEF t
    <3> QED BY ONLY <3>1, ShapeSkips
  <2>3. u.kind = t.kind /\ u.root = t.root /\ u.queue = Tail(t.queue)
    BY <1>1 DEF Shape, Fields
  <2> HIDE DEF u, t
  <2>4. Rests(u) BY <1>1, <1>2, <2>2, <2>3, ComparesAgain, WalksAgain DEF Rests
  <2> QED BY <1>1, <2>1, <2>2, <2>4, GoesOnRest DEF t
<1>3. CASE q \notin DOMAIN t.got
  <2>1. PICK queue \in FollowUps(q, result, Tail(t.queue)) :
          Goes(s, [t EXCEPT !.todo = "query", !.queue = queue, !.got = got, !.held = held])
    BY <1>3 DEF NextQuery
  <2> DEFINE u == [t EXCEPT !.todo = "query", !.queue = queue, !.got = got, !.held = held]
  <2>2. task' = [task EXCEPT ![s] = u] BY <2>1 DEF Goes
  <2>3. /\ Shape(u) /\ u.todo = "query" /\ u.queue = queue /\ u.got = got /\ u.held = held
        /\ u.kind = t.kind /\ u.root = t.root
    <3> HIDE DEF t, q, result, got, held
    <3>1. DOMAIN t = Fields BY <1>1 DEF Shape
    <3>2. /\ u = [x \in Fields |-> u[x]]
          /\ u.todo = "query" /\ u.queue = queue /\ u.got = got /\ u.held = held
          /\ u.kind = t.kind /\ u.root = t.root
      BY <3>1 DEF Fields
    <3> QED BY <3>2 DEF Shape
  <2> HIDE DEF u
  <2>a. Asks(t.queue, t.got, t.held, queue, got)
    <3> HIDE DEF t
    <3> QED BY <1>1, <1>3 DEF Asks
  <2>4. t.kind = "comparison" => Compares("query", queue, got, held)
    <3>1. t.kind = "comparison" => Compares(t.todo, t.queue, t.got, t.held) BY <1>1 DEF Rests
    <3> HIDE DEF t
    <3>2. held = HeldNext(t.queue, t.held) BY DEF HeldNext
    <3> QED BY <1>1, <2>a, <3>1, <3>2, ComparesNext
  <2>5. t.kind = "hierarchy" => Walks(t.root, queue, got)
    <3>1. t.kind = "hierarchy" => Walks(t.root, t.queue, t.got) BY <1>1 DEF Rests
    <3> HIDE DEF t
    <3> QED BY <2>a, <3>1, WalksNext
  <2>6. Rests(u) BY <2>3, <2>4, <2>5 DEF Rests
  <2> QED BY <1>1, <2>2, <2>3, <2>6, GoesOnRest
<1> QED BY <1>2, <1>3

LEMMA EndRest ==
    ASSUME RestInv, NEW s \in Slot, Answer(s) \/ Abandon(s)
    PROVE  RestInv'
<1>1. task[s] # None /\ task' = [task EXCEPT ![s] = None]
  BY DEF Answer, Abandon, Read, At, Done
<1>2. \A r \in Slot : task'[r] = None BY <1>1 DEF RestInv, Tasks, Alone
<1> QED BY <1>1, <1>2 DEF RestInv, Tasks, Shapes, Alone

(* What a writer changes is touched from then on.                          *)
LEMMA WriterRest ==
    ASSUME RestInv, NEW s \in Slot, Writer(s)
    PROVE  RestInv'
<1>1. /\ task' = task /\ touched \subseteq touched'
      /\ \A a \in Asset \ touched' : asset'[a] = asset[a]
      /\ \A d \in Dept \ touched' : dept'[d] = dept[d]
  BY DEF Writer
<1>5. ASSUME NEW r \in Slot, task[r] # None PROVE Rests(task[r])'
  <2>1. Rests(task[r]) BY <1>5 DEF RestInv
  <2> QED BY <1>1, <2>1, RestsKept
<1>6. Tasks' /\ Shapes' /\ Alone' BY <1>1 DEF RestInv, Tasks, Shapes, Shape, Alone
<1> QED BY <1>1, <1>5, <1>6 DEF RestInv

LEMMA StepRest == RestInv /\ [Next]_vars => RestInv'
<1> SUFFICES ASSUME RestInv, [Next]_vars PROVE RestInv' OBVIOUS
<1>1. CASE UNCHANGED vars
  <2>1. task' = task /\ asset' = asset /\ dept' = dept /\ touched' = touched
    BY <1>1 DEF vars, tables
  <2>2. \A r \in Slot : Rests(task[r]) => Rests(task[r])' BY <2>1, RestsKept
  <2> QED BY <2>1, <2>2 DEF RestInv, Tasks, Shapes, Shape, Alone
<1>2. ASSUME NEW s \in Slot, NEW kind \in Kind, NEW root \in Dept \cup {None},
             Ask(s, kind, root)
      PROVE  RestInv'
  BY <1>2, AskRest
<1>3. ASSUME NEW s \in Slot, NextQuery(s) PROVE RestInv' BY <1>3, NextQueryRest
<1>4. ASSUME NEW s \in Slot, Answer(s) \/ Abandon(s) PROVE RestInv' BY <1>4, EndRest
<1>5. ASSUME NEW s \in Slot, Writer(s) PROVE RestInv' BY <1>5, WriterRest
<1> QED BY <1>1, <1>2, <1>3, <1>4, <1>5 DEF Next

LEMMA RestAlways == Spec => []RestInv
BY InitRest, StepRest, PTL DEF Spec

(* Whatever other processes write between the queries of the comparison    *)
(* (utils_r.py:137), an asset that none of them changed is counted under   *)
(* its own department and no other, with the columns it has.               *)
THEOREM ReportsComparisonAtRest == Spec => []ComparisonAtRest
<1>1. RestInv => ComparisonAtRest
  <2> SUFFICES ASSUME RestInv, NEW s \in Slot, Answered(s, "comparison"),
                      NEW a \in Assets(None) \ touched
               PROVE  LET got == task[s].got
                          compared == got[<<"departments", None>>]
                      IN /\ {d \in compared : a \in DOMAIN got[<<"assets", d>>]}
                              = compared \cap {asset[a].dept}
                         /\ \A d \in compared \cap {asset[a].dept} :
                              got[<<"assets", d>>][a] = asset[a]
    BY DEF ComparisonAtRest
  <2> DEFINE got == task[s].got
             compared == got[<<"departments", None>>]
  <2>1. /\ task[s] # None /\ task[s].kind = "comparison" /\ task[s].todo = "query"
        /\ task[s].queue = <<>>
    BY DEF Answered, Read, At
  <2>2. Compares("query", <<>>, got, task[s].held) BY <2>1 DEF RestInv, Rests
  <2>3. compared \subseteq Dept /\ \A d \in compared : <<"assets", d>> \in DOMAIN got
    BY <2>2 DEF Compares, Asked, Waits, AllOf
  <2>4. a \in Asset \ touched /\ ~asset[a].deleted BY DEF Assets
  <2>5. \A d \in compared :
          /\ a \in DOMAIN got[<<"assets", d>>] <=> asset[a].dept = d
          /\ asset[a].dept = d => got[<<"assets", d>>][a] = asset[a]
    <3> TAKE d \in compared
    <3>1. Fresh(got[<<"assets", d>>], d) BY <2>2, <2>3 DEF Compares
    <3> HIDE DEF got
    <3> QED BY <2>4, <3>1 DEF Fresh
  <2>6. {d \in compared : a \in DOMAIN got[<<"assets", d>>]} = compared \cap {asset[a].dept}
    BY <2>5
  <2>7. \A d \in compared \cap {asset[a].dept} : got[<<"assets", d>>][a] = asset[a] BY <2>5
  <2> QED BY <2>6, <2>7
<1> QED BY <1>1, RestAlways, PTL

-----------------------------------------------------------------------------
(* What can be reached from p is the least set that is closed.             *)
LEMMA ReachableLeast ==
    ASSUME NEW next, NEW p, NEW S \in SUBSET Dept, next[p] \subseteq S,
           \A e \in S : next[e] \subseteq S
    PROVE  Reachable(next, p) \subseteq S
BY DEF Reachable

LEMMA ReachableClosed ==
    ASSUME NEW next, NEW p, next[p] \subseteq Dept, \A e \in Dept : next[e] \subseteq Dept
    PROVE  /\ Reachable(next, p) \in SUBSET Dept /\ next[p] \subseteq Reachable(next, p)
           /\ \A e \in Reachable(next, p) : next[e] \subseteq Reachable(next, p)
BY DEF Reachable

(* The hierarchy (departments.py:74) shows every department below its root *)
(* by way of departments that nobody changed while it ran, and answers     *)
(* only if no such department is below itself.                             *)
THEOREM ReportsHierarchyAtRest == Spec => []HierarchyAtRest
<1>1. RestInv => HierarchyAtRest
  <2> SUFFICES ASSUME RestInv, NEW s \in Slot, Answered(s, "hierarchy")
               PROVE  LET resting == [p \in Dept |->
                                        {d \in Dept \ touched : /\ dept[d] # None
                                                                /\ dept[d].parent = p}]
                      IN \A d \in Reachable(resting, task[s].root) :
                           /\ d \in BelowRead(task[s].got, task[s].root)
                           /\ d \notin Reachable(resting, d)
    BY DEF HierarchyAtRest
  <2> DEFINE got == task[s].got
             root == task[s].root
             resting == [p \in Dept |-> {d \in Dept \ touched : /\ dept[d] # None
                                                                /\ dept[d].parent = p}]
             read == [d \in Dept |-> ChildrenRead(got, d)]
             known == {d \in Dept : <<"children", d>> \in DOMAIN got}
  <2>1. /\ task[s] # None /\ task[s].kind = "hierarchy" /\ task[s].queue = <<>>
        /\ ~Fails(task[s])
    BY DEF Answered, Read, At
  <2>2. Walks(root, <<>>, got) BY <2>1 DEF RestInv, Rests
  <2>3. root \in known BY <2>2 DEF Walks, Asked, Waits
  <2>4. \A d \in Dept : d \notin BelowRead(got, d) BY <2>1 DEF Fails
  <2>5. \A d \in Dept : /\ read[d] \subseteq Dept
                        /\ d \in known => read[d] \subseteq known /\ resting[d] \subseteq read[d]
    <3> TAKE d \in Dept
    <3>1. CASE d \in known
      <4>1. read[d] = got[<<"children", d>>] BY <3>1 DEF ChildrenRead
      <4>2. /\ read[d] \subseteq Dept /\ Below(d, read[d])
            /\ \A e \in read[d] : Asked(got, <<>>, <<"children", e>>)
        BY <2>2, <3>1, <4>1 DEF Walks
      <4>3. read[d] \subseteq known BY <4>2 DEF Asked, Waits
      <4> QED BY <4>2, <4>3 DEF Below
    <3>2. CASE d \notin known BY <3>2 DEF ChildrenRead
    <3> QED BY <3>1, <3>2
  <2>6. \A d : BelowRead(got, d) = Reachable(read, d) BY DEF BelowRead
  <2>7. known \in SUBSET Dept OBVIOUS
  <2> HIDE DEF known, read, resting
  <2>8. ASSUME NEW p \in known
        PROVE  Reachable(resting, p) \subseteq Reachable(read, p) \cap known
    <3> DEFINE below == Reachable(read, p)
    <3>1. below \subseteq known BY <2>5, <2>7, ReachableLeast
    <3>2. /\ below \in SUBSET Dept /\ read[p] \subseteq below
          /\ \A e \in below : read[e] \subseteq below
      BY <2>5, <2>7, ReachableClosed
    <3> HIDE DEF below
    <3>3. resting[p] \subseteq below /\ \A e \in below : resting[e] \subseteq below
      BY <2>5, <2>7, <3>1, <3>2
    <3>4. Reachable(resting, p) \subseteq below BY <3>2, <3>3, ReachableLeast
    <3> QED BY <3>1, <3>4 DEF below
  <2>9. ASSUME NEW d \in Reachable(resting, root)
        PROVE  d \in BelowRead(got, root) /\ d \notin Reachable(resting, d)
    <3>1. d \in Reachable(read, root) /\ d \in known BY <2>3, <2>8, <2>9
    <3>2. Reachable(resting, d) \subseteq Reachable(read, d) BY <2>8, <3>1
    <3>3. d \notin Reachable(read, d) BY <2>4, <2>6, <2>7, <3>1
    <3> QED BY <2>6, <3>1, <3>2, <3>3
  <2> QED BY <2>9 DEF resting
<1> QED BY <1>1, RestAlways, PTL

-----------------------------------------------------------------------------
(* Sums over finite sets.                                                  *)

(* The partial sums of f over the subsets of S, an element at a time.      *)
Pick(T) == CHOOSE x \in T : TRUE
PartialSums(f, S, g) ==
    g = [T \in SUBSET S |-> IF T = {} THEN 0 ELSE f[Pick(T)] + g[T \ {Pick(T)}]]

(* What holds of a set when it holds of all that are smaller holds of any.*)
LEMMA SubsetInduction ==
    ASSUME NEW S, IsFiniteSet(S), NEW P,
           \A T \in SUBSET S : (\A U \in SUBSET T : U # T => U \in P) => T \in P
    PROVE  \A T \in SUBSET S : T \in P
<1> SUFFICES ASSUME (SUBSET S) \ P # {} PROVE FALSE
  OBVIOUS
<1>1. IsWellFoundedOn(StrictSubsetOrdering(S), SUBSET S)
  <2>1. FiniteSubsetsOf(S) = SUBSET S
    BY FS_FiniteSubsetsOfFinite
  <2>2. IsWellFoundedOn(StrictSubsetOrdering(S), FiniteSubsetsOf(S))
    BY FS_StrictSubsetOrderingWellFounded
  <2> QED BY <2>1, <2>2, Zenon
<1>2. PICK T \in (SUBSET S) \ P : \A U \in (SUBSET S) \ P : <<U, T>> \notin StrictSubsetOrdering(S)
  <2> DEFINE R == StrictSubsetOrdering(S)
             D == SUBSET S
             Q == D \ P
  <2>1. IsWellFoundedOn(R, D) /\ Q \subseteq D /\ Q # {}
    BY <1>1
  <2> HIDE DEF R, D, Q
  <2>2. \E T \in Q : \A U \in Q : ~(<<U, T>> \in R)
    BY ONLY <2>1, WFMin
  <2> QED BY <2>2 DEF R, D, Q
<1>3. \A U \in SUBSET T : U # T => U \in P
  BY <1>2 DEF StrictSubsetOrdering
<1> QED BY <1>2, <1>3

(* There are such sums: up to any size, and so for all.                    *)
LEMMA PartialSumsExist ==
    ASSUME NEW S, IsFiniteSet(S), NEW f, \A x \in S : f[x] \in Int
    PROVE  \E g : PartialSums(f, S, g)
<1> DEFINE Upto(g, n) == \A T \in SUBSET S : Cardinality(T) <= n =>
             g[T] = IF T = {} THEN 0 ELSE f[Pick(T)] + g[T \ {Pick(T)}]
           Solved == {n \in Nat : \E g \in [SUBSET S -> Int] : Upto(g, n)}
<1> HIDE DEF Solved
<1>card. \A T \in SUBSET S : IsFiniteSet(T) /\ Cardinality(T) \in Nat
  BY FS_Subset, FS_CardinalityType
<1>pick. \A T \in SUBSET S : T # {} => Pick(T) \in T
  BY DEF Pick
<1>0. 0 \in Solved
  <2> DEFINE g == [T \in SUBSET S |-> 0]
  <2>1. \A T \in SUBSET S : Cardinality(T) <= 0 => T = {}
    BY <1>card, FS_EmptySet
  <2>2. g \in [SUBSET S -> Int] /\ Upto(g, 0)
    BY <2>1
  <2> HIDE DEF g
  <2> QED BY <2>2 DEF Solved
<1>1. ASSUME NEW n \in Nat, n \in Solved PROVE n + 1 \in Solved
  <2>1. PICK g \in [SUBSET S -> Int] : Upto(g, n)
    BY <1>1 DEF Solved
  <2> DEFINE h == [T \in SUBSET S |->
                     IF Cardinality(T) <= n THEN g[T]
                     ELSE IF T = {} THEN 0 ELSE f[Pick(T)] + g[T \ {Pick(T)}]]
  <2>2. h \in [SUBSET S -> Int]
    BY <1>pick
  <2>3. ASSUME NEW T \in SUBSET S, T # {}
        PROVE  Cardinality(T \ {Pick(T)}) = Cardinality(T) - 1 /\ T \ {Pick(T)} \in SUBSET S
    BY <2>3, <1>card, <1>pick, FS_RemoveElement
  <2>4. ASSUME NEW T \in SUBSET S, Cardinality(T) <= n + 1, T # {}
        PROVE  h[T] = f[Pick(T)] + h[T \ {Pick(T)}]
    <3>1. h[T \ {Pick(T)}] = g[T \ {Pick(T)}]
      BY <2>3, <2>4, <1>card
    <3>2. h[T] = f[Pick(T)] + g[T \ {Pick(T)}]
      BY <2>1, <2>4
    <3> QED BY <3>1, <3>2
  <2>5. h[{}] = 0
    BY <2>1, FS_EmptySet
  <2>6. Upto(h, n + 1)
    <3> HIDE DEF h
    <3> QED BY <2>4, <2>5
  <2> HIDE DEF h
  <2> QED BY <2>2, <2>6 DEF Solved
<1>2. \A n \in Nat : n \in Solved
  <2> SUFFICES ASSUME Nat \ Solved # {} PROVE FALSE
    OBVIOUS
  <2> DEFINE R == OpToRel(<, Nat)
  <2>1. PICK m \in Nat \ Solved : \A k \in Nat \ Solved : ~(k < m)
    <3>1. \E m \in Nat \ Solved : \A k \in Nat \ Solved : <<k, m>> \notin R
      <4> HIDE DEF R
      <4>1. IsWellFoundedOn(R, Nat)
        BY NatLessThanWellFounded, Zenon DEF R
      <4> QED BY <4>1, WFMin
    <3> QED BY <3>1 DEF OpToRel
  <2>2. m - 1 \in Nat
    BY <1>0, <2>1
  <2>3. m - 1 \in Solved
    BY <2>1, <2>2
  <2> QED BY <1>1, <2>1, <2>2, <2>3
<1>3. PICK g \in [SUBSET S -> Int] : Upto(g, Cardinality(S))
  <2>1. Cardinality(S) \in Solved
    BY <1>2, <1>card
  <2> QED BY <2>1 DEF Solved
<1>4. \A T \in SUBSET S : Cardinality(T) <= Cardinality(S)
  BY FS_Subset
<1>5. \A T \in SUBSET S : g[T] = IF T = {} THEN 0 ELSE f[Pick(T)] + g[T \ {Pick(T)}]
  BY <1>3, <1>4
<1> QED BY <1>5 DEF PartialSums

(* Sums of the same terms are the same.                                    *)
LEMMA PartialSumsAgree ==
    ASSUME NEW S, IsFiniteSet(S), NEW A, NEW B, S \subseteq A, S \subseteq B,
           NEW f, NEW h, \A x \in S : f[x] = h[x],
           NEW g, PartialSums(f, A, g), NEW k, PartialSums(h, B, k)
    PROVE  \A T \in SUBSET S : g[T] = k[T]
<1> DEFINE P == {T \in SUBSET S : g[T] = k[T]}
<1>1. ASSUME NEW T \in SUBSET S, \A U \in SUBSET T : U # T => U \in P
      PROVE  T \in P
  <2>1. /\ g[T] = IF T = {} THEN 0 ELSE f[Pick(T)] + g[T \ {Pick(T)}]
        /\ k[T] = IF T = {} THEN 0 ELSE h[Pick(T)] + k[T \ {Pick(T)}]
    BY T \in SUBSET A, T \in SUBSET B DEF PartialSums
  <2>2. T # {} => Pick(T) \in T
    BY DEF Pick
  <2>3. T # {} => g[T \ {Pick(T)}] = k[T \ {Pick(T)}]
    BY <1>1, <2>2
  <2> QED BY <2>1, <2>2, <2>3
<1> HIDE DEF P
<1>2. \A T \in SUBSET S : T \in P
  BY <1>1, SubsetInduction
<1> QED BY <1>2 DEF P

(* Whatever the order of its terms, a sum is the same.                     *)
LEMMA PartialSumsRemove ==
    ASSUME NEW S, IsFiniteSet(S), NEW f, \A x \in S : f[x] \in Int,
           NEW g, PartialSums(f, S, g)
    PROVE  \A T \in SUBSET S : g[T] \in Int /\ \A x \in T : g[T] = f[x] + g[T \ {x}]
<1> DEFINE P == {T \in SUBSET S : g[T] \in Int /\ \A x \in T : g[T] = f[x] + g[T \ {x}]}
<1>1. ASSUME NEW T \in SUBSET S, \A U \in SUBSET T : U # T => U \in P
      PROVE  T \in P
  <2>1. g[T] = IF T = {} THEN 0 ELSE f[Pick(T)] + g[T \ {Pick(T)}]
    BY DEF PartialSums
  <2>2. T # {} => Pick(T) \in T
    BY DEF Pick
  <2>3. \A x \in T : T \ {x} \in P
    BY <1>1
  <2>4. g[T] \in Int
    BY <2>1, <2>2, <2>3
  <2>5. ASSUME NEW x \in T PROVE g[T] = f[x] + g[T \ {x}]
    <3> DEFINE p == Pick(T)
    <3>1. CASE x = p
      BY <2>1, <3>1
    <3>2. CASE x # p
      <4>1. p \in T /\ p \in T \ {x} /\ x \in T \ {p}
        BY <2>2, <3>2
      <4>2. (T \ {x}) \ {p} = (T \ {p}) \ {x}
        OBVIOUS
      <4> HIDE DEF p
      <4>3. g[T \ {x}] = f[p] + g[(T \ {x}) \ {p}] /\ g[T \ {p}] = f[x] + g[(T \ {p}) \ {x}]
        BY <2>3, <4>1
      <4>4. g[(T \ {p}) \ {x}] \in Int
        BY <1>1, <4>1
      <4>5. g[T] = f[p] + g[T \ {p}]
        BY <2>1 DEF p
      <4>6. f[x] \in Int /\ f[p] \in Int
        BY <4>1
      <4> DEFINE rest == g[(T \ {p}) \ {x}]
      <4>7. g[T \ {x}] = f[p] + rest /\ g[T] = f[p] + (f[x] + rest) /\ rest \in Int
        BY <4>2, <4>3, <4>4, <4>5
      <4> HIDE DEF rest
      <4> QED BY ONLY <4>6, <4>7
    <3> QED BY <3>1, <3>2
  <2> QED BY <2>4, <2>5
<1> HIDE DEF P
<1>2. \A T \in SUBSET S : T \in P
  BY <1>1, SubsetInduction
<1> QED BY <1>2 DEF P

(* What the library adds up is one of them.                                *)
LEMMA SumOfParts ==
    ASSUME NEW S, IsFiniteSet(S), NEW f, \A x \in S : f[x] \in Int
    PROVE  \E g : PartialSums(f, S, g) /\ SumFunctionOnSet(f, S) = g[S]
<1>1. SumFunctionOnSet(f, S) = (CHOOSE g : PartialSums(f, S, g))[S]
  BY SMT DEF SumFunctionOnSet, FoldFunctionOnSet, MapThenFoldSet, PartialSums, Pick
<1>2. PartialSums(f, S, CHOOSE g : PartialSums(f, S, g))
  BY PartialSumsExist
<1> QED BY <1>1, <1>2

(* What a sum is: nothing for no terms, and a term more for each element.  *)
LEMMA SumRemoves ==
    ASSUME NEW S, IsFiniteSet(S), NEW f, \A x \in S : f[x] \in Int
    PROVE  /\ SumFunctionOnSet(f, S) \in Int
           /\ S = {} => SumFunctionOnSet(f, S) = 0
           /\ \A x \in S : SumFunctionOnSet(f, S) = f[x] + SumFunctionOnSet(f, S \ {x})
<1>1. PICK g : PartialSums(f, S, g) /\ SumFunctionOnSet(f, S) = g[S]
  BY SumOfParts
<1>2. \A T \in SUBSET S : g[T] \in Int /\ \A x \in T : g[T] = f[x] + g[T \ {x}]
  <2>1. PartialSums(f, S, g)
    BY <1>1
  <2>2. \A x \in S : f[x] \in Int
    OBVIOUS
  <2> QED BY ONLY <2>1, <2>2, IsFiniteSet(S), PartialSumsRemove, SMTT(30)
<1>3. ASSUME NEW x \in S PROVE SumFunctionOnSet(f, S \ {x}) = g[S \ {x}]
  <2> DEFINE T == S \ {x}
  <2>1. IsFiniteSet(T) /\ T \subseteq S /\ \A y \in T : f[y] \in Int
    BY FS_Subset
  <2> HIDE DEF T
  <2>2. PICK k : PartialSums(f, T, k) /\ SumFunctionOnSet(f, T) = k[T]
    BY <2>1, SumOfParts
  <2>3. \A U \in SUBSET T : g[U] = k[U]
    <3>1. T \subseteq T /\ \A y \in T : f[y] = f[y]
      OBVIOUS
    <3>2. PartialSums(f, S, g) /\ PartialSums(f, T, k)
      BY <1>1, <2>2
    <3> QED BY ONLY <3>1, <3>2, <2>1, PartialSumsAgree, SMTT(30)
  <2> QED BY <2>2, <2>3 DEF T
<1>4. S = {} => g[S] = 0
  BY <1>1 DEF PartialSums
<1> QED BY <1>1, <1>2, <1>3, <1>4

(* Only the terms count.                                                   *)
LEMMA SumSame ==
    ASSUME NEW S, IsFiniteSet(S), NEW f, NEW h, \A x \in S : f[x] \in Int /\ f[x] = h[x]
    PROVE  SumFunctionOnSet(f, S) = SumFunctionOnSet(h, S)
<1>1. PICK g : PartialSums(f, S, g) /\ SumFunctionOnSet(f, S) = g[S]
  BY SumOfParts
<1>2. PICK k : PartialSums(h, S, k) /\ SumFunctionOnSet(h, S) = k[S]
  BY SumOfParts
<1> QED BY <1>1, <1>2, PartialSumsAgree

(* A property of every subset that none has to begin with and one element  *)
(* more keeps.                                                             *)
LEMMA SubsetsOneByOne ==
    ASSUME NEW S, IsFiniteSet(S), NEW P, {} \in P,
           \A T \in SUBSET S : \A x \in T : T \ {x} \in P => T \in P
    PROVE  S \in P
<1>1. ASSUME NEW T \in SUBSET S, \A U \in SUBSET T : U # T => U \in P
      PROVE  T \in P
  <2>1. CASE T = {}
    BY <2>1
  <2>2. CASE T # {}
    <3>1. PICK x \in T : TRUE
      BY <2>2
    <3>2. T \ {x} \in P
      BY <1>1, <3>1
    <3> QED BY <3>1, <3>2
  <2> QED BY <2>1, <2>2
<1> QED BY <1>1, SubsetInduction

(* Sums add up term by term.                                               *)
LEMMA SumPlus ==
    ASSUME NEW S, IsFiniteSet(S), NEW f, NEW g, NEW h,
           \A x \in S : g[x] \in Int /\ h[x] \in Int /\ f[x] = g[x] + h[x]
    PROVE  SumFunctionOnSet(f, S) = SumFunctionOnSet(g, S) + SumFunctionOnSet(h, S)
<1> DEFINE P == {T \in SUBSET S : SumFunctionOnSet(f, T)
                                    = SumFunctionOnSet(g, T) + SumFunctionOnSet(h, T)}
<1>1. ASSUME NEW T \in SUBSET S
      PROVE  IsFiniteSet(T) /\ \A x \in T : f[x] \in Int /\ g[x] \in Int /\ h[x] \in Int
  BY FS_Subset
<1>2. {} \in P
  <2>1. SumFunctionOnSet(f, {}) = 0 /\ SumFunctionOnSet(g, {}) = 0 /\ SumFunctionOnSet(h, {}) = 0
    BY FS_EmptySet, SumRemoves
  <2> QED BY <2>1
<1>3. ASSUME NEW T \in SUBSET S, NEW x \in T, T \ {x} \in P PROVE T \in P
  <2>1. /\ SumFunctionOnSet(f, T) = f[x] + SumFunctionOnSet(f, T \ {x})
        /\ SumFunctionOnSet(g, T) = g[x] + SumFunctionOnSet(g, T \ {x})
        /\ SumFunctionOnSet(h, T) = h[x] + SumFunctionOnSet(h, T \ {x})
    BY <1>1, SumRemoves
  <2>2. SumFunctionOnSet(g, T \ {x}) \in Int /\ SumFunctionOnSet(h, T \ {x}) \in Int
    BY <1>1, T \ {x} \in SUBSET S, SumRemoves
  <2>3. f[x] = g[x] + h[x] /\ g[x] \in Int /\ h[x] \in Int
    OBVIOUS
  <2>4. SumFunctionOnSet(f, T \ {x})
          = SumFunctionOnSet(g, T \ {x}) + SumFunctionOnSet(h, T \ {x})
    BY <1>3
  <2> QED BY <2>1, <2>2, <2>3, <2>4
<1> HIDE DEF P
<1>4. S \in P
  BY <1>2, <1>3, SubsetsOneByOne
<1> QED BY <1>4 DEF P

(* Terms that are zero may be left out.                                    *)
LEMMA SumSupport ==
    ASSUME NEW S, IsFiniteSet(S), NEW A \in SUBSET S, NEW f, \A x \in S : f[x] \in Int,
           \A x \in S \ A : f[x] = 0
    PROVE  SumFunctionOnSet(f, S) = SumFunctionOnSet(f, A)
<1> DEFINE P == {T \in SUBSET S : SumFunctionOnSet(f, T) = SumFunctionOnSet(f, T \cap A)}
<1>1. ASSUME NEW T \in SUBSET S
      PROVE  IsFiniteSet(T) /\ \A x \in T : f[x] \in Int
  BY FS_Subset
<1>2. {} \in P
  BY {} \cap A = {}
<1>3. ASSUME NEW T \in SUBSET S, NEW x \in T, T \ {x} \in P PROVE T \in P
  <2>1. SumFunctionOnSet(f, T) = f[x] + SumFunctionOnSet(f, (T \ {x}) \cap A)
    BY <1>1, <1>3, SumRemoves
  <2>2. CASE x \in A
    <3>1. (T \ {x}) \cap A = (T \cap A) \ {x} /\ x \in T \cap A /\ T \cap A \in SUBSET S
      BY <2>2
    <3>2. SumFunctionOnSet(f, T \cap A) = f[x] + SumFunctionOnSet(f, (T \cap A) \ {x})
      BY <1>1, <3>1, SumRemoves
    <3> QED BY <2>1, <3>1, <3>2
  <2>3. CASE x \notin A
    <3>1. (T \ {x}) \cap A = T \cap A /\ T \cap A \in SUBSET S
      BY <2>3
    <3>2. SumFunctionOnSet(f, T \cap A) \in Int
      BY <1>1, <3>1, SumRemoves
    <3>3. f[x] = 0
      BY <2>3
    <3>4. SumFunctionOnSet(f, T) = 0 + SumFunctionOnSet(f, T \cap A)
      BY <2>1, <3>1, <3>3
    <3>5. SumFunctionOnSet(f, T) = SumFunctionOnSet(f, T \cap A)
      BY <3>2, <3>4
    <3> QED BY <3>5
  <2> QED BY <2>2, <2>3
<1> HIDE DEF P
<1>4. S \in P
  BY <1>2, <1>3, SubsetsOneByOne
<1>5. S \cap A = A
  OBVIOUS
<1> QED BY <1>4, <1>5 DEF P

(* A set split in two.                                                     *)
LEMMA CardinalitySplit ==
    ASSUME NEW S, IsFiniteSet(S), NEW A, NEW B, S = A \cup B, A \cap B = {}
    PROVE  Cardinality(S) = Cardinality(A) + Cardinality(B)
<1>1. IsFiniteSet(A) /\ IsFiniteSet(B)
  BY FS_Subset, A \in SUBSET S, B \in SUBSET S
<1>2. Cardinality(A) \in Nat /\ Cardinality(B) \in Nat /\ Cardinality({}) = 0
  BY <1>1, FS_CardinalityType, FS_EmptySet
<1>3. Cardinality(S) = Cardinality(A) + Cardinality(B) - Cardinality(A \cap B)
  BY <1>1, FS_Union
<1>4. Cardinality(A \cap B) = 0
  BY FS_EmptySet
<1> QED BY ONLY <1>2, <1>3, <1>4

(* Counting the elements of S key by key counts each once.                 *)
Fibre(S, key, k) == {a \in S : key[a] = k}
LEMMA SumFibres ==
    ASSUME NEW S, IsFiniteSet(S), NEW K, IsFiniteSet(K), NEW key, \A a \in S : key[a] \in K,
           NEW f, \A k \in K : f[k] = Cardinality(Fibre(S, key, k))
    PROVE  SumFunctionOnSet(f, K) = Cardinality(S)
<1> DEFINE Keyed(T) == {a \in S : key[a] \in T}
           P == {T \in SUBSET K : SumFunctionOnSet(f, T) = Cardinality(Keyed(T))}
<1>1. ASSUME NEW T PROVE IsFiniteSet(Keyed(T)) /\ Cardinality(Keyed(T)) \in Nat
  BY FS_Subset, FS_CardinalityType
<1>2. ASSUME NEW T \in SUBSET K
      PROVE  IsFiniteSet(T) /\ \A k \in T : f[k] \in Int
  <2>1. ASSUME NEW k \in T PROVE f[k] \in Int
    <3>1. Fibre(S, key, k) \in SUBSET S
      BY DEF Fibre
    <3>2. Cardinality(Fibre(S, key, k)) \in Nat
      BY <3>1, FS_Subset, FS_CardinalityType
    <3> QED BY <3>2
  <2> QED BY <2>1, FS_Subset
<1>3. {} \in P
  <2>1. SumFunctionOnSet(f, {}) = 0
    BY FS_EmptySet, SumRemoves
  <2>2. Keyed({}) = {}
    OBVIOUS
  <2> QED BY <2>1, <2>2, FS_EmptySet
<1>4. ASSUME NEW T \in SUBSET K, NEW k \in T, T \ {k} \in P PROVE T \in P
  <2>1. SumFunctionOnSet(f, T) = f[k] + SumFunctionOnSet(f, T \ {k})
    BY <1>2, SumRemoves
  <2> DEFINE A == Fibre(S, key, k)
             B == Keyed(T \ {k})
  <2>2. Keyed(T) = A \cup B /\ A \cap B = {} /\ f[k] = Cardinality(A)
        /\ SumFunctionOnSet(f, T \ {k}) = Cardinality(B)
    BY <1>4 DEF Fibre
  <2>4. Cardinality(Keyed(T)) = Cardinality(A) + Cardinality(B)
    <3> HIDE DEF A, B, Keyed
    <3> QED BY <1>1, <2>2, CardinalitySplit
  <2>5. SumFunctionOnSet(f, T) = Cardinality(Keyed(T))
    <3> HIDE DEF A, B, Keyed, P
    <3> QED BY <2>1, <2>2, <2>4
  <2> QED BY <2>5
<1>5. K \in P
  <2> HIDE DEF P
  <2> QED BY <1>3, <1>4, SubsetsOneByOne
<1>6. Keyed(K) = S
  OBVIOUS
<1> QED BY <1>5, <1>6

-----------------------------------------------------------------------------
(* Asked one after the other: what the reports count.                      *)

LEMMA ImageFinite ==
    ASSUME NEW S, IsFiniteSet(S), NEW f PROVE IsFiniteSet({f[a] : a \in S})
<1> DEFINE T == {f[a] : a \in S}
           g == [a \in S |-> f[a]]
<1>1. g \in Surjection(S, T)
  BY DEF Surjection
<1> HIDE DEF g, T
<1>2. IsFiniteSet(T)
  BY <1>1, FS_Surjection
<1> QED BY <1>2 DEF T

(* The entries of a report that has one for each key that occurs add up to *)
(* all that was counted.                                                   *)
LEMMA TotalOfEntries ==
    ASSUME NEW S, IsFiniteSet(S), NEW key, NEW figures,
           figures = [k \in {key[a] : a \in S} |-> Figures(Fibre(S, key, k))]
    PROVE  Total(figures) = Cardinality(S)
<1> DEFINE K == {key[a] : a \in S}
           f == [k \in K |-> figures[k].count]
<1>1. \A k \in K : f[k] = Cardinality(Fibre(S, key, k))
  BY DEF Figures
<1>2. IsFiniteSet(K) /\ \A a \in S : key[a] \in K
  BY ImageFinite
<1>3. DOMAIN figures = K /\ DOMAIN f = K
  OBVIOUS
<1>4. Total(figures) = SumFunction(f)
  BY <1>3 DEF Total
<1> HIDE DEF K, f
<1>5. SumFunctionOnSet(f, K) = Cardinality(S)
  BY <1>1, <1>2, SumFibres
<1> QED BY <1>3, <1>4, <1>5 DEF SumFunction

LEMMA AssetsTypes ==
    ASSUME TypeOK, NEW d
    PROVE  /\ IsFiniteSet(Assets(d)) /\ Assets(d) \subseteq Asset
           /\ \A S \in SUBSET Assets(d) : IsFiniteSet(S)
           /\ \A a \in Assets(d) : asset[a] \in AssetRow
<1>1. Assets(d) \subseteq Asset /\ \A a \in Asset : asset[a] \in AssetRow
  BY DEF Assets, TypeOK
<1>2. \A S \in SUBSET Assets(d) : IsFiniteSet(S)
  BY <1>1, FS_Subset, ColumnsAssumption
<1> QED BY <1>1, <1>2

LEMMA AllAssets == OfCategory(Assets(None), None) = Assets(None)
BY DEF OfCategory

(* The report of missing data counts, for each of its fields, the assets   *)
(* that have none.                                                         *)
LEMMA MissingCounts ==
    ASSUME NEW f PROVE Missing(f) = Cardinality({a \in Assets(None) : f \in MissingFields(a)})
<1> DEFINE S == {a \in Assets(None) : MissingFields(a) # {}}
           fields == UNION {MissingFields(a) : a \in S}
           F == {a \in Assets(None) : f \in MissingFields(a)}
           G == {a \in S : f \in MissingFields(a)}
<1>1. F = G
  OBVIOUS
<1>2. f \in fields <=> G # {}
  OBVIOUS
<1>3. Missing(f) = IF f \in fields THEN Cardinality(G) ELSE 0
  BY DEF Missing, MissingData
<1> HIDE DEF F, G, fields
<1>4. Missing(f) = Cardinality(F)
  BY <1>1, <1>2, <1>3, FS_EmptySet
<1> QED BY <1>4 DEF F

LEMMA OfficersCounted ==
    ASSUME TypeOK
    PROVE  LET S == Assets(None) IN
           /\ Total(UserResponsibility(None)) = Cardinality({a \in S : Officer(a) # None})
           /\ Missing("officer") = Cardinality({a \in S : Officer(a) = None})
<1> DEFINE S == Assets(None)
           held == {a \in S : Officer(a) # None}
           key == [a \in held |-> Officer(a)]
           entries == [k \in {key[a] : a \in held} |-> Figures(Fibre(held, key, k))]
<1>1. UserResponsibility(None) = entries
  <2>1. /\ {key[a] : a \in held} = {Officer(a) : a \in held}
        /\ \A k : Fibre(held, key, k) = {a \in held : Officer(a) = k}
    BY DEF Fibre
  <2> HIDE DEF key
  <2> QED BY <2>1 DEF UserResponsibility, By
<1>2. Total(entries) = Cardinality(held)
  <2>1. IsFiniteSet(held)
    BY AssetsTypes
  <2> HIDE DEF held, key
  <2> QED BY <2>1, TotalOfEntries
<1>3. {a \in S : "officer" \in MissingFields(a)} = {a \in S : Officer(a) = None}
  BY DEF MissingFields, Officer
<1> HIDE DEF entries
<1> QED BY <1>1, <1>2, <1>3, MissingCounts

LEMMA OfficersHold == TypeOK => OfficersAgree
<1> SUFFICES ASSUME TypeOK PROVE OfficersAgree
  OBVIOUS
<1> DEFINE S == Assets(None)
           held == {a \in S : Officer(a) # None}
           free == {a \in S : Officer(a) = None}
<1>1. Unassigned(None).officer = free
  BY AllAssets DEF Unassigned
<1>2. Utilization(None).assigned = held /\ Utilization(None).unassigned = free
  BY AllAssets DEF Utilization
<1>3. Dashboard(None).total.count = Cardinality(S)
  BY DEF Dashboard, Figures
<1>4. ExecutiveAssets.unassigned = Cardinality(free)
  BY DEF ExecutiveAssets
<1>5. Cardinality(S) = Cardinality(held) + Cardinality(free)
  BY CardinalitySplit, AssetsTypes
<1>6. Total(UserResponsibility(None)) = Cardinality(held) /\ Missing("officer") = Cardinality(free)
  BY OfficersCounted
<1> HIDE DEF S, held, free
<1> QED BY <1>1, <1>2, <1>3, <1>4, <1>5, <1>6 DEF OfficersAgree

LEMMA PlacesHold == TypeOK => PlacesAgree
<1> SUFFICES ASSUME TypeOK PROVE PlacesAgree
  OBVIOUS
<1> DEFINE S == Assets(None)
           placed == {a \in S : asset[a].dept # None}
           homeless == {a \in S : asset[a].dept = None}
           key == [a \in placed |-> Department(a)]
           entries == [k \in {key[a] : a \in placed} |-> Figures(Fibre(placed, key, k))]
           byDept == Dashboard(None).department
<1>1. byDept = entries
  <2>1. /\ {key[a] : a \in placed} = {Department(a) : a \in placed}
        /\ \A k : Fibre(placed, key, k) = {a \in placed : Department(a) = k}
    BY DEF Fibre
  <2> HIDE DEF key
  <2> QED BY <2>1 DEF Dashboard, By
<1>2. Total(byDept) = Cardinality(placed)
  <2>1. IsFiniteSet(placed)
    BY AssetsTypes
  <2> HIDE DEF placed, key, byDept
  <2> QED BY <1>1, <2>1, TotalOfEntries
<1>3. Missing("dept") = Cardinality(homeless)
  <2>1. {a \in S : "dept" \in MissingFields(a)} = homeless
    BY DEF MissingFields
  <2> QED BY <2>1, MissingCounts
<1>4. Cardinality(S) = Cardinality(homeless) + Cardinality(placed)
  <2>1. S = homeless \cup placed /\ homeless \cap placed = {} /\ IsFiniteSet(S)
    BY AssetsTypes
  <2> HIDE DEF S, homeless, placed
  <2> QED BY <2>1, CardinalitySplit
<1>5. Dashboard(None).total.count = Cardinality(S)
  BY DEF Dashboard, Figures
<1>6. ASSUME NEW d \in DOMAIN byDept PROVE byDept[d] = DepartmentAssets(d).total
  <2>1. d \in {Department(a) : a \in placed} /\ byDept[d] = Figures({a \in placed : Department(a) = d})
    BY <1>6 DEF Dashboard, By
  <2>2. d # None
    BY <2>1 DEF Department
  <2>3. {a \in placed : Department(a) = d} = Assets(d)
    BY <2>2 DEF Assets, Department
  <2>4. DepartmentAssets(d).total = Figures(Assets(d))
    BY DEF DepartmentAssets
  <2> QED BY <2>1, <2>3, <2>4
<1>7. ASSUME NEW k \in DOMAIN Geographic
      PROVE  Geographic[k].count = Utilization(None).county[k].assigned
                                     + Utilization(None).county[k].unassigned
  <2> DEFINE A == {a \in {a \in S : Officer(a) # None} : CountyOf(a) = k}
             B == {a \in S \ {a \in S : Officer(a) # None} : CountyOf(a) = k}
             C == {a \in S : CountyOf(a) = k}
  <2>1. k \in {CountyOf(a) : a \in S} /\ Geographic[k].count = Cardinality(C)
    BY <1>7 DEF Geographic, By, Figures
  <2>2. /\ Utilization(None).county[k].assigned = Cardinality(A)
        /\ Utilization(None).county[k].unassigned = Cardinality(B)
    BY <2>1, AllAssets DEF Utilization
  <2>3. C = A \cup B /\ A \cap B = {} /\ IsFiniteSet(C)
    BY AssetsTypes
  <2> HIDE DEF A, B, C
  <2> QED BY <2>1, <2>2, <2>3, CardinalitySplit
<1> HIDE DEF S, placed, homeless
<1>8. Missing("dept") + Total(byDept) = Dashboard(None).total.count
  BY <1>2, <1>3, <1>4, <1>5
<1> QED BY <1>6, <1>7, <1>8 DEF PlacesAgree

LEMMA AgesHold == TypeOK => AgesAgree
<1> SUFFICES ASSUME TypeOK PROVE AgesAgree
  OBVIOUS
<1> DEFINE S == Assets(None)
           aged == {a \in S : asset[a].age # None}
           ageless == {a \in S : asset[a].age = None}
           ages == AgeAnalysis(None)
           key == [a \in aged |-> Bracket(a)]
           entries == [k \in {key[a] : a \in aged} |-> Figures(Fibre(aged, key, k))]
           strict == DepreciationReport(None, None, TRUE)
           lenient == DepreciationReport(None, None, FALSE)
<1>types. \A a \in S : /\ asset[a].age \in Int \cup {None} /\ asset[a].life \in Int \cup {None}
                       /\ asset[a].cost \in Int /\ Value(a) \in Int
  <2> SUFFICES ASSUME NEW a \in S
               PROVE  /\ asset[a].age \in Int \cup {None} /\ asset[a].life \in Int \cup {None}
                      /\ asset[a].cost \in Int /\ Value(a) \in Int
    OBVIOUS
  <2>1. asset[a] \in AssetRow
    BY AssetsTypes
  <2>2. /\ asset[a].age \in Ages \cup {None} /\ asset[a].life \in Lives \cup {None}
        /\ asset[a].cost \in Costs /\ asset[a].value \in Values \cup {None}
    BY <2>1 DEF AssetRow
  <2>3. /\ asset[a].age \in Int \cup {None} /\ asset[a].life \in Int \cup {None}
        /\ asset[a].cost \in Int /\ asset[a].value \in Int \cup {None}
    <3>1. Ages \subseteq Int /\ Lives \subseteq Int
      BY ColumnsAssumption
    <3>2. Costs \subseteq Int /\ Values \subseteq Int
      BY ColumnsAssumption
    <3>3. asset[a].age \in Int \cup {None} /\ asset[a].life \in Int \cup {None}
      BY ONLY <2>2, <3>1
    <3>4. asset[a].cost \in Int /\ asset[a].value \in Int \cup {None}
      BY ONLY <2>2, <3>2
    <3> QED BY ONLY <3>3, <3>4
  <2>4. CASE asset[a].value \in {None, 0}
    BY <2>3, <2>4 DEF Value
  <2>5. CASE asset[a].value \notin {None, 0}
    BY <2>3, <2>5 DEF Value
  <2> QED BY <2>4, <2>5
<1>1. ages.bracket = entries /\ ages.count = Cardinality(aged)
  <2>1. /\ {key[a] : a \in aged} = {Bracket(a) : a \in aged}
        /\ \A k : Fibre(aged, key, k) = {a \in aged : Bracket(a) = k}
    BY DEF Fibre
  <2> HIDE DEF key
  <2> QED BY <2>1 DEF AgeAnalysis, By
<1>2. Total(ages.bracket) = ages.count
  <2>1. IsFiniteSet(aged)
    BY AssetsTypes
  <2> HIDE DEF aged, key, ages
  <2> QED BY <1>1, <2>1, TotalOfEntries
<1>3. ages.count + Missing("age") = Dashboard(None).total.count
  <2>1. {a \in S : "age" \in MissingFields(a)} = ageless
    BY DEF MissingFields
  <2>2. Missing("age") = Cardinality(ageless)
    BY <2>1, MissingCounts
  <2>3. Dashboard(None).total.count = Cardinality(S)
    BY DEF Dashboard, Figures
  <2>4. S = aged \cup ageless /\ aged \cap ageless = {} /\ IsFiniteSet(S)
    BY AssetsTypes
  <2> HIDE DEF S, aged, ageless, ages
  <2> QED BY <1>1, <2>2, <2>3, <2>4, CardinalitySplit
<1>4. \A a \in S : ThisMonth(a) \/ LastMonth(a) => Bracket(a) = "0-1 years"
  <2> SUFFICES ASSUME NEW a \in S, ThisMonth(a) \/ LastMonth(a) PROVE Bracket(a) = "0-1 years"
    OBVIOUS
  <2>1. asset[a].age \in Int /\ asset[a].age <= 60
    BY <1>types DEF ThisMonth, LastMonth
  <2>2. Younger(a, 1)
    BY <2>1 DEF Younger, Quarters
  <2> QED BY <2>2 DEF Bracket
<1>5. \A a \in ages.ending : asset[a].life > 2 => Bracket(a) # "0-1 years"
  <2> SUFFICES ASSUME NEW a \in ages.ending, asset[a].life > 2 PROVE Bracket(a) # "0-1 years"
    OBVIOUS
  <2>1. /\ a \in aged /\ asset[a].life # None
        /\ 1461 * asset[a].life - Quarters(a) <= 2 * 1461
    BY DEF AgeAnalysis
  <2>2. asset[a].life \in Int /\ asset[a].age \in Int
    BY <2>1, <1>types
  <2>3. ~Younger(a, 1)
    BY <2>1, <2>2 DEF Younger, Quarters
  <2> QED BY <2>3 DEF Bracket
<1>6. strict.assets = {a \in lenient.assets : asset[a].rate # 0}
  BY DEF DepreciationReport
<1>7. \A a \in NearlyDepreciated(None, None) : asset[a].value \notin {None, 0}
  <2> SUFFICES ASSUME NEW a \in NearlyDepreciated(None, None), asset[a].value \in {None, 0}
               PROVE  FALSE
    OBVIOUS
  <2>1. a \in S /\ asset[a].cost > 0 /\ 100000 * Lost(a) > 80005 * asset[a].cost
    BY AllAssets DEF NearlyDepreciated, DepreciationReport
  <2>2. asset[a].cost \in Int
    BY <2>1, <1>types
  <2>3. Lost(a) = 0
    BY <2>2 DEF Lost, Value
  <2> QED BY ONLY <2>1, <2>2, <2>3
<1>8. lenient.original = lenient.current + lenient.lost
  <2> DEFINE L == lenient.assets
             cost == [a \in L |-> asset[a].cost]
             value == [a \in L |-> Value(a)]
             lost == [a \in L |-> asset[a].cost - Value(a)]
  <2>1. /\ lenient.original = SumFunctionOnSet(cost, L)
        /\ lenient.current = SumFunctionOnSet(value, L)
        /\ lenient.lost = SumFunctionOnSet(lost, L)
    <3>1. DOMAIN cost = L /\ DOMAIN value = L /\ DOMAIN lost = L
      OBVIOUS
    <3>2. /\ lenient.original = SumFunction(cost) /\ lenient.current = SumFunction(value)
          /\ lenient.lost = SumFunction(lost)
      BY DEF DepreciationReport, Lost
    <3> HIDE DEF L, cost, value, lost, lenient
    <3> QED BY <3>1, <3>2 DEF SumFunction
  <2>2. L \in SUBSET S
    BY AllAssets DEF DepreciationReport
  <2>3. IsFiniteSet(L)
    BY <2>2, AssetsTypes
  <2>4. \A a \in L : value[a] \in Int /\ lost[a] \in Int /\ cost[a] = value[a] + lost[a]
    <3> HIDE DEF S, L
    <3> QED BY <2>2, <1>types
  <2> HIDE DEF L, cost, value, lost, lenient
  <2> QED BY <2>1, <2>3, <2>4, SumPlus
<1> QED BY <1>2, <1>3, <1>4, <1>5, <1>6, <1>7, <1>8 DEF AgesAgree

InCategory(A, k) == {a \in A : Category(a) = k}

(* Counts by category, over all categories, add up to a count.             *)
LEMMA CountedByCategory ==
    ASSUME TypeOK, NEW A, A \subseteq Assets(None), NEW f, DOMAIN f = Cat,
           \A k \in Cat : f[k] = Cardinality(InCategory(A, k))
    PROVE  SumFunction(f) = Cardinality(A)
<1> DEFINE key == [a \in A |-> Category(a)]
<1>1. IsFiniteSet(A) /\ IsFiniteSet(Cat)
  BY AssetsTypes, ColumnsAssumption
<1>2. \A a \in A : key[a] \in Cat
  <2>1. \A a \in A : asset[a] \in AssetRow
    BY AssetsTypes
  <2> QED BY <2>1 DEF Category, AssetRow
<1>3. \A k \in Cat : f[k] = Cardinality(Fibre(A, key, k))
  <2>1. \A k : Fibre(A, key, k) = InCategory(A, k)
    BY DEF Fibre, InCategory
  <2> QED BY <2>1
<1> HIDE DEF key
<1>4. SumFunctionOnSet(f, Cat) = Cardinality(A)
  BY <1>1, <1>2, <1>3, SumFibres
<1> QED BY <1>4 DEF SumFunction

LEMMA StatesHold == TypeOK => StatesAgree
<1> SUFFICES ASSUME TypeOK PROVE StatesAgree
  OBVIOUS
<1> DEFINE S == Assets(None)
           operational == {a \in S : Status(a) = "Operational"}
           broken == {a \in S : Status(a) \in {"Impaired", "Under Maintenance"}}
           impaired == {a \in S : Status(a) = "Impaired"}
           repaired == {a \in S : Status(a) = "Under Maintenance"}
           summary == AssetsSummary(None, None)
           executive == ExecutiveAssets
           attention == StatusCondition(None, None).attention
           all == Dashboard(None)
<1>1. SumFunction(summary.operational) = executive.operational
  <2> DEFINE f == summary.operational
  <2>1. DOMAIN f = Cat /\ \A k \in Cat : f[k] = Cardinality(InCategory(operational, k))
    <3>1. /\ DOMAIN f = Cat
          /\ \A k \in Cat : f[k] = Cardinality({a \in S : Category(a) = k
                                                         /\ Status(a) \in {"Operational"}})
      BY AllAssets DEF AssetsSummary
    <3>2. \A k : {a \in S : Category(a) = k /\ Status(a) \in {"Operational"}}
                   = InCategory(operational, k)
      BY DEF InCategory
    <3> HIDE DEF f, S, operational
    <3> QED BY <3>1, <3>2
  <2>2. operational \subseteq S /\ executive.operational = Cardinality(operational)
    BY DEF ExecutiveAssets
  <2>3. SumFunction(f) = Cardinality(operational)
    <3> HIDE DEF f, operational
    <3> QED BY <2>1, <2>2, CountedByCategory
  <2> QED BY <2>2, <2>3
<1>2. SumFunction(summary.impaired) = Cardinality(broken)
  <2> DEFINE f == summary.impaired
  <2>1. DOMAIN f = Cat /\ \A k \in Cat : f[k] = Cardinality(InCategory(broken, k))
    <3>1. /\ DOMAIN f = Cat
          /\ \A k \in Cat : f[k] = Cardinality({a \in S : Category(a) = k
                                          /\ Status(a) \in {"Impaired", "Under Maintenance"}})
      BY AllAssets DEF AssetsSummary
    <3>2. \A k : {a \in S : Category(a) = k /\ Status(a) \in {"Impaired", "Under Maintenance"}}
                   = InCategory(broken, k)
      BY DEF InCategory
    <3> HIDE DEF f, S, broken
    <3> QED BY <3>1, <3>2
  <2>2. broken \subseteq S
    OBVIOUS
  <2>3. SumFunction(f) = Cardinality(broken)
    <3> HIDE DEF f, broken
    <3> QED BY <2>1, <2>2, CountedByCategory
  <2> QED BY <2>3
<1>3. Cardinality(broken)
        = Cardinality({a \in attention : Status(a) = "Impaired"}) + executive.maintenance
  <2>1. {a \in attention : Status(a) = "Impaired"} = impaired
    BY AllAssets DEF StatusCondition
  <2>2. executive.maintenance = Cardinality(repaired)
    BY DEF ExecutiveAssets
  <2>3. broken = impaired \cup repaired /\ impaired \cap repaired = {} /\ IsFiniteSet(broken)
    BY AssetsTypes
  <2> HIDE DEF broken, impaired, repaired, executive, attention
  <2> QED BY <2>1, <2>2, <2>3, CardinalitySplit
<1>4. executive.attention
        = {a \in attention : Status(a) # "Under Maintenance" \/ Worn(a)}
  BY AllAssets DEF ExecutiveAssets, StatusCondition
<1>5. ASSUME NEW c \in DOMAIN all.category PROVE CategorySpecific(c, None) = all.category[c]
  <2>1. c \in {Category(a) : a \in S} /\ all.category[c] = Figures({a \in S : Category(a) = c})
    BY <1>5 DEF Dashboard, By
  <2>2. c \in Cat
    BY <2>1, AssetsTypes DEF Category, AssetRow
  <2>3. OfCategory(S, c) = {a \in S : Category(a) = c}
    BY <2>2, ReportAssumption DEF OfCategory, Category
  <2> QED BY <2>1, <2>3 DEF CategorySpecific
<1>6. ASSUME NEW k \in DOMAIN all.condition PROVE ByCondition(None, None)[k] = all.condition[k]
  <2>1. /\ k \in {ConditionOf(a) : a \in S}
        /\ all.condition[k] = Figures({a \in S : ConditionOf(a) = k})
    BY <1>6 DEF Dashboard, By
  <2>2. k \in Condition \cup {"unknown"}
    BY <2>1, AssetsTypes DEF ConditionOf, AssetRow
  <2> QED BY <2>1, <2>2, AllAssets DEF ByCondition
<1> HIDE DEF summary, executive, attention, all, broken
<1>7. SumFunction(summary.impaired)
        = Cardinality({a \in attention : Status(a) = "Impaired"}) + executive.maintenance
  BY <1>2, <1>3
<1> QED BY <1>1, <1>4, <1>5, <1>6, <1>7 DEF StatesAgree, summary, executive, attention, all

(* A request without a cost adds nothing to the cost of all.               *)
LEMMA CostsHold == ASSUME TypeOK, NEW d PROVE MaintenanceCost(d).cost = MaintenanceSummary(d).cost
<1> DEFINE S == Requests(d)
           A == {q \in S : request[q].cost # None}
           f == [q \in S |-> Spent(q)]
           g == [q \in A |-> Spent(q)]
<1>1. /\ MaintenanceSummary(d).cost = SumFunction(f) /\ DOMAIN f = S
      /\ MaintenanceCost(d).cost = SumFunction(g) /\ DOMAIN g = A
  BY DEF MaintenanceSummary, MaintenanceCost
<1>2. IsFiniteSet(S) /\ IsFiniteSet(A) /\ A \in SUBSET S
  <2>1. S \in SUBSET Request /\ A \in SUBSET S
    BY DEF Requests
  <2> HIDE DEF S, A
  <2> QED BY <2>1, FS_Subset, ColumnsAssumption
<1>3. \A q \in S : f[q] \in Int /\ (q \in S \ A => f[q] = 0) /\ (q \in A => f[q] = g[q])
  <2> SUFFICES ASSUME NEW q \in S PROVE Spent(q) \in Int /\ (q \notin A => Spent(q) = 0)
    OBVIOUS
  <2>1. request[q] \in RequestRow
    BY DEF Requests, TypeOK
  <2>2. request[q].cost \in Costs \cup {None}
    BY <2>1 DEF RequestRow
  <2>3. Costs \subseteq Int
    BY ColumnsAssumption
  <2>4. CASE request[q].cost = None
    BY <2>4 DEF Spent
  <2>5. CASE request[q].cost # None
    BY <2>2, <2>3, <2>5 DEF Spent
  <2> QED BY <2>4, <2>5
<1> HIDE DEF S, A, f, g
<1>4. SumFunctionOnSet(f, S) = SumFunctionOnSet(f, A)
  BY <1>2, <1>3, SumSupport
<1>5. SumFunctionOnSet(f, A) = SumFunctionOnSet(g, A)
  BY <1>2, <1>3, SumSame
<1> QED BY <1>1, <1>4, <1>5 DEF SumFunction

LEMMA WorkHolds == TypeOK => WorkReportsAgree
<1> SUFFICES ASSUME TypeOK PROVE WorkReportsAgree
  OBVIOUS
<1>1. \A d : Open(d) = MaintenanceSummary(d).pending
                         \cup WithStatus(MaintenanceSummary(d).requests, {"approved"})
  BY DEF Open, MaintenanceSummary, WithStatus
<1>2. \A d : Upcoming(d, {"past", "future"}) \subseteq Open(d)
  BY DEF Upcoming, Ready, Open, WithStatus
<1>3. BacklogAnswers(None) => Overdue = {}
  BY ReportAssumption DEF BacklogAnswers, Overdue, Ready, Open, WithStatus
<1>4. AwaitingTransfers \subseteq PendingTransfers
  BY DEF AwaitingTransfers, PendingTransfers, Transfers
<1>5. PendingTransfers \cap History(FALSE).transfers = {}
  BY DEF PendingTransfers, Transfers, History
<1>6. PendingDisposals \cap History(FALSE).disposals = {}
  BY DEF PendingDisposals, Disposals, History
<1>7. \A d \in Dept \cup {None} : MaintenanceCost(d).cost = MaintenanceSummary(d).cost
  BY CostsHold
<1> QED BY <1>1, <1>2, <1>3, <1>4, <1>5, <1>6, <1>7 DEF WorkReportsAgree

(* Reports that count the same thing in different ways agree, however many *)
(* rows the tables have: the totals of routers/reports/ are sums over them.*)
THEOREM ReportsCountTheSame == Spec => []ReportsAgree
<1>1. TypeOK => ReportsAgree
  BY OfficersHold, PlacesHold, AgesHold, StatesHold, WorkHolds DEF ReportsAgree
<1>2. Spec => []TypeOK
  BY ReportingTypeOK
<1> QED BY <1>1, <1>2, PTL

=============================================================================
