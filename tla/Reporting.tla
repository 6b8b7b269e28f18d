----------------------------- MODULE Reporting ------------------------------
(***************************************************************************)
(* The reports that need several queries, and the handlers that change the *)
(* tables in between.  A report is one coroutine: it awaits nothing from   *)
(* its first query to its last, so in one process it sees the tables of    *)
(* one moment.  The transaction reads what is committed, query by query:   *)
(* the writers of other processes come in between.                         *)
(*                                                                         *)
(* Of the reports of several queries, those whose queries speak of the     *)
(* same rows are here.  The others (the summaries of maintenance and of a  *)
(* department, the history of transfers, the events of idle assets) count  *)
(* by one query and look up by the rest, between which they await nothing  *)
(* either; what they count is an operator of Reports.  The department and  *)
(* the officer of a row, loaded when their names are wanted, are left out. *)
(* A report changes nothing, so one at a time is enough.                   *)
(***************************************************************************)
EXTENDS Reports, SequencesExt, TLC

CONSTANT MaxWrites          (* bound                                       *)

(* None is no value of a column, and PlainAsset has the types of an asset. *)
ASSUME ReportAssumption ==
    /\ MaxWrites \in Nat /\ None \notin DeptRow /\ None \notin Dept \cup Cat \cup {"past"}
    /\ Cat # {} /\ "good" \in Condition /\ Max(Costs) \in Costs
(* Tables, and the list of categories, are finite; amounts, in cents, days *)
(* and years are integers.                                                 *)
ASSUME ColumnsAssumption ==
    /\ IsFiniteSet(Asset) /\ IsFiniteSet(Dept) /\ IsFiniteSet(Request) /\ IsFiniteSet(Cat)
    /\ Costs \cup Values \cup Ages \cup Lives \subseteq Int /\ None \notin Int

VARIABLES
    touched,    (* history: the assets and departments changed since the   *)
                (* report began                                            *)
    writes

vars == <<place, task, tables, touched, writes>>

Kind == {"comparison", "hierarchy", "executive", "pending"}
Quiet == \A s \in Slot : Idle(s)

-----------------------------------------------------------------------------
(* A query is a name and a department, or None.                            *)

Active == {d \in Dept : dept[d] # None /\ dept[d].status = "active"}
(* Bug: the hierarchy leaves out the departments that are not active.      *)
ActiveChildren(p) == {d \in Active : dept[d].parent = p}
Children(p) == {d \in Dept : dept[d] # None /\ dept[d].parent = p}

(* Bug: the rows of the department before are counted again.               *)
RowsSoFar(d, held) == [a \in Assets(d) \cup DOMAIN held |-> asset[a]]
(* The rows of assets, but an asset that is still in the session's         *)
(* identity map keeps the columns it was loaded with.                      *)
Rows(d, held) == [a \in Assets(d) |-> IF a \in DOMAIN held THEN held[a] ELSE asset[a]]

Result(q, held) ==
    LET d == q[2] IN
    CASE q[1] = "departments" -> Active
      [] q[1] = "children" -> Children(d)
      [] q[1] = "assets" -> Rows(d, held)
      [] q[1] = "requests" -> Recent \cap Requests(d)
      [] q[1] = "disposals" -> RecentDisposals
      [] q[1] = "lastMonth" -> AcquiredLastMonth
      [] q[1] = "thisMonth" -> AcquiredThisMonth
      [] q[1] = "awaiting" -> AwaitingTransfers
      [] q[1] = "overdue" -> Overdue
      [] q[1] = "transfers" -> PendingTransfers
      [] OTHER -> PendingDisposals

FirstQueries(kind, root) ==
    CASE kind = "comparison" -> <<<<"departments", None>>>>
      [] kind = "hierarchy" -> <<<<"children", root>>>>
      [] kind = "executive" -> <<<<"assets", None>>, <<"requests", None>>, <<"disposals", None>>,
                                 <<"lastMonth", None>>, <<"thisMonth", None>>,
                                 <<"awaiting", None>>, <<"overdue", None>>>>
      [] kind = "pending" -> <<<<"transfers", None>>, <<"pending", None>>>>

NoRows == [a \in {} |-> None]
NoResults == [q \in {} |-> {}]

(* The departments below p, if those right below e are next[e]: the least  *)
(* set that has next[p] and, with every department e, next[e].             *)
Reachable(next, p) ==
    {d \in Dept : \A S \in SUBSET Dept :
        next[p] \subseteq S /\ (\A e \in S : next[e] \subseteq S) => d \in S}

(* The sub-departments of p that the walk has read, and those below p.     *)
ChildrenRead(got, p) == IF <<"children", p>> \in DOMAIN got THEN got[<<"children", p>>] ELSE {}
BelowRead(got, p) == Reachable([d \in Dept |-> ChildrenRead(got, d)], p)

(* The two queries for each department of the comparison, one by one.      *)
PerDepartment(ds) ==
    [i \in 1 .. 2 * Len(ds) |-> <<IF i % 2 = 1 THEN "assets" ELSE "requests", ds[(i + 1) \div 2]>>]

(* The queries a result brings with it, in the order of its rows; those    *)
(* that were answered are not made again.                                  *)
FollowUps(q, result, rest) ==
    IF q[1] = "departments"
      THEN {PerDepartment(ds) : ds \in SetToSeqs(result)}
    ELSE IF q[1] = "children"
      THEN {[i \in DOMAIN ds |-> <<"children", ds[i]>>] \o rest : ds \in SetToSeqs(result)}
    ELSE {rest}

-----------------------------------------------------------------------------
(* Actions                                                                 *)

Ask(s, kind, root) ==
    /\ Quiet /\ writes = 0
    /\ kind = "hierarchy" <=> root # None
    /\ task' = [task EXCEPT ![s] = [kind |-> kind, root |-> root, todo |-> "start",
                                    queue |-> FirstQueries(kind, root),
                                    got |-> NoResults, held |-> NoRows]]
    /\ touched' = {} /\ UNCHANGED <<place, tables, writes>>

(* 404, or the walk meets a department below itself and recurs until the   *)
(* interpreter stops it.                                                   *)
Fails(t) ==
    /\ t.kind = "hierarchy"
    /\ dept[t.root] = None \/ \E d \in Dept : d \in BelowRead(t.got, d)

(* The next query that was not made before; a collection is loaded once.   *)
NextQuery(s) ==
    LET t == task[s] IN
    /\ t # None /\ t.queue # <<>> /\ ~Fails(t)
    /\ LET q == Head(t.queue)
           result == Result(q, t.held)
           got == [r \in DOMAIN t.got \cup {q} |-> IF r = q THEN result ELSE t.got[r]]
       IN IF q \in DOMAIN t.got
            THEN Goes(s, [t EXCEPT !.queue = Tail(t.queue)])
            ELSE \E queue \in FollowUps(q, result, Tail(t.queue)) :
                   Goes(s, [t EXCEPT !.todo = "query", !.queue = queue, !.got = got,
                                     !.held = IF q[1] = "assets" THEN result ELSE @])
    /\ UNCHANGED <<place, tables, touched, writes>>

(* The last query is made: what is left is to put the answer together.     *)
Read(s) == At(s, "query") /\ task[s].queue = <<>> /\ ~Fails(task[s])

Answer(s) ==
    /\ Read(s) /\ MayRun(s) /\ Done(s)
    /\ touched' = {} /\ UNCHANGED <<place, tables, writes>>

Abandon(s) ==
    /\ task[s] # None /\ Fails(task[s]) /\ MayRun(s) /\ Done(s)
    /\ touched' = {} /\ UNCHANGED <<place, tables, writes>>

(* A writer in slot s takes its step.  Bound: while a report runs; what    *)
(* was written before is in the initial tables.                            *)
Writer(s) ==
    /\ Idle(s) /\ MayRun(s) /\ ~Quiet /\ writes < MaxWrites
    /\ Write
    /\ touched' = touched \cup {a \in Asset : asset'[a] # asset[a]}
                          \cup {d \in Dept : dept'[d] # dept[d]}
    /\ writes' = writes + 1 /\ UNCHANGED <<place, task>>

-----------------------------------------------------------------------------
(* Bound: requests start from tables whose columns are plain but for the   *)
(* ones the queries and the writers look at; tables with any columns are   *)
(* looked at as they stand, which is what a report of one query does.      *)

PlainAsset ==
    [dept |-> None, officer |-> None, status |-> "Operational", deleted |-> FALSE,
     cat |-> CHOOSE c \in Cat : TRUE, condition |-> "good", county |-> None,
     cost |-> Max(Costs), value |-> None, rate |-> None, age |-> None, life |-> None]
Held == {[PlainAsset EXCEPT !.dept = d] : d \in Dept \cup {None}}
PlainTransfer(a) == [asset |-> a, status |-> "initiated", dated |-> FALSE]
PlainDisposal(a) == [asset |-> a, status |-> "approved", recent |-> FALSE]
PlainRequest(a) == [asset |-> a, status |-> "scheduled", recent |-> TRUE,
                    due |-> "past", cost |-> None]

AllActive == dept = [d \in Dept |-> [parent |-> None, status |-> "active"]]
ParentsExist == \A d \in Dept : dept[d] # None => MayBeParent(dept[d].parent)
NoWork ==
    /\ transfer = [t \in Transfer |-> None] /\ disposal = [x \in Disposal |-> None]
    /\ request = [q \in Request |-> None]

(* No report reads status or condition together with age, life or rate.    *)
Varies(row) == \/ row.status = "Operational" /\ row.condition = "good"
               \/ row.age = None /\ row.life = None /\ row.rate = None
(* No report reads the status of a department together with its parent:    *)
(* one that is not active is enough where they have parents.               *)
AnyTree ==
    /\ dept \in [Dept -> DeptRow \cup {None}] /\ ParentsExist
    /\ \/ Cardinality({d \in Dept : dept[d] # None} \ Active) <= 1
       \/ \A d \in Dept : dept[d] # None => dept[d].parent = None
    /\ asset = [a \in Asset |-> PlainAsset] /\ NoWork /\ writes = 0
AnyHolding ==
    /\ AllActive /\ asset \in [Asset -> Held] /\ writes = 0
    /\ \E a \in Asset : /\ transfer = [t \in Transfer |-> PlainTransfer(a)]
                       /\ disposal = [x \in Disposal |-> PlainDisposal(a)]
                       /\ request = [q \in Request |-> PlainRequest(a)]
AnyColumns ==
    /\ AllActive /\ NoWork /\ writes = MaxWrites
    /\ \E a \in Asset, row \in {r \in AssetRow : Varies(r)} :
         asset = [b \in Asset |-> IF b = a THEN row ELSE PlainAsset]
AnyRequests ==
    /\ AllActive /\ asset \in [Asset -> Held] /\ writes = MaxWrites
    /\ transfer = [t \in Transfer |-> None] /\ disposal = [x \in Disposal |-> None]
    /\ request \in [Request -> RequestRow \cup {None}]
AnyTransfers ==
    /\ AllActive /\ asset = [a \in Asset |-> PlainAsset] /\ writes = MaxWrites
    /\ request = [q \in Request |-> None]
    /\ transfer \in [Transfer -> TransferRow \cup {None}]
    /\ disposal \in [Disposal -> DisposalRow \cup {None}]

Init ==
    /\ AnyTree \/ AnyHolding \/ AnyColumns \/ AnyRequests \/ AnyTransfers
    /\ place \in [Slot -> Process] /\ (writes = MaxWrites => OneProcess)
    /\ task = [s \in Slot |-> None] /\ touched = {}

Next ==
    \E s \in Slot :
      \/ \E kind \in Kind, root \in Dept \cup {None} : Ask(s, kind, root)
      \/ NextQuery(s) \/ Answer(s) \/ Abandon(s) \/ Writer(s)

Spec == Init /\ [][Next]_vars

-----------------------------------------------------------------------------
(* Properties                                                              *)

Answered(s, kind) == Read(s) /\ task[s].kind = kind

(* Types, and parents and departments that exist, as the foreign keys want.*)
TypeOK ==
    /\ asset \in [Asset -> AssetRow] /\ dept \in [Dept -> DeptRow \cup {None}]
    /\ transfer \in [Transfer -> TransferRow \cup {None}]
    /\ disposal \in [Disposal -> DisposalRow \cup {None}]
    /\ request \in [Request -> RequestRow \cup {None}]
    /\ ParentsExist /\ \A a \in Asset : MayBeParent(asset[a].dept)
    /\ touched \subseteq Asset \cup Dept /\ writes \in 0 .. MaxWrites

(* In one process the queries of a report are of one moment: when the last *)
(* is made, each would still give what it gave.                            *)
SerialReport ==
    OneProcess => \A s \in Slot : Read(s) =>
        \A q \in DOMAIN task[s].got : task[s].got[q] = Result(q, NoRows)

(* With any number of processes: an asset nobody changed while the         *)
(* comparison ran is counted under the department the dashboard counts it  *)
(* under and no other, with the columns it has, if that department was     *)
(* active; a change of one asset does not count another twice or never.    *)
ComparisonAtRest ==
    \A s \in Slot : Answered(s, "comparison") =>
        LET got == task[s].got
            compared == got[<<"departments", None>>]
        IN \A a \in Assets(None) \ touched :
             /\ {d \in compared : a \in DOMAIN got[<<"assets", d>>]}
                  = compared \cap {asset[a].dept}
             /\ \A d \in compared \cap {asset[a].dept} :
                  got[<<"assets", d>>][a] = asset[a]

(* The hierarchy shows every department below the root by way of           *)
(* departments nobody changed while it ran, whatever moved around them;    *)
(* and it has no answer when those form a cycle.                           *)
HierarchyAtRest ==
    \A s \in Slot : Answered(s, "hierarchy") =>
        LET resting == [p \in Dept |-> {d \in Dept \ touched : /\ dept[d] # None
                                                              /\ dept[d].parent = p}]
        IN \A d \in Reachable(resting, task[s].root) :
             d \in BelowRead(task[s].got, task[s].root) /\ d \notin Reachable(resting, d)

Total(figures) == SumFunction([k \in DOMAIN figures |-> figures[k].count])
Missing(f) ==
    LET field == MissingData(None).field IN IF f \in DOMAIN field THEN field[f] ELSE 0

(* Who answers for an asset.                                               *)
OfficersAgree ==
    LET byOfficer == UserResponsibility(None)
        unassigned == Unassigned(None)
        use == Utilization(None)
    IN /\ Total(byOfficer) = Cardinality(use.assigned)
       /\ Total(byOfficer) + Cardinality(unassigned.officer) = Dashboard(None).total.count
       /\ unassigned.officer = use.unassigned
       /\ ExecutiveAssets.unassigned = Missing("officer")
       /\ Missing("officer") = Cardinality(unassigned.officer)

(* Where it is.                                                            *)
PlacesAgree ==
    LET all == Dashboard(None)
        county == Utilization(None).county
    IN /\ Missing("dept") + Total(all.department) = all.total.count
       /\ \A d \in DOMAIN all.department : all.department[d] = DepartmentAssets(d).total
       /\ \A k \in DOMAIN Geographic :
            Geographic[k].count = county[k].assigned + county[k].unassigned

(* How old it is, and what it has lost: one whose value is down to zero    *)
(* has lost nothing and is not among the nearly depreciated.               *)
AgesAgree ==
    LET ages == AgeAnalysis(None)
        strict == DepreciationReport(None, None, TRUE)
        lenient == DepreciationReport(None, None, FALSE)
    IN /\ ages.count + Missing("age") = Dashboard(None).total.count
       /\ Total(ages.bracket) = ages.count
       /\ \A a \in Assets(None) : ThisMonth(a) \/ LastMonth(a) => Bracket(a) = "0-1 years"
       /\ \A a \in ages.ending : asset[a].life > 2 => Bracket(a) # "0-1 years"
       /\ strict.assets = {a \in lenient.assets : asset[a].rate # 0}
       /\ \A a \in NearlyDepreciated(None, None) : asset[a].value \notin {None, 0}
       /\ lenient.original = lenient.current + lenient.lost

(* What is worn or broken, and what kind of thing it is.                   *)
StatesAgree ==
    LET all == Dashboard(None)
        executive == ExecutiveAssets
        attention == StatusCondition(None, None).attention
        summary == AssetsSummary(None, None)
    IN /\ SumFunction(summary.operational) = executive.operational
       /\ SumFunction(summary.impaired)
            = Cardinality({a \in attention : Status(a) = "Impaired"}) + executive.maintenance
       /\ executive.attention
            = {a \in attention : Status(a) # "Under Maintenance" \/ Worn(a)}
       /\ \A c \in DOMAIN all.category : CategorySpecific(c, None) = all.category[c]
       /\ \A k \in DOMAIN all.condition : ByCondition(None, None)[k] = all.condition[k]

(* The backlog, where it answers, holds what the summary has pending and   *)
(* what has been approved; the executive summary then has nothing overdue. *)
(* What the executive summary has awaiting or done this month is in the    *)
(* lists of pending and past transfers and disposals.                      *)
WorkReportsAgree ==
    /\ \A d \in Dept \cup {None} :
         LET summary == MaintenanceSummary(d) IN
         /\ Open(d) = summary.pending \cup WithStatus(summary.requests, {"approved"})
         /\ Upcoming(d, {"past", "future"}) \subseteq Open(d)
         /\ MaintenanceCost(d).cost = summary.cost
    /\ BacklogAnswers(None) => Overdue = {}
    /\ AwaitingTransfers \subseteq PendingTransfers
    /\ PendingTransfers \cap History(FALSE).transfers = {}
    /\ PendingDisposals \cap History(FALSE).disposals = {}

(* Reports that count the same thing in different ways agree, asked one    *)
(* after the other with no writer in between.                              *)
ReportsAgree ==
    Quiet => OfficersAgree /\ PlacesAgree /\ AgesAgree /\ StatesAgree /\ WorkReportsAgree

=============================================================================
