------------------------------ MODULE Reports ------------------------------
(***************************************************************************)
(* What the reports of routers/reports/ compute from the tables.  Formats, *)
(* percentages, samples, top lists and date filters are left out, and so   *)
(* are the names that come with a row; a department or category filter     *)
(* that is not given is None.  An amount is an integer, of cents, and a    *)
(* share of one a comparison.                                              *)
(*                                                                         *)
(* Reports that go by the names of departments and users are modelled for  *)
(* names that differ.                                                      *)
(***************************************************************************)
EXTENDS Register, Functions, FiniteSets, Integers

(* Not deleted, in the department asked for.                               *)
Assets(d) == {a \in Asset : ~asset[a].deleted /\ (d = None \/ asset[a].dept = d)}
OfCategory(S, c) == {a \in S : c = None \/ asset[a].cat = c}

(* current_value or acquisition_cost: a value of zero is no value.         *)
Value(a) == IF asset[a].value \in {None, 0} THEN asset[a].cost ELSE asset[a].value

Figures(S) == [count |-> Cardinality(S), value |-> SumFunction([a \in S |-> Value(a)])]
(* One entry for each key that occurs.                                     *)
By(S, Key(_)) == [k \in {Key(a) : a \in S} |-> Figures({a \in S : Key(a) = k})]

Category(a) == asset[a].cat
Status(a) == asset[a].status
ConditionOf(a) == IF asset[a].condition = None THEN "unknown" ELSE asset[a].condition
CountyOf(a) == IF asset[a].county = None THEN "Unknown" ELSE asset[a].county
Department(a) == asset[a].dept
Officer(a) == asset[a].officer

-----------------------------------------------------------------------------
(* Reports on the assets.                                                  *)

Dashboard(d) ==
    LET S == Assets(d) IN
    [total |-> Figures(S), category |-> By(S, Category), status |-> By(S, Status),
     condition |-> By(S, ConditionOf),
     department |-> By({a \in S : asset[a].dept # None}, Department)]

AssetsSummary(d, c) ==
    LET S == OfCategory(Assets(d), c)
        Count(k, statuses) == Cardinality({a \in S : Category(a) = k /\ Status(a) \in statuses})
    IN [total |-> Figures(S), category |-> By(S, Category), status |-> By(S, Status),
        condition |-> By(S, ConditionOf),
        operational |-> [k \in Cat |-> Count(k, {"Operational"})],
        impaired |-> [k \in Cat |-> Count(k, {"Impaired", "Under Maintenance"})]]

(* The list of the executive summary does not count what is being repaired.*)
Worn(a) == ConditionOf(a) \in {"poor", "fair"}
StatusCondition(d, c) ==
    LET S == OfCategory(Assets(d), c) IN
    [status |-> By(S, Status), condition |-> By(S, ConditionOf),
     attention |-> {a \in S : \/ Worn(a)
                              \/ Status(a) \in {"Under Maintenance", "Impaired", "Lost/Stolen"}}]

(* Every condition has an entry.                                           *)
ByCondition(d, c) ==
    LET S == OfCategory(Assets(d), c) IN
    [k \in Condition \cup {"unknown"} |-> Figures({a \in S : ConditionOf(a) = k})]

CategorySpecific(c, d) == Figures(OfCategory(Assets(d), c))

Unassigned(c) ==
    LET S == {a \in OfCategory(Assets(None), c) : None \in {Officer(a), Department(a)}} IN
    [total |-> Figures(S), officer |-> {a \in S : Officer(a) = None},
     department |-> {a \in S : Department(a) = None},
     both |-> {a \in S : Officer(a) = None /\ Department(a) = None}]

DepartmentAssets(d) ==
    LET S == Assets(d) IN
    [total |-> Figures(S), category |-> By(S, Category), status |-> By(S, Status)]

(* Bug: is_deleted is not asked for.                                       *)
AlsoDeleted(d) ==
    By({a \in Asset : Officer(a) # None /\ (d = None \/ asset[a].dept = d)}, Officer)
UserResponsibility(d) == By({a \in Assets(d) : Officer(a) # None}, Officer)

Utilization(c) ==
    LET S == OfCategory(Assets(None), c)
        assigned == {a \in S : Officer(a) # None}
    IN [assigned |-> assigned, unassigned |-> S \ assigned,
        operational |-> {a \in S : Status(a) = "Operational"},
        county |-> [k \in {CountyOf(a) : a \in S} |->
                      [assigned |-> Cardinality({a \in assigned : CountyOf(a) = k}),
                       unassigned |-> Cardinality({a \in S \ assigned : CountyOf(a) = k})]]]

Geographic == By(Assets(None), CountyOf)

(* A year has 365.25 days.                                                 *)
Quarters(a) == 4 * asset[a].age
Younger(a, years) == Quarters(a) < 1461 * years
Bracket(a) == IF Younger(a, 1) THEN "0-1 years" ELSE IF Younger(a, 3) THEN "1-3 years"
              ELSE IF Younger(a, 5) THEN "3-5 years" ELSE IF Younger(a, 10) THEN "5-10 years"
              ELSE "10+ years"
AgeAnalysis(d) ==
    LET S == {a \in Assets(d) : asset[a].age # None}
        Remaining(a) == 1461 * asset[a].life - Quarters(a)
    IN [count |-> Cardinality(S), bracket |-> By(S, Bracket),
        ending |-> {a \in S : /\ asset[a].life \notin {None, 0}
                              /\ Remaining(a) > 0 /\ Remaining(a) <= 2 * 1461}]

Lost(a) == asset[a].cost - Value(a)

(* Two routes: reports.py (strict) leaves out a rate of zero, assets_r.py  *)
(* does not.                                                               *)
DepreciationReport(d, c, strict) ==
    LET S == {a \in OfCategory(Assets(d), c) :
                /\ asset[a].rate # None /\ asset[a].age # None /\ asset[a].cost # 0
                /\ strict => asset[a].rate # 0}
    IN [assets |-> S, original |-> SumFunction([a \in S |-> asset[a].cost]),
        current |-> SumFunction([a \in S |-> Value(a)]),
        lost |-> SumFunction([a \in S |-> Lost(a)])]

(* assets_r.py: more than 80 percent, rounded to two decimals; a cost that *)
(* is not positive has lost nothing.                                       *)
NearlyDepreciated(d, c) ==
    {a \in DepreciationReport(d, c, FALSE).assets :
        asset[a].cost > 0 /\ 100000 * Lost(a) > 80005 * asset[a].cost}

(* The serial number, the sixth field, is not in the rows.  A location     *)
(* without a county is not missing.                                        *)
MissingFields(a) ==
    {f \in {"cost", "age", "officer", "dept", "county"} :
        asset[a][f] = None \/ (f = "cost" /\ asset[a].cost = 0)}
MissingData(d) ==
    LET S == {a \in Assets(d) : MissingFields(a) # {}} IN
    [assets |-> S,
     field |-> [f \in UNION {MissingFields(a) : a \in S} |->
                  Cardinality({a \in S : f \in MissingFields(a)})]]

(* Both months have the day 30 days ago.                                   *)
ThisMonth(a) == asset[a].age # None /\ asset[a].age <= 30
LastMonth(a) == asset[a].age # None /\ asset[a].age \in 30 .. 60
AcquiredThisMonth == {a \in Assets(None) : ThisMonth(a)}
AcquiredLastMonth == {a \in Assets(None) : LastMonth(a)}
ExecutiveAssets ==
    LET S == Assets(None) IN
    [total |-> Figures(S), category |-> By(S, Category),
     operational |-> Cardinality({a \in S : Status(a) = "Operational"}),
     maintenance |-> Cardinality({a \in S : Status(a) = "Under Maintenance"}),
     attention |-> {a \in S : Worn(a) \/ Status(a) \in {"Impaired", "Lost/Stolen"}},
     change |-> Cardinality(AcquiredThisMonth) - Cardinality(AcquiredLastMonth),
     unassigned |-> Cardinality({a \in S : Officer(a) = None})]

-----------------------------------------------------------------------------
(* Reports on maintenance, transfers and disposals.  The join with assets  *)
(* does not ask whether the asset is deleted.                              *)

Requests(d) ==
    {q \in Request : request[q] # None /\ (d = None \/ asset[request[q].asset].dept = d)}
WithStatus(S, statuses) == {q \in S : request[q].status \in statuses}
Spent(q) == IF request[q].cost = None THEN 0 ELSE request[q].cost

(* An approved request is in the total and in none of the three.           *)
MaintenanceSummary(d) ==
    LET S == Requests(d) IN
    [requests |-> S, cost |-> SumFunction([q \in S |-> Spent(q)]),
     completed |-> WithStatus(S, {"completed"}),
     pending |-> WithStatus(S, {"initiated", "scheduled"}),
     inProgress |-> WithStatus(S, {"in_progress"})]

MaintenanceCost(d) ==
    LET S == {q \in Requests(d) : request[q].cost # None} IN
    [requests |-> S, cost |-> SumFunction([q \in S |-> Spent(q)])]

(* Bug: what the summary calls pending.                                    *)
NotApproved(d) == WithStatus(Requests(d), {"initiated", "scheduled"})
Open(d) == WithStatus(Requests(d), {"initiated", "scheduled", "approved"})
(* maintenance_date is a datetime and is compared with a date, which       *)
(* raises: there is an answer when no open request has a date, and then    *)
(* nothing is overdue.                                                     *)
BacklogAnswers(d) == \A q \in Open(d) : request[q].due = None

Ready(d) == WithStatus(Requests(d), {"scheduled", "approved"})
(* `reach': the days up to the last one asked for, those past included.    *)
Upcoming(d, reach) == {q \in Ready(d) : request[q].due \in reach}

Recent == {q \in Requests(None) : request[q].recent}
Overdue == {q \in Ready(None) : request[q].due = "past"}
Transfers(statuses) == {t \in Transfer : transfer[t] # None /\ transfer[t].status \in statuses}
Disposals(statuses) == {x \in Disposal : disposal[x] # None /\ disposal[x].status \in statuses}
RecentDisposals ==
    {x \in Disposal : disposal[x] # None /\ disposal[x].recent}

(* The executive summary leaves out the approved ones.                     *)
AwaitingTransfers == Transfers({"initiated", "pending"})
PendingTransfers == Transfers({"initiated", "pending", "approved"})
PendingDisposals == Disposals({"initiated", "scheduled", "approved"})
(* With a first or last day, only what has a date.                         *)
History(dates) ==
    [transfers |-> {t \in Transfers({"completed"}) : dates => transfer[t].dated},
     disposals |-> Disposals({"executed"})]

=============================================================================
