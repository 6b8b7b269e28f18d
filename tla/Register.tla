------------------------------ MODULE Register ------------------------------
(***************************************************************************)
(* The tables the reports read, and the handlers that change them:         *)
(* routers/departments.py, routers/a_transfer.py, what runs of             *)
(* routers/a_maintainance.py, and the commits of a_assignment.py,          *)
(* a_lifecycle.py and a_disposal.py.                                       *)
(*                                                                         *)
(* Each of these handlers awaits nothing from its first query to its       *)
(* commit and sets columns to values that do not depend on what the row    *)
(* had.  So each takes effect in one step, when it commits or, if it finds *)
(* nothing to change, when it loads.  In one process nothing comes between *)
(* the two; with several, the row may be another by the time of the        *)
(* commit.  The guards below are those of the code in one process, and     *)
(* with several what they leave open by then.                              *)
(*                                                                         *)
(* What would change an asset in a_crude.py and a_tracking.py raises, at   *)
(* the latest in its commit, so the other columns are as imported.         *)
(***************************************************************************)
EXTENDS Naturals, EventLoop

CONSTANTS Asset, Dept, User, Transfer, Disposal, Request,
          Cat, Condition, County, Costs, Values, Rates, Ages, Lives

VARIABLES
    asset,      (* table assets                                            *)
    dept,       (* table departments; None: not created                    *)
    transfer,   (* table asset_transfers; None: not created                *)
    disposal,   (* table asset_disposals                                   *)
    request     (* table maintenance_requests                              *)

tables == <<asset, dept, transfer, disposal, request>>

(* Work in Progress is left out: no report tells it from Held for Sale,    *)
(* and no guard of a handler from Impaired.                                *)
AssetStatus ==
    {"Operational", "Under Maintenance", "Impaired", "Lost/Stolen", "Disposed",
     "Held for Sale", "Retired"}
(* A status other than active makes no difference to any reader.           *)
DeptStatus == {"active", "deleted"}
TransferStatus == {"initiated", "approved", "rejected", "completed", "cancelled", "pending"}
DisposalStatus == {"initiated", "scheduled", "approved", "executed", "cancelled", "undone"}
MaintenanceStatus ==
    {"initiated", "scheduled", "approved", "in_progress", "completed", "cancelled"}

(* `age' is acquisition_date, in days before today; `value' current_value, *)
(* `life' useful_life_years, `county' the county of the location:          *)
(* "Unknown" if it has none, None if there is no location.                 *)
AssetRow ==
    [dept : Dept \cup {None}, officer : User \cup {None}, status : AssetStatus,
     deleted : BOOLEAN, cat : Cat, condition : Condition \cup {None},
     county : County \cup {"Unknown", None}, cost : Costs, value : Values \cup {None},
     rate : Rates \cup {None}, age : Ages \cup {None}, life : Lives \cup {None}]
DeptRow == [parent : Dept \cup {None}, status : DeptStatus]
(* `dated': completed_date is set.                                         *)
TransferRow == [asset : Asset, status : TransferStatus, dated : BOOLEAN]
(* `recent': disposal_date, or request_date, is set and not before the     *)
(* last 30 days; `due' is maintenance_date.                                *)
DisposalRow == [asset : Asset, status : DisposalStatus, recent : BOOLEAN]
RequestRow == [asset : Asset, status : MaintenanceStatus, recent : BOOLEAN,
               due : {None, "past", "future"}, cost : Costs \cup {None}]

-----------------------------------------------------------------------------
(* departments.py.  The foreign key wants the parent to exist; nothing     *)
(* else is asked of it.                                                    *)
MayBeParent(p) == p \in {None} \cup {d \in Dept : dept[d] # None}

CreateDepartment(d, parent) ==
    /\ dept[d] = None /\ MayBeParent(parent)
    /\ dept' = [dept EXCEPT ![d] = [parent |-> parent, status |-> "active"]]
    /\ UNCHANGED <<asset, transfer, disposal, request>>

(* Bug: no foreign key.                                                    *)
PatchWithAnyParent(d, parent) ==
    /\ dept[d] # None
    /\ dept' = [dept EXCEPT ![d].parent = parent]
    /\ UNCHANGED <<asset, transfer, disposal, request>>

PatchDepartment(d, parent) ==
    /\ dept[d] # None /\ MayBeParent(parent)
    /\ dept' = [dept EXCEPT ![d].parent = parent]
    /\ UNCHANGED <<asset, transfer, disposal, request>>

(* POST /{dep_id}/status, and DELETE for "deleted".                        *)
ChangeDepartmentStatus(d, status) ==
    /\ dept[d] # None
    /\ dept' = [dept EXCEPT ![d].status = status]
    /\ UNCHANGED <<asset, transfer, disposal, request>>

(* a_transfer.py.  No handler looks at the status a transfer has, sets its *)
(* dates, or touches the asset.                                            *)
InitiateTransfer(t, a) ==
    /\ transfer[t] = None
    /\ transfer' = [transfer EXCEPT ![t] = [asset |-> a, status |-> "initiated",
                                            dated |-> FALSE]]
    /\ UNCHANGED <<asset, dept, disposal, request>>

SettleTransfer(t, status) ==
    /\ transfer[t] # None
    /\ transfer' = [transfer EXCEPT ![t].status = status]
    /\ UNCHANGED <<asset, dept, disposal, request>>

(* a_maintainance.py: only the approval gets as far as its commit.         *)
ApproveMaintenance(q) ==
    /\ request[q] # None /\ request[q].status = "scheduled"
    /\ request' = [request EXCEPT ![q].status = "approved"]
    /\ UNCHANGED <<asset, dept, transfer, disposal>>

-----------------------------------------------------------------------------
(* The commits of assign, reassign and unassign.                           *)
Assign(a, d, u) ==
    /\ asset' = [asset EXCEPT ![a].dept = d, ![a].officer = u]
    /\ UNCHANGED <<dept, transfer, disposal, request>>

(* One column; the others, and the other tables, stay.                     *)
SetStatus(a, status) ==
    /\ asset' = [asset EXCEPT ![a].status = status]
    /\ UNCHANGED <<dept, transfer, request>>

(* a_lifecycle.py                                                          *)
Activate(a) ==
    /\ ~asset[a].deleted
    /\ OneProcess => asset[a].status # "Operational"
    /\ SetStatus(a, "Operational") /\ UNCHANGED disposal

(* Nothing makes an asset Retired: one that is was so when it was loaded.  *)
Deactivate(a) ==
    /\ ~asset[a].deleted /\ asset[a].status # "Retired"
    /\ OneProcess => asset[a].status # "Disposed"
    /\ SetStatus(a, "Impaired") /\ UNCHANGED disposal

MarkForDisposal(a) ==
    /\ ~asset[a].deleted
    /\ OneProcess => asset[a].status \notin {"Disposed", "Held for Sale"}
    /\ SetStatus(a, "Held for Sale") /\ UNCHANGED disposal

(* a_disposal.py finds a disposal by its status; the commit of another     *)
(* process may have moved it on since, but not back to initiated.          *)
Found(x, status) ==
    /\ disposal[x] # None
    /\ \/ disposal[x].status = status
       \/ ~OneProcess /\ disposal[x].status \in {"scheduled", "approved", "executed", "undone"}

InitiateDisposal(x, a) ==
    /\ disposal[x] = None
    /\ disposal' = [disposal EXCEPT ![x] = [asset |-> a, status |-> "initiated",
                                            recent |-> FALSE]]
    /\ UNCHANGED <<asset, dept, transfer, request>>

(* The caller gives the date.                                              *)
ScheduleDisposal(x, recent) ==
    /\ Found(x, "initiated")
    /\ disposal' = [disposal EXCEPT ![x].status = "scheduled", ![x].recent = recent]
    /\ UNCHANGED <<asset, dept, transfer, request>>

ApproveDisposal(x) ==
    /\ Found(x, "scheduled")
    /\ disposal' = [disposal EXCEPT ![x].status = "approved"]
    /\ UNCHANGED <<asset, dept, transfer, request>>

(* Execute and undo: one transaction for the two tables.  The status of    *)
(* the asset is not written if it was the same when the asset was loaded.  *)
Settle(x, status, ofAsset) ==
    /\ disposal' = [disposal EXCEPT ![x].status = status]
    /\ \/ SetStatus(disposal[x].asset, ofAsset)
       \/ ~OneProcess /\ UNCHANGED <<asset, dept, transfer, request>>

ExecuteDisposal(x) == Found(x, "approved") /\ Settle(x, "executed", "Disposed")
UndoDisposal(x) == Found(x, "executed") /\ Settle(x, "undone", "Operational")

Write ==
    \/ \E d \in Dept :
         \/ \E p \in Dept \cup {None} : CreateDepartment(d, p) \/ PatchDepartment(d, p)
         \/ \E status \in DeptStatus : ChangeDepartmentStatus(d, status)
    \/ \E a \in Asset :
         \/ \E d \in Dept \cup {None}, u \in User \cup {None} :
              (d # None => dept[d] # None) /\ Assign(a, d, u)
         \/ Activate(a) \/ Deactivate(a) \/ MarkForDisposal(a)
         \/ \E t \in Transfer : InitiateTransfer(t, a)
         \/ \E x \in Disposal : InitiateDisposal(x, a)
    \/ \E t \in Transfer, status \in {"approved", "rejected", "completed", "cancelled"} :
         SettleTransfer(t, status)
    \/ \E q \in Request : ApproveMaintenance(q)
    \/ \E x \in Disposal :
         \/ \E recent \in BOOLEAN : ScheduleDisposal(x, recent)
         \/ ApproveDisposal(x) \/ ExecuteDisposal(x) \/ UndoDisposal(x)

=============================================================================
