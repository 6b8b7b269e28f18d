---------------------------- MODULE AssetDisposal ----------------------------
(***************************************************************************)
(* routers/a_disposal.py and routers/a_lifecycle.py: the disposal records  *)
(* of an asset and the status of the asset in the register.  A handler     *)
(* loads rows, checks them, changes them and commits; it never awaits in   *)
(* between, so within one server process handlers do not overlap, but the  *)
(* handlers of different processes (README.md:456, 780) interleave at      *)
(* every query.  `pool' is the set of processes of the deployment.         *)
(*                                                                         *)
(* Of a record only the columns the register copies or a guard reads are   *)
(* kept; method, cost and remarks are set like date and proceeds.          *)
(***************************************************************************)
EXTENDS Naturals, FiniteSets, UnitOfWork

CONSTANTS Asset, Disposal, Worker, User, Date, Amount, None

VARIABLES
    pool,      (* the server processes of this deployment, fixed           *)
    asset,     (* table assets                                             *)
    disposal,  (* table asset_disposals; None where there is no row        *)
    task       (* the request a process is working on, or None             *)

vars == <<pool, asset, disposal, task>>

Status == {"Operational", "Impaired", "Disposed", "HeldForSale", "Retired", "Other"}
DisposalStatus == {"initiated", "scheduled", "approved", "executed", "undone"}

AssetRow == [status : Status, date : Date \cup {None}, value : Amount \cup {None}]
DisposalRow == [asset : Asset, status : DisposalStatus, date : Date \cup {None},
                approver : User \cup {None}, proceeds : Amount \cup {None}]

(* A row as a session loaded it and as the handler has changed it.         *)
DisposalEdit == [id : Disposal, old : DisposalRow, new : DisposalRow]
AssetEdit == [old : AssetRow, new : AssetRow]
Task == [asset : Asset, dis : DisposalEdit \cup {None}, reg : AssetEdit \cup {None},
         todo : {"load", "commit"}]

(* NULL is no user, date or amount, and "no row" is neither a row nor an   *)
(* edit of one.                                                            *)
ASSUME DisposalAssumption ==
    /\ None \notin User \cup Date \cup Amount
    /\ None \notin DisposalRow \cup DisposalEdit \cup AssetEdit
    /\ Worker # {} /\ IsFiniteSet(Worker)

Idle(w) == w \in pool /\ task[w] = None

-----------------------------------------------------------------------------
Init ==
    /\ pool \in (SUBSET Worker) \ {{}}
    /\ asset \in [Asset -> [status : Status \ {"Disposed"}, date : {None}, value : {None}]]
    /\ disposal = [d \in Disposal |-> None]
    /\ task = [w \in Worker |-> None]

(* db.query(AssetDisposals).filter(asset, status).first(): there is no     *)
(* ORDER BY, any matching row may come first.                              *)
InStatus(a, S) == {d \in Disposal : /\ disposal[d] # None
                                    /\ disposal[d].asset = a
                                    /\ disposal[d].status \in S}

(* Bug: an approved disposal can be rescheduled, and then is approved no   *)
(* longer.                                                                 *)
Reschedulable == {"initiated", "approved"}
Schedulable == {"initiated"}
Approvable == {"scheduled"}
(* Bug: approval is not waited for.                                        *)
ExecutableEarly == {"scheduled", "approved"}
Executable == {"approved"}
Undoable == {"executed"}

(* Bug: a label the enum of the column does not have.                      *)
Reversed == "reversed"
Undone == "undone"

(* A handler has loaded disposal d and assigned to its columns.            *)
Edit(w, a, d, new, todo) ==
    task' = [task EXCEPT ![w] =
               [asset |-> a, dis |-> [id |-> d, old |-> disposal[d], new |-> new],
                reg |-> None, todo |-> todo]]

-----------------------------------------------------------------------------
(* POST /{asset_id}/disposal/initiate: a new row for an asset that exists, *)
(* whatever its status and however many disposals it has.  uuid4 makes the *)
(* key fresh; INSERT depends on nothing read before.                       *)
InitDisposal(w, a) ==
    /\ Idle(w)
    /\ \E d \in Disposal :
         /\ disposal[d] = None
         /\ disposal' = [disposal EXCEPT ![d] =
                           [asset |-> a, status |-> "initiated", date |-> None,
                            approver |-> None, proceeds |-> None]]
    /\ UNCHANGED <<pool, asset, task>>

ScheduleDisposal(w, a, date) ==
    /\ Idle(w)
    /\ \E d \in InStatus(a, Schedulable) :
         Edit(w, a, d, [disposal[d] EXCEPT !.date = date, !.status = "scheduled"], "commit")
    /\ UNCHANGED <<pool, asset, disposal>>

ApproveDisposal(w, a, user) ==
    /\ Idle(w)
    /\ \E d \in InStatus(a, Approvable) :
         Edit(w, a, d, [disposal[d] EXCEPT !.status = "approved", !.approver = user], "commit")
    /\ UNCHANGED <<pool, asset, disposal>>

(* The request need not name the proceeds.                                 *)
ExecuteDisposal(w, a, proceeds) ==
    /\ Idle(w)
    /\ \E d \in InStatus(a, Executable) :
         Edit(w, a, d,
              [disposal[d] EXCEPT !.status = "executed",
                                  !.proceeds = IF proceeds = None THEN @ ELSE proceeds],
              "load")
    /\ UNCHANGED <<pool, asset, disposal>>

UndoDisposal(w, a) ==
    /\ Idle(w)
    /\ \E d \in InStatus(a, Undoable) :
         Edit(w, a, d, [disposal[d] EXCEPT !.status = Undone], "load")
    /\ UNCHANGED <<pool, asset, disposal>>

(* The columns of the asset after execute and after undo.                  *)
Disposed(file) == [status |-> "Disposed", date |-> file.date, value |-> file.proceeds]
(* Bug: the dates are cleared, the status is not.                          *)
RestoredDates(row) == [status |-> row.status, date |-> None, value |-> None]
Restored(row) == [status |-> "Operational", date |-> None, value |-> None]

(* The second query of execute and undo: the asset as it is by now.        *)
LoadAsset(w) ==
    /\ task[w] # None /\ task[w].todo = "load"
    /\ LET row == asset[task[w].asset]
           new == IF task[w].dis.new.status = "executed"
                  THEN Disposed(task[w].dis.new) ELSE Restored(row)
       IN task' = [task EXCEPT ![w].reg = [old |-> row, new |-> new], ![w].todo = "commit"]
    /\ UNCHANGED <<pool, asset, disposal>>

-----------------------------------------------------------------------------
(* a_lifecycle.py: load the asset, check its status, assign the new one.   *)
SetStatus(w, a, refused, status) ==
    /\ Idle(w)
    /\ asset[a].status \notin refused
    /\ task' = [task EXCEPT ![w] =
                  [asset |-> a, dis |-> None, todo |-> "commit",
                   reg |-> [old |-> asset[a], new |-> [asset[a] EXCEPT !.status = status]]]]
    /\ UNCHANGED <<pool, asset, disposal>>

ActivateAsset(w, a) == SetStatus(w, a, {"Operational"}, "Operational")
DeactivateAsset(w, a) == SetStatus(w, a, {"Disposed", "Retired"}, "Impaired")
MarkForDisposal(w, a) == SetStatus(w, a, {"Disposed", "HeldForSale"}, "HeldForSale")

-----------------------------------------------------------------------------
(* db.commit(): both rows in one transaction.                              *)
Commit(w) ==
    /\ task[w] # None /\ task[w].todo = "commit"
    /\ disposal' = IF task[w].dis = None THEN disposal
                   ELSE LET e == task[w].dis IN
                        [disposal EXCEPT ![e.id] = Written(@, e.old, e.new)]
    /\ asset' = IF task[w].reg = None THEN asset
                ELSE LET e == task[w].reg IN
                     [asset EXCEPT ![task[w].asset] = Written(@, e.old, e.new)]
    /\ task' = [task EXCEPT ![w] = None]
    /\ UNCHANGED pool

(* The request fails, or its process dies, before the commit.              *)
Abandon(w) ==
    /\ task[w] # None
    /\ task' = [task EXCEPT ![w] = None]
    /\ UNCHANGED <<pool, asset, disposal>>

Next ==
    \E w \in Worker :
      \/ \E a \in Asset :
           \/ InitDisposal(w, a)
           \/ \E date \in Date : ScheduleDisposal(w, a, date)
           \/ \E user \in User : ApproveDisposal(w, a, user)
           \/ \E proceeds \in Amount \cup {None} : ExecuteDisposal(w, a, proceeds)
           \/ UndoDisposal(w, a)
           \/ ActivateAsset(w, a) \/ DeactivateAsset(w, a) \/ MarkForDisposal(w, a)
      \/ LoadAsset(w)
      \/ Commit(w)
      \/ Abandon(w)

Spec == Init /\ [][Next]_vars

-----------------------------------------------------------------------------
(* Every variable has its type.                                            *)
TypeOK ==
    /\ pool \in (SUBSET Worker) \ {{}}
    /\ asset \in [Asset -> AssetRow]
    /\ disposal \in [Disposal -> DisposalRow \cup {None}]
    /\ task \in [Worker -> Task \cup {None}]

(* However the processes interleave, a disposal is approved, executed or   *)
(* undone only with a date and an approver on file.                        *)
NoUnauthorisedDisposal ==
    \A d \in Disposal :
        disposal[d] # None /\ disposal[d].status \in {"approved", "executed", "undone"}
            => disposal[d].approver # None /\ disposal[d].date # None

(* However the processes interleave, an asset is Disposed only if somebody *)
(* approved a disposal of that very asset.                                 *)
DisposedWasApproved ==
    \A a \in Asset :
        asset[a].status = "Disposed" =>
            \E d \in Disposal : /\ disposal[d] # None
                                /\ disposal[d].asset = a
                                /\ disposal[d].approver # None

OneProcess == Cardinality(pool) = 1

(* README.md:1255 "7. Record Outcome -> 8. Update Registers": the date and *)
(* the proceeds in the register of a Disposed asset are those of one       *)
(* executed disposal of that asset.                                        *)
RegisterMatchesFile ==
    \A a \in Asset :
        asset[a].status = "Disposed" =>
            \E d \in InStatus(a, {"executed"}) :
                asset[a].date = disposal[d].date /\ asset[a].value = disposal[d].proceeds

(* With one server process the register agrees with the file, also for an  *)
(* asset with several disposals, after undo and after activation.          *)
SerialRegister == OneProcess => RegisterMatchesFile

Stage == [initiated |-> 1, scheduled |-> 2, approved |-> 3, executed |-> 4, undone |-> 5]

(* With one server process a disposal goes through the stages of           *)
(* README.md:73 one at a time: none is skipped, repeated or taken back,    *)
(* and date, approver and proceeds are final once set.                     *)
SerialWorkflow ==
    [][OneProcess =>
         \A d \in Disposal : disposal[d] # None /\ disposal'[d] # disposal[d] =>
             /\ Stage[disposal'[d].status] = Stage[disposal[d].status] + 1
             /\ \A c \in {"date", "approver", "proceeds"} :
                    disposal[d][c] # None => disposal'[d][c] = disposal[d][c]]_vars

=============================================================================
