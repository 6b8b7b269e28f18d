----------------------------- MODULE AuditTrail -----------------------------
(***************************************************************************)
(* What the activity log promises, with no lock, timer or thread in it:    *)
(* accepted entries wait in one line; the head of the line moves to the    *)
(* table activity_logs in whole batches and in the order of acceptance;    *)
(* a batch that cannot be written is dropped as a whole; the end of the    *)
(* process drops what is still waiting, except perhaps a batch whose       *)
(* transaction the database had already committed.  LogQueue implements    *)
(* this module.                                                            *)
(***************************************************************************)
EXTENDS Naturals, SequencesExt

CONSTANTS Entry,      (* log entries                                       *)
          BatchSize   (* the most entries that move in one step            *)

VARIABLES pending,    (* accepted, neither written nor dropped             *)
          trail,      (* rows of activity_logs, oldest first               *)
          dropped     (* entries that will never be written                *)

trailVars == <<pending, trail, dropped>>

Known == ToSet(pending) \cup ToSet(trail) \cup dropped

Batch == 1 .. (IF Len(pending) < BatchSize THEN Len(pending) ELSE BatchSize)
First(n) == SubSeq(pending, 1, n)
Rest(n)  == SubSeq(pending, n + 1, Len(pending))

Init == pending = <<>> /\ trail = <<>> /\ dropped = {}

Accept == \E e \in Entry \ Known :
    /\ pending' = Append(pending, e)
    /\ UNCHANGED <<trail, dropped>>

Persist == \E n \in Batch :
    /\ trail' = trail \o First(n)
    /\ pending' = Rest(n)
    /\ UNCHANGED dropped

Drop == \E n \in Batch :
    /\ dropped' = dropped \cup ToSet(First(n))
    /\ pending' = Rest(n)
    /\ UNCHANGED trail

(* The process ends: the first n entries were committed, the rest is gone. *)
EndOfProcess == \E n \in Batch \cup {0} :
    /\ trail' = trail \o First(n)
    /\ dropped' = dropped \cup ToSet(Rest(n))
    /\ pending' = <<>>

Next == Accept \/ Persist \/ Drop \/ EndOfProcess

(* Waiting entries do not wait for ever. *)
Spec == Init /\ [][Next]_trailVars
             /\ WF_trailVars(Persist \/ Drop \/ EndOfProcess)

=============================================================================
