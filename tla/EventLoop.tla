----------------------------- MODULE EventLoop ------------------------------
(***************************************************************************)
(* How the handlers of the server processes share the processor.  A        *)
(* request sits in a slot of one process.  Its dependencies                *)
(* (get_current_user) are plain functions and run in a thread; then the    *)
(* handler, a coroutine, has the event loop of its process to itself until *)
(* it ends or awaits the activity log.  Nothing orders the handlers of     *)
(* different processes.                                                    *)
(***************************************************************************)
CONSTANTS Slot, Process, None

VARIABLES
    place,   (* the process each slot belongs to, fixed                    *)
    task     (* the request in a slot, or None; its field todo says where  *)
             (* it stands                                                  *)

Idle(s) == task[s] = None
At(s, todo) == task[s] # None /\ task[s].todo = todo

(* Bug: the remote check is awaited too.                                   *)
WaitingForVerdict == {"start", "log", "verdict"}
(* Bug: the log is awaited between the last query and the commit.          *)
WaitingToCommit == {"start", "log", "commit"}
(* Bug: the queries are awaited.                                           *)
WaitingForRows == {"start", "log", "query"}
(* Before the handler's turn, and in the middle of enqueue_log.            *)
Waiting == {"start", "log"}
Running(s) == task[s] # None /\ task[s].todo \notin Waiting
(* The event loop of the slot's process is not busy with another handler.  *)
MayRun(s) == \A t \in Slot \ {s} : place[t] = place[s] => ~Running(t)

OneProcess == \A s, t \in Slot : place[s] = place[t]

(* The handler in slot s goes on to be t; or it is done.                   *)
Goes(s, t) == MayRun(s) /\ task' = [task EXCEPT ![s] = t]
Done(s) == task' = [task EXCEPT ![s] = None]

=============================================================================
