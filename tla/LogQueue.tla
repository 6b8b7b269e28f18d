------------------------------ MODULE LogQueue ------------------------------
(***************************************************************************)
(* services/logger_queue.py: the write-behind buffer of the activity log   *)
(* in one server process.  Request handlers call enqueue_log; a full       *)
(* buffer is flushed by the handler that filled it, an old one by the      *)
(* background task, what is left by the shutdown hook.  Every access is    *)
(* under one asyncio.Lock, which stays held while the batch is written by  *)
(* a thread of the default executor.                                       *)
(***************************************************************************)
EXTENDS Naturals, FiniteSets, SequencesExt

CONSTANTS Entry,     (* log entries; each is the argument of one call      *)
          Poison,    (* those the table refuses (foreign key, JSON)        *)
          BatchSize, (* BATCH_SIZE                                         *)
          MaxWait,   (* MAX_WAIT, in ticks of the background task          *)
          Timer,     (* the background task                                *)
          None

ASSUME LogAssumption ==
    /\ Poison \subseteq Entry
    /\ BatchSize \in Nat \ {0}
    /\ MaxWait \in Nat
    /\ Timer \notin Entry
    /\ None \notin Entry \cup {Timer}

VARIABLES
    call,    (* progress of the handler that logs the entry                *)
    queue,   (* coroutines waiting for self.lock, first come first served  *)
    holder,  (* the coroutine that owns self.lock                          *)
    buffer,  (* self.buffer                                                *)
    jobs,    (* _flush_to_db_sync calls handed to the executor             *)
    age,     (* time.time() - self.last_flush, capped at MaxWait           *)
    seen,    (* the same difference, from the time the task read the clock *)
    timer,   (* where the background task stands                           *)
    phase,   (* the server process                                         *)
    dbUp,    (* whether PostgreSQL answers                                 *)
    trail,   (* rows of activity_logs                                      *)
    lost     (* accepted entries that will never be rows                   *)

vars == <<call, queue, holder, buffer, jobs, age, seen, timer, phase, dbUp,
          trail, lost>>

Coroutine == Entry \cup {Timer}
CallState == {"idle", "waiting", "refused", "flushing", "returned", "failed"}
TimerState == {"sleeping", "waiting", "flushing", "backoff", "final",
               "finished", "aborted"}
Job == [batch : Seq(Entry), owner : Coroutine \cup {None},
        stage : {"submitted", "running"}]

LockFree == holder = None /\ queue = <<>>
Batches == FlattenSeq([i \in DOMAIN jobs |-> jobs[i].batch])
InFlight == UNION {ToSet(jobs[i].batch) : i \in DOMAIN jobs}

-----------------------------------------------------------------------------
(* A fresh process: LoggingService.__init__ and the startup hook.          *)
Fresh ==
    /\ queue' = <<>> /\ holder' = None
    /\ buffer' = <<>> /\ jobs' = <<>>
    /\ age' = 0 /\ seen' = 0
    /\ timer' = "sleeping"

Init ==
    /\ call = [e \in Entry |-> "idle"]
    /\ queue = <<>> /\ holder = None
    /\ buffer = <<>> /\ jobs = <<>>
    /\ age = 0 /\ seen = 0
    /\ timer = "sleeping" /\ phase = "up" /\ dbUp = TRUE
    /\ trail = <<>> /\ lost = {}

-----------------------------------------------------------------------------
(* Definitions whose comment starts with `Bug:' are faulty variants of the *)
(* definition that follows them; no other definition uses them.            *)

(* Bug: one entry too many.                                                *)
FullLate(b) == Len(b) > BatchSize
(* The buffer is full: len(self.buffer) >= BATCH_SIZE.                     *)
Full(b) == Len(b) >= BatchSize

(* The background task flushes: something waits and MAX_WAIT has passed.   *)
Due(elapsed) == buffer # <<>> /\ elapsed >= MaxWait

(* Bug: the batch is copied but not removed.                               *)
KeepFlushed(b) == b
(* Bug: self.buffer = None.                                                *)
ClearedToNone(b) == None
(* What _flush_buffer leaves behind: self.buffer.clear().                  *)
Cleared(b) == <<>>

(* _flush_buffer up to its await: the batch goes to the executor and the   *)
(* clock of the last flush restarts, also for a task that read the time    *)
(* before it got the lock.                                                 *)
Submit(owner, batch) ==
    /\ jobs' = Append(jobs, [batch |-> batch, owner |-> owner, stage |-> "submitted"])
    /\ buffer' = Cleared(batch)
    /\ age' = 0 /\ seen' = 0

(* Bug: the flush is awaited outside `async with self.lock'.               *)
ReleasedEarly(c) == None
(* Who owns the lock while c awaits the executor.                          *)
Awaiting(c) == c

(* enqueue_log inside `async with self.lock'.                              *)
AddEntry(e) ==
    LET b == Append(buffer, e) IN
    \/ /\ Full(b)
       /\ Submit(e, b)
       /\ holder' = Awaiting(e)
       /\ call' = [call EXCEPT ![e] = "flushing"]
    \/ /\ ~ Full(b)
       /\ buffer' = b
       /\ holder' = None
       /\ call' = [call EXCEPT ![e] = "returned"]
       /\ UNCHANGED <<jobs, age, seen>>

(* The background task inside `async with self.lock'.                      *)
CheckBuffer(elapsed) ==
    \/ /\ Due(elapsed)
       /\ Submit(Timer, buffer)
       /\ holder' = Awaiting(Timer)
       /\ timer' = "flushing"
    \/ /\ ~ Due(elapsed)
       /\ holder' = None
       /\ seen' = 0
       /\ timer' = "sleeping"
       /\ UNCHANGED <<jobs, buffer, age>>

-----------------------------------------------------------------------------
(* A handler calls enqueue_log: it enters the lock at once or lines up.    *)
EnqueueLog(e) ==
    /\ phase = "up" /\ call[e] = "idle"
    /\ \/ /\ LockFree
          /\ AddEntry(e)
          /\ UNCHANGED queue
       \/ /\ ~ LockFree
          /\ queue' = Append(queue, e)
          /\ call' = [call EXCEPT ![e] = "waiting"]
          /\ UNCHANGED <<holder, buffer, jobs, age, seen>>
    /\ UNCHANGED <<timer, phase, dbUp, trail, lost>>

(* The lock passes to the coroutine that has waited longest.               *)
Grant ==
    /\ phase = "up" /\ holder = None /\ queue # <<>>
    /\ queue' = Tail(queue)
    /\ \/ /\ Head(queue) \in Entry
          /\ AddEntry(Head(queue))
          /\ UNCHANGED timer
       \/ /\ Head(queue) = Timer
          /\ CheckBuffer(seen)
          /\ UNCHANGED call
    /\ UNCHANGED <<phase, dbUp, trail, lost>>

(* asyncio.sleep(1) is over: read the clock, then ask for the lock.        *)
TimerWakes ==
    /\ phase = "up" /\ timer = "sleeping"
    /\ \/ /\ LockFree
          /\ CheckBuffer(age)
          /\ UNCHANGED queue
       \/ /\ ~ LockFree
          /\ queue' = Append(queue, Timer)
          /\ timer' = "waiting"
          /\ seen' = age
          /\ UNCHANGED <<holder, buffer, jobs, age>>
    /\ UNCHANGED <<call, phase, dbUp, trail, lost>>

(* The sleep after `except Exception' is over.                             *)
BackoffEnds ==
    /\ phase = "up" /\ timer = "backoff"
    /\ timer' = "sleeping"
    /\ UNCHANGED <<call, queue, holder, buffer, jobs, age, seen, phase, dbUp,
                   trail, lost>>

Tick ==
    /\ phase = "up" /\ age < MaxWait
    /\ age' = age + 1
    /\ UNCHANGED <<call, queue, holder, buffer, jobs, seen, timer, phase, dbUp,
                   trail, lost>>

-----------------------------------------------------------------------------
(* A thread of the executor picks the call up: it can no longer be         *)
(* cancelled.                                                              *)
JobStarts(i) ==
    /\ phase # "down"
    /\ i \in DOMAIN jobs /\ jobs[i].stage = "submitted"
    /\ jobs' = [jobs EXCEPT ![i].stage = "running"]
    /\ UNCHANGED <<call, queue, holder, buffer, age, seen, timer, phase, dbUp,
                   trail, lost>>

(* Bug: one Session for all flushes, not rolled back after an error.       *)
InsertableOnce(batch) ==
    dbUp /\ ToSet(batch) \cap Poison = {} /\ lost \cap Poison = {}
(* The transaction goes through.                                           *)
Insertable(batch) == dbUp /\ ToSet(batch) \cap Poison = {}

(* Bug: release() is not in a finally block.                               *)
LockKept(owner, raised) == IF raised THEN holder ELSE None
(* The coroutine that awaited the call leaves `async with self.lock'; a    *)
(* call whose task was cancelled has nobody to wake.                       *)
LockAfter(owner, raised) == IF owner = None THEN holder ELSE None

(* Where the background task stands after its flush.                       *)
AfterFlush(raised) ==
    CASE timer = "final" /\ raised   -> "aborted"
      [] timer = "final" /\ ~ raised -> "finished"
      [] timer # "final" /\ raised   -> "backoff"
      [] OTHER                        -> "sleeping"

(* The coroutine goes on; after an exception of rollback() or close() the  *)
(* request fails, the task backs off, or its final flush ends it.          *)
Resume(owner, raised) ==
    /\ holder' = LockAfter(owner, raised)
    /\ call' = IF owner \in Entry
               THEN [call EXCEPT ![owner] = IF raised THEN "failed" ELSE "returned"]
               ELSE call
    /\ timer' = IF owner = Timer THEN AfterFlush(raised) ELSE timer

(* Bug: one commit per entry.                                              *)
RowsStored(batch) == SelectSeq(batch, LAMBDA e : e \notin Poison)
(* The rows a refused batch leaves in the table after db.rollback().       *)
RowsKept(batch) == <<>>

(* _flush_to_db_sync ends: the transaction commits; or it is refused and   *)
(* the handler of `except Exception' rolls it back; or the database is     *)
(* away and the rollback raises as well.                                   *)
JobEnds(i) ==
    /\ phase # "down"
    /\ i \in DOMAIN jobs /\ jobs[i].stage = "running"
    /\ jobs' = RemoveAt(jobs, i)
    /\ LET batch == jobs[i].batch IN
       \/ /\ Insertable(batch)
          /\ trail' = trail \o batch
          /\ Resume(jobs[i].owner, FALSE)
          /\ UNCHANGED lost
       \/ /\ ~ Insertable(batch)
          /\ trail' = trail \o RowsKept(batch)
          /\ lost' = lost \cup (ToSet(batch) \ ToSet(RowsKept(batch)))
          /\ \E raised \in {FALSE, ~ dbUp} : Resume(jobs[i].owner, raised)
    /\ UNCHANGED <<queue, buffer, age, seen, phase, dbUp>>

-----------------------------------------------------------------------------
(* The server runs the shutdown hook once no request is left.              *)
Drained == \A e \in Entry : call[e] \notin {"waiting", "flushing"}

(* Bug: no flush after the loop.                                           *)
NoFinalFlush == FALSE
(* Whether the task writes what is left before it ends.                    *)
FinalFlush == buffer # <<>>

(* The final flush, under the lock the cancelled task has left: `kept' are *)
(* the calls that stay with the executor.                                  *)
LastFlush(kept) ==
    \/ /\ FinalFlush
       /\ jobs' = Append(kept, [batch |-> buffer, owner |-> Timer, stage |-> "submitted"])
       /\ buffer' = <<>> /\ age' = 0
       /\ holder' = Timer
       /\ timer' = "final"
    \/ /\ ~ FinalFlush
       /\ jobs' = kept
       /\ holder' = None
       /\ timer' = "finished"
       /\ UNCHANGED <<buffer, age>>

(* shutdown_event: running := False, cancel the task, await it.  A call    *)
(* the task was awaiting is cancelled with it unless a thread runs it; a   *)
(* task that waited for the lock leaves the line, where it was alone; one  *)
(* cancelled in its backoff ends without the final flush.                  *)
Shutdown ==
    /\ phase = "up" /\ Drained
    /\ phase' = "stopping"
    /\ queue' = <<>>
    /\ \/ /\ timer \in {"sleeping", "waiting"}
          /\ LastFlush(jobs)
          /\ UNCHANGED lost
       \/ /\ timer = "flushing"
          /\ \E i \in DOMAIN jobs :
               /\ jobs[i].owner = Timer
               /\ \/ /\ jobs[i].stage = "submitted"
                     /\ LastFlush(RemoveAt(jobs, i))
                     /\ lost' = lost \cup ToSet(jobs[i].batch)
                  \/ /\ jobs[i].stage = "running"
                     /\ LastFlush([jobs EXCEPT ![i].owner = None])
                     /\ UNCHANGED lost
       \/ /\ timer = "backoff"
          /\ timer' = "aborted"
          /\ UNCHANGED <<holder, buffer, jobs, age, lost>>
    /\ UNCHANGED <<call, seen, dbUp, trail>>

(* The process ends: waiting calls never got in, the buffer is gone, and   *)
(* `stored' is what the database had committed of the calls in flight.     *)
ProcessEnds(stored) ==
    /\ phase' = "down"
    /\ Fresh
    /\ trail' = trail \o stored
    /\ lost' = lost \cup ((InFlight \cup ToSet(buffer)) \ ToSet(stored))
    /\ call' = [e \in Entry |-> CASE call[e] = "waiting" -> "refused"
                                  [] call[e] = "flushing" -> "failed"
                                  [] OTHER -> call[e]]
    /\ UNCHANGED dbUp

(* The interpreter exits after the hook; it joins the executor's threads.  *)
Exit ==
    /\ phase = "stopping" /\ timer \in {"finished", "aborted"} /\ jobs = <<>>
    /\ ProcessEnds(<<>>)

(* The process is killed: of a running transaction nobody knows whether    *)
(* its COMMIT got through.                                                 *)
Crash ==
    /\ phase # "down"
    /\ \E stored \in {<<>>} \cup {jobs[i].batch : i \in
                        {j \in DOMAIN jobs : /\ jobs[j].stage = "running"
                                             /\ Insertable(jobs[j].batch)}} :
          ProcessEnds(stored)

(* The process manager starts a new process.                               *)
Boot ==
    /\ phase = "down"
    /\ phase' = "up"
    /\ UNCHANGED <<call, queue, holder, buffer, jobs, age, seen, timer, dbUp,
                   trail, lost>>

(* PostgreSQL goes away or comes back.                                     *)
DbToggles ==
    /\ dbUp' = ~ dbUp
    /\ UNCHANGED <<call, queue, holder, buffer, jobs, age, seen, timer, phase,
                   trail, lost>>

-----------------------------------------------------------------------------
Next ==
    \/ \E e \in Entry : EnqueueLog(e)
    \/ Grant
    \/ TimerWakes \/ BackoffEnds \/ Tick
    \/ \E i \in DOMAIN jobs : JobStarts(i)
    \/ \E i \in DOMAIN jobs : JobEnds(i)
    \/ Shutdown \/ Exit \/ Crash \/ Boot
    \/ DbToggles

(* The event loop runs what is ready, time passes, and the executor's      *)
(* threads run: every database call ends, with an answer or an error.      *)
(* Nothing obliges a client to call, an operator to stop or start the      *)
(* server, or the database to fail or to recover.                          *)
Fairness ==
    /\ WF_vars(Grant) /\ WF_vars(TimerWakes) /\ WF_vars(BackoffEnds)
    /\ WF_vars(Tick)
    /\ WF_vars(\E i \in DOMAIN jobs : JobStarts(i) \/ JobEnds(i))
    /\ WF_vars(Exit)

Spec == Init /\ [][Next]_vars /\ Fairness

-----------------------------------------------------------------------------
(* Every variable has its type.                                            *)
TypeOK ==
    /\ call \in [Entry -> CallState]
    /\ queue \in Seq(Coroutine)
    /\ holder \in Coroutine \cup {None}
    /\ buffer \in Seq(Entry)
    /\ jobs \in Seq(Job)
    /\ age \in 0 .. MaxWait
    /\ seen \in 0 .. MaxWait
    /\ timer \in TimerState
    /\ phase \in {"up", "stopping", "down"}
    /\ dbUp \in BOOLEAN
    /\ trail \in Seq(Entry)
    /\ lost \subseteq Entry

(* An entry enqueue_log has put in the buffer, whatever became of the      *)
(* request afterwards.                                                     *)
Accepted == {e \in Entry : call[e] \in {"flushing", "returned", "failed"}}

(* No entry is written twice or silently forgotten: each accepted entry is *)
(* in exactly one place (a row, lost, in flight or buffered) and no other  *)
(* entry is anywhere, through flushes, cancellation and crashes.           *)
EachEntryOnce ==
    LET line == trail \o Batches \o buffer IN
    /\ \A i, j \in DOMAIN line : line[i] = line[j] => i = j
    /\ ToSet(line) \cap lost = {}
    /\ ToSet(line) \cup lost = Accepted

(* The buffer never reaches BATCH_SIZE outside the lock, and no            *)
(* transaction carries more than BATCH_SIZE rows.                          *)
BatchBound ==
    /\ Len(buffer) < BatchSize
    /\ \A i \in DOMAIN jobs : Len(jobs[i].batch) \in 1 .. BatchSize

(* Two batches are never on their way to the database together, also not   *)
(* around a shutdown that cancels a flush: the lock is held exactly while  *)
(* a call is awaited, by the coroutine that awaits it.                     *)
SingleFlight ==
    /\ Len(jobs) <= 1
    /\ holder # None => jobs # <<>> /\ jobs[1].owner = holder
    /\ \A i \in DOMAIN jobs : jobs[i].owner \in {holder, None}

(* After a background task that ended in good order nothing is left in the *)
(* buffer for the exit of the process to destroy.                          *)
DrainedByShutdown == timer = "finished" => buffer = <<>>

(* Entries are lost only with a batch that holds a refused entry, while    *)
(* the database is away, or at the end of the process.  The loss never     *)
(* reaches the entries that still wait in the buffer of a living process.  *)
LossHasCause ==
    [][lost' # lost =>
         \/ phase' # phase
         \/ /\ \E i \in DOMAIN jobs :
                 /\ lost' \ lost = ToSet(jobs[i].batch)
                 /\ ~ dbUp \/ ToSet(jobs[i].batch) \cap Poison # {}
            /\ UNCHANGED buffer]_vars

(* LogQueue implements AuditTrail: rows appear in the order of acceptance, *)
(* batch by batch, all or nothing, and no accepted entry waits for ever.   *)
Audit == INSTANCE AuditTrail WITH pending <- Batches \o buffer, dropped <- lost
ImplementsAuditTrail == Audit!Spec

(* A handler that logs always gets out of enqueue_log.                     *)
CallReturns ==
    \A e \in Entry : call[e] \in {"waiting", "flushing"}
                        ~> call[e] \in {"returned", "failed", "refused"}

(* README.md:140 "Comprehensive Audit Trail: All system activities         *)
(* logged": in a process that is not stopped, with the database up, a      *)
(* well-formed entry is not lost.                                          *)
WellFormedEntryKept ==
    [][phase' = "up" /\ dbUp => lost' \ lost \subseteq Poison]_vars

=============================================================================
