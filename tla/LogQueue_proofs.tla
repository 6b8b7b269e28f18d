--------------------------- MODULE LogQueue_proofs ---------------------------
(***************************************************************************)
(* Proofs about LogQueue for any number of entries, any batch size and any *)
(* waiting time.                                                           *)
(***************************************************************************)
EXTENDS LogQueue, SequenceTheorems, TLAPS

(* Removing the only element of a sequence leaves the empty one.           *)
LEMMA RemoveOnly ==
    ASSUME NEW S, NEW s \in Seq(S), Len(s) <= 1, NEW i \in DOMAIN s
    PROVE  RemoveAt(s, i) = <<>>
<1> DEFINE n == Len(s)
<1>1. n \in Nat /\ n <= 1 /\ i \in 1 .. n
  BY LenProperties
<1> HIDE DEF n
<1>2. n = 1 /\ i = 1
  BY <1>1
<1> USE DEF n
<1>3. SubSeq(s, 1, 0) = <<>> /\ SubSeq(s, 2, 1) = <<>>
  BY <1>2
<1> QED BY <1>2, <1>3 DEF RemoveAt

LEMMA ElementsOf ==
    ASSUME NEW S, NEW s \in Seq(S)
    PROVE  ToSet(s) \subseteq S
BY LenProperties DEF ToSet

-----------------------------------------------------------------------------
(* The inductive invariant: who may touch the buffer when.  While the lock *)
(* is held the buffer is empty, so the final flush of a task that shutdown *)
(* cancelled in a flush finds nothing to send next to the call it left     *)
(* behind.                                                                 *)
Ownership ==
    /\ holder # None => buffer = <<>>
    /\ holder \in Entry => call[holder] = "flushing"
    /\ holder = Timer <=> timer \in {"flushing", "final"}
    /\ phase = "up" => /\ \A i \in DOMAIN jobs : jobs[i].owner # None
                       /\ timer \notin {"final", "finished"}
    /\ phase = "down" => holder = None /\ jobs = <<>> /\ timer = "sleeping"

IInv == TypeOK /\ BatchBound /\ SingleFlight /\ DrainedByShutdown /\ Ownership

(* In a running process a free lock means that nothing is in flight.       *)
LEMMA NothingInFlight ==
    ASSUME IInv, phase = "up", holder = None
    PROVE  jobs = <<>>
<1>1. jobs \in Seq(Job) BY DEF IInv, TypeOK
<1>2. ASSUME jobs # <<>> PROVE FALSE
  <2>1. 1 \in DOMAIN jobs BY <1>1, <1>2, LenProperties, EmptySeq
  <2> QED BY <2>1 DEF IInv, SingleFlight, Ownership
<1> QED BY <1>2

(* Handing a batch to the executor while nothing is in flight.             *)
LEMMA SubmitOne ==
    ASSUME IInv, jobs = <<>>, NEW c \in Coroutine, NEW batch \in Seq(Entry),
           Len(batch) \in 1 .. BatchSize, Submit(c, batch)
    PROVE  /\ jobs' \in Seq(Job) /\ Len(jobs') = 1 /\ jobs' # <<>>
           /\ DOMAIN jobs' = {1}
           /\ jobs'[1].owner = c /\ jobs'[1].batch = batch
           /\ buffer' = <<>>
           /\ age' \in 0 .. MaxWait /\ seen' \in 0 .. MaxWait
<1> DEFINE job == [batch |-> batch, owner |-> c, stage |-> "submitted"]
<1>1. job \in Job BY DEF Job
<1>2. jobs' = Append(<<>>, job) BY DEF Submit
<1>3. jobs' = <<job>> BY <1>2
<1>4. age' = 0 /\ seen' = 0 /\ buffer' = <<>> BY DEF Submit, Cleared
<1> HIDE DEF job
<1>5. jobs' \in Seq(Job) /\ Len(jobs') = 1 /\ DOMAIN jobs' = {1} /\ jobs'[1] = job
  BY <1>1, <1>3
<1> QED BY <1>4, <1>5, LogAssumption DEF job

(* A buffer below the bound takes one more entry.                          *)
LEMMA OneMore ==
    ASSUME IInv, NEW e \in Entry
    PROVE  /\ Append(buffer, e) \in Seq(Entry)
           /\ Len(Append(buffer, e)) = Len(buffer) + 1
           /\ Len(buffer) \in Nat /\ Len(buffer) < BatchSize
BY DEF IInv, TypeOK, BatchBound

(* enqueue_log inside the lock.                                            *)
LEMMA AddEntrySound ==
    ASSUME IInv, phase = "up", holder = None, NEW e \in Entry, AddEntry(e),
           queue' \in Seq(Coroutine), UNCHANGED <<timer, phase, dbUp, trail, lost>>
    PROVE  IInv'
<1> DEFINE b == Append(buffer, e)
<1>1. jobs = <<>> BY NothingInFlight
<1>2. /\ b \in Seq(Entry) /\ Len(b) = Len(buffer) + 1
      /\ Len(buffer) \in Nat /\ Len(buffer) < BatchSize
  BY OneMore
<1>3. timer \notin {"flushing", "final"} /\ timer # "finished" /\ e # Timer /\ e # None
      /\ None # Timer
  BY LogAssumption DEF IInv, Ownership
<1>4. CASE Full(b)
  <2>1. Submit(e, b) /\ holder' = e /\ call' = [call EXCEPT ![e] = "flushing"]
    BY <1>4 DEF AddEntry, Awaiting
  <2>2. Len(b) \in 1 .. BatchSize BY <1>2, LogAssumption
  <2> HIDE DEF b
  <2>3. /\ jobs' \in Seq(Job) /\ Len(jobs') = 1 /\ jobs' # <<>> /\ DOMAIN jobs' = {1}
        /\ jobs'[1].owner = e /\ jobs'[1].batch = b /\ buffer' = <<>>
        /\ age' \in 0 .. MaxWait /\ seen' \in 0 .. MaxWait
    BY <1>1, <1>2, <2>1, <2>2, SubmitOne DEF Coroutine
  <2>4. call' \in [Entry -> CallState] /\ call'[e] = "flushing"
    BY <2>1 DEF IInv, TypeOK, CallState
  <2>5. TypeOK' BY <2>1, <2>3, <2>4 DEF IInv, TypeOK, Coroutine
  <2>6. BatchBound' BY <2>2, <2>3, LogAssumption DEF BatchBound
  <2>7. SingleFlight' BY <2>1, <2>3 DEF SingleFlight
  <2>8. DrainedByShutdown' BY <2>3 DEF DrainedByShutdown
  <2>9. Ownership' BY <1>3, <2>1, <2>3, <2>4 DEF Ownership
  <2> QED BY <2>5, <2>6, <2>7, <2>8, <2>9 DEF IInv
<1>5. CASE ~ Full(b)
  <2>1. buffer' = b /\ holder' = None /\ call' = [call EXCEPT ![e] = "returned"]
        /\ UNCHANGED <<jobs, age, seen>>
    BY <1>5 DEF AddEntry
  <2>2. Len(b) < BatchSize BY <1>2, <1>5, LogAssumption DEF Full
  <2>3. call' \in [Entry -> CallState] BY <2>1 DEF IInv, TypeOK, CallState
  <2> HIDE DEF b
  <2>4. TypeOK' BY <1>2, <2>1, <2>3 DEF IInv, TypeOK
  <2>5. BatchBound' BY <2>1, <2>2 DEF IInv, BatchBound
  <2>6. SingleFlight' BY <2>1 DEF IInv, SingleFlight
  <2>7. DrainedByShutdown' BY <1>3 DEF DrainedByShutdown
  <2>8. Ownership' BY <1>3, <2>1, LogAssumption DEF IInv, Ownership
  <2> QED BY <2>4, <2>5, <2>6, <2>7, <2>8 DEF IInv
<1> QED BY <1>4, <1>5

(* The background task inside the lock.                                    *)
LEMMA CheckBufferSound ==
    ASSUME IInv, phase = "up", holder = None, NEW elapsed, CheckBuffer(elapsed),
           queue' \in Seq(Coroutine), UNCHANGED <<call, phase, dbUp, trail, lost>>
    PROVE  IInv'
<1>1. jobs = <<>> BY NothingInFlight
<1>2. Timer # None /\ Timer \notin Entry /\ None \notin Entry BY LogAssumption
<1>3. CASE Due(elapsed)
  <2>1. Submit(Timer, buffer) /\ holder' = Timer /\ timer' = "flushing"
    BY <1>3 DEF CheckBuffer, Awaiting
  <2>2. buffer \in Seq(Entry) /\ buffer # <<>> /\ Len(buffer) < BatchSize
    BY <1>3 DEF IInv, TypeOK, BatchBound, Due
  <2>3. Len(buffer) \in 1 .. BatchSize BY <2>2, EmptySeq, LogAssumption
  <2>4. /\ jobs' \in Seq(Job) /\ Len(jobs') = 1 /\ jobs' # <<>> /\ DOMAIN jobs' = {1}
        /\ jobs'[1].owner = Timer /\ jobs'[1].batch = buffer /\ buffer' = <<>>
        /\ age' \in 0 .. MaxWait /\ seen' \in 0 .. MaxWait
    BY <1>1, <2>1, <2>2, <2>3, SubmitOne DEF Coroutine
  <2>5. TypeOK' BY <2>1, <2>4 DEF IInv, TypeOK, Coroutine, TimerState
  <2>6. BatchBound' BY <2>3, <2>4, LogAssumption DEF BatchBound
  <2>7. SingleFlight' BY <2>1, <2>4 DEF SingleFlight
  <2>8. DrainedByShutdown' BY <2>4 DEF DrainedByShutdown
  <2>9. Ownership' BY <1>2, <2>1, <2>4 DEF Ownership
  <2> QED BY <2>5, <2>6, <2>7, <2>8, <2>9 DEF IInv
<1>4. CASE ~ Due(elapsed)
  <2>1. holder' = None /\ seen' = 0 /\ timer' = "sleeping" /\ UNCHANGED <<jobs, buffer, age>>
    BY <1>4 DEF CheckBuffer
  <2>2. TypeOK' BY <2>1, LogAssumption DEF IInv, TypeOK, TimerState
  <2>3. BatchBound' BY <2>1 DEF IInv, BatchBound
  <2>4. SingleFlight' BY <2>1 DEF IInv, SingleFlight
  <2>5. DrainedByShutdown' BY <2>1 DEF DrainedByShutdown
  <2>6. Ownership' BY <1>1, <1>2, <2>1 DEF IInv, Ownership
  <2> QED BY <2>2, <2>3, <2>4, <2>5, <2>6 DEF IInv
<1> QED BY <1>3, <1>4

-----------------------------------------------------------------------------
LEMMA InitSound == Init => IInv
<1> SUFFICES ASSUME Init PROVE IInv OBVIOUS
<1>1. jobs = <<>> /\ buffer = <<>> /\ queue = <<>> /\ trail = <<>> BY DEF Init
<1>2. Len(jobs) = 0 /\ Len(buffer) = 0 /\ DOMAIN jobs = {} BY <1>1
<1>3. TypeOK BY <1>1, LogAssumption DEF Init, TypeOK, CallState, TimerState
<1>4. BatchBound BY <1>2, LogAssumption DEF BatchBound
<1>5. SingleFlight BY <1>2 DEF Init, SingleFlight
<1>6. DrainedByShutdown BY <1>1 DEF DrainedByShutdown
<1>7. Ownership BY <1>2, LogAssumption DEF Init, Ownership
<1> QED BY <1>3, <1>4, <1>5, <1>6, <1>7 DEF IInv

LEMMA EnqueueLogSound ==
    ASSUME IInv, NEW e \in Entry, EnqueueLog(e)
    PROVE  IInv'
<1>1. CASE LockFree /\ AddEntry(e) /\ UNCHANGED queue
  <2>1. queue' \in Seq(Coroutine) BY <1>1 DEF IInv, TypeOK
  <2> QED BY <1>1, <2>1, AddEntrySound DEF EnqueueLog, LockFree
<1>2. CASE /\ ~ LockFree
           /\ queue' = Append(queue, e)
           /\ call' = [call EXCEPT ![e] = "waiting"]
           /\ UNCHANGED <<holder, buffer, jobs, age, seen>>
  <2>1. queue' \in Seq(Coroutine) BY <1>2 DEF IInv, TypeOK, Coroutine
  <2>2. call' \in [Entry -> CallState] BY <1>2 DEF IInv, TypeOK, CallState
  <2>3. call[e] = "idle" /\ UNCHANGED <<timer, phase, dbUp, trail, lost>>
    BY DEF EnqueueLog
  <2>4. TypeOK' BY <1>2, <2>1, <2>2, <2>3 DEF IInv, TypeOK
  <2>5. BatchBound' BY <1>2 DEF IInv, BatchBound
  <2>6. SingleFlight' BY <1>2 DEF IInv, SingleFlight
  <2>7. DrainedByShutdown' BY <1>2, <2>3 DEF IInv, DrainedByShutdown
  <2>8. ASSUME holder \in Entry PROVE call'[holder] = "flushing"
    <3>1. call[holder] = "flushing" BY <2>8 DEF IInv, Ownership
    <3>2. holder # e BY <3>1, <2>3
    <3> QED BY <1>2, <2>8, <3>1, <3>2 DEF IInv, TypeOK
  <2>9. Ownership' BY <1>2, <2>3, <2>8 DEF IInv, Ownership
  <2> QED BY <2>4, <2>5, <2>6, <2>7, <2>9 DEF IInv
<1> QED BY <1>1, <1>2 DEF EnqueueLog

LEMMA GrantSound ==
    ASSUME IInv, Grant
    PROVE  IInv'
<1>1. phase = "up" /\ holder = None /\ queue' = Tail(queue) BY DEF Grant
<1>2. queue \in Seq(Coroutine) /\ queue # <<>> BY DEF Grant, IInv, TypeOK
<1>3. queue' \in Seq(Coroutine) BY <1>1, <1>2, HeadTailProperties
<1>4. CASE Head(queue) \in Entry /\ AddEntry(Head(queue)) /\ UNCHANGED timer
  BY <1>1, <1>3, <1>4, AddEntrySound DEF Grant
<1>5. CASE CheckBuffer(seen) /\ UNCHANGED call
  BY <1>1, <1>3, <1>5, CheckBufferSound DEF Grant
<1> QED BY <1>4, <1>5 DEF Grant

LEMMA TimerWakesSound ==
    ASSUME IInv, TimerWakes
    PROVE  IInv'
<1>1. CASE LockFree /\ CheckBuffer(age) /\ UNCHANGED queue
  <2>1. queue' \in Seq(Coroutine) BY <1>1 DEF IInv, TypeOK
  <2> QED BY <1>1, <2>1, CheckBufferSound DEF TimerWakes, LockFree
<1>2. CASE /\ queue' = Append(queue, Timer)
           /\ timer' = "waiting"
           /\ seen' = age
           /\ UNCHANGED <<holder, buffer, jobs, age>>
  <2>1. queue' \in Seq(Coroutine) BY <1>2 DEF IInv, TypeOK, Coroutine
  <2>2. timer = "sleeping" /\ UNCHANGED <<call, phase, dbUp, trail, lost>> /\ phase = "up"
    BY DEF TimerWakes
  <2>3. TypeOK' BY <1>2, <2>1, <2>2 DEF IInv, TypeOK, TimerState
  <2>4. BatchBound' BY <1>2 DEF IInv, BatchBound
  <2>5. SingleFlight' BY <1>2 DEF IInv, SingleFlight
  <2>6. DrainedByShutdown' BY <1>2 DEF DrainedByShutdown
  <2>7. Ownership' BY <1>2, <2>2 DEF IInv, Ownership
  <2> QED BY <2>3, <2>4, <2>5, <2>6, <2>7 DEF IInv
<1> QED BY <1>1, <1>2 DEF TimerWakes

LEMMA BackoffEndsSound ==
    ASSUME IInv, BackoffEnds
    PROVE  IInv'
<1>1. timer = "backoff" /\ timer' = "sleeping" /\ phase = "up"
      /\ UNCHANGED <<call, queue, holder, buffer, jobs, age, seen, phase, dbUp, trail, lost>>
  BY DEF BackoffEnds
<1>2. TypeOK' BY <1>1 DEF IInv, TypeOK, TimerState
<1>3. BatchBound' BY <1>1 DEF IInv, BatchBound
<1>4. SingleFlight' BY <1>1 DEF IInv, SingleFlight
<1>5. DrainedByShutdown' BY <1>1 DEF DrainedByShutdown
<1>6. Ownership' BY <1>1 DEF IInv, Ownership
<1> QED BY <1>2, <1>3, <1>4, <1>5, <1>6 DEF IInv

LEMMA TickSound ==
    ASSUME IInv, Tick
    PROVE  IInv'
<1>1. age' = age + 1 /\ age < MaxWait
      /\ UNCHANGED <<call, queue, holder, buffer, jobs, seen, timer, phase, dbUp, trail, lost>>
  BY DEF Tick
<1>2. age' \in 0 .. MaxWait BY <1>1, LogAssumption DEF IInv, TypeOK
<1>3. TypeOK' BY <1>1, <1>2 DEF IInv, TypeOK
<1>4. BatchBound' BY <1>1 DEF IInv, BatchBound
<1>5. SingleFlight' BY <1>1 DEF IInv, SingleFlight
<1>6. DrainedByShutdown' BY <1>1 DEF IInv, DrainedByShutdown
<1>7. Ownership' BY <1>1 DEF IInv, Ownership
<1> QED BY <1>3, <1>4, <1>5, <1>6, <1>7 DEF IInv

LEMMA DbTogglesSound ==
    ASSUME IInv, DbToggles
    PROVE  IInv'
<1>1. dbUp' = ~ dbUp
      /\ UNCHANGED <<call, queue, holder, buffer, jobs, age, seen, timer, phase, trail, lost>>
  BY DEF DbToggles
<1>2. dbUp' \in BOOLEAN BY <1>1
<1>3. TypeOK' BY <1>1, <1>2 DEF IInv, TypeOK
<1>4. BatchBound' BY <1>1 DEF IInv, BatchBound
<1>5. SingleFlight' BY <1>1 DEF IInv, SingleFlight
<1>6. DrainedByShutdown' BY <1>1 DEF IInv, DrainedByShutdown
<1>7. Ownership' BY <1>1 DEF IInv, Ownership
<1> QED BY <1>3, <1>4, <1>5, <1>6, <1>7 DEF IInv

LEMMA BootSound ==
    ASSUME IInv, Boot
    PROVE  IInv'
<1>1. phase = "down" /\ phase' = "up"
      /\ UNCHANGED <<call, queue, holder, buffer, jobs, age, seen, timer, dbUp, trail, lost>>
  BY DEF Boot
<1>2. TypeOK' BY <1>1 DEF IInv, TypeOK
<1>3. BatchBound' BY <1>1 DEF IInv, BatchBound
<1>4. SingleFlight' BY <1>1 DEF IInv, SingleFlight
<1>5. DrainedByShutdown' BY <1>1 DEF IInv, DrainedByShutdown
<1>6. Ownership' BY <1>1 DEF IInv, Ownership
<1> QED BY <1>2, <1>3, <1>4, <1>5, <1>6 DEF IInv

-----------------------------------------------------------------------------
(* At most one call is with the executor, and it is the owner's.           *)
LEMMA OneJob ==
    ASSUME IInv, NEW i \in DOMAIN jobs
    PROVE  /\ jobs \in Seq(Job) /\ Len(jobs) = 1 /\ i = 1 /\ DOMAIN jobs = {1}
           /\ jobs[i] \in Job
           /\ jobs[i].owner \in {holder, None}
           /\ holder # None => jobs[i].owner = holder
           /\ Len(jobs[i].batch) \in 1 .. BatchSize
           /\ RemoveAt(jobs, i) = <<>>
<1> DEFINE n == Len(jobs)
<1>1. jobs \in Seq(Job) /\ n <= 1 BY DEF IInv, TypeOK, SingleFlight
<1>2. n \in Nat /\ DOMAIN jobs = 1 .. n BY <1>1, LenProperties
<1>3. jobs[i] \in Job BY <1>1, ElementOfSeq, <1>2
<1>4. RemoveAt(jobs, i) = <<>> BY <1>1, RemoveOnly
<1>5. jobs[i].owner \in {holder, None} /\ Len(jobs[i].batch) \in 1 .. BatchSize
  BY DEF IInv, SingleFlight, BatchBound
<1> HIDE DEF n
<1>6. n = 1 /\ i = 1 /\ DOMAIN jobs = {1} BY <1>1, <1>2
<1>7. holder # None => jobs[1].owner = holder BY DEF IInv, SingleFlight
<1> QED BY <1>1, <1>3, <1>4, <1>5, <1>6, <1>7 DEF n

(* The same job with one more field set.                                   *)
LEMMA StepJob ==
    ASSUME IInv, NEW i \in DOMAIN jobs, NEW job \in Job,
           job.batch = jobs[i].batch, jobs' = [jobs EXCEPT ![i] = job]
    PROVE  /\ jobs' \in Seq(Job) /\ Len(jobs') = 1 /\ DOMAIN jobs' = {1} /\ jobs' # <<>>
           /\ jobs'[1] = job
           /\ Len(jobs'[1].batch) \in 1 .. BatchSize
<1>1. /\ jobs \in Seq(Job) /\ Len(jobs) = 1 /\ i = 1 /\ DOMAIN jobs = {1}
      /\ Len(jobs[i].batch) \in 1 .. BatchSize
  BY OneJob
<1>2. jobs' \in Seq(Job) /\ Len(jobs') = Len(jobs) /\ jobs'[i] = job
  BY <1>1, ExceptSeq
<1>3. DOMAIN jobs' = {1} BY <1>1
<1>4. jobs' # <<>> BY <1>3
<1> QED BY <1>1, <1>2, <1>3, <1>4

LEMMA JobStartsSound ==
    ASSUME IInv, NEW i \in DOMAIN jobs, JobStarts(i)
    PROVE  IInv'
<1> DEFINE job == [jobs[i] EXCEPT !.stage = "running"]
<1>1. /\ jobs' = [jobs EXCEPT ![i] = job] /\ phase # "down"
      /\ UNCHANGED <<call, queue, holder, buffer, age, seen, timer, phase, dbUp, trail, lost>>
  BY DEF JobStarts
<1>2. jobs[i] \in Job /\ jobs[i].owner \in {holder, None} /\ i = 1
      /\ (holder # None => jobs[i].owner = holder)
  BY OneJob
<1>3. job \in Job /\ job.batch = jobs[i].batch /\ job.owner = jobs[i].owner
  BY <1>2 DEF Job
<1> HIDE DEF job
<1>4. /\ jobs' \in Seq(Job) /\ Len(jobs') = 1 /\ DOMAIN jobs' = {1} /\ jobs' # <<>>
      /\ jobs'[1] = job /\ Len(jobs'[1].batch) \in 1 .. BatchSize
  BY <1>1, <1>3, StepJob
<1>5. TypeOK' BY <1>1, <1>4 DEF IInv, TypeOK
<1>6. BatchBound' BY <1>1, <1>4 DEF IInv, BatchBound
<1>7. job.owner \in {holder', None} /\ (holder' # None => job.owner = holder')
  BY <1>1, <1>2, <1>3
<1>8. SingleFlight' BY <1>4, <1>7 DEF SingleFlight
<1>9. DrainedByShutdown' BY <1>1 DEF IInv, DrainedByShutdown
<1>10. phase = "up" => jobs[i].owner # None BY DEF IInv, Ownership
<1>11. Ownership' BY <1>1, <1>3, <1>4, <1>10 DEF IInv, Ownership
<1> QED BY <1>5, <1>6, <1>8, <1>9, <1>11 DEF IInv

(* A call that ends leaves nothing in flight, and nobody with the lock.    *)
LEMMA JobEndsSound ==
    ASSUME IInv, NEW i \in DOMAIN jobs, JobEnds(i)
    PROVE  IInv'
<1> DEFINE batch == jobs[i].batch
           owner == jobs[i].owner
<1>1. /\ jobs[i] \in Job /\ owner \in {holder, None} /\ i = 1
      /\ (holder # None => owner = holder)
      /\ RemoveAt(jobs, i) = <<>>
  BY OneJob
<1>2. jobs' = <<>> /\ UNCHANGED <<queue, buffer, age, seen, phase, dbUp>> /\ phase # "down"
  BY <1>1 DEF JobEnds
<1>3. batch \in Seq(Entry) /\ owner \in Coroutine \cup {None} BY <1>1 DEF Job
<1>4. ToSet(batch) \subseteq Entry BY <1>3, ElementsOf
<1>5. PICK raised \in BOOLEAN : Resume(owner, raised) BY DEF JobEnds
<1>6. trail' \in Seq(Entry) /\ lost' \subseteq Entry
  <2>1. CASE trail' = trail \o batch /\ UNCHANGED lost
    BY <1>3, <2>1, ConcatProperties DEF IInv, TypeOK
  <2>2. CASE /\ trail' = trail \o RowsKept(batch)
             /\ lost' = lost \cup (ToSet(batch) \ ToSet(RowsKept(batch)))
    <3>1. trail' = trail \o <<>> BY <2>2 DEF RowsKept
    <3>2. trail' \in Seq(Entry) BY <3>1 DEF IInv, TypeOK
    <3>3. lost' \subseteq Entry BY <1>4, <2>2 DEF IInv, TypeOK
    <3> QED BY <3>2, <3>3
  <2> QED BY <2>1, <2>2 DEF JobEnds
<1>7. Len(jobs') = 0 /\ DOMAIN jobs' = {} /\ jobs' \in Seq(Job) BY <1>2
<1> HIDE DEF batch, owner
<1>8. holder' = None BY <1>1, <1>5 DEF Resume, LockAfter
<1>9. call' \in [Entry -> CallState]
  BY <1>5 DEF Resume, IInv, TypeOK, CallState
<1>10. CASE owner = Timer
  <2>1. holder = Timer /\ timer \in {"flushing", "final"} /\ buffer = <<>>
    BY <1>1, <1>10, LogAssumption DEF IInv, Ownership
  <2>2. /\ timer' \in {"finished", "aborted", "backoff", "sleeping"}
        /\ timer' = "finished" => timer = "final"
    BY <1>5, <1>10, <2>1 DEF Resume, AfterFlush
  <2>3. TypeOK' BY <1>2, <1>6, <1>7, <1>8, <1>9, <2>2 DEF IInv, TypeOK, TimerState
  <2>4. BatchBound' BY <1>2, <1>7 DEF IInv, BatchBound
  <2>5. SingleFlight' BY <1>7, <1>8 DEF SingleFlight
  <2>6. DrainedByShutdown' BY <1>2, <2>1 DEF DrainedByShutdown
  <2>7. phase = "up" => timer # "final" BY DEF IInv, Ownership
  <2>8. Ownership' BY <1>2, <1>7, <1>8, <2>2, <2>7, LogAssumption DEF IInv, Ownership
  <2> QED BY <2>3, <2>4, <2>5, <2>6, <2>8 DEF IInv
<1>11. CASE owner # Timer
  <2>1. timer' = timer BY <1>5, <1>11 DEF Resume
  <2>2. holder # Timer BY <1>1, <1>11, LogAssumption
  <2>3. TypeOK' BY <1>2, <1>6, <1>7, <1>8, <1>9, <2>1 DEF IInv, TypeOK
  <2>4. BatchBound' BY <1>2, <1>7 DEF IInv, BatchBound
  <2>5. SingleFlight' BY <1>7, <1>8 DEF SingleFlight
  <2>6. DrainedByShutdown' BY <1>2, <2>1 DEF IInv, DrainedByShutdown
  <2>7. Ownership' BY <1>2, <1>7, <1>8, <2>1, <2>2, LogAssumption DEF IInv, Ownership
  <2> QED BY <2>3, <2>4, <2>5, <2>6, <2>7 DEF IInv
<1> QED BY <1>10, <1>11

-----------------------------------------------------------------------------
(* What LastFlush leaves when nothing, or one orphaned call that found the *)
(* buffer empty, stays with the executor.                                  *)
LEMMA LastFlushSound ==
    ASSUME IInv, NEW kept \in Seq(Job), LastFlush(kept),
           phase' = "stopping", lost' \subseteq Entry, queue' \in Seq(Coroutine),
           UNCHANGED <<call, seen, dbUp, trail>>,
           \/ kept = <<>>
           \/ /\ buffer = <<>>
              /\ Len(kept) = 1 /\ DOMAIN kept = {1} /\ kept[1].owner = None
              /\ Len(kept[1].batch) \in 1 .. BatchSize
    PROVE  IInv'
<1>1. Timer # None /\ Timer \notin Entry /\ None \notin Entry BY LogAssumption
<1>2. CASE FinalFlush
  <2> DEFINE job == [batch |-> buffer, owner |-> Timer, stage |-> "submitted"]
  <2>1. kept = <<>> /\ buffer # <<>> /\ buffer \in Seq(Entry) /\ Len(buffer) < BatchSize
    BY <1>2 DEF FinalFlush, IInv, TypeOK, BatchBound
  <2>2. /\ jobs' = Append(<<>>, job) /\ buffer' = <<>> /\ age' = 0
        /\ holder' = Timer /\ timer' = "final"
    BY <1>2, <2>1 DEF LastFlush
  <2>3. job \in Job BY <2>1 DEF Job, Coroutine
  <2>4. Len(buffer) \in 1 .. BatchSize BY <2>1, EmptySeq, LogAssumption
  <2>5. job.owner = Timer /\ Len(job.batch) \in 1 .. BatchSize BY <2>4
  <2> HIDE DEF job
  <2>6. jobs' = <<job>> BY <2>2
  <2>7. /\ jobs' \in Seq(Job) /\ Len(jobs') = 1 /\ DOMAIN jobs' = {1}
        /\ jobs'[1] = job /\ jobs' # <<>>
    BY <2>3, <2>6
  <2>8. TypeOK' BY <2>2, <2>7, LogAssumption DEF IInv, TypeOK, Coroutine, TimerState
  <2>9. Len(buffer') = 0 BY <2>2
  <2>10. BatchBound' BY <2>5, <2>7, <2>9, LogAssumption DEF BatchBound
  <2>11. SingleFlight' BY <2>2, <2>5, <2>7 DEF SingleFlight
  <2>12. DrainedByShutdown' BY <2>2 DEF DrainedByShutdown
  <2>13. Ownership' BY <1>1, <2>2 DEF Ownership
  <2> QED BY <2>8, <2>10, <2>11, <2>12, <2>13 DEF IInv
<1>3. CASE ~ FinalFlush
  <2>1. /\ jobs' = kept /\ holder' = None /\ timer' = "finished"
        /\ buffer' = <<>> /\ buffer = <<>> /\ age' = age
    BY <1>3 DEF LastFlush, FinalFlush
  <2>2. TypeOK' BY <2>1 DEF IInv, TypeOK, TimerState
  <2>3. Len(buffer') = 0 BY <2>1
  <2>4. ASSUME kept = <<>> PROVE BatchBound' /\ SingleFlight'
    <3>1. Len(jobs') = 0 /\ DOMAIN jobs' = {} BY <2>1, <2>4
    <3>2. BatchBound' BY <2>3, <3>1, LogAssumption DEF BatchBound
    <3>3. SingleFlight' BY <2>1, <3>1 DEF SingleFlight
    <3> QED BY <3>2, <3>3
  <2>5. ASSUME Len(kept) = 1, DOMAIN kept = {1}, kept[1].owner = None,
               Len(kept[1].batch) \in 1 .. BatchSize
        PROVE  BatchBound' /\ SingleFlight'
    <3>1. BatchBound' BY <2>1, <2>3, <2>5, LogAssumption DEF BatchBound
    <3>2. SingleFlight' BY <2>1, <2>5 DEF SingleFlight
    <3> QED BY <3>1, <3>2
  <2>6. DrainedByShutdown' BY <2>1 DEF DrainedByShutdown
  <2>7. Ownership' BY <1>1, <2>1 DEF Ownership
  <2> QED BY <2>2, <2>4, <2>5, <2>6, <2>7 DEF IInv
<1> QED BY <1>2, <1>3

(* Shutdown begins when no request is in enqueue_log, so the lock can only *)
(* be free or the background task's.                                       *)
LEMMA ShutdownSound ==
    ASSUME IInv, Shutdown
    PROVE  IInv'
<1>1. /\ phase = "up" /\ phase' = "stopping" /\ queue' = <<>>
      /\ UNCHANGED <<call, seen, dbUp, trail>>
  BY DEF Shutdown
<1>2. queue' \in Seq(Coroutine) BY <1>1
<1>3. holder \in {Timer, None}
  <2>1. holder \notin Entry BY DEF Shutdown, Drained, IInv, Ownership
  <2> QED BY <2>1 DEF IInv, TypeOK, Coroutine
<1>4. CASE timer \in {"sleeping", "waiting"} /\ LastFlush(jobs) /\ UNCHANGED lost
  <2>1. holder = None BY <1>3, <1>4 DEF IInv, Ownership
  <2>2. jobs = <<>> BY <1>1, <2>1, NothingInFlight
  <2>3. jobs \in Seq(Job) /\ lost' \subseteq Entry BY <1>4 DEF IInv, TypeOK
  <2> QED BY <1>1, <1>2, <1>4, <2>2, <2>3, LastFlushSound
<1>5. ASSUME timer = "flushing", NEW i \in DOMAIN jobs,
             LastFlush(RemoveAt(jobs, i)), lost' = lost \cup ToSet(jobs[i].batch)
      PROVE  IInv'
  <2>1. RemoveAt(jobs, i) = <<>> /\ jobs[i] \in Job BY OneJob
  <2>2. ToSet(jobs[i].batch) \subseteq Entry BY <2>1, ElementsOf DEF Job
  <2>3. lost' \subseteq Entry BY <1>5, <2>2 DEF IInv, TypeOK
  <2>4. LastFlush(<<>>) /\ <<>> \in Seq(Job) BY <1>5, <2>1
  <2> QED BY <1>1, <1>2, <2>3, <2>4, LastFlushSound
<1>6. ASSUME timer = "flushing", NEW i \in DOMAIN jobs,
             LastFlush([jobs EXCEPT ![i].owner = None]), UNCHANGED lost
      PROVE  IInv'
  <2> DEFINE job == [jobs[i] EXCEPT !.owner = None]
             kept == [jobs EXCEPT ![i] = job]
  <2>1. /\ jobs \in Seq(Job) /\ Len(jobs) = 1 /\ i = 1 /\ DOMAIN jobs = {1}
        /\ jobs[i] \in Job /\ Len(jobs[i].batch) \in 1 .. BatchSize
    BY OneJob
  <2>2. job \in Job /\ job.batch = jobs[i].batch /\ job.owner = None
    BY <2>1 DEF Job
  <2>3. LastFlush(kept) BY <1>6
  <2> HIDE DEF job
  <2>4. kept \in Seq(Job) /\ Len(kept) = 1 /\ kept[1] = job
    <3>1. i \in 1 .. Len(jobs) BY <2>1
    <3>2. kept \in Seq(Job) BY <2>1, <2>2, <3>1, ExceptSeq
    <3>3. Len(kept) = Len(jobs) BY <2>1, <2>2, <3>1, ExceptSeq
    <3>4. kept[i] = job BY <2>1
    <3> QED BY <2>1, <3>2, <3>3, <3>4
  <2>5. DOMAIN kept = {1} BY <2>1
  <2>6. holder = Timer /\ Timer # None BY <1>6, LogAssumption DEF IInv, Ownership
  <2>7. buffer = <<>> /\ lost' \subseteq Entry BY <1>6, <2>6 DEF IInv, Ownership, TypeOK
  <2> HIDE DEF kept
  <2> QED BY <1>1, <1>2, <2>1, <2>2, <2>3, <2>4, <2>5, <2>7, LastFlushSound
<1>7. CASE timer = "backoff" /\ timer' = "aborted"
           /\ UNCHANGED <<holder, buffer, jobs, age, lost>>
  <2>1. TypeOK' BY <1>1, <1>2, <1>7 DEF IInv, TypeOK, TimerState
  <2>2. BatchBound' BY <1>7 DEF IInv, BatchBound
  <2>3. SingleFlight' BY <1>7 DEF IInv, SingleFlight
  <2>4. DrainedByShutdown' BY <1>7 DEF DrainedByShutdown
  <2>5. Ownership' BY <1>1, <1>7 DEF IInv, Ownership
  <2> QED BY <2>1, <2>2, <2>3, <2>4, <2>5 DEF IInv
<1> QED BY <1>4, <1>5, <1>6, <1>7 DEF Shutdown

(* However the process ends, it leaves the state of a fresh one.           *)
LEMMA ProcessEndsSound ==
    ASSUME IInv, NEW stored \in Seq(Entry), ProcessEnds(stored)
    PROVE  IInv'
<1>1. /\ phase' = "down" /\ queue' = <<>> /\ holder' = None /\ buffer' = <<>>
      /\ jobs' = <<>> /\ age' = 0 /\ seen' = 0 /\ timer' = "sleeping"
      /\ dbUp' = dbUp
  BY DEF ProcessEnds, Fresh
<1>2. trail' \in Seq(Entry)
  BY ConcatProperties DEF ProcessEnds, IInv, TypeOK
<1>3. InFlight \subseteq Entry
  <2>1. ASSUME NEW i \in DOMAIN jobs PROVE ToSet(jobs[i].batch) \subseteq Entry
    <3>1. jobs[i] \in Job BY OneJob
    <3> QED BY <3>1, ElementsOf DEF Job
  <2> QED BY <2>1 DEF InFlight
<1>4. ToSet(buffer) \subseteq Entry BY ElementsOf DEF IInv, TypeOK
<1>5. lost' \subseteq Entry BY <1>3, <1>4 DEF ProcessEnds, IInv, TypeOK
<1>6. call' \in [Entry -> CallState]
  <2>1. ASSUME NEW e \in Entry PROVE call[e] \in CallState BY DEF IInv, TypeOK
  <2> QED BY <2>1 DEF ProcessEnds, CallState
<1>7. Len(jobs') = 0 /\ DOMAIN jobs' = {} /\ Len(buffer') = 0 /\ jobs' \in Seq(Job)
      /\ queue' \in Seq(Coroutine) /\ buffer' \in Seq(Entry)
  BY <1>1
<1>8. TypeOK'
  BY <1>1, <1>2, <1>5, <1>6, <1>7, LogAssumption DEF IInv, TypeOK, TimerState
<1>9. BatchBound' BY <1>7, LogAssumption DEF BatchBound
<1>10. SingleFlight' BY <1>1, <1>7 DEF SingleFlight
<1>11. DrainedByShutdown' BY <1>1 DEF DrainedByShutdown
<1>12. Ownership' BY <1>1, LogAssumption DEF Ownership
<1> QED BY <1>8, <1>9, <1>10, <1>11, <1>12 DEF IInv

LEMMA CrashSound ==
    ASSUME IInv, Crash
    PROVE  IInv'
<1>1. PICK stored \in {<<>>} \cup {jobs[i].batch : i \in
                        {j \in DOMAIN jobs : /\ jobs[j].stage = "running"
                                             /\ Insertable(jobs[j].batch)}} :
          ProcessEnds(stored)
  BY DEF Crash
<1>2. stored \in Seq(Entry)
  <2>1. CASE stored = <<>> BY <2>1
  <2>2. ASSUME NEW i \in DOMAIN jobs, stored = jobs[i].batch PROVE stored \in Seq(Entry)
    <3>1. jobs[i] \in Job BY OneJob
    <3> QED BY <2>2, <3>1 DEF Job
  <2> QED BY <1>1, <2>1, <2>2
<1> QED BY <1>1, <1>2, ProcessEndsSound

-----------------------------------------------------------------------------
LEMMA NextSound == IInv /\ [Next]_vars => IInv'
<1> SUFFICES ASSUME IInv, [Next]_vars PROVE IInv' OBVIOUS
<1>1. CASE \E e \in Entry : EnqueueLog(e) BY <1>1, EnqueueLogSound
<1>2. CASE Grant BY <1>2, GrantSound
<1>3. CASE TimerWakes BY <1>3, TimerWakesSound
<1>4. CASE BackoffEnds BY <1>4, BackoffEndsSound
<1>5. CASE Tick BY <1>5, TickSound
<1>6. CASE \E i \in DOMAIN jobs : JobStarts(i) BY <1>6, JobStartsSound
<1>7. CASE \E i \in DOMAIN jobs : JobEnds(i) BY <1>7, JobEndsSound
<1>8. CASE Shutdown BY <1>8, ShutdownSound
<1>9. CASE Exit
  <2>1. ProcessEnds(<<>>) BY <1>9 DEF Exit
  <2>2. <<>> \in Seq(Entry) OBVIOUS
  <2> QED BY <2>1, <2>2, ProcessEndsSound
<1>10. CASE Crash BY <1>10, CrashSound
<1>11. CASE Boot BY <1>11, BootSound
<1>12. CASE DbToggles BY <1>12, DbTogglesSound
<1>13. CASE UNCHANGED vars
  <2>1. TypeOK' BY <1>13 DEF IInv, TypeOK, vars
  <2>2. BatchBound' BY <1>13 DEF IInv, BatchBound, vars
  <2>3. SingleFlight' BY <1>13 DEF IInv, SingleFlight, vars
  <2>4. DrainedByShutdown' BY <1>13 DEF IInv, DrainedByShutdown, vars
  <2>5. Ownership' BY <1>13 DEF IInv, Ownership, vars
  <2> QED BY <2>1, <2>2, <2>3, <2>4, <2>5 DEF IInv
<1> QED
  BY <1>1, <1>2, <1>3, <1>4, <1>5, <1>6, <1>7, <1>8, <1>9, <1>10, <1>11, <1>12, <1>13 DEF Next

LEMMA Invariance == Spec => []IInv
<1>1. Init => IInv BY InitSound
<1>2. IInv /\ [Next]_vars => IInv' BY NextSound
<1> QED BY <1>1, <1>2, PTL DEF Spec

(* Every variable of logger_queue.py's model keeps its type.               *)
THEOREM TypeCorrect == Spec => []TypeOK
<1>1. IInv => TypeOK BY DEF IInv
<1> QED BY <1>1, Invariance, PTL

(* The buffer stays below BATCH_SIZE whenever the lock is free, and no     *)
(* transaction carries more rows: `len(self.buffer) >= BATCH_SIZE' is      *)
(* tested after every append, under the lock.                              *)
THEOREM BatchBounded == Spec => []BatchBound
<1>1. IInv => BatchBound BY DEF IInv
<1> QED BY <1>1, Invariance, PTL

(* Two executor threads never write batches side by side, although         *)
(* shutdown leaves a running call behind and then flushes once more: the   *)
(* lock is held over the await, and while it is held the buffer is empty.  *)
THEOREM OneFlight == Spec => []SingleFlight
<1>1. IInv => SingleFlight BY DEF IInv
<1> QED BY <1>1, Invariance, PTL

(* A background task that completes its shutdown leaves no entry in the    *)
(* buffer.                                                                 *)
THEOREM ShutdownDrains == Spec => []DrainedByShutdown
<1>1. IInv => DrainedByShutdown BY DEF IInv
<1> QED BY <1>1, Invariance, PTL

-----------------------------------------------------------------------------
(* No entry of the activity log is written twice or forgotten, every loss  *)
(* has a cause, and each step of LogQueue is one of AuditTrail or none.    *)

Distinct(s) == \A i, j \in DOMAIN s : s[i] = s[j] => i = j

LEMMA SetOfConcat ==
    ASSUME NEW S, NEW s \in Seq(S), NEW t \in Seq(S)
    PROVE  ToSet(s \o t) = ToSet(s) \cup ToSet(t)
<1> DEFINE m == Len(s)
           n == Len(t)
           u == s \o t
<1>1. m \in Nat /\ n \in Nat /\ DOMAIN s = 1 .. m /\ DOMAIN t = 1 .. n BY LenProperties
<1>2. u \in Seq(S) /\ Len(u) = m + n
      /\ \A i \in 1 .. m + n : u[i] = IF i <= m THEN s[i] ELSE t[i - m]
  BY ConcatProperties
<1>3. DOMAIN u = 1 .. m + n BY <1>2, LenProperties
<1> HIDE DEF m, n, u
<1>4. ASSUME NEW x \in ToSet(u) PROVE x \in ToSet(s) \cup ToSet(t)
  <2>1. PICK i \in 1 .. m + n : u[i] = x BY <1>3 DEF ToSet
  <2>2. CASE i <= m
    <3>1. i \in 1 .. m /\ s[i] = x BY <1>1, <1>2, <2>1, <2>2
    <3> QED BY <1>1, <3>1 DEF ToSet
  <2>3. CASE i > m
    <3>1. i - m \in 1 .. n /\ t[i - m] = x BY <1>1, <1>2, <2>1, <2>3
    <3> QED BY <1>1, <3>1 DEF ToSet
  <2> QED BY <1>1, <2>2, <2>3
<1>5. ASSUME NEW x \in ToSet(s) PROVE x \in ToSet(u)
  <2>1. PICK i \in 1 .. m : s[i] = x BY <1>1 DEF ToSet
  <2>2. i \in 1 .. m + n /\ u[i] = x BY <1>1, <1>2, <2>1
  <2> QED BY <1>3, <2>2 DEF ToSet
<1>6. ASSUME NEW x \in ToSet(t) PROVE x \in ToSet(u)
  <2>1. PICK i \in 1 .. n : t[i] = x BY <1>1 DEF ToSet
  <2>2. i + m \in 1 .. m + n /\ ~ (i + m <= m) /\ (i + m) - m = i BY <1>1, <2>1
  <2>3. u[i + m] = x BY <1>2, <2>1, <2>2
  <2> QED BY <1>3, <2>2, <2>3 DEF ToSet
<1> QED BY <1>4, <1>5, <1>6 DEF u

LEMMA DistinctConcat ==
    ASSUME NEW S, NEW s \in Seq(S), NEW t \in Seq(S)
    PROVE  Distinct(s \o t)
             <=> Distinct(s) /\ Distinct(t) /\ ToSet(s) \cap ToSet(t) = {}
<1> DEFINE m == Len(s)
           n == Len(t)
           u == s \o t
<1>1. m \in Nat /\ n \in Nat /\ DOMAIN s = 1 .. m /\ DOMAIN t = 1 .. n BY LenProperties
<1>2. u \in Seq(S) /\ Len(u) = m + n
      /\ \A i \in 1 .. m + n : u[i] = IF i <= m THEN s[i] ELSE t[i - m]
  BY ConcatProperties
<1>3. DOMAIN u = 1 .. m + n BY <1>2, LenProperties
<1> HIDE DEF m, n, u
<1>left. \A i \in 1 .. m : i \in 1 .. m + n /\ u[i] = s[i] BY <1>1, <1>2
<1>right. \A i \in 1 .. n : i + m \in 1 .. m + n /\ u[i + m] = t[i]
  <2> SUFFICES ASSUME NEW i \in 1 .. n PROVE i + m \in 1 .. m + n /\ u[i + m] = t[i]
    OBVIOUS
  <2>1. i + m \in 1 .. m + n /\ ~ (i + m <= m) /\ (i + m) - m = i BY <1>1
  <2> QED BY <1>2, <2>1
<1>4. ASSUME Distinct(u) PROVE Distinct(s) /\ Distinct(t) /\ ToSet(s) \cap ToSet(t) = {}
  <2>0. \A i, j \in 1 .. m + n : u[i] = u[j] => i = j BY <1>3, <1>4 DEF Distinct
  <2>1. Distinct(s) BY <1>1, <1>left, <2>0 DEF Distinct
  <2>2. Distinct(t)
    <3> SUFFICES ASSUME NEW i \in 1 .. n, NEW j \in 1 .. n, t[i] = t[j] PROVE i = j
      BY <1>1 DEF Distinct
    <3>1. i + m = j + m BY <1>right, <2>0
    <3> QED BY <1>1, <3>1
  <2>3. ASSUME NEW x \in ToSet(s) \cap ToSet(t) PROVE FALSE
    <3>1. PICK i \in 1 .. m : s[i] = x BY <1>1 DEF ToSet
    <3>2. PICK j \in 1 .. n : t[j] = x BY <1>1 DEF ToSet
    <3>3. u[i] = u[j + m] BY <1>left, <1>right, <3>1, <3>2
    <3>4. i = j + m BY <1>left, <1>right, <2>0, <3>3
    <3> QED BY <1>1, <3>4
  <2> QED BY <2>1, <2>2, <2>3
<1>5. ASSUME Distinct(s), Distinct(t), ToSet(s) \cap ToSet(t) = {} PROVE Distinct(u)
  <2> SUFFICES ASSUME NEW i \in 1 .. m + n, NEW j \in 1 .. m + n, u[i] = u[j], i # j
               PROVE  FALSE
    BY <1>3 DEF Distinct
  <2>1. CASE i <= m /\ j <= m
    <3>1. i \in 1 .. m /\ j \in 1 .. m /\ s[i] = s[j] BY <1>1, <1>2, <2>1
    <3> QED BY <1>1, <1>5, <3>1 DEF Distinct
  <2>2. CASE i > m /\ j > m
    <3>1. i - m \in 1 .. n /\ j - m \in 1 .. n /\ t[i - m] = t[j - m] /\ i - m # j - m
      BY <1>1, <1>2, <2>2
    <3> QED BY <1>1, <1>5, <3>1 DEF Distinct
  <2>3. ASSUME NEW k \in 1 .. m + n, NEW l \in 1 .. m + n, k <= m, l > m, u[k] = u[l]
        PROVE  FALSE
    <3>1. k \in 1 .. m /\ l - m \in 1 .. n /\ s[k] = t[l - m] BY <1>1, <1>2, <2>3
    <3>2. s[k] \in ToSet(s) /\ t[l - m] \in ToSet(t) BY <1>1, <3>1 DEF ToSet
    <3> QED BY <1>5, <3>1, <3>2
  <2> QED BY <1>1, <2>1, <2>2, <2>3
<1> QED BY <1>4, <1>5 DEF u

LEMMA AppendDistinct ==
    ASSUME NEW S, NEW s \in Seq(S), NEW e \in S
    PROVE  /\ ToSet(Append(s, e)) = ToSet(s) \cup {e}
           /\ Distinct(s) /\ e \notin ToSet(s) => Distinct(Append(s, e))
<1>1. <<e>> \in Seq(S) /\ Append(s, e) = s \o <<e>> BY AppendIsConcat
<1>2. DOMAIN <<e>> = {1} /\ <<e>>[1] = e OBVIOUS
<1>3. ToSet(<<e>>) = {e} /\ Distinct(<<e>>) BY <1>2 DEF ToSet, Distinct
<1>4. ToSet(s \o <<e>>) = ToSet(s) \cup {e}
  <2>1. ToSet(s \o <<e>>) = ToSet(s) \cup ToSet(<<e>>)
    <3> DEFINE o == <<e>>
    <3>1. o \in Seq(S) BY <1>1
    <3> HIDE DEF o
    <3>2. ToSet(s \o o) = ToSet(s) \cup ToSet(o) BY <3>1, SetOfConcat
    <3> QED BY <3>2 DEF o
  <2> QED BY <1>3, <2>1
<1>5. Distinct(s) /\ e \notin ToSet(s) => Distinct(s \o <<e>>)
  <2>1. ToSet(s) \cap ToSet(<<e>>) = {} <=> e \notin ToSet(s) BY <1>3
  <2>2. Distinct(s \o <<e>>)
          <=> Distinct(s) /\ Distinct(<<e>>) /\ ToSet(s) \cap ToSet(<<e>>) = {}
    BY <1>1, DistinctConcat
  <2> QED BY <1>3, <2>1, <2>2
<1> QED BY <1>1, <1>4, <1>5

(* The batches in flight, one after the other, when there is at most one.  *)
LEMMA FlattenOne ==
    ASSUME NEW b \in Seq(Seq(Entry)), Len(b) <= 1
    PROVE  FlattenSeq(b) = IF b = <<>> THEN <<>> ELSE b[1]
<1>1. CASE b = <<>> BY <1>1 DEF FlattenSeq
<1>2. CASE b # <<>>
  <2>0. Len(b) \in Nat \ {0} BY <1>2, EmptySeq
  <2>1. Len(b) = 1
    <3> DEFINE n == Len(b)
    <3>1. n \in Nat \ {0} /\ n <= 1 BY <2>0
    <3> HIDE DEF n
    <3>2. n = 1 BY <3>1
    <3> QED BY <3>2 DEF n
  <2> DEFINE f == CHOOSE flatten : flatten = [i \in 1 .. 1 |->
                     IF i = 1 THEN b[i] ELSE flatten[i - 1] \o b[i]]
             g == [i \in 1 .. 1 |-> b[1]]
  <2>2. g = [i \in 1 .. 1 |-> IF i = 1 THEN b[i] ELSE g[i - 1] \o b[i]]
    <3>1. \A i \in 1 .. 1 : i = 1 OBVIOUS
    <3> QED BY <3>1
  <2>3. f = [i \in 1 .. 1 |-> IF i = 1 THEN b[i] ELSE f[i - 1] \o b[i]] BY <2>2
  <2>4. FlattenSeq(b) = f[1] BY <2>1 DEF FlattenSeq
  <2> HIDE DEF f, g
  <2>5. f[1] = b[1] BY <2>3
  <2> QED BY <1>2, <2>4, <2>5
<1> QED BY <1>1, <1>2

(* The batch a sequence of at most one job carries.                        *)
BatchIn(s) == IF s = <<>> THEN <<>> ELSE s[1].batch

LEMMA OneBatch ==
    ASSUME NEW s \in Seq(Job), Len(s) <= 1
    PROVE  /\ BatchIn(s) \in Seq(Entry)
           /\ FlattenSeq([i \in DOMAIN s |-> s[i].batch]) = BatchIn(s)
           /\ UNION {ToSet(s[i].batch) : i \in DOMAIN s} = ToSet(BatchIn(s))
<1> DEFINE n == Len(s)
           b == [i \in DOMAIN s |-> s[i].batch]
<1>1. n \in Nat /\ n <= 1 /\ DOMAIN s = 1 .. n BY LenProperties
<1>2. CASE s = <<>>
  <2>1. DOMAIN s = {} /\ b = <<>> /\ BatchIn(s) = <<>> BY <1>2 DEF BatchIn
  <2>2. ToSet(<<>>) = {} BY DEF ToSet
  <2>3. FlattenSeq(<<>>) = <<>> BY DEF FlattenSeq
  <2> HIDE DEF b
  <2> QED BY <2>1, <2>2, <2>3 DEF b
<1>3. CASE s # <<>>
  <2>1. n \in Nat \ {0} BY <1>3, EmptySeq
  <2> HIDE DEF n
  <2>2. DOMAIN s = {1} /\ n = 1 BY <1>1, <2>1
  <2>3. s[1] \in Job BY <2>2, ElementOfSeq DEF n
  <2>4. BatchIn(s) = s[1].batch /\ s[1].batch \in Seq(Entry) BY <1>3, <2>3 DEF BatchIn, Job
  <2>5. b = [i \in 1 .. 1 |-> s[1].batch]
    <3>1. DOMAIN s = 1 .. 1 BY <2>2
    <3>2. \A i \in 1 .. 1 : i = 1 OBVIOUS
    <3> QED BY <3>1, <3>2
  <2> HIDE DEF b
  <2>6. b = <<s[1].batch>> BY <2>5
  <2>7. b \in Seq(Seq(Entry)) /\ Len(b) = 1 /\ b # <<>> /\ b[1] = s[1].batch BY <2>4, <2>6
  <2>8. FlattenSeq(b) = s[1].batch
    <3>1. Len(b) <= 1 BY <2>7
    <3>2. FlattenSeq(b) = IF b = <<>> THEN <<>> ELSE b[1] BY <2>7, <3>1, FlattenOne, Zenon
    <3> QED BY <2>7, <3>2
  <2>9. UNION {ToSet(s[i].batch) : i \in DOMAIN s} = ToSet(s[1].batch) BY <2>2
  <2> QED BY <2>4, <2>8, <2>9 DEF b
<1> QED BY <1>2, <1>3

-----------------------------------------------------------------------------
(* What AuditTrail calls pending.                                          *)
Pending == Batches \o buffer

LEMMA PendingIs ==
    /\ IInv => /\ Pending = BatchIn(jobs) \o buffer
               /\ BatchIn(jobs) \in Seq(Entry) /\ buffer \in Seq(Entry)
               /\ trail \in Seq(Entry) /\ Pending \in Seq(Entry)
               /\ Batches = BatchIn(jobs) /\ InFlight = ToSet(BatchIn(jobs))
    /\ IInv' => /\ Pending' = BatchIn(jobs') \o buffer'
                /\ BatchIn(jobs') \in Seq(Entry) /\ buffer' \in Seq(Entry)
                /\ trail' \in Seq(Entry) /\ Pending' \in Seq(Entry)
                /\ Batches' = BatchIn(jobs')
<1>1. ASSUME IInv
      PROVE  /\ BatchIn(jobs) \in Seq(Entry) /\ buffer \in Seq(Entry) /\ trail \in Seq(Entry)
             /\ Batches = BatchIn(jobs) /\ InFlight = ToSet(BatchIn(jobs))
  <2>1. /\ jobs \in Seq(Job) /\ Len(jobs) <= 1 /\ buffer \in Seq(Entry) /\ trail \in Seq(Entry)
    BY <1>1 DEF IInv, TypeOK, SingleFlight
  <2> QED BY <2>1, OneBatch DEF Batches, InFlight
<1>2. ASSUME IInv'
      PROVE  /\ BatchIn(jobs') \in Seq(Entry) /\ buffer' \in Seq(Entry) /\ trail' \in Seq(Entry)
             /\ Batches' = BatchIn(jobs')
  <2>1. /\ jobs' \in Seq(Job) /\ Len(jobs') <= 1 /\ buffer' \in Seq(Entry)
        /\ trail' \in Seq(Entry)
    BY <1>2 DEF IInv, TypeOK, SingleFlight
  <2> QED BY <2>1, OneBatch DEF Batches
<1> QED BY <1>1, <1>2, ConcatProperties DEF Pending

(* EachEntryOnce in parts.                                                 *)
Once(p, t, gone, known) ==
    /\ Distinct(t) /\ Distinct(p)
    /\ ToSet(t) \cap ToSet(p) = {}
    /\ (ToSet(t) \cup ToSet(p)) \cap gone = {}
    /\ ToSet(t) \cup ToSet(p) \cup gone = known

LEMMA OnceIs ==
    ASSUME NEW t \in Seq(Entry), NEW f \in Seq(Entry), NEW b \in Seq(Entry), NEW gone, NEW known
    PROVE  LET line == t \o f \o b IN
           (/\ \A i, j \in DOMAIN line : line[i] = line[j] => i = j
            /\ ToSet(line) \cap gone = {}
            /\ ToSet(line) \cup gone = known) <=> Once(f \o b, t, gone, known)
<1> DEFINE line == t \o f \o b
           p == f \o b
<1>1. p \in Seq(Entry) BY ConcatProperties
<1>2. line = t \o p BY ConcatAssociative
<1> HIDE DEF p, line
<1>3. ToSet(line) = ToSet(t) \cup ToSet(p) BY <1>1, <1>2, SetOfConcat
<1>4. Distinct(line) <=> Distinct(t) /\ Distinct(p) /\ ToSet(t) \cap ToSet(p) = {}
  BY <1>1, <1>2, DistinctConcat
<1>5. Distinct(line) <=> \A i, j \in DOMAIN line : line[i] = line[j] => i = j BY DEF Distinct
<1>6. (Distinct(line) /\ ToSet(line) \cap gone = {} /\ ToSet(line) \cup gone = known)
        <=> Once(p, t, gone, known)
  BY <1>3, <1>4 DEF Once
<1> QED BY <1>5, <1>6 DEF line, p

LEMMA OncePending ==
    /\ IInv => (EachEntryOnce <=> Once(Pending, trail, lost, Accepted))
    /\ IInv' => (EachEntryOnce' <=> Once(Pending', trail', lost', Accepted'))
<1>1. ASSUME IInv PROVE EachEntryOnce <=> Once(Pending, trail, lost, Accepted)
  <2>1. Batches \in Seq(Entry) /\ buffer \in Seq(Entry) /\ trail \in Seq(Entry)
    BY <1>1, PendingIs
  <2> QED BY <2>1, OnceIs DEF EachEntryOnce, Pending
<1>2. ASSUME IInv' PROVE EachEntryOnce' <=> Once(Pending', trail', lost', Accepted')
  <2>1. Batches' \in Seq(Entry) /\ buffer' \in Seq(Entry) /\ trail' \in Seq(Entry)
    BY <1>2, PendingIs
  <2> QED BY <2>1, OnceIs DEF EachEntryOnce, Pending
<1> QED BY <1>1, <1>2

-----------------------------------------------------------------------------
(* What a step does to the entries: nothing, it accepts one, it writes or  *)
(* drops the first batch, or the process ends and drops the rest.          *)
Kept == UNCHANGED <<Pending, trail, lost, Accepted>>
Took == \E e \in Entry \ Accepted :
          /\ Pending' = Append(Pending, e) /\ Accepted' = Accepted \cup {e}
          /\ UNCHANGED <<trail, lost>>
Sent == \E b \in Seq(Entry) :
          /\ Len(b) \in 1 .. BatchSize /\ Pending = b \o Pending'
          /\ \/ trail' = trail \o b /\ lost' = lost
             \/ trail' = trail /\ lost' = lost \cup ToSet(b)
          /\ UNCHANGED Accepted
Ended == \E b, r \in Seq(Entry) :
          /\ Len(b) \in 0 .. BatchSize /\ Pending = b \o r
          /\ Pending' = <<>> /\ trail' = trail \o b
          /\ lost' = lost \cup (ToSet(Pending) \ ToSet(b))
          /\ UNCHANGED Accepted
Moves == Kept \/ Took \/ Sent \/ Ended

(* A coroutine waits for the lock once, and for an entry not yet accepted. *)
Queued ==
    /\ \A i \in DOMAIN queue : queue[i] \in Entry => call[queue[i]] = "waiting"
    /\ \A i, j \in DOMAIN queue : queue[i] = queue[j] /\ queue[i] \in Entry => i = j

LEMMA AddEntryTakes ==
    ASSUME IInv, IInv', phase = "up", holder = None, NEW e \in Entry,
           call[e] \in {"idle", "waiting"}, AddEntry(e), UNCHANGED <<trail, lost>>
    PROVE  Took /\ \A d \in Entry : d # e => call'[d] = call[d]
<1> DEFINE b == Append(buffer, e)
<1>1. jobs = <<>> BY NothingInFlight
<1>2. Pending = buffer /\ buffer \in Seq(Entry) BY <1>1, PendingIs, ConcatEmptySeq DEF BatchIn
<1>3. b \in Seq(Entry) BY <1>2, AppendProperties
<1>4. \E c \in {"flushing", "returned"} : call' = [call EXCEPT ![e] = c] BY DEF AddEntry
<1>5. Pending' = b
  <2>1. CASE Full(b)
    <3> DEFINE job == [batch |-> b, owner |-> e, stage |-> "submitted"]
    <3>1. jobs' = Append(jobs, job) /\ buffer' = <<>>
      BY <2>1 DEF AddEntry, Submit, Cleared
    <3>2. job.batch = b OBVIOUS
    <3> HIDE DEF job, b
    <3>3. jobs' = <<job>> BY <1>1, <3>1
    <3>4. BatchIn(jobs') = b BY <3>2, <3>3 DEF BatchIn
    <3>5. Pending' = b \o <<>> BY <3>1, <3>4, PendingIs
    <3> QED BY <1>3, <3>5, ConcatEmptySeq
  <2>2. CASE ~ Full(b)
    <3>1. jobs' = <<>> /\ buffer' = b BY <1>1, <2>2 DEF AddEntry
    <3> HIDE DEF b
    <3>2. Pending' = <<>> \o b BY <3>1, PendingIs DEF BatchIn
    <3> QED BY <1>3, <3>2, ConcatEmptySeq
  <2> QED BY <2>1, <2>2
<1>6. e \notin Accepted BY DEF Accepted
<1>7. call \in [Entry -> CallState] BY DEF IInv, TypeOK
<1>8. Accepted' = Accepted \cup {e} BY <1>4, <1>7 DEF Accepted
<1> QED BY <1>2, <1>4, <1>5, <1>6, <1>7, <1>8 DEF Took

LEMMA CheckBufferKeeps ==
    ASSUME IInv, IInv', phase = "up", holder = None, NEW elapsed, CheckBuffer(elapsed),
           UNCHANGED <<call, trail, lost>>
    PROVE  Kept
<1>1. jobs = <<>> BY NothingInFlight
<1>2. Pending = buffer /\ buffer \in Seq(Entry) BY <1>1, PendingIs, ConcatEmptySeq DEF BatchIn
<1>3. CASE Due(elapsed)
  <2> DEFINE job == [batch |-> buffer, owner |-> Timer, stage |-> "submitted"]
  <2>1. jobs' = Append(jobs, job) /\ buffer' = <<>>
    BY <1>3 DEF CheckBuffer, Submit, Cleared
  <2>2. job.batch = buffer OBVIOUS
  <2> HIDE DEF job
  <2>3. jobs' = <<job>> BY <1>1, <2>1
  <2>4. BatchIn(jobs') = buffer BY <2>2, <2>3 DEF BatchIn
  <2>5. Pending' = buffer \o <<>> BY <2>1, <2>4, PendingIs
  <2>6. Pending' = Pending BY <1>2, <2>5, ConcatEmptySeq
  <2> QED BY <2>6 DEF Kept, Accepted
<1>4. CASE ~ Due(elapsed)
  <2>1. UNCHANGED <<jobs, buffer>> BY <1>4 DEF CheckBuffer
  <2> QED BY <2>1 DEF Kept, Accepted, Pending, Batches
<1> QED BY <1>3, <1>4

(* The line grows by one that was not in it, or loses its first.           *)
LEMMA Lines ==
    ASSUME IInv, Queued
    PROVE  /\ \A c \in Coroutine :
                /\ queue' = Append(queue, c)
                /\ \A d \in Entry : d # c => call'[d] = call[d]
                /\ c \in Entry => call[c] = "idle" /\ call'[c] = "waiting"
                => Queued'
           /\ /\ queue # <<>> /\ queue' = Tail(queue)
              /\ \A d \in Entry : d # Head(queue) => call'[d] = call[d]
              => Queued'
<1> DEFINE n == Len(queue)
<1>0. queue \in Seq(Coroutine) BY DEF IInv, TypeOK
<1>1. n \in Nat /\ DOMAIN queue = 1 .. n BY <1>0, LenProperties
<1>2. ASSUME NEW c \in Coroutine, queue' = Append(queue, c),
             \A d \in Entry : d # c => call'[d] = call[d],
             c \in Entry => call[c] = "idle" /\ call'[c] = "waiting"
      PROVE  Queued'
  <2>1. queue' \in Seq(Coroutine) /\ Len(queue') = n + 1
        /\ (\A i \in 1 .. n : queue'[i] = queue[i]) /\ queue'[n + 1] = c
    BY <1>0, <1>2, AppendProperties
  <2>2. DOMAIN queue' = 1 .. n + 1 BY <2>1, LenProperties
  <2> HIDE DEF n
  <2>3. \A i \in 1 .. n : queue'[i] \in Entry => queue'[i] # c
    BY <1>1, <1>2, <2>1 DEF Queued
  <2>4. \A i \in 1 .. n + 1 : i # n + 1 => i \in 1 .. n BY <1>1
  <2>5. ASSUME NEW i \in DOMAIN queue', queue'[i] \in Entry PROVE call'[queue'[i]] = "waiting"
    <3>1. CASE i = n + 1 BY <1>2, <2>1, <2>5, <3>1
    <3>2. CASE i # n + 1
      <4>1. i \in 1 .. n BY <2>2, <2>4, <3>2
      <4> QED BY <1>1, <1>2, <2>1, <2>3, <2>5, <4>1 DEF Queued
    <3> QED BY <3>1, <3>2
  <2>6. ASSUME NEW i \in DOMAIN queue', NEW j \in DOMAIN queue',
               queue'[i] = queue'[j], queue'[i] \in Entry, i # j
        PROVE  FALSE
    <3>1. CASE i # n + 1 /\ j # n + 1
      <4>1. i \in 1 .. n /\ j \in 1 .. n BY <2>2, <2>4, <3>1
      <4> QED BY <1>1, <2>1, <2>6, <4>1 DEF Queued
    <3>2. CASE i = n + 1 BY <2>1, <2>2, <2>3, <2>4, <2>6, <3>2
    <3>3. CASE j = n + 1 BY <2>1, <2>2, <2>3, <2>4, <2>6, <3>3
    <3> QED BY <3>1, <3>2, <3>3
  <2> QED BY <2>5, <2>6 DEF Queued
<1>3. ASSUME queue # <<>>, queue' = Tail(queue),
             \A d \in Entry : d # Head(queue) => call'[d] = call[d]
      PROVE  Queued'
  <2>1. queue' \in Seq(Coroutine) /\ Len(queue') = n - 1
        /\ \A i \in 1 .. n - 1 : queue'[i] = queue[i + 1]
    BY <1>0, <1>3, HeadTailProperties
  <2>2. DOMAIN queue' = 1 .. n - 1 BY <2>1, LenProperties
  <2>3. n # 0 /\ Head(queue) = queue[1] BY <1>0, <1>3, EmptySeq
  <2> HIDE DEF n
  <2>4. 1 \in 1 .. n /\ \A i \in 1 .. n - 1 : i + 1 \in 1 .. n /\ i + 1 # 1 BY <1>1, <2>3
  <2>5. ASSUME NEW i \in DOMAIN queue', queue'[i] \in Entry PROVE call'[queue'[i]] = "waiting"
    <3>1. queue'[i] = queue[i + 1] /\ i + 1 \in 1 .. n /\ i + 1 # 1 BY <2>1, <2>2, <2>4
    <3>2. queue[i + 1] # queue[1] BY <1>1, <2>4, <2>5, <3>1 DEF Queued
    <3> QED BY <1>1, <1>3, <2>3, <2>5, <3>1, <3>2 DEF Queued
  <2>6. ASSUME NEW i \in DOMAIN queue', NEW j \in DOMAIN queue',
               queue'[i] = queue'[j], queue'[i] \in Entry
        PROVE  i = j
    <3>1. queue[i + 1] = queue[j + 1] /\ queue[i + 1] \in Entry
          /\ i + 1 \in DOMAIN queue /\ j + 1 \in DOMAIN queue
      BY <1>1, <2>1, <2>2, <2>4, <2>6
    <3>2. i + 1 = j + 1 BY <3>1 DEF Queued
    <3> QED BY <1>1, <2>2, <3>2
  <2> QED BY <2>5, <2>6 DEF Queued
<1> QED BY <1>2, <1>3

LEMMA EnqueueLogMoves ==
    ASSUME IInv, IInv', Queued, NEW e \in Entry, EnqueueLog(e)
    PROVE  Queued' /\ Moves
<1>1. phase = "up" /\ call[e] = "idle" /\ UNCHANGED <<trail, lost>> BY DEF EnqueueLog
<1>2. CASE LockFree /\ AddEntry(e) /\ UNCHANGED queue
  <2>1. Took /\ \A d \in Entry : d # e => call'[d] = call[d]
    BY <1>1, <1>2, AddEntryTakes DEF LockFree
  <2>2. DOMAIN queue = {} BY <1>2 DEF LockFree
  <2> QED BY <1>2, <2>1, <2>2 DEF Queued, Moves
<1>3. CASE /\ queue' = Append(queue, e)
           /\ call' = [call EXCEPT ![e] = "waiting"]
           /\ UNCHANGED <<holder, buffer, jobs, age, seen>>
  <2>1. call \in [Entry -> CallState] BY DEF IInv, TypeOK
  <2>2. \A d \in Entry : call'[d] = IF d = e THEN "waiting" ELSE call[d] BY <1>3, <2>1
  <2>3. Queued' BY <1>1, <1>3, <2>2, Lines DEF Coroutine
  <2>4. Accepted' = Accepted BY <1>1, <2>2 DEF Accepted
  <2>5. Pending' = Pending BY <1>3 DEF Pending, Batches
  <2> QED BY <1>1, <2>3, <2>4, <2>5 DEF Moves, Kept
<1> QED BY <1>2, <1>3 DEF EnqueueLog

LEMMA GrantMoves ==
    ASSUME IInv, IInv', Queued, Grant
    PROVE  Queued' /\ Moves
<1>1. phase = "up" /\ holder = None /\ queue # <<>> /\ queue' = Tail(queue)
      /\ UNCHANGED <<trail, lost>>
  BY DEF Grant
<1>2. queue \in Seq(Coroutine) BY DEF IInv, TypeOK
<1>3. Head(queue) = queue[1] /\ 1 \in DOMAIN queue
  <2>1. Len(queue) \in Nat \ {0} /\ DOMAIN queue = 1 .. Len(queue)
    BY <1>1, <1>2, EmptySeq, LenProperties
  <2> QED BY <1>1, <1>2, <2>1
<1>4. CASE Head(queue) \in Entry /\ AddEntry(Head(queue))
  <2>1. call[Head(queue)] = "waiting" BY <1>3, <1>4 DEF Queued
  <2>2. Took /\ \A d \in Entry : d # Head(queue) => call'[d] = call[d]
    BY <1>1, <1>4, <2>1, AddEntryTakes
  <2> QED BY <1>1, <2>2, Lines DEF Moves
<1>5. CASE CheckBuffer(seen) /\ UNCHANGED call
  <2>1. Kept BY <1>1, <1>5, CheckBufferKeeps
  <2>2. Queued' BY <1>1, <1>5, Lines
  <2> QED BY <2>1, <2>2 DEF Moves
<1> QED BY <1>4, <1>5 DEF Grant

LEMMA TimerWakesMoves ==
    ASSUME IInv, IInv', Queued, TimerWakes
    PROVE  Queued' /\ Moves
<1>1. phase = "up" /\ UNCHANGED <<call, trail, lost>> BY DEF TimerWakes
<1>2. CASE LockFree /\ CheckBuffer(age) /\ UNCHANGED queue
  <2>1. Kept BY <1>1, <1>2, CheckBufferKeeps DEF LockFree
  <2> QED BY <1>1, <1>2, <2>1 DEF Queued, Moves
<1>3. CASE queue' = Append(queue, Timer) /\ UNCHANGED <<buffer, jobs>>
  <2>1. Queued' BY <1>1, <1>3, Lines, LogAssumption DEF Coroutine
  <2> QED BY <1>1, <1>3, <2>1 DEF Moves, Kept, Pending, Batches, Accepted
<1> QED BY <1>2, <1>3 DEF TimerWakes

LEMMA JobStartsMoves ==
    ASSUME IInv, IInv', Queued, NEW i \in DOMAIN jobs, JobStarts(i)
    PROVE  Queued' /\ Moves
<1>1. jobs' = [jobs EXCEPT ![i].stage = "running"]
      /\ UNCHANGED <<call, queue, buffer, trail, lost>>
  BY DEF JobStarts
<1>2. DOMAIN jobs = {1} /\ i = 1 /\ jobs[i] \in Job BY OneJob
<1>3. DOMAIN jobs' = {1} BY <1>1, <1>2
<1>4. jobs'[1].batch = jobs[1].batch BY <1>1, <1>2 DEF Job
<1>5. [j \in DOMAIN jobs' |-> jobs'[j].batch] = [j \in DOMAIN jobs |-> jobs[j].batch]
  BY <1>2, <1>3, <1>4
<1>6. Pending' = Pending BY <1>1, <1>5 DEF Pending, Batches
<1> QED BY <1>1, <1>6 DEF Queued, Moves, Kept, Accepted

LEMMA BatchOfJob ==
    ASSUME IInv, NEW i \in DOMAIN jobs
    PROVE  jobs # <<>> /\ BatchIn(jobs) = jobs[i].batch
<1>1. i = 1 /\ DOMAIN jobs = {1} BY OneJob
<1>2. jobs # <<>> BY <1>1
<1> QED BY <1>1, <1>2 DEF BatchIn

LEMMA JobEndsMoves ==
    ASSUME IInv, IInv', Queued, NEW i \in DOMAIN jobs, JobEnds(i)
    PROVE  Queued' /\ Moves
<1> DEFINE b == jobs[i].batch
           owner == jobs[i].owner
<1>1. /\ Len(jobs) = 1 /\ i = 1 /\ jobs[i] \in Job /\ Len(b) \in 1 .. BatchSize
      /\ RemoveAt(jobs, i) = <<>> /\ owner \in {holder, None}
  BY OneJob
<1>2. jobs' = <<>> /\ UNCHANGED <<queue, buffer>> BY <1>1 DEF JobEnds
<1>3. BatchIn(jobs) = b /\ BatchIn(jobs') = <<>>
  <2>1. BatchIn(jobs') = <<>> BY <1>2 DEF BatchIn
  <2> QED BY <2>1, BatchOfJob
<1>4. b \in Seq(Entry) /\ buffer \in Seq(Entry) /\ Pending = b \o buffer
  BY <1>3, PendingIs
<1>5. Pending' = buffer BY <1>2, <1>3, <1>4, PendingIs, ConcatEmptySeq
<1>6. \E raised \in BOOLEAN : Resume(owner, raised) BY DEF JobEnds
<1>7. \/ trail' = trail \o b /\ lost' = lost
      \/ trail' = trail /\ lost' = lost \cup ToSet(b)
  <2>1. trail \o <<>> = trail BY ConcatEmptySeq DEF IInv, TypeOK
  <2>2. ToSet(<<>>) = {} BY DEF ToSet
  <2> QED BY <2>1, <2>2 DEF JobEnds, RowsKept
<1> HIDE DEF b, owner
<1>8. owner \in Entry => call[owner] = "flushing"
  BY <1>1, LogAssumption DEF IInv, Ownership
<1>9. call \in [Entry -> CallState] BY DEF IInv, TypeOK
<1>10. \A d \in Entry : \/ call'[d] = call[d]
                        \/ d = owner /\ call'[d] \in {"returned", "failed"}
  BY <1>6, <1>9 DEF Resume
<1>11. Accepted' = Accepted BY <1>8, <1>10 DEF Accepted
<1>12. Queued' BY <1>2, <1>8, <1>10 DEF Queued
<1>13. Sent BY <1>1, <1>4, <1>5, <1>7, <1>11 DEF Sent
<1> QED BY <1>12, <1>13 DEF Moves

LEMMA LastFlushKeeps ==
    ASSUME IInv', NEW kept, LastFlush(kept), kept = <<>> \/ buffer = <<>>,
           buffer \in Seq(Entry), BatchIn(kept) \in Seq(Entry)
    PROVE  Pending' = BatchIn(kept) \o buffer
<1>1. CASE FinalFlush
  <2> DEFINE job == [batch |-> buffer, owner |-> Timer, stage |-> "submitted"]
  <2>1. kept = <<>> /\ buffer' = <<>> /\ jobs' = Append(kept, job)
    BY <1>1 DEF LastFlush, FinalFlush
  <2>2. job.batch = buffer OBVIOUS
  <2> HIDE DEF job
  <2>3. jobs' = <<job>> BY <2>1
  <2>4. BatchIn(jobs') = buffer BY <2>2, <2>3 DEF BatchIn
  <2>5. BatchIn(kept) = <<>> BY <2>1 DEF BatchIn
  <2> QED BY <2>1, <2>4, <2>5, PendingIs, ConcatEmptySeq
<1>2. CASE ~ FinalFlush
  <2>1. jobs' = kept /\ buffer' = buffer BY <1>2 DEF LastFlush
  <2> QED BY <2>1, PendingIs
<1> QED BY <1>1, <1>2

LEMMA ShutdownMoves ==
    ASSUME IInv, IInv', Shutdown
    PROVE  Queued' /\ Moves
<1>1. phase = "up" /\ queue' = <<>> /\ UNCHANGED <<call, trail>> BY DEF Shutdown
<1>2. Queued' BY <1>1 DEF Queued
<1>3. Accepted' = Accepted BY <1>1 DEF Accepted
<1>4. Pending = BatchIn(jobs) \o buffer /\ BatchIn(jobs) \in Seq(Entry) /\ buffer \in Seq(Entry)
  BY PendingIs
<1>5. CASE timer \in {"sleeping", "waiting"} /\ LastFlush(jobs) /\ UNCHANGED lost
  <2>1. holder = None
    <3>1. holder \notin Entry BY DEF Shutdown, Drained, IInv, Ownership
    <3> QED BY <1>5, <3>1 DEF IInv, Ownership, TypeOK, Coroutine
  <2>2. jobs = <<>> BY <1>1, <2>1, NothingInFlight
  <2>3. Pending' = Pending BY <1>4, <1>5, <2>2, LastFlushKeeps
  <2> QED BY <1>1, <1>2, <1>3, <1>5, <2>3 DEF Moves, Kept
<1>6. ASSUME timer = "flushing", NEW i \in DOMAIN jobs,
             LastFlush(RemoveAt(jobs, i)), lost' = lost \cup ToSet(jobs[i].batch)
      PROVE  Moves
  <2> DEFINE b == jobs[i].batch
  <2>1. i = 1 /\ Len(jobs) = 1 /\ Len(b) \in 1 .. BatchSize /\ RemoveAt(jobs, i) = <<>> BY OneJob
  <2>2. BatchIn(jobs) = b /\ BatchIn(<<>>) = <<>> BY BatchOfJob DEF BatchIn
  <2>3. Pending' = <<>> \o buffer
    <3>1. LastFlush(<<>>) BY <1>6, <2>1
    <3>2. BatchIn(<<>>) \in Seq(Entry) BY <2>2, EmptySeq
    <3>3. Pending' = BatchIn(<<>>) \o buffer BY <1>4, <3>1, <3>2, LastFlushKeeps
    <3> QED BY <2>2, <3>3
  <2>4. Pending' = buffer BY <1>4, <2>3, ConcatEmptySeq
  <2> HIDE DEF b
  <2>5. Sent BY <1>1, <1>3, <1>4, <1>6, <2>1, <2>2, <2>4 DEF Sent, b
  <2> QED BY <2>5 DEF Moves
<1>7. ASSUME timer = "flushing", NEW i \in DOMAIN jobs,
             LastFlush([jobs EXCEPT ![i].owner = None]), UNCHANGED lost
      PROVE  Moves
  <2> DEFINE kept == [jobs EXCEPT ![i].owner = None]
  <2>1. i = 1 /\ DOMAIN jobs = {1} /\ Len(jobs) = 1 /\ jobs[i] \in Job BY OneJob
  <2>2. kept[1].batch = jobs[1].batch /\ DOMAIN kept = {1} BY <2>1 DEF Job
  <2>3. BatchIn(kept) = BatchIn(jobs)
    <3> HIDE DEF kept
    <3>1. kept # <<>> /\ BatchIn(jobs) = jobs[1].batch BY <2>1, <2>2, BatchOfJob
    <3> QED BY <2>2, <3>1 DEF BatchIn
  <2>4. buffer = <<>>
    <3>1. holder = Timer /\ Timer # None BY <1>7, LogAssumption DEF IInv, Ownership
    <3> QED BY <3>1 DEF IInv, Ownership
  <2>5. LastFlush(kept) BY <1>7
  <2> HIDE DEF kept
  <2>6. Pending' = Pending BY <1>4, <2>3, <2>4, <2>5, LastFlushKeeps
  <2> QED BY <1>1, <1>3, <1>7, <2>6 DEF Moves, Kept
<1>8. CASE UNCHANGED <<buffer, jobs, lost>>
  BY <1>1, <1>2, <1>3, <1>8 DEF Moves, Kept, Pending, Batches
<1> QED BY <1>2, <1>5, <1>6, <1>7, <1>8 DEF Shutdown

LEMMA ProcessEndsMoves ==
    ASSUME IInv, IInv', NEW stored, stored \in {<<>>, BatchIn(jobs)}, ProcessEnds(stored)
    PROVE  Queued' /\ Moves
<1>1. queue' = <<>> /\ buffer' = <<>> /\ jobs' = <<>> /\ trail' = trail \o stored
      /\ lost' = lost \cup ((InFlight \cup ToSet(buffer)) \ ToSet(stored))
  BY DEF ProcessEnds, Fresh
<1>2. Queued' BY <1>1 DEF Queued
<1>3. /\ Pending = BatchIn(jobs) \o buffer /\ BatchIn(jobs) \in Seq(Entry)
      /\ buffer \in Seq(Entry) /\ Pending \in Seq(Entry) /\ InFlight = ToSet(BatchIn(jobs))
  BY PendingIs
<1>4. ToSet(Pending) = InFlight \cup ToSet(buffer) BY <1>3, SetOfConcat
<1>5. Pending' = <<>> BY <1>1, PendingIs, ConcatEmptySeq, EmptySeq DEF BatchIn
<1>6. Len(BatchIn(jobs)) \in 0 .. BatchSize
  <2>1. CASE jobs = <<>> BY <2>1, LogAssumption DEF BatchIn
  <2>2. CASE jobs # <<>>
    <3>1. jobs \in Seq(Job) BY DEF IInv, TypeOK
    <3>2. Len(jobs) \in Nat \ {0} /\ DOMAIN jobs = 1 .. Len(jobs)
      BY <2>2, <3>1, EmptySeq, LenProperties
    <3>3. Len(jobs[1].batch) \in 1 .. BatchSize BY <3>2, OneJob
    <3> QED BY <2>2, <3>3, LogAssumption DEF BatchIn
  <2> QED BY <2>1, <2>2
<1>7. Accepted' = Accepted
  <2>1. \A e \in Entry : call'[e] = CASE call[e] = "waiting" -> "refused"
                                      [] call[e] = "flushing" -> "failed"
                                      [] OTHER -> call[e]
    BY DEF ProcessEnds
  <2> QED BY <2>1 DEF Accepted
<1>8. \E r \in Seq(Entry) : Pending = stored \o r
  <2>1. <<>> \o Pending = Pending BY <1>3, ConcatEmptySeq
  <2> QED BY <1>3, <2>1
<1>9. stored \in Seq(Entry) /\ Len(stored) \in 0 .. BatchSize
  <2>1. <<>> \in Seq(Entry) /\ Len(<<>>) \in 0 .. BatchSize BY EmptySeq, LogAssumption
  <2>2. CASE stored = <<>> BY <2>1, <2>2
  <2>3. CASE stored = BatchIn(jobs) BY <1>3, <1>6, <2>3
  <2> QED BY <2>2, <2>3
<1>10. Ended BY <1>1, <1>4, <1>5, <1>7, <1>8, <1>9 DEF Ended
<1> QED BY <1>2, <1>10 DEF Moves

LEMMA NextMoves ==
    ASSUME IInv, IInv', Queued, [Next]_vars
    PROVE  Queued' /\ Moves
<1>1. CASE \E e \in Entry : EnqueueLog(e) BY <1>1, EnqueueLogMoves
<1>2. CASE Grant BY <1>2, GrantMoves
<1>3. CASE TimerWakes BY <1>3, TimerWakesMoves
<1>4. CASE \E i \in DOMAIN jobs : JobStarts(i) BY <1>4, JobStartsMoves
<1>5. CASE \E i \in DOMAIN jobs : JobEnds(i) BY <1>5, JobEndsMoves
<1>6. CASE Shutdown BY <1>6, ShutdownMoves
<1>7. CASE Exit
  <2>1. ProcessEnds(<<>>) BY <1>7 DEF Exit
  <2> QED BY <2>1, ProcessEndsMoves
<1>8. CASE Crash
  <2>1. PICK stored \in {<<>>} \cup {jobs[i].batch : i \in DOMAIN jobs} : ProcessEnds(stored)
    BY <1>8 DEF Crash
  <2>2. stored \in {<<>>, BatchIn(jobs)}
    <3>1. ASSUME NEW i \in DOMAIN jobs PROVE jobs[i].batch = BatchIn(jobs)
      <4>1. i = 1 /\ Len(jobs) = 1 BY OneJob
      <4> QED BY <4>1 DEF BatchIn
    <3> QED BY <2>1, <3>1
  <2> QED BY <2>1, <2>2, ProcessEndsMoves
<1>9. CASE UNCHANGED <<call, queue, buffer, jobs, trail, lost>>
  BY <1>9 DEF Queued, Moves, Kept, Pending, Batches, Accepted
<1>10. BackoffEnds \/ Tick \/ Boot \/ DbToggles \/ UNCHANGED vars
         => UNCHANGED <<call, queue, buffer, jobs, trail, lost>>
  BY DEF BackoffEnds, Tick, Boot, DbToggles, vars
<1> QED BY <1>1, <1>2, <1>3, <1>4, <1>5, <1>6, <1>7, <1>8, <1>9, <1>10 DEF Next

-----------------------------------------------------------------------------
LEMMA OnceKept ==
    ASSUME IInv, IInv', Once(Pending, trail, lost, Accepted), Moves
    PROVE  Once(Pending', trail', lost', Accepted')
<1>1. Pending \in Seq(Entry) /\ trail \in Seq(Entry) /\ Pending' \in Seq(Entry) BY PendingIs
<1>2. CASE Kept BY <1>2 DEF Kept
<1>3. CASE Took
  <2>1. PICK e \in Entry \ Accepted :
          /\ Pending' = Append(Pending, e) /\ Accepted' = Accepted \cup {e}
          /\ trail' = trail /\ lost' = lost
    BY <1>3 DEF Took
  <2>2. ToSet(Pending') = ToSet(Pending) \cup {e} BY <1>1, <2>1, AppendDistinct
  <2>3. e \notin ToSet(Pending) /\ e \notin ToSet(trail) /\ e \notin lost BY DEF Once
  <2>4. Distinct(Pending') BY <1>1, <2>1, <2>3, AppendDistinct DEF Once
  <2> QED BY <2>1, <2>2, <2>3, <2>4 DEF Once
<1>4. CASE Sent
  <2>1. PICK b \in Seq(Entry) :
          /\ Pending = b \o Pending' /\ Accepted' = Accepted
          /\ \/ trail' = trail \o b /\ lost' = lost
             \/ trail' = trail /\ lost' = lost \cup ToSet(b)
    BY <1>4 DEF Sent
  <2>2. /\ Distinct(b) /\ Distinct(Pending') /\ ToSet(b) \cap ToSet(Pending') = {}
        /\ ToSet(Pending) = ToSet(b) \cup ToSet(Pending')
    BY <1>1, <2>1, SetOfConcat, DistinctConcat DEF Once
  <2>3. CASE trail' = trail \o b /\ lost' = lost
    <3>1. ToSet(trail') = ToSet(trail) \cup ToSet(b) BY <1>1, <2>3, SetOfConcat
    <3>2. Distinct(trail) /\ ToSet(trail) \cap ToSet(b) = {} BY <2>2 DEF Once
    <3>3. Distinct(trail') BY <1>1, <2>2, <2>3, <3>2, DistinctConcat
    <3> QED BY <2>1, <2>2, <2>3, <3>1, <3>3 DEF Once
  <2>4. CASE trail' = trail /\ lost' = lost \cup ToSet(b)
    BY <2>1, <2>2, <2>4 DEF Once
  <2> QED BY <2>1, <2>3, <2>4
<1>5. CASE Ended
  <2>1. PICK b \in Seq(Entry), r \in Seq(Entry) :
          /\ Pending = b \o r /\ Pending' = <<>> /\ trail' = trail \o b
          /\ lost' = lost \cup (ToSet(Pending) \ ToSet(b)) /\ Accepted' = Accepted
    BY <1>5 DEF Ended
  <2>2. Distinct(b) /\ ToSet(Pending) = ToSet(b) \cup ToSet(r)
    BY <2>1, SetOfConcat, DistinctConcat DEF Once
  <2>3. ToSet(trail') = ToSet(trail) \cup ToSet(b) BY <1>1, <2>1, SetOfConcat
  <2>4. Distinct(trail) /\ ToSet(trail) \cap ToSet(b) = {} BY <2>2 DEF Once
  <2>5. Distinct(trail') BY <1>1, <2>1, <2>2, <2>4, DistinctConcat
  <2>6. ToSet(Pending') = {} /\ Distinct(Pending') BY <2>1 DEF ToSet, Distinct
  <2> QED BY <2>1, <2>2, <2>3, <2>5, <2>6 DEF Once
<1> QED BY <1>2, <1>3, <1>4, <1>5 DEF Moves

(* The invariant of LogQueue_proofs, the line for the lock, and the line   *)
(* of the entries.                                                         *)
TrailInv == IInv /\ Queued /\ EachEntryOnce

LEMMA TrailInvNext == TrailInv /\ [Next]_vars => TrailInv'
<1> SUFFICES ASSUME TrailInv, [Next]_vars PROVE TrailInv' OBVIOUS
<1>1. IInv' BY NextSound DEF TrailInv
<1>2. Queued' /\ Moves BY <1>1, NextMoves DEF TrailInv
<1>3. Once(Pending, trail, lost, Accepted) BY OncePending DEF TrailInv
<1>4. Once(Pending', trail', lost', Accepted') BY <1>1, <1>2, <1>3, OnceKept DEF TrailInv
<1>5. EachEntryOnce' BY <1>1, <1>4, OncePending
<1> QED BY <1>1, <1>2, <1>5 DEF TrailInv

LEMMA TrailInvInit == Init => TrailInv
<1> SUFFICES ASSUME Init PROVE TrailInv OBVIOUS
<1>1. IInv BY InitSound
<1>2. jobs = <<>> /\ buffer = <<>> /\ queue = <<>> /\ trail = <<>> /\ lost = {} BY DEF Init
<1>3. Queued BY <1>2 DEF Queued
<1>4. Pending = <<>> BY <1>1, <1>2, PendingIs, ConcatEmptySeq, EmptySeq DEF BatchIn
<1>5. Accepted = {} BY DEF Init, Accepted
<1>6. ToSet(<<>>) = {} /\ Distinct(<<>>) BY DEF ToSet, Distinct
<1>7. Once(Pending, trail, lost, Accepted) BY <1>2, <1>4, <1>5, <1>6 DEF Once
<1> QED BY <1>1, <1>3, <1>7, OncePending DEF TrailInv

LEMMA TrailInvariance == Spec => []TrailInv
BY TrailInvInit, TrailInvNext, PTL DEF Spec

(* No entry is written twice or silently forgotten: each entry enqueue_log *)
(* has accepted is in exactly one place, a row, a loss, a batch in flight  *)
(* or the buffer, through flushes, cancellation and crashes.               *)
THEOREM EntriesOnce == Spec => []EachEntryOnce
<1>1. TrailInv => EachEntryOnce BY DEF TrailInv
<1> QED BY <1>1, TrailInvariance, PTL

LEMMA JobEndsCause ==
    ASSUME TrailInv, NEW i \in DOMAIN jobs, JobEnds(i), lost' # lost
    PROVE  /\ lost' \ lost = ToSet(jobs[i].batch)
           /\ ~ dbUp \/ ToSet(jobs[i].batch) \cap Poison # {}
           /\ UNCHANGED buffer
<1> DEFINE b == jobs[i].batch
<1>1. UNCHANGED buffer /\ ~ Insertable(b) /\ lost' = lost \cup (ToSet(b) \ ToSet(RowsKept(b)))
  BY DEF JobEnds
<1>2. ToSet(RowsKept(b)) = {} BY DEF RowsKept, ToSet
<1>3. BatchIn(jobs) = b BY BatchOfJob DEF TrailInv
<1>4. b \in Seq(Entry) /\ buffer \in Seq(Entry) /\ Pending = b \o buffer
  BY <1>3, PendingIs DEF TrailInv
<1> HIDE DEF b
<1>5. ToSet(b) \subseteq ToSet(Pending) BY <1>4, SetOfConcat
<1>6. Once(Pending, trail, lost, Accepted) BY OncePending DEF TrailInv
<1>7. ToSet(b) \cap lost = {} BY <1>5, <1>6 DEF Once
<1>8. lost' \ lost = ToSet(b) BY <1>1, <1>2, <1>7
<1>9. ~ dbUp \/ ToSet(b) \cap Poison # {} BY <1>1 DEF Insertable
<1> QED BY <1>1, <1>8, <1>9 DEF b

(* Entries are lost with a batch that holds a refused one, with a batch    *)
(* that meets a database that is away, and at a change of the process's    *)
(* phase; never one that still waits in the buffer of a living process.    *)
THEOREM LossesHaveCause == Spec => LossHasCause
<1> DEFINE Cause == lost' # lost =>
         \/ phase' # phase
         \/ /\ \E i \in DOMAIN jobs :
                 /\ lost' \ lost = ToSet(jobs[i].batch)
                 /\ ~ dbUp \/ ToSet(jobs[i].batch) \cap Poison # {}
            /\ UNCHANGED buffer
<1>1. TrailInv /\ [Next]_vars => [Cause]_vars
  <2> SUFFICES ASSUME TrailInv, [Next]_vars, lost' # lost
               PROVE  \/ phase' # phase
                      \/ /\ \E i \in DOMAIN jobs :
                              /\ lost' \ lost = ToSet(jobs[i].batch)
                              /\ ~ dbUp \/ ToSet(jobs[i].batch) \cap Poison # {}
                         /\ UNCHANGED buffer
    OBVIOUS
  <2>1. CASE \E i \in DOMAIN jobs : JobEnds(i) BY <2>1, JobEndsCause
  <2>2. CASE Shutdown BY <2>2 DEF Shutdown
  <2>3. CASE Exit BY <2>3 DEF Exit, ProcessEnds
  <2>4. CASE Crash BY <2>4 DEF Crash, ProcessEnds
  <2>5. (\E e \in Entry : EnqueueLog(e)) \/ Grant \/ TimerWakes \/ BackoffEnds \/ Tick
          \/ (\E i \in DOMAIN jobs : JobStarts(i)) \/ Boot \/ DbToggles \/ UNCHANGED vars
        => lost' = lost
    BY DEF EnqueueLog, Grant, TimerWakes, BackoffEnds, Tick, JobStarts, Boot, DbToggles, vars
  <2> QED BY <2>1, <2>2, <2>3, <2>4, <2>5 DEF Next
<1> QED BY <1>1, TrailInvariance, PTL DEF Spec, LossHasCause

-----------------------------------------------------------------------------
(* Refinement.                                                             *)
LEMMA Split ==
    ASSUME NEW S, NEW b \in Seq(S), NEW r \in Seq(S)
    PROVE  /\ SubSeq(b \o r, 1, Len(b)) = b
           /\ SubSeq(b \o r, Len(b) + 1, Len(b \o r)) = r
           /\ Len(b \o r) = Len(b) + Len(r) /\ Len(b) \in Nat /\ Len(r) \in Nat
<1> DEFINE m == Len(b)
           n == Len(r)
           u == b \o r
<1>1. m \in Nat /\ n \in Nat BY LenProperties
<1>2. u \in Seq(S) /\ Len(u) = m + n
      /\ \A i \in 1 .. m + n : u[i] = IF i <= m THEN b[i] ELSE r[i - m]
  BY ConcatProperties
<1>3. \A i \in 1 .. m + n : u[i] \in S BY <1>2, ElementOfSeq
<1> HIDE DEF m, n, u
<1>4. SubSeq(u, 1, m) = b
  <2>1. \A i \in 1 .. m : u[i] \in S /\ u[i] = b[i] BY <1>1, <1>2, <1>3
  <2>2. /\ SubSeq(u, 1, m) \in Seq(S)
        /\ Len(SubSeq(u, 1, m)) = IF 1 <= m THEN m - 1 + 1 ELSE 0
        /\ \A i \in 1 .. m - 1 + 1 : SubSeq(u, 1, m)[i] = u[1 + i - 1]
    BY <1>1, <2>1, SubSeqProperties
  <2>3. Len(SubSeq(u, 1, m)) = m BY <1>1, <2>2
  <2>4. \A i \in 1 .. m : SubSeq(u, 1, m)[i] = b[i]
    <3> SUFFICES ASSUME NEW i \in 1 .. m PROVE SubSeq(u, 1, m)[i] = b[i] OBVIOUS
    <3>1. i \in 1 .. m - 1 + 1 /\ 1 + i - 1 = i BY <1>1
    <3> QED BY <2>1, <2>2, <3>1
  <2> QED BY <2>2, <2>3, <2>4, SeqEqual DEF m
<1>5. SubSeq(u, m + 1, m + n) = r
  <2>1. \A i \in m + 1 .. m + n : u[i] \in S BY <1>1, <1>3
  <2>2. /\ SubSeq(u, m + 1, m + n) \in Seq(S)
        /\ Len(SubSeq(u, m + 1, m + n)) = IF m + 1 <= m + n THEN (m + n) - (m + 1) + 1 ELSE 0
        /\ \A i \in 1 .. (m + n) - (m + 1) + 1 :
              SubSeq(u, m + 1, m + n)[i] = u[(m + 1) + i - 1]
    BY <1>1, <2>1, SubSeqProperties
  <2>3. Len(SubSeq(u, m + 1, m + n)) = n BY <1>1, <2>2
  <2>4. \A i \in 1 .. n : SubSeq(u, m + 1, m + n)[i] = r[i]
    <3> SUFFICES ASSUME NEW i \in 1 .. n PROVE SubSeq(u, m + 1, m + n)[i] = r[i] OBVIOUS
    <3>1. i \in 1 .. (m + n) - (m + 1) + 1 /\ (m + 1) + i - 1 = m + i BY <1>1
    <3>2. m + i \in 1 .. m + n /\ ~ (m + i <= m) /\ (m + i) - m = i BY <1>1
    <3> QED BY <1>2, <2>2, <3>1, <3>2
  <2> QED BY <2>2, <2>3, <2>4, SeqEqual DEF n
<1> QED BY <1>1, <1>2, <1>4, <1>5 DEF m, n, u

LEMMA AuditStep ==
    ASSUME IInv, IInv', Once(Pending, trail, lost, Accepted), Moves
    PROVE  [Audit!Next]_(Audit!trailVars)
<1>1. Pending \in Seq(Entry) /\ Pending' \in Seq(Entry) BY PendingIs
<1>same. \A s : Audit!ToSet(s) = ToSet(s) BY DEF Audit!ToSet, ToSet
<1>2. CASE Kept BY <1>2 DEF Kept, Pending, Audit!trailVars
<1>3. CASE Took
  <2>1. PICK e \in Entry \ Accepted : Pending' = Append(Pending, e) /\ UNCHANGED <<trail, lost>>
    BY <1>3 DEF Took
  <2>2. Audit!Known = Accepted BY <1>same DEF Once, Pending, Audit!Known
  <2>3. Audit!Accept BY <2>1, <2>2 DEF Audit!Accept, Pending
  <2> QED BY <2>3 DEF Audit!Next
<1>4. CASE Sent
  <2>1. PICK b \in Seq(Entry) :
          /\ Len(b) \in 1 .. BatchSize /\ Pending = b \o Pending'
          /\ \/ trail' = trail \o b /\ lost' = lost
             \/ trail' = trail /\ lost' = lost \cup ToSet(b)
    BY <1>4 DEF Sent
  <2>2. /\ SubSeq(Pending, 1, Len(b)) = b /\ SubSeq(Pending, Len(b) + 1, Len(Pending)) = Pending'
        /\ Len(Pending) = Len(b) + Len(Pending') /\ Len(b) \in Nat /\ Len(Pending') \in Nat
    BY <1>1, <2>1, Split
  <2>3. Len(b) \in 1 .. (IF Len(Pending) < BatchSize THEN Len(Pending) ELSE BatchSize)
    BY <2>1, <2>2, LogAssumption
  <2>4. /\ Len(b) \in Audit!Batch /\ Audit!First(Len(b)) = b /\ Audit!Rest(Len(b)) = Pending'
    BY <2>2, <2>3 DEF Pending, Audit!Batch, Audit!First, Audit!Rest
  <2>5. Audit!Persist \/ Audit!Drop BY <1>same, <2>1, <2>4 DEF Pending, Audit!Persist, Audit!Drop
  <2> QED BY <2>5 DEF Audit!Next
<1>5. CASE Ended
  <2>1. PICK b \in Seq(Entry), r \in Seq(Entry) :
          /\ Len(b) \in 0 .. BatchSize /\ Pending = b \o r /\ Pending' = <<>>
          /\ trail' = trail \o b /\ lost' = lost \cup (ToSet(Pending) \ ToSet(b))
    BY <1>5 DEF Ended
  <2>2. /\ SubSeq(Pending, 1, Len(b)) = b /\ SubSeq(Pending, Len(b) + 1, Len(Pending)) = r
        /\ Len(Pending) = Len(b) + Len(r) /\ Len(b) \in Nat /\ Len(r) \in Nat
    BY <2>1, Split
  <2>3. Len(b) \in {0} \cup 1 .. (IF Len(Pending) < BatchSize THEN Len(Pending) ELSE BatchSize)
    BY <2>1, <2>2, LogAssumption
  <2>4. ToSet(Pending) \ ToSet(b) = ToSet(r)
    <3>1. ToSet(b) \cap ToSet(r) = {} BY <2>1, DistinctConcat DEF Once
    <3>2. ToSet(Pending) = ToSet(b) \cup ToSet(r) BY <2>1, SetOfConcat
    <3> QED BY <3>1, <3>2
  <2>5. /\ Len(b) \in Audit!Batch \cup {0} /\ Audit!First(Len(b)) = b /\ Audit!Rest(Len(b)) = r
    BY <2>2, <2>3 DEF Pending, Audit!Batch, Audit!First, Audit!Rest
  <2>6. Audit!EndOfProcess BY <1>same, <2>1, <2>4, <2>5 DEF Pending, Audit!EndOfProcess
  <2> QED BY <2>6 DEF Audit!Next
<1> QED BY <1>2, <1>3, <1>4, <1>5 DEF Moves

(* The safety half of ImplementsAuditTrail: rows appear in the order of    *)
(* acceptance, batch by batch, all or nothing, whatever the lock, the      *)
(* background task and the executor's threads do in between.               *)
THEOREM AuditSafety == Spec => Audit!Init /\ [][Audit!Next]_(Audit!trailVars)
<1>1. Init => Audit!Init
  <2> SUFFICES ASSUME Init PROVE Audit!Init OBVIOUS
  <2>1. IInv BY InitSound
  <2>2. jobs = <<>> /\ buffer = <<>> /\ trail = <<>> /\ lost = {} BY DEF Init
  <2>3. Pending = <<>> BY <2>1, <2>2, PendingIs, ConcatEmptySeq, EmptySeq DEF BatchIn
  <2> QED BY <2>2, <2>3 DEF Pending, Audit!Init
<1>2. TrailInv /\ [Next]_vars => [Audit!Next]_(Audit!trailVars)
  <2> SUFFICES ASSUME TrailInv, [Next]_vars PROVE [Audit!Next]_(Audit!trailVars) OBVIOUS
  <2>1. IInv' BY NextSound DEF TrailInv
  <2>2. Moves BY <2>1, NextMoves DEF TrailInv
  <2>3. Once(Pending, trail, lost, Accepted) BY OncePending DEF TrailInv
  <2> QED BY <2>1, <2>2, <2>3, AuditStep DEF TrailInv
<1> QED BY <1>1, <1>2, TrailInvariance, PTL DEF Spec

=============================================================================
