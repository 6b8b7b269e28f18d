------------------------- MODULE SecureLogin_proofs -------------------------
(***************************************************************************)
(* Proofs about SecureLogin for any number of users, slots, processes and  *)
(* requests, and any duration of a disable.                                *)
(***************************************************************************)
EXTENDS SecureLogin, SequenceTheorems, FiniteSetTheorems, TLAPS

(* Which request can be where; whoever is in the log has awaited it.       *)
Shape(t) ==
    /\ t.op = "login" => t.todo # "start"
    /\ t.op = "status" => t.todo \in {"start", "commit"}
    /\ t.todo = "log" => t.awaited
Shapes == \A s \in Slot : task[s] # None => Shape(task[s])

(* No disable ends later than one that begins now.                         *)
Ends == \A u \in User : user[u].until # None => user[u].until <= now + Duration

(* What the login t found is so still.                                     *)
Current(t) ==
    /\ user[t.user].status = "active" \/ t.awaited
    /\ t.todo = "commit" =>
         \A u \in User : user[u].until # None => user[u].until <= t.until

OneRuns == \A s, t \in Slot : Running(s) /\ Running(t) => s = t
Serial ==
    OneProcess => /\ OneRuns
                  /\ \A s \in Slot : Running(s) /\ task[s].op = "login" => Current(task[s])

(* No end in sight is later than a disable that begins now would have.     *)
TaskEnds == \A s \in Slot : task[s] # None => task[s].until <= now + Duration

IInv == TypeOK /\ Shapes /\ Ends /\ TaskEnds /\ Serial

-----------------------------------------------------------------------------
LEMMA TimeFacts ==
    /\ MaxTime \in Nat /\ Duration \in Nat /\ None \notin Time
    /\ \A n \in 0 .. MaxTime : n \in Nat /\ n + Duration \in Time
    /\ \A n \in Time : n \in Nat
    /\ 0 \in Time
BY LoginAssumption DEF Time

LEMMA InitInv == Init => IInv
<1> SUFFICES ASSUME Init PROVE IInv OBVIOUS
<1>1. user \in [User -> UserRow] BY DEF Init, UserRow
<1>2. book \in [User -> Seq([until : Time, cause : Cause])] BY DEF Init
<1>3. TypeOK BY <1>1, <1>2, LoginAssumption DEF Init, TypeOK
<1>4. Ends BY DEF Init, Ends
<1>5. Shapes /\ TaskEnds /\ Serial
  BY DEF Init, Shapes, TaskEnds, Serial, OneRuns, Running, At
<1> QED BY <1>3, <1>4, <1>5 DEF IInv

-----------------------------------------------------------------------------
(* The slot s becomes t, by a handler in its turn or before its turn, and  *)
(* users are left alone.                                                   *)
LEMMA TaskStep ==
    ASSUME IInv, NEW s \in Slot, NEW t \in Task,
           MayRun(s) \/ t.todo \in Waiting,
           task' = [task EXCEPT ![s] = t], UNCHANGED <<place, now, tables>>,
           served' \in 0 .. MaxRequests, Shape(t),
           t.until <= now + Duration,
           OneProcess /\ t.todo \notin Waiting /\ t.op = "login" => Current(t)
    PROVE  IInv'
<1> USE DEF tables
<1>1. \A x \in Slot : task'[x] = IF x = s THEN t ELSE task[x] BY DEF IInv, TypeOK
<1>2. TypeOK' BY DEF IInv, TypeOK
<1>3. Shapes' BY <1>1 DEF IInv, Shapes, Shape
<1>4. Ends' BY DEF IInv, Ends
<1>5. TaskEnds' BY <1>1 DEF IInv, TaskEnds, At
<1>6. ASSUME OneProcess
      PROVE  /\ OneRuns'
             /\ \A x \in Slot : Running(x)' /\ task'[x].op = "login" => Current(task[x])'
  <2>1. \A x \in Slot : Running(x)' /\ x # s => Running(x) /\ task'[x] = task[x]
    BY <1>1 DEF Running
  <2>2. Running(s)' => t.todo \notin Waiting BY <1>1 DEF Running, Waiting
  <2>3. OneRuns'
    <3>1. CASE MayRun(s)
      <4>1. \A x \in Slot \ {s} : ~Running(x) BY <1>6, <3>1 DEF MayRun, OneProcess
      <4> QED BY <2>1, <4>1 DEF OneRuns
    <3>2. CASE t.todo \in Waiting
      BY <1>6, <2>1, <2>2, <3>2 DEF OneRuns, IInv, Serial
    <3> QED BY <3>1, <3>2
  <2>4. \A x \in Slot \ {s} : Running(x)' /\ task'[x].op = "login" => Current(task[x])'
    BY <1>6, <2>1 DEF IInv, Serial, Current
  <2>5. Running(s)' /\ task'[s].op = "login" => Current(task[s])'
    BY <1>1, <1>6, <2>2 DEF Current
  <2> QED BY <2>3, <2>4, <2>5
<1>7. Serial' BY <1>6 DEF Serial, OneProcess
<1> QED BY <1>2, <1>3, <1>4, <1>5, <1>7 DEF IInv

(* The slot s is done; who commits is alone in one process.                *)
LEMMA DoneStep ==
    ASSUME IInv, NEW s \in Slot, Done(s), UNCHANGED <<place, now>>, TypeOK', Ends',
           UNCHANGED user \/ (OneProcess => \A x \in Slot \ {s} : ~Running(x))
    PROVE  IInv'
<1> USE DEF Done
<1>1. \A x \in Slot : task'[x] = IF x = s THEN None ELSE task[x] BY DEF IInv, TypeOK
<1>2. Shapes' BY <1>1 DEF IInv, Shapes, Shape
<1>3. TaskEnds' BY <1>1 DEF IInv, TaskEnds, At
<1>4. \A x \in Slot : Running(x)' => Running(x) /\ task'[x] = task[x] /\ x # s
  BY <1>1 DEF Running
<1>5. Serial' BY <1>4 DEF IInv, Serial, OneProcess, OneRuns, Current
<1> QED BY <1>2, <1>3, <1>5 DEF IInv

LEMMA Committer ==
    ASSUME IInv, NEW s \in Slot, At(s, "commit")
    PROVE  /\ task[s] \in Task /\ task[s].until <= now + Duration
           /\ OneProcess => \A x \in Slot \ {s} : ~Running(x)
           /\ OneProcess /\ task[s].op = "login" => Current(task[s])
<1>1. Running(s) BY DEF Running, Waiting, At
<1>2. task[s] \in Task /\ task[s].until <= now + Duration
  BY DEF IInv, TypeOK, TaskEnds, At
<1>3. OneProcess => \A x \in Slot \ {s} : ~Running(x)
  BY <1>1 DEF IInv, Serial, OneRuns
<1>4. OneProcess /\ task[s].op = "login" => Current(task[s]) BY <1>1 DEF IInv, Serial
<1> QED BY <1>2, <1>3, <1>4

-----------------------------------------------------------------------------
LEMMA LoginStep ==
    ASSUME IInv, NEW s \in Slot, NEW u \in User, NEW foreign \in BOOLEAN, Login(s, u, foreign)
    PROVE  IInv'
<1> USE DEF Login, Begin
<1> DEFINE t == Request("login", u, "temp_disabled", foreign, "verdict")
<1>1. user[u] \in UserRow BY DEF IInv, TypeOK
<1>2. t \in Task BY <1>1, TimeFacts DEF Request, Task, Status, Cause
<1>3. t.op = "login" /\ t.todo = "verdict" /\ t.user = u /\ t.until = 0 BY DEF Request
<1>4. Shape(t) BY <1>3 DEF Shape
<1>5. Current(t) BY <1>3 DEF Current, Admitted
<1>6. served' \in 0 .. MaxRequests BY LoginAssumption DEF IInv, TypeOK
<1>7. t.until <= now + Duration
  <2>1. 0 <= now + Duration BY TimeFacts DEF IInv, TypeOK
  <2> QED BY <1>3, <2>1
<1> QED BY <1>2, <1>3, <1>4, <1>5, <1>6, <1>7, TaskStep

LEMMA ChangeStatusStep ==
    ASSUME IInv, NEW s \in Slot, NEW u \in User, NEW status \in Status,
           ChangeStatus(s, u, status)
    PROVE  IInv'
<1> USE DEF ChangeStatus, Begin
<1> DEFINE t == Request("status", u, status, FALSE, "commit")
<1>1. user[u] \in UserRow BY DEF IInv, TypeOK
<1>2. t \in Task BY <1>1, TimeFacts DEF Request, Task, Cause
<1>3. t.op = "status" /\ t.todo = "commit" /\ t.until = 0 BY DEF Request
<1>4. Shape(t) BY <1>3 DEF Shape
<1>5. t.until <= now + Duration
  <2>1. 0 <= now + Duration BY TimeFacts DEF IInv, TypeOK
  <2> QED BY <1>3, <2>1
<1>6. served' \in 0 .. MaxRequests BY LoginAssumption DEF IInv, TypeOK
<1> QED BY <1>2, <1>3, <1>4, <1>5, <1>6, TaskStep

LEMMA ChangeOwnStatusStep ==
    ASSUME IInv, NEW s \in Slot, NEW u \in User, NEW status \in Status,
           ChangeOwnStatus(s, u, status)
    PROVE  IInv'
<1> USE DEF ChangeOwnStatus, Begin
<1> DEFINE t == Request("status", u, status, FALSE, "start")
<1>1. user[u] \in UserRow BY DEF IInv, TypeOK
<1>2. t \in Task BY <1>1, TimeFacts DEF Request, Task, Cause
<1>3. t.op = "status" /\ t.todo = "start" /\ t.until = 0 BY DEF Request
<1>4. Shape(t) BY <1>3 DEF Shape
<1>5. served' \in 0 .. MaxRequests BY LoginAssumption DEF IInv, TypeOK
<1>6. t.until <= now + Duration
  <2>1. 0 <= now + Duration BY TimeFacts DEF IInv, TypeOK
  <2> QED BY <1>3, <2>1
<1> QED BY <1>2, <1>3, <1>4, <1>5, <1>6, TaskStep DEF Waiting

(* A login that begins to disable knows the latest end.                    *)
LEMMA ToDisableFacts ==
    ASSUME IInv, NEW s \in Slot, task[s] \in Task, NEW cause \in Cause
    PROVE  LET t == ToDisable(task[s], cause) IN
           /\ t \in Task /\ t.todo = "commit" /\ t.until = now + Duration
           /\ t.op = task[s].op /\ t.user = task[s].user /\ t.awaited = task[s].awaited
<1>1. now + Duration \in Time BY TimeFacts DEF IInv, TypeOK
<1> QED BY <1>1 DEF ToDisable, Task

LEMMA CheckIpStep ==
    ASSUME IInv, NEW s \in Slot, NEW answer \in Answer, CheckIp(s, answer)
    PROVE  IInv'
<1> USE DEF CheckIp, Goes
<1>1. task[s] \in Task /\ Shape(task[s]) /\ task[s].todo = "verdict" /\ Running(s)
  BY DEF IInv, TypeOK, Shapes, At, Running, Waiting
<1>2. task[s].op = "login" BY <1>1 DEF Shape, Task
<1>3. OneProcess => user[task[s].user].status = "active" \/ task[s].awaited
  BY <1>1, <1>2 DEF IInv, Serial, Current
<1>4. served' \in 0 .. MaxRequests /\ task[s].until <= now + Duration
  BY <1>1 DEF IInv, TypeOK, TaskEnds, At
<1>5. CASE Suspicious(answer)
  <2> DEFINE t == ToDisable(task[s], "address")
  <2>1. /\ t \in Task /\ t.todo = "commit" /\ t.until = now + Duration
        /\ t.op = task[s].op /\ t.user = task[s].user /\ t.awaited = task[s].awaited
    BY <1>1, ToDisableFacts DEF Cause
  <2>2. Shape(t) BY <2>1, <1>2 DEF Shape
  <2>3. OneProcess => Current(t) BY <2>1, <1>3 DEF Current, IInv, Ends
  <2>4. t.until <= now + Duration BY <2>1, TimeFacts DEF IInv, TypeOK
  <2>5. task' = [task EXCEPT ![s] = t] /\ MayRun(s) BY <1>5
  <2> HIDE DEF t
  <2> QED BY <1>4, <2>1, <2>2, <2>3, <2>4, <2>5, TaskStep
<1>6. CASE ~Suspicious(answer) /\ known[task[s].user]
  <2> DEFINE t == [task[s] EXCEPT !.todo = "zone"]
  <2>1. /\ t \in Task /\ t.todo = "zone" /\ t.op = task[s].op
        /\ t.user = task[s].user /\ t.awaited = task[s].awaited /\ t.until = task[s].until
    BY <1>1 DEF Task
  <2>2. Shape(t) BY <2>1, <1>2 DEF Shape
  <2>3. OneProcess => Current(t) BY <2>1, <1>3 DEF Current
  <2>4. task' = [task EXCEPT ![s] = t] /\ MayRun(s) BY <1>6
  <2> HIDE DEF t
  <2> QED BY <1>4, <2>1, <2>2, <2>3, <2>4, TaskStep
<1>7. CASE ~Suspicious(answer) /\ ~known[task[s].user]
  <2> DEFINE t == [task[s] EXCEPT !.todo = "log", !.awaited = TRUE]
  <2>1. /\ t \in Task /\ t.todo = "log" /\ t.op = task[s].op /\ t.awaited
        /\ t.until = task[s].until
    BY <1>1 DEF Task
  <2>2. Shape(t) BY <2>1, <1>2 DEF Shape
  <2>3. task' = [task EXCEPT ![s] = t] /\ MayRun(s) BY <1>7
  <2> HIDE DEF t
  <2> QED BY <1>4, <2>1, <2>2, <2>3, TaskStep DEF Waiting
<1> QED BY <1>5, <1>6, <1>7

LEMMA CheckZoneStep ==
    ASSUME IInv, NEW s \in Slot, CheckZone(s)
    PROVE  IInv'
<1> USE DEF CheckZone, Goes
<1> DEFINE t == ToDisable(task[s], "zone")
<1>1. task[s] \in Task /\ Shape(task[s]) /\ task[s].todo \in {"zone", "log"}
  BY DEF IInv, TypeOK, Shapes, At
<1>2. task[s].op = "login" BY <1>1 DEF Shape, Task
<1>3. OneProcess => user[task[s].user].status = "active" \/ task[s].awaited
  <2>1. CASE task[s].todo = "log" BY <1>1, <2>1 DEF Shape
  <2>2. CASE task[s].todo = "zone"
    <3>1. Running(s) BY <2>2 DEF Running, Waiting, At
    <3> QED BY <1>2, <3>1 DEF IInv, Serial, Current
  <2> QED BY <1>1, <2>1, <2>2
<1>4. /\ t \in Task /\ t.todo = "commit" /\ t.until = now + Duration
      /\ t.op = task[s].op /\ t.user = task[s].user /\ t.awaited = task[s].awaited
  BY <1>1, ToDisableFacts DEF Cause
<1>5. Shape(t) BY <1>4, <1>2 DEF Shape
<1>6. OneProcess => Current(t) BY <1>4, <1>3 DEF Current, IInv, Ends
<1>7. t.until <= now + Duration /\ served' \in 0 .. MaxRequests
  BY <1>4, TimeFacts DEF IInv, TypeOK
<1>8. task' = [task EXCEPT ![s] = t] /\ MayRun(s) OBVIOUS
<1> HIDE DEF t
<1> QED BY <1>4, <1>5, <1>6, <1>7, <1>8, TaskStep

-----------------------------------------------------------------------------
LEMMA TempDisableAccountStep ==
    ASSUME IInv, NEW s \in Slot, TempDisableAccount(s)
    PROVE  IInv'
<1> USE DEF TempDisableAccount
<1> DEFINE t == task[s]
           row == [until |-> t.until, cause |-> t.cause]
<1>1. t \in Task /\ t.until <= now + Duration BY Committer
<1>2. t.user \in User /\ t.until \in Time /\ t.cause \in Cause BY <1>1 DEF Task
<1>3. Disabled(t.old, t.until) \in UserRow BY <1>2 DEF Disabled, UserRow, Status
<1>4. user' \in [User -> UserRow] BY <1>2, <1>3 DEF IInv, TypeOK
<1>5. book' \in [User -> Seq([until : Time, cause : Cause])]
  <2>1. row \in [until : Time, cause : Cause] BY <1>2
  <2>2. book[t.user] \in Seq([until : Time, cause : Cause]) BY <1>2 DEF IInv, TypeOK
  <2>3. Append(book[t.user], row) \in Seq([until : Time, cause : Cause]) BY <2>1, <2>2
  <2> QED BY <2>3 DEF IInv, TypeOK
<1>6. attempts' \in [User -> Nat] BY <1>2 DEF IInv, TypeOK
<1>7. task' \in [Slot -> Task \cup {None}] BY DEF Done, IInv, TypeOK
<1>8. TypeOK' BY <1>4, <1>5, <1>6, <1>7 DEF IInv, TypeOK
<1>9. Ends'
  <2>1. \A u \in User : user'[u] = IF u = t.user THEN Disabled(t.old, t.until) ELSE user[u]
    BY DEF IInv, TypeOK
  <2> QED BY <1>1, <2>1 DEF Disabled, IInv, Ends
<1> QED BY <1>8, <1>9, Committer, DoneStep

LEMMA CompareStatusStep ==
    ASSUME IInv, NEW s \in Slot, CompareStatus(s)
    PROVE  IInv'
<1> USE DEF CompareStatus, Goes
<1> DEFINE t == [task[s] EXCEPT !.todo = "commit"]
<1>1. task[s] \in Task /\ Shape(task[s]) /\ task[s].todo = "start"
  BY DEF IInv, TypeOK, Shapes, At
<1>2. task[s].op = "status" BY <1>1 DEF Shape, Task
<1>3. t \in Task /\ t.op = "status" /\ t.todo = "commit" /\ t.until = task[s].until
  BY <1>1, <1>2 DEF Task
<1>4. Shape(t) BY <1>3 DEF Shape
<1>5. task[s].until <= now + Duration BY DEF IInv, TaskEnds, At
<1>6. served' \in 0 .. MaxRequests BY DEF IInv, TypeOK
<1>7. t.until <= now + Duration BY <1>3, <1>5
<1>8. task' = [task EXCEPT ![s] = t] /\ MayRun(s) OBVIOUS
<1> HIDE DEF t
<1> QED BY <1>3, <1>4, <1>6, <1>7, <1>8, TaskStep

LEMMA CommitStatusStep ==
    ASSUME IInv, NEW s \in Slot, CommitStatus(s)
    PROVE  /\ IInv'
           /\ \A u \in User : user'[u].until = user[u].until
<1> USE DEF CommitStatus
<1> DEFINE t == task[s]
           new == [t.old EXCEPT !.status = t.status]
<1>1. t \in Task BY Committer
<1>2. t.user \in User /\ t.old \in UserRow /\ t.status \in Status BY <1>1 DEF Task
<1>3. new \in UserRow /\ new.until = t.old.until BY <1>2 DEF UserRow
<1>4. \A row \in UserRow :
        Written(row, t.old, new) \in UserRow /\ Written(row, t.old, new).until = row.until
  <2> SUFFICES ASSUME NEW row \in UserRow
               PROVE  /\ Written(row, t.old, new) \in UserRow
                      /\ Written(row, t.old, new).until = row.until
    OBVIOUS
  <2>1. DOMAIN row = {"status", "until"} /\ row.status \in Status /\ row.until \in Time \cup {None}
    BY DEF UserRow
  <2>2. new.status \in Status BY <1>3 DEF UserRow
  <2> HIDE DEF new
  <2>3. /\ Written(row, t.old, new).status \in Status
        /\ Written(row, t.old, new).until = row.until
        /\ Written(row, t.old, new)
             = [c \in {"status", "until"} |-> IF new[c] # t.old[c] THEN new[c] ELSE row[c]]
    BY <1>3, <2>1, <2>2 DEF Written
  <2> QED BY <2>1, <2>3 DEF UserRow
<1>5. user' = [user EXCEPT ![t.user] = Written(user[t.user], t.old, new)] OBVIOUS
<1> HIDE DEF new
<1>6. user[t.user] \in UserRow BY <1>2 DEF IInv, TypeOK
<1>7. /\ Written(user[t.user], t.old, new) \in UserRow
      /\ Written(user[t.user], t.old, new).until = user[t.user].until
  BY <1>4, <1>6
<1>8. user' \in [User -> UserRow] /\ \A u \in User : user'[u].until = user[u].until
  BY <1>2, <1>5, <1>7 DEF IInv, TypeOK
<1>9. TypeOK' BY <1>8 DEF IInv, TypeOK, Done
<1>10. Ends' BY <1>8 DEF IInv, Ends
<1> QED BY <1>8, <1>9, <1>10, Committer, DoneStep

LEMMA ForgetDeviceStep ==
    ASSUME IInv, NEW s \in Slot, NEW u \in User, ForgetDevice(s, u)
    PROVE  IInv'
<1> USE DEF ForgetDevice
<1>1. TypeOK' BY DEF IInv, TypeOK
<1>2. Done(s) BY DEF Done, Idle, IInv, TypeOK
<1>3. Ends' BY DEF IInv, Ends
<1> QED BY <1>1, <1>2, <1>3, DoneStep

LEMMA AbandonStep ==
    ASSUME IInv, NEW s \in Slot, Abandon(s)
    PROVE  IInv'
<1> USE DEF Abandon, tables
<1>1. TypeOK' BY DEF IInv, TypeOK, Done
<1>2. Ends' BY DEF IInv, Ends
<1> QED BY <1>1, <1>2, DoneStep

(* The clock only moves the ends further from those that are to come.      *)
LEMMA TickStep ==
    ASSUME IInv, Tick
    PROVE  IInv'
<1> USE DEF Tick, tables
<1>1. now \in Nat /\ now < MaxTime /\ now' = now + 1 /\ now' \in 0 .. MaxTime
  BY TimeFacts DEF IInv, TypeOK
<1>2. \A u \in User : user[u].until \in Time \cup {None}
  BY DEF IInv, TypeOK, UserRow
<1>3. \A s \in Slot : task[s] # None => task[s].until \in Time
  BY DEF IInv, TypeOK, Task
<1>4. TypeOK' BY <1>1 DEF IInv, TypeOK
<1>5. \A n \in Time : n <= now + Duration => n <= now' + Duration
  BY <1>1, TimeFacts
<1>6. Ends' BY <1>2, <1>5 DEF IInv, Ends
<1>7. TaskEnds' BY <1>3, <1>5 DEF IInv, TaskEnds
<1>8. Shapes' BY DEF IInv, Shapes, Shape
<1>9. Serial' BY DEF IInv, Serial, OneProcess, OneRuns, Running, Current
<1> QED BY <1>4, <1>6, <1>7, <1>8, <1>9 DEF IInv

LEMMA NextInv == IInv /\ [Next]_vars => IInv'
<1> SUFFICES ASSUME IInv, [Next]_vars PROVE IInv' OBVIOUS
<1>1. CASE UNCHANGED vars
  <2>1. TypeOK' BY <1>1 DEF vars, tables, IInv, TypeOK
  <2>2. Shapes' /\ Ends' /\ TaskEnds'
    BY <1>1 DEF vars, tables, IInv, Shapes, Shape, Ends, TaskEnds
  <2>3. Serial'
    BY <1>1 DEF vars, tables, IInv, Serial, OneProcess, OneRuns, Running, Current
  <2> QED BY <2>1, <2>2, <2>3 DEF IInv
<1>2. CASE Next
  BY <1>2, LoginStep, ChangeStatusStep, ChangeOwnStatusStep, ForgetDeviceStep, CheckIpStep,
     CheckZoneStep, TempDisableAccountStep, CompareStatusStep, CommitStatusStep, AbandonStep,
     TickStep DEF Next
<1> QED BY <1>1, <1>2

LEMMA Invariance == Spec => []IInv
BY InitInv, NextInv, PTL DEF Spec

(* Type correctness.                                                       *)
THEOREM LoginTypeOK == Spec => []TypeOK
<1>1. IInv => TypeOK BY DEF IInv
<1> QED BY <1>1, Invariance, PTL

-----------------------------------------------------------------------------
LogRow == [until : Time, cause : Cause]
ForAddress(rows) == {i \in DOMAIN rows : rows[i].cause = "address"}

LEMMA OneMoreRow ==
    ASSUME NEW rows \in Seq(LogRow), NEW row \in LogRow
    PROVE  LET more == Append(rows, row) IN
           /\ more # <<>> /\ Last(more) = row
           /\ Cardinality(ForAddress(more)) =
                IF row.cause = "address" THEN Cardinality(ForAddress(rows)) + 1
                ELSE Cardinality(ForAddress(rows))
<1> DEFINE n == Len(rows)
           more == Append(rows, row)
<1>1. n \in Nat /\ DOMAIN rows = 1 .. n BY LenProperties
<1>2. /\ more \in Seq(LogRow) /\ Len(more) = n + 1 /\ more[n + 1] = row
      /\ \A i \in 1 .. n : more[i] = rows[i]
  BY AppendProperties
<1>3. DOMAIN more = 1 .. n + 1 BY <1>2, LenProperties
<1>4. more # <<>> /\ Last(more) = row BY <1>1, <1>2 DEF Last
<1>5. IsFiniteSet(ForAddress(rows)) /\ n + 1 \notin ForAddress(rows)
  <2>1. IsFiniteSet(1 .. n) BY <1>1, FS_Interval
  <2>2. ForAddress(rows) \in SUBSET (1 .. n) BY <1>1 DEF ForAddress
  <2>3. n + 1 \notin 1 .. n BY <1>1
  <2> QED BY <2>1, <2>2, <2>3, FS_Subset
<1>6. \A i \in DOMAIN more : i \in DOMAIN rows \/ i = n + 1 BY <1>1, <1>3
<1>7. n + 1 \in DOMAIN more /\ DOMAIN rows \subseteq DOMAIN more BY <1>1, <1>3
<1> HIDE DEF more, n
<1>8. CASE row.cause = "address"
  <2>1. ForAddress(more) = ForAddress(rows) \cup {n + 1}
    BY <1>1, <1>2, <1>6, <1>7, <1>8 DEF ForAddress
  <2> QED BY <1>4, <1>5, <1>8, <2>1, FS_AddElement DEF more
<1>9. CASE row.cause # "address"
  <2>1. ForAddress(more) = ForAddress(rows)
    BY <1>1, <1>2, <1>6, <1>7, <1>9 DEF ForAddress
  <2> QED BY <1>4, <1>9, <2>1 DEF more
<1> QED BY <1>8, <1>9

LEMMA InitBook == Init => BookAgrees
<1> SUFFICES ASSUME Init, NEW u \in User
             PROVE  /\ user[u].until = IF book[u] = <<>> THEN None ELSE Last(book[u]).until
                    /\ attempts[u] = Cardinality(ForAddress(book[u]))
  BY DEF BookAgrees, ForAddress
<1>1. user[u].until = None /\ book[u] = <<>> /\ attempts[u] = 0 BY DEF Init
<1>2. ForAddress(book[u]) = {} BY <1>1 DEF ForAddress
<1> QED BY <1>1, <1>2, FS_EmptySet

LEMMA NextBook == IInv /\ BookAgrees /\ [Next]_vars => BookAgrees'
<1> SUFFICES ASSUME IInv, BookAgrees, [Next]_vars PROVE BookAgrees' OBVIOUS
<1>1. CASE UNCHANGED <<user, book, attempts>> BY <1>1 DEF BookAgrees
<1>2. ASSUME NEW s \in Slot, CommitStatus(s) PROVE BookAgrees'
  <2>1. UNCHANGED <<book, attempts>> BY <1>2 DEF CommitStatus
  <2> QED BY <1>2, <2>1, CommitStatusStep DEF BookAgrees
<1>3. ASSUME NEW s \in Slot, TempDisableAccount(s) PROVE BookAgrees'
  <2> DEFINE t == task[s]
             row == [until |-> t.until, cause |-> t.cause]
  <2>1. t \in Task BY <1>3, Committer DEF TempDisableAccount
  <2>2. t.user \in User /\ row \in LogRow BY <2>1 DEF Task, LogRow
  <2>3. /\ user' = [user EXCEPT ![t.user] = Disabled(t.old, t.until)]
        /\ book' = [book EXCEPT ![t.user] = Append(book[t.user], row)]
        /\ attempts' = [attempts EXCEPT ![t.user] =
                          IF t.cause = "address" THEN attempts[t.user] + 1
                          ELSE attempts[t.user]]
    BY <1>3 DEF TempDisableAccount
  <2>4. row.until = t.until /\ row.cause = t.cause OBVIOUS
  <2> HIDE DEF row
  <2> SUFFICES ASSUME NEW u \in User
               PROVE  /\ user'[u].until = IF book'[u] = <<>> THEN None ELSE Last(book'[u]).until
                      /\ attempts'[u] = Cardinality(ForAddress(book'[u]))
    BY DEF BookAgrees, ForAddress
  <2>5. /\ book[u] \in Seq(LogRow)
        /\ user[u].until = IF book[u] = <<>> THEN None ELSE Last(book[u]).until
        /\ attempts[u] = Cardinality(ForAddress(book[u]))
    BY DEF IInv, TypeOK, BookAgrees, ForAddress, LogRow
  <2>6. CASE u = t.user
    <3>1. /\ user'[u].until = row.until /\ book'[u] = Append(book[u], row)
          /\ attempts'[u] = IF row.cause = "address" THEN attempts[u] + 1 ELSE attempts[u]
      BY <2>2, <2>3, <2>4, <2>6 DEF Disabled, IInv, TypeOK
    <3> QED BY <2>2, <2>5, <3>1, OneMoreRow
  <2>7. CASE u # t.user
    <3>1. user'[u] = user[u] /\ book'[u] = book[u] /\ attempts'[u] = attempts[u]
      BY <2>3, <2>7 DEF IInv, TypeOK
    <3> QED BY <2>5, <3>1
  <2> QED BY <2>6, <2>7
<1>4. CASE ~ UNCHANGED <<user, book, attempts>>
  <2>1. Next BY <1>4 DEF vars, tables
  <2>2. \E s \in Slot : TempDisableAccount(s) \/ CommitStatus(s)
    BY <1>4, <2>1 DEF Next, Login, ChangeStatus, ChangeOwnStatus, Begin, ForgetDevice, CheckIp,
       CheckZone, CompareStatus, Abandon, Tick, tables
  <2> QED BY <1>2, <1>3, <2>2
<1> QED BY <1>1, <1>4

(* With any number of processes temp_disabled_until is the end in the      *)
(* newest row of temp_disable_logs, and every block for its address has    *)
(* left an attempt, whatever an administrator has done to the status.      *)
THEOREM LoginBookAgrees == Spec => []BookAgrees
BY InitBook, NextBook, Invariance, PTL DEF Spec

-----------------------------------------------------------------------------
LEMMA PenaltyGrowsStep ==
    IInv /\ [Next]_vars =>
      [OneProcess => \A u \in User :
         user[u].until # None => user'[u].until >= user[u].until]_user
<1> SUFFICES ASSUME IInv, Next, user' # user, OneProcess, NEW u \in User, user[u].until # None
             PROVE  user'[u].until >= user[u].until
  BY DEF vars, tables
<1>1. user[u].until \in Time BY DEF IInv, TypeOK, UserRow
<1>2. PICK s \in Slot : TempDisableAccount(s) \/ CommitStatus(s)
  BY DEF Next, Login, ChangeStatus, ChangeOwnStatus, Begin, ForgetDevice, CheckIp, CheckZone,
         CompareStatus, Abandon, Tick, tables
<1>3. CASE CommitStatus(s) BY <1>1, <1>3, CommitStatusStep, TimeFacts
<1>4. CASE TempDisableAccount(s)
  <2> DEFINE t == task[s]
  <2>1. At(s, "commit") /\ t.op = "login" BY <1>4 DEF TempDisableAccount
  <2>2. t \in Task /\ Current(t) BY <2>1, Committer
  <2>3. t.todo = "commit" /\ t.until \in Time BY <2>1, <2>2 DEF At, Task
  <2>4. user'[u] = IF u = t.user THEN Disabled(t.old, t.until) ELSE user[u]
    BY <1>4 DEF TempDisableAccount, IInv, TypeOK
  <2>5. user[u].until <= t.until BY <2>2, <2>3 DEF Current
  <2>6. user'[u].until \in {t.until, user[u].until} BY <2>4 DEF Disabled
  <2> QED BY <1>1, <2>3, <2>5, <2>6, TimeFacts
<1> QED BY <1>2, <1>3, <1>4

(* In one process no login brings the end of a disable forward.            *)
THEOREM LoginPenaltyGrows == Spec => SerialPenaltyGrows
BY Invariance, PenaltyGrowsStep, PTL DEF Spec, SerialPenaltyGrows

LEMMA KnownDeviceStep ==
    IInv /\ [Next]_vars =>
      [OneProcess => \A s \in Slot :
         TempDisableAccount(s) =>
             user[task[s].user].status = "active" \/ task[s].awaited]_vars
<1> SUFFICES ASSUME IInv, OneProcess, NEW s \in Slot, TempDisableAccount(s)
             PROVE  user[task[s].user].status = "active" \/ task[s].awaited
  OBVIOUS
<1>1. At(s, "commit") /\ task[s].op = "login" BY DEF TempDisableAccount
<1> QED BY <1>1, Committer DEF Current

(* In one process a login overrides what an administrator has set since it *)
(* loaded the account only if it has awaited the log.                      *)
THEOREM LoginKnownDevice == Spec => SerialKnownDevice
BY Invariance, KnownDeviceStep, PTL DEF Spec, SerialKnownDevice

=============================================================================
