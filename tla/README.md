# K-ALMIS: a TLA+ verification project

K-ALMIS is the asset and liability register of a government: a FastAPI
application (`src/main.py`, `src/routers/`) over one PostgreSQL database
(`src/models.py`, `src/database.py`). This directory specifies its stateful
parts in TLA+, checks them with TLC on small instances and proves theorems about
them with TLAPS.

- [How the program runs](#how-the-program-runs)
- [Inventory](#inventory)
- [Modules](#modules)
- [Runs](#runs)
- [Disagreements with the documentation](#disagreements-with-the-documentation)
- [Theorems](#theorems)
- [Not modelled](#not-modelled)
- [Plan](#plan)

## How the program runs

Four facts about the execution decide where things can go wrong; every module
rests on them.

1. **Several processes.** The manual starts `uvicorn --workers 4` (README.md:456)
   or `gunicorn -w 4` (780, 788). Each process has its own event loop, its own
   activity log buffer and its own database sessions; they share the database
   and nothing else.
2. **Coroutines without awaits.** Handlers are `async def` and use the
   *synchronous* SQLAlchemy session. The only thing they await is
   `enqueue_log`. So between two calls of `enqueue_log` a handler is atomic with
   respect to the other coroutines of its process, and handlers of different
   processes interleave at every query and commit.
3. **Threads.** Plain functions run in the thread pool next to the event loop:
   `POST /login`, `register`, and the dependencies `get_db` and
   `get_current_user`. The log queue writes its batches in the default executor.
   So the caller's row is loaded before the handler has its turn, and the
   session's identity map hands out that old object whenever the handler asks for
   the same user again.
4. **Optimistic writes without a check.** The session is created with
   `autoflush=False` (database.py:19). At commit it compares every column with
   the value it loaded and updates the columns that differ. No table has a
   version column and no query says `FOR UPDATE`, so nothing notices that a row
   changed after it was loaded. `UnitOfWork!Written` is this rule.

## Inventory

| component | source | state | operations | talks to |
|---|---|---|---|---|
| activity log | `services/logger_queue.py` | buffer, lock, last flush time, background task; table `activity_logs` | `enqueue_log`, flush by size, by age, at shutdown | awaited by nearly every handler; executor thread; startup and shutdown hooks of `main.py` |
| database session | `database.py` | loaded rows of one request | load, assign, commit, rollback | every handler |
| disposal | `routers/a_disposal.py` | `asset_disposals`, status, date and value of `assets` | initiate, schedule, approve, execute, undo | register status |
| lifecycle status | `routers/a_lifecycle.py` | `assets.status` | activate, deactivate, mark-disposal | disposal |
| assignment | `routers/a_assignment.py` | `assets.department_id`, `responsible_officer_id`, `asset_lifecycle_events` | assign, unassign, reassign | users |
| sessions, passwords | `routers/auth.py`, `utilities.py` | `usertokens`, `password_reset_tokens`, `users.password_hash` | login, refresh, logout, change and reset password | everything that depends on `get_current_user` |
| secure login | `routers/auth22.py`, `sec_utils.py` | `login_attempts`, `mfa_codes`, `temp_disable_logs`, devices, white list; status and end of the disable in `users` | login, verify, unlock, devices | user administration, an external address check |
| user administration | `routers/users.py` | `users` (status, department, permissions) | create, patch, status, delete, grant | assignment, roles |
| roles | `routers/roles.py` | `roles.permissions` (one JSON list) | create, add, remove, update, delete | access control |
| access control | `services/policy_eval.py` | none; reads users, roles, `abac_policies` | permission, scope, policy evaluation | unassign and reassign, `roles.py` |
| departments | `routers/departments.py` | `departments` with parent | create, patch, status, hierarchy | users, assets, reports |
| transfers | `routers/a_transfer.py` | `asset_transfers` | initiate, complete, approve, reject, cancel | register |
| maintenance | `routers/a_maintainance.py` | `maintenance_requests` | initiate, schedule, approve, start, complete | register, reports |
| asset register | `routers/a_crude.py`, `asset_utils.py` | `assets` | create, update, status, delete; tag numbers, depreciation | lifecycle events |
| reports | `routers/reports/` | none; several queries each | dashboard, comparison, hierarchy, depreciation, backlog, executive summary, ... | every table |
| location, e-mail, tracking | `routers/location.py`, `services/emailsender.py`, ... | none | read and render | |

### What is hard, and what makes each component correct

- **Activity log.** Requests pile up behind one lock that is held across an
  await; three kinds of flush compete; a flush can be refused by the table, meet
  a dead database, be cancelled by the shutdown or be cut by a crash. *Correct
  means*: an accepted entry is written once or lost for a nameable reason,
  entries arrive in order, batches are bounded, no request hangs, an orderly
  shutdown leaves nothing behind.
- **Disposal and lifecycle status.** A workflow spread over requests, with two
  tables to keep in step and no lock. *Correct means*: no step is skipped,
  nothing is disposed of unapproved, and the register shows what the file says.
- **Assignment.** Two commits per request, a check before a later write, and a
  second table (users) that moves underneath. *Correct means*: the history has
  one event per change and its last event is the truth; the officer fits the
  department; an assignment is not silently replaced.
- **Sessions.** Revocation is by user, tokens are issued in several
  transactions, one handler runs in a thread. *Correct means*: a token or ticket
  works once, and a reset ends the sessions it should end.
- **Secure login.** A login writes over the row it loaded before a remote call
  and, for a new device, an await. *Correct means*: account and log agree on the
  end of a disable, a disable is not shortened, an administrator's decision is not
  silently replaced.
- **Roles and permissions.** Lists stored as one JSON value, read, changed and
  written back; a role deleted after an await. *Correct means*: no change of a
  permission is lost, no user refers to a role that is gone.
- **Access control.** Caller, asset, role and policies are loaded at different
  moments; empty lists and `*` have meanings of their own. *Correct means*: what is
  carried out was permitted, a matching DENY wins, a narrower scope allows less.
- **Departments.** A tree kept by unchecked assignments. *Correct means*: the
  hierarchy shows what is below a department, and the recursion ends.
- **Reports.** Up to two queries per department in one answer, and a dozen
  reports that count the same assets in their own ways. *Correct means*: an answer is
  of one moment, or at least right about what did not change; figures agree.
- **Transfers, maintenance.** Workflows without guards on their stages.

`PROJECT.json` lists the hazards line by line, each with the properties that
watch it, and a note where none does or where they stop short of it: most of those are
hazards of several processes that the code does nothing about, so that a property could
only say that they happen.

## Modules

A definition whose comment starts with `Bug:` is a faulty variant of the one
below it (a dropped guard, a missing reset). No definition uses it; it is there
to show that the properties notice the bug: substituted for the real definition,
it makes TLC report the property named in `PROJECT.json` under `mutants`.

| module | models | extends |
|---|---|---|
| `AuditTrail` | what the activity log promises, without lock, timer or thread | |
| `LogQueue` | `services/logger_queue.py` in one process; implements `AuditTrail` | instance of `AuditTrail` |
| `UnitOfWork` | the commit of a SQLAlchemy session | |
| `AssetDisposal` | `a_disposal.py` with `a_lifecycle.py` | `UnitOfWork` |
| `AssetAssignment` | `a_assignment.py` with the user changes of `users.py` | `UnitOfWork` |
| `Sessions` | `auth.py` with the token functions of `utilities.py` | |
| `EventLoop` | which handlers run between two queries of another | |
| `RoleRegistry` | what the role and permission routes promise, each in one step | |
| `Roles` | `roles.py` and the role and permission routes of `users.py` | `EventLoop`, instance of `RoleRegistry` |
| `SecureLogin` | the part of `auth22.py` and `sec_utils.py` that runs, against the status changes of `users.py` | `EventLoop`, `UnitOfWork` |
| `AccessControl` | `policy_eval.py` with the requests of `a_assignment.py` it guards | `EventLoop` |
| `Register` | the tables the reports read and the handlers that write them: `departments.py`, `a_transfer.py`, what runs of `a_maintainance.py`, the commits of assignment, lifecycle and disposal | `EventLoop` |
| `Reports` | the figures of `routers/reports/`, as operators on the tables | `Register` |
| `Reporting` | the reports of several queries, composed with the writers of `Register` | `Reports` |
| `LogQueue_proofs`, `AssetDisposal_proofs`, `AssetAssignment_proofs`, `Sessions_proofs`, `Roles_proofs`, `SecureLogin_proofs`, `AccessControl_proofs`, `Reporting_proofs` | theorems | their module |
| `MCAssetDisposal`, `MCAssetAssignment`, `MCSessions`, `MCRoles`, `MCSecureLogin`, `MCAccessControl`, `MCReporting` | symmetry for TLC | their module |

### LogQueue

| variable | in the code |
|---|---|
| `queue`, `holder` | waiters and owner of `self.lock` |
| `buffer` | `self.buffer` |
| `jobs` | calls of `_flush_to_db_sync` the executor has not finished |
| `age`, `seen` | `time.time() - self.last_flush`, now and when the background task read the clock |
| `call`, `timer` | where a handler and the background task stand |
| `phase`, `dbUp`, `trail`, `lost` | the process, the database, the table, and what will never be in it |

`asyncio.Lock` is first come first served and a released lock goes to the head of
the line (`Grant`). One action runs a coroutine up to its next suspension: `EnqueueLog`
and `Grant` include the flush's hand-over to the executor when the entry fills the
buffer. The transaction runs in a thread (`JobStarts`, `JobEnds`): it commits, is
refused (`Poison`: an entry that breaks the foreign key, which `roles.py:100`
produces with `user_id="no_user"`), or meets a dead database, where `rollback()`
raises into whoever awaits. `Shutdown` is the cancellation in the shutdown
hook: asyncio withdraws a call no thread has picked up and leaves a running one
without an owner, while the cancelled task runs its final flush; a task cancelled
in the sleep after an error (line 107) ends without one. `Crash` may come at any
time and leaves open whether a running COMMIT got through.

`AuditTrail` is the promise: entries wait in one line, the head of the line moves
to the table batch by batch and in order, a batch is dropped as a whole, the end
of the process drops the rest. The refinement maps `pending` to what is in flight
followed by the buffer, and `dropped` to `lost`.

### AssetDisposal

`task[w]` is the request process `w` is in the middle of: the rows as loaded
(`old`) and as changed (`new`). The first query with its guard is the action
named after the handler, `LoadAsset` is the second query of execute and undo,
`Commit` writes both rows in one transaction, `Abandon` is any failure before. A
lookup by status has no ORDER BY, so any matching row may come first (`InStatus`).
`pool`, the processes deployed, is chosen at the start: every run covers the
deployment with one process and those with several, and properties that only hold
in one process say `OneProcess`.

### AssetAssignment

As above, with a second transaction for the lifecycle event (`CommitEvent`): a
process may die between the two (`died`), and the ghost `changes` remembers the
order in which changes were committed. `caller` is the row `get_current_user`
loaded in a thread before the handler started; the identity map of the session
returns that object when the handler queries the same user, so a self-assignment
is judged by old columns (`self`).

### Sessions

Rows of the two token tables are kept for ever and carry a state (`valid`,
`spent`, `deleted`). `parent` records which refresh token a token was exchanged
for, `auth` which password the chain began with, `uses` how often a ticket has
replaced a password. The quirks are the code's: `/login` puts `user_id` instead of
`id` into the refresh token, so its row has no user and a refresh with it revokes
the rows without a user; every request is a chain of committed steps, each of them
a possible place to fail; two password-reset requests do not see each other's rows;
a ticket deleted between check and use makes the commit fail.

### EventLoop

The newer modules share one account of concurrency. A request sits in a slot;
`place` says which process a slot belongs to and is chosen at the start, so every
run covers one process and several. `task[s]` is the request, and its field `todo`
says where it stands. At `"start"` (the dependencies run in a thread) and `"log"`
(`enqueue_log` is awaited) the handler does not have the event loop; everywhere
else it has, and `MayRun` keeps the other handlers of its process out. Handlers of
other processes are never kept out. Adding a `todo` value to `Waiting` is how the
mutants ask what an additional `await` would break.

### Roles

`Task` keeps what the code keeps in Python variables: `me`, the caller's row as
`get_current_user` found it; `old`, the list of the role as the session has it, also
if the permission check loaded it earlier because it is the caller's own role; `row`,
the user to be changed; `found`, the holders of the role. The step `FindHolders`
is what SQLAlchemy does at the flush of `db.delete`: it selects the users with the
role *then*, not before the await, and clears their `role_id`. Foreign keys are
guards of the commits (`Matches`, `Unreferenced`, `CommitAssign`): where PostgreSQL would
refuse, the request fails (`Abandon`, which is always possible). A list that was
reordered only may or may not be sent, hence the disjunctions in the commits.

### SecureLogin

A login that passes the status check keeps the row it loaded in `old`. The remote
check (`CheckIp`) stops its event loop; with a new device the handler is then in
`"log"`. `TempDisableAccount` writes status and end over whatever the row is by now,
and appends to `book` (`temp_disable_logs`) in the same transaction; the status
changes of administrators go through `Written`. The paths that assign to
`login_attempts` raise (see [Not modelled](#not-modelled)) and are `Abandon`; that the
time of a disable never ends by itself is a consequence, not an omission.

### AccessControl

`CheckRolePermission`, `CheckAccessScope` and `EvaluatePolicies` are the three layers.
A guarded request is a chain of queries: `Ask` (caller, in a thread), `LoadAsset`,
`CheckRole` (the role is loaded lazily, here), `CheckPolicies`, `Commit`. Each layer is
evaluated on the row its query found. `granted` is history: it is set whenever the
caller's role, the one the request knows, grants the action while the request runs.

### Register, Reports, Reporting

The writers of `Register` are departments, transfers, the approval of maintenance, the
commits of assign, reassign and unassign, the three changes of a lifecycle status and
the five of a disposal. They set columns to values that do not depend on the row, so
each takes effect in one step, when it commits; with several processes the row may have
changed since it was loaded, and the guards (`Found`, `OneProcess => ...`) say what is
left of the handler's check by then. `Reports` holds one operator per report, with the
filters it accepts; amounts are integers, of cents, and a percentage is a comparison of
products. `Reporting` runs the reports whose queries speak of the same rows: `queue` is the list
of queries to come, `got` the answers so far, `held` the assets still referenced, which
the identity map returns with the columns they were loaded with. The order in which a
query returns its rows is free (`FollowUps`). The hierarchy recurs for ever when a
department is below itself; `Fails` is the RecursionError, and what is below a department
is the least set closed under the collections read (`Reachable`). `touched` is history: what has
changed since the report began.

## Runs

| run | module | states | what it shows |
|---|---|---|---|
| `log_queue` | `LogQueue` | 62,348 | all of `LogQueue`'s properties, and that it implements `AuditTrail` |
| `log_audit` | `LogQueue` | violation | one refused entry takes a well-formed one with it |
| `disposal` | `AssetDisposal` | 687,448 | approval is never bypassed; with one process register and file agree |
| `disposal_register` | `AssetDisposal` | violation | with two processes they need not |
| `assignment` | `AssetAssignment` | 2,407,364 | one event per change; with one process history and officer are right |
| `assignment_conflict` | `AssetAssignment` | violation | the 409 check does not hold across processes |
| `sessions` | `Sessions` | 758,293 | exchanged tokens and used tickets stay dead; with one process each is used once |
| `roles` | `Roles` | 1,244,631 | nobody keeps a deleted role; with one process each request is a step of `RoleRegistry` |
| `secure_login` | `SecureLogin` | 234,983 | account and log agree; with one process no disable is shortened |
| `access` | `AccessControl` | 393,054 | nothing is done without the permission; what scopes and lists mean |
| `policy_deny` | `AccessControl` | violation | a policy with the effect deny denies nothing |
| `reporting` | `Reporting` | 1,180,176 | with one process a report is of one moment; with several it is right about what was at rest; reports agree |

### Properties

- `LogQueue`: **EachEntryOnce** (each accepted entry is in exactly one place),
  **BatchBound**, **SingleFlight** (the lock covers the await, also around a
  shutdown), **DrainedByShutdown**, **LossHasCause** (entries are lost only with a
  refused batch, a dead database or the process, and never from the buffer of a
  living process), **ImplementsAuditTrail** (order, whole batches, and eventually),
  **CallReturns** (nobody hangs in `enqueue_log`).
- `AssetDisposal`: **NoUnauthorisedDisposal**, **DisposedWasApproved** (both for
  any number of processes), **SerialRegister**, **SerialWorkflow** (one process).
- `AssetAssignment`: **OneEventPerChange** (any number of processes),
  **SerialHistory**, **SerialOfficerFits** (one process).
- `Sessions`: **ExchangedIsSpent**, **UsedTicketIsSpent** (any number of processes),
  **SerialSingleUse**, **SerialTickets**, **SerialResetEnds** (one event loop).
- `Roles`: **RoleReferences**, **NoResurrection** (any number of processes),
  **SerialAtomic** (one process: every commit is the atomic step of `RoleRegistry` for
  what was asked; not so for a request on oneself, whose row is older than the
  handler).
- `SecureLogin`: **BookAgrees** (any number of processes), **SerialPenaltyGrows**,
  **SerialKnownDevice** (one process: a login overrides an administrator only after
  having awaited the log).
- `AccessControl`: **ActsAreAuthorised** (any number of processes for "granted at some
  time since the request", one process for "granted and in scope at the commit"),
  **PermissionsShown** (what `GET /me/permissions` lists against what is granted),
  **ScopeNarrows** (a shorter list allows less, but an empty one everything).
- `Reporting`: **SerialReport** (one process), **ComparisonAtRest** (an asset at rest is
  counted once, under its department, whatever happens to others),
  **HierarchyAtRest** (departments at rest are all shown, and a cycle among them has no
  answer), **ReportsAgree** (the figures of different reports against each other, on the same tables).

What the "one process" properties say to an operator is as useful as what they
say to a programmer: the multi-process deployment of the manual is where these
guarantees end. `SerialSingleUse` and `SerialTickets` allow any number of login
threads next to the loop; `SerialResetEnds` does not, because a login thread that
verified the old password can insert its tokens after the reset deleted the others.

### Bounds, and why they are enough

- `LogQueue`: four entries with `BatchSize = 2` make two full batches or one full
  batch with two callers in line behind it; `MaxWait = 2` separates "not yet due" from "due" and
  lets `age` and `seen` differ; one refused entry can share a batch with a good
  one or stand alone. Crashes, restarts and database outages are not bounded.
- `AssetDisposal`: one asset with two disposals, because they are told apart by
  asset and status only; two processes, since a lost update needs two; two dates,
  so that the register can show the wrong one. Handlers for different assets share
  no row. The number of requests is not bounded.
- `AssetAssignment`: `MaxRequests = 3`, so that the assignment one request sees
  can be replaced by another and replaced again; one user who moves between two
  departments (with two users and two requests, 3.66 million states,
  the result is the same). Changes of users are not bounded.
- `Sessions`: `MaxRequests = 4` (a login, an exchange, and two requests that race with
  what they made), two loops and one login thread, one user (with two users, 5.2
  million states, the result is the same). Expiry is not bounded.
- `Roles`: two slots, in one process or two, hold a request and one that comes
  between two of its steps; `MaxRequests = 3` lets another follow the first; two
  roles separate the caller's role from the one to change; the three permissions are
  the two that the routes ask for and `*.*`.
- `SecureLogin`: `Duration = 2` and `MaxTime = 2` let two disables end at different
  times and one end before the other begins; `MaxRequests = 4` is two logins and two
  administrators.
- `AccessControl`: the initial states are of three kinds. Users with any permissions
  (`AnyPermissions`) and users with any scope (`AnyScope`) are looked at as they
  stand, for the properties of the checks themselves; `AnyRequest` starts from a few
  callers and allows three requests or changes of others, which is a request and
  two changes between its steps. Two departments, two roles, one asset.
- `Reporting`: one report and at most two writes while it runs: with two an asset can
  leave a department and come back, or two departments move under each other. What
  was written before is in the initial tables: any forest, or graph, of three
  departments (`AnyTree`), any holding of two assets (`AnyHolding`); tables with any
  columns (`AnyColumns`, `AnyRequests`, `AnyTransfers`) are looked at as they stand.
  Columns that no report reads together are not varied together (`Varies`; where
  departments have parents, at most one of them is not active).
  `Ages` and `Lives` put an asset at exactly 30 days and into its last
  years of life; `Values` has the zero that counts as no value.
- Symmetry is used for processes, slots, departments, disposals and dates where no
  definition tells them apart, and only in runs without liveness.

### Fairness and deadlock

Only `LogQueue` states fairness: the event loop runs what is ready (`Grant`,
`TimerWakes`, `BackoffEnds`), time passes (`Tick`), executor threads run and
database calls end with an answer or an error (`JobStarts \/ JobEnds`), and a process whose
hook is done exits (`Exit`). Nothing is assumed of clients, of the
database, of the operator, or of crashes. The liveness of `AuditTrail` follows
although a restart is not promised: the end of a process drops what waits.

Deadlock is checked in `LogQueue`, `AssetDisposal` and `AssetAssignment`. In the other
runs the bound on requests, writes or time stops the clients, so the end is no deadlock.

## Disagreements with the documentation

1. `log_audit`. README.md:140 promises that all system activities are logged. A
   batch is one transaction; one row with a user that does not exist makes the
   handler at `logger_queue.py:82` drop the whole batch, and `roles.py:100` logs
   such a row whenever the roles are listed.
2. `disposal_register`. README.md:1255 ends the disposal with "Update Registers".
   With two processes a slow approval can put the status of an executed disposal
   back to approved; the asset stays Disposed and no executed disposal explains it.
3. `assignment_conflict`. `a_assignment.py:58` answers 409 when the asset has a
   holder. Two processes can both pass the check and the second commit replaces
   the holder set by the first.
4. `policy_deny`. `policy_eval.py:228` says that DENY policies override ALLOW
   policies. Line 223 compares the effect with `"DENY"`, but the value of the enum is
   `"deny"` (models.py:256): every matching policy counts as one that allows.

Met while modelling, and in the model as the code has it, without a run of their own:

- The backlog raises when an open request has a date: `maintainance_r.py:199`
  subtracts a date from a datetime (`BacklogAnswers`).
- The history of transfers with a date filter is empty, because no handler sets
  `completed_date`; and no handler moves the asset of a completed transfer, although
  README.md:1236-1240 ends the workflow with the update.
- A fully depreciated asset (value zero) is counted at its cost and is never "nearly
  depreciated", because zero is taken for no value (`Value`).
- An asset of exactly 30 days is counted in this month and in the last
  (exec_r.py:46-58); a request that is approved is in no class of the maintenance summary.
- A department can be made its own ancestor, after which its hierarchy ends in a
  RecursionError.
- `*.*` among the user's own permissions is listed and grants nothing; an empty list
  in a scope restricts nothing; counties have no `*` (`InCounties`).

## Theorems

| theorem | module | says, for every value of the constants |
|---|---|---|
| `TypeCorrect` | `LogQueue_proofs` | `Spec => []TypeOK` |
| `BatchBounded` | `LogQueue_proofs` | `Spec => []BatchBound` |
| `OneFlight` | `LogQueue_proofs` | `Spec => []SingleFlight` |
| `ShutdownDrains` | `LogQueue_proofs` | `Spec => []DrainedByShutdown` |
| `EntriesOnce` | `LogQueue_proofs` | `Spec => []EachEntryOnce` |
| `LossesHaveCause` | `LogQueue_proofs` | `Spec => LossHasCause` |
| `AuditSafety` | `LogQueue_proofs` | `Spec => Audit!Init /\ [][Audit!Next]_(Audit!trailVars)` |
| `TypeCorrect` | `AssetDisposal_proofs` | `Spec => []TypeOK` |
| `DisposalAuthorised` | `AssetDisposal_proofs` | `Spec => []NoUnauthorisedDisposal` |
| `DisposedApproved` | `AssetDisposal_proofs` | `Spec => []DisposedWasApproved` |
| `RegisterAgrees` | `AssetDisposal_proofs` | `Spec => []SerialRegister` |
| `WorkflowKept` | `AssetDisposal_proofs` | `Spec => SerialWorkflow` |
| `AssignmentTypeOK` | `AssetAssignment_proofs` | `Spec => []TypeOK` |
| `AssignmentRecorded` | `AssetAssignment_proofs` | `Spec => []OneEventPerChange` |
| `AssignmentHistory` | `AssetAssignment_proofs` | `Spec => []SerialHistory` |
| `AssignmentOfficerFits` | `AssetAssignment_proofs` | `Spec => SerialOfficerFits` |
| `SessionsExchanged` | `Sessions_proofs` | `Spec => []ExchangedIsSpent` |
| `SessionsUsedTicket` | `Sessions_proofs` | `Spec => []UsedTicketIsSpent` |
| `SessionsSingleUse` | `Sessions_proofs` | `Spec => []SerialSingleUse` |
| `SessionsTickets` | `Sessions_proofs` | `Spec => []SerialTickets` |
| `SessionsResetEnds` | `Sessions_proofs` | `Spec => []SerialResetEnds` |
| `SessionsTypeOK` | `Sessions_proofs` | `Spec => []TypeOK` |
| `RolesTypeOK` | `Roles_proofs` | `Spec => []TypeOK` |
| `RolesReferences` | `Roles_proofs` | `Spec => []RoleReferences` |
| `RolesNoResurrection` | `Roles_proofs` | `Spec => NoResurrection` |
| `RolesSerialAtomic` | `Roles_proofs` | `Spec => SerialAtomic` |
| `LoginTypeOK` | `SecureLogin_proofs` | `Spec => []TypeOK` |
| `LoginBookAgrees` | `SecureLogin_proofs` | `Spec => []BookAgrees` |
| `LoginPenaltyGrows` | `SecureLogin_proofs` | `Spec => SerialPenaltyGrows` |
| `LoginKnownDevice` | `SecureLogin_proofs` | `Spec => SerialKnownDevice` |
| `AccessTypeOK` | `AccessControl_proofs` | `Spec => []TypeOK` |
| `AccessActsAreAuthorised` | `AccessControl_proofs` | `Spec => ActsAreAuthorised` |
| `AccessPermissionsShown` | `AccessControl_proofs` | `Spec => []PermissionsShown` |
| `AccessScopeNarrows` | `AccessControl_proofs` | `Spec => []ScopeNarrows` |
| `ReportingTypeOK` | `Reporting_proofs` | `Spec => []TypeOK` |
| `ReportsOneMoment` | `Reporting_proofs` | `Spec => []SerialReport` |
| `ReportsComparisonAtRest` | `Reporting_proofs` | `Spec => []ComparisonAtRest` |
| `ReportsHierarchyAtRest` | `Reporting_proofs` | `Spec => []HierarchyAtRest` |
| `ReportsCountTheSame` | `Reporting_proofs` | `Spec => []ReportsAgree` |

They assume nothing but the named assumptions on the constants (`LogAssumption`,
`DisposalAssumption`, `AssignmentAssumption`, `NoneIsNoRequest`, `SessionAssumption`,
`RoleAssumption`, `LoginAssumption`, `AccessAssumption`, `ReportAssumption`,
`ColumnsAssumption`): any number of entries, any batch size of at least one, any
waiting time; any sets of processes (finite ones for disposal and assignment, whose
properties of one process count them), slots, assets, users, roles and permissions (for
the reports finite tables, whose rows they add up, and amounts, days and years that are
integers); any bounds on requests and time. What they say of several processes and of many
requests in flight is therefore not bound to the two slots of the runs.

**LogQueue.** None of the four invariants is inductive alone: that at most one
batch is in flight depends on who holds the lock, which depends on where the
background task stands, which depends on the phase of the process. The inductive
invariant `IInv` adds `Ownership`: a held lock means an empty buffer; the handler or
the task that owns the lock is suspended in a flush, and the task is so only while
it owns the lock; in a running process every call has an owner and the final flush
has not begun; a process that is down holds nothing. Its heart is the first part
(whoever took the lock has just handed the buffer over): the next entry or the
final flush cannot overfill a batch. Together with `SingleFlight` it gives that in a
running process a free lock means nothing is in flight (`NothingInFlight`), so that
no submission meets another; a call without an owner can only exist once
the process is stopping, when no handler starts one. TLC checked `IInv` on the instance of `log_queue` before it was proved.

A second layer, `TrailInv`, adds `Queued` (the entries of the handlers waiting for the
lock are distinct and none of them has been accepted yet) and `EachEntryOnce`. Each
step then does one of four things to the line of pending entries, which are the batches
in flight followed by the buffer: it leaves the line as it is, appends one entry, takes
the first batch away, or ends it with the process. Since at most one job exists,
`FlattenSeq` is only ever asked for one batch, and the lemmas on concatenation
(`SetOfConcat`, `DistinctConcat`) are enough. The same four moves are the steps of
`AuditTrail`: `AuditSafety`.

**AssetDisposal.** The invariants speak about committed rows, but a step writes
what a session computed from rows it loaded earlier, which may differ from the
rows by now in every column. So the inductive invariant (`RowsAuthorised`, `EditSound`) speaks about `task` as
well: a session may be stale, but not about what only ever gets set. The row it
edits still exists and belongs to the same asset, has a date and an approver if the
session saw them, and what the session leaves is itself authorised. It is kept by
every commit because `Written` keeps the columns the session did not change, and no
operation sets date or approver back to NULL.

The two properties of one process need a second layer, `Serial`, on top of `IInv`: the
row a request has loaded is the row in the table, its edit is exactly one stage
further (`InTurn`, `Legal`), and no row is ahead of its stage (`Clean`: no date before
the schedule, no approver before the approval, no proceeds before the execution).
What a request makes of the register is what it makes of the disposal, and both rows
are in one commit; on fresh rows `Written` writes the whole row, so register and file
stay in step.

**AssetAssignment.** `OneEventPerChange` is inductive once `Requests` says how the
ghosts and the requests under way fit together: each request has a number of its own,
is among the changed exactly from its first commit to its event, and is not one that
died. `Serial` (`Current`: until its commit the asset, and in an assignment by
somebody else the officer, are as the request read them) gives the theorem about one
process: there no deactivation or move comes between the reading and the commit. `Told` is the
invariant behind `AssignmentHistory`: while nothing has died, the last event of an asset
tells who holds it, or a request is about to write the next one.

**Sessions.** The inductive invariant
`IInv` needs only that they are natural numbers (`Types`, `Tasks`) next to the two
properties, and what the requests under way have done: a token that is being
exchanged names the owner whose tokens are revoked, and once they are it is spent; a
ticket that will not be marked is spent already. Every
step `Keeps` the table: rows keep their owner and parent, and what is not valid does
not become valid again; from that both properties follow, whoever else commits
in between.

The properties of one event loop need a second layer, `Serial`: what the loop's request
has read is still so (`InTurn`), because the login threads beside it only add tokens;
and, when there are no threads (`Alone`), a request that issues tokens goes back to a
login not older than its user's last reset (`LoginStands`). `OneLoop` says that the pool
has exactly one of the workers that are event loops.

`TypeOK` also says that tokens, tickets and passwords stay within the numbers
`MaxRequests` allows, which is a matter of counting what is still owed (`Counts`): a
request that goes on to issue tokens owes those it has not added yet (`OwedTokens`), one that
asks for a ticket owes that (`Requesting`), one that replaces a password owes a password
(`Replacing`). Rows and debts together never exceed what the requests served may have:
each step pays a debt with a row, drops one, or begins a request (`BeginCounts`).

**Roles.** `IInv` is `TypeOK`, `RoleReferences`, `Shapes` (what a request has at each
`todo`) and `Serial`. The last speaks about one process only: at most one handler is
past its start and not waiting (`OneRuns`), and what that one has loaded during its
turn is what the tables hold (`Fresh`). `SerialAtomic` is the fact that a commit on fresh
rows is the step of the registry; `RoleReferences` does not use it, and rests on the
foreign key and on the flush that selects the holders.

**SecureLogin.** `Shapes` and `Ends`: no end of a disable, in the table or in a login
(`TaskEnds`), is later than now plus `Duration`. So a login that reckons its end while
it has the event loop cannot be overtaken by a later one in its process;
`Current` (the row loaded is the row, unless the log was awaited since) gives the
second theorem. `BookAgrees` is inductive together with the types: the commit of a
disable writes `temp_disabled_until` and the row with the same end, a commit of a status
leaves both, and one more row for an address is one more attempt (`OneMoreRow`).

**AccessControl.** `Passed` records, per `todo`, which checks the request has passed on
which rows; `Histories` ties `granted` to the role as it was; `Serial` says that in one
process the rows of a running request have not changed. `AccessPermissionsShown` and
`AccessScopeNarrows` follow from `TypeOK` and the operators alone: a list that replaces one
of the scope's three leaves the other two (`OtherList`).

**Reporting.** `Serial`: in one process what a report has read is what the tables hold
(`UpToDate`), and before its first query it has read nothing. A query then gives the same
with the session's identity map as without (`ResultFresh`), and a writer can only run
while the report has not begun. `ReportingTypeOK` needs besides that no department is ever
taken out of its table, so that a parent that existed goes on to exist.

With several processes the invariant is `RestInv`, about what a report has read of rows
nobody touched and what it has still to ask. For the comparison (`Compares`): each
active department's assets are in `got` or in the queue, and what is in `got` about an
untouched asset is its row. For the hierarchy (`Walks`): every department that was read
as a child has been asked for its own children or is about to be. Neither mentions the
order in which rows come: a list that `SetToSeqs` returns is only used for having every
element of the set (`Listed`). At the end the queue is empty, so everything has been asked:
`ComparisonAtRest` is read off, and for `HierarchyAtRest` the departments that were read
are a set closed under the children at rest, so that the least such set is within it
(`ReachableLeast`).

`ReportsAgree` is no matter of steps: it follows from `TypeOK` and from what sums are.
The lemmas on sums are first-order, so that no operator has to be instantiated:
`SubsetInduction` is about a set of subsets, `PartialSumsExist` shows that the function the
library's fold chooses exists (up to every cardinality), `PartialSumsRemove` that the
order of the terms makes no difference. From them come that counts by key add up
to the count of all (`SumFibres`), that sums of two columns add up term by term
(`SumPlus`), and that rows without an amount may be left out (`SumSupport`). The rest is
which rows each report takes: the reports that split the assets in two, or by a key, are
compared with the ones that count all of them (`CardinalitySplit`, `TotalOfEntries`).

**Only model-checked.** Everything temporal beyond `[]`: `CallReturns` and the liveness half
of `ImplementsAuditTrail` (TLAPS has no rule for fairness and ENABLED that its
backends could use). Every invariant and every action property of the runs is a theorem.
The four disagreements
are counterexamples and need no proof.

## Not modelled

- **Handlers that raise before their commit.** `models.py:213` declares a
  relationship `login_attempts` in the class that has a column of that name (179),
  so every assignment of a number or None to it raises a TypeError: `register`
  (auth.py:59), `create_new_user_adm` (users.py:266), and in `auth22.py` the
  counting of failed logins (73), the end of a temporary disable (111), the
  successful login (234), the forced password change (433) and the unlock (535).
  `create_a_new_asset` passes to `Assets` every field of `AssetCreate`, two of which
  (`department_name`, `responsible_officer_name`) are no columns; an update, a change of
  status, a deletion (`a_crude.py`), a new QR code and a new location (`a_tracking.py`)
  create lifecycle events without a key and fail in their commit. So tag numbers and
  depreciation (`asset_utils.py`) reach no row. `a_maintainance.py` uses attributes and members that do not exist (`owner_id`,
  `issue_type`, `SCHEDULED_MAINTENANCE`), so only the approval gets through; `get_role`
  uses an undefined name. These operations change no state. The modules take users
  and assets as given by migrations and imports.
- **Parts without effect**: `apply_scope_filter` has no caller; `verify-mfa` has no code to
  verify, since none is ever sent; `whitelist-ip` adds a row that only a path that
  raises reads.
- **Security reports** (`sec_r.py`) page through the activity log; the list of
  available reports is constant; formats, samples, top lists and date filters
  are left out of the other reports.
- **Location, tracking, supplementary routes**: look-ups in constant lists,
  single-row reads, and the two writes above that fail.
- **E-mail**: background tasks after the response, with no effect on the database.
- **The database itself**: transactions are atomic and durable; connection limits
  and time-outs appear as `Abandon` or `dbUp = FALSE`.
- **Who the client is**: authentication of a request is a precondition; refusals
  change nothing.

## Plan

Every component whose handlers reach a commit has a module, and every invariant a proof.
What is left is to compose:

1. Composition: `LogQueue` under the handlers that await it (`Roles`, `SecureLogin`); today
   they take from it only that a call returns (`CallReturns`) and that others run
   meanwhile.
2. Abstract specifications worth stating: an atomic register that `AssetAssignment`
   implements with one process; single-use tickets that `Sessions` implements with one
   process.
3. When the handlers that raise are repaired, their actions: the successful login and
   the end of a disable, the asset register with its tag numbers and book values, the
   maintenance workflow. `Register`, `Reports` and `SecureLogin` have their tables already.
