# A TLA+ verification of the GCRP scheduling server

GCRP is a scheduling server (C++17, `src/server`, `src/common`) that hands
regression tasks to Python workers (`src/worker`), keeps its state in SQLite
and survives crashes of the server and of the workers. This directory models
its scheduling core, its network transport, the worker process with its files,
the daily submitter, the task lists and regression queries, and the clients
that read them. TLC checks the models on small instances; TLAPS proves nearly
all of their safety properties for every instance.

## The system and its parts

| Part | Source | What it does |
|---|---|---|
| Scheduler | `Scheduler.cpp` | tasks, priority queue with lazy deletion, batches, claims, recovery holds, all under `mutex_` |
| SchedulingCoordinator | `SchedulingCoordinator.cpp` | one pass: `schedule()`, then dispatch the assignments one by one, roll back those that could not be sent |
| SchedulingDriver | `SchedulingDriver.cpp` | turns requests of any thread into passes of one runner |
| StateStore | `StateStore.cpp` | SQLite: tasks, runs, recovery decisions, stopped batches, submission keys; every change is one transaction |
| WorkerManager | `WorkerManager.cpp`, `Worker.cpp` | worker table: status, slots, heartbeat timeout, accepting policy |
| WorkerSession, WorkerConnectionRegistry, WorkerServer | same names | binds connections to workers, survives reconnection, serialises callbacks under `session_mutex_` |
| ProtocolRouter, TaskService | same names | requests of clients and workers |
| NetworkWorkerDispatcher | same name | puts TASK_ASSIGN on the worker's connection |
| Transport | `Connection`, `EchoServer`, `EventLoop*`, `Acceptor`, `Thread_pool` | epoll loops, protocol pool, log threads, ordered shutdown |
| Queries | `RegressionService`, `ProgressService`, `TaskListQuery.h` | read-only views with caches and paged snapshots |
| RunLogArchive | same name | uploaded run logs and their pruning |
| Python worker | `gcrp_worker.py`, `execution_guard.py`, `process_executor.py`, `recovery_journal.py`, `pjtest_adapter.py`, `log_retention.py` | executes one run at a time, journals it, reports it, uploads its logs |
| Slot manager | `slot_manager.py` | the worker processes of a machine |
| Daily submitter | `src/server/clock.py` | submits a day's plan under submission keys, resumes after a crash |
| Console | `src/gui/qt`, `src/client` | one request per connection; reads lists page by page |

A handler changes the scheduler under `mutex_` and saves before it changes
memory; then it asks the driver for a pass. The pass plans assignments under
`mutex_`, saves them together, and sends them with the mutex released. A new
process marks every saved ASSIGNED or RUNNING row "recovery required" and
quarantines its worker until the worker has said what became of the run. The
worker knows that from its journal, its receipts and its outbox.

## Modules

| Module | Models | State |
|---|---|---|
| `WorkerManager` | worker table | `workers`: status, total, used, accepting |
| `StateStore` | the database | `db` (tasks), `runs` (task_runs), `decisions` (recovery_decisions), `stopRows` (batches), `keys` (submission_keys) |
| `Scheduler` | Scheduler, coordinator, dispatcher, worker handlers of the router, restart | `tasks`, `queue`, `dispatching`, `stopped`, `quarantined`, `reconciling`, `nextSeq`, `lastSelected`; the pass (`pass`, `pending`, `plan`, `todo`, `after`, `picked`, `current`); the connections and what workers were sent |
| `SchedulerSafety` | its properties, the inductive invariant, the refinement mapping | |
| `TaskLifecycle` | abstract: the life of a task as clients see it (`Task::canTransitionTo`) | `life`, `drawn`, `halted` |
| `SchedulingDriver` | `requestSchedule` with concurrent callers | `pending`, `running`, program counters |
| `WorkerSession` | sessions and registry over the worker table | `registry`, `session`, `nextHandle` |
| `SlotServer` | the server as one worker meets it: connection, rows of its runs, answers | `srv`, `held`, `bound`, `shut`, `link`, `joined`, `wire`, `reply` |
| `LogArchive` | `RunLogArchive` and the log requests, over `SlotServer` | `archive`, `late`, `told` |
| `WorkerProcess` | the worker of one slot, its guard and its manager, composed with the two above | program counter; files (`journal`, `receipts`, `outbox`, `manifests`, `logs`, `drainFile`); `guards`, `trees`; the manager's `child`, `desired`, `fails` |
| `Transport` | `EchoServer` with its connections, loops, pool and log threads | `st`, `queue`, `active`, `tasks`, `outgoing`, `posted`, threads, log jobs and leases, the base loop |
| `TaskTable` | task rows, submission keys, stopped batches, snapshots of task lists | `tasks`, `stopped`, `snaps`, `next`, `instance`; what readers still hold (`token`, `listing`) |
| `DailySubmitter` | `clock.py` over the task table | the three files, `pc`, `state`, requests in flight |
| `TaskConsole` | the paged reading of the console and of `gcrp_client tasks` | `fetch`, `token`, `listing` |
| `DailyRegression` | composes the three, with operators and the progress of tasks | |
| `QueryViews` | the four query functions as operators on a task table | |
| `RegressionQueries` | query threads, cache, paging clients, the daily comparison of the console, the rollback list of `gcrp_client` | `table`, `generation`, `cache`, `cachedGen`, threads, `walk`, `daily`, `review` |
| `SchedulerTypes`, `SchedulerSteps`, `SchedulerInvariance`, `SchedulerDispatch`, `SchedulerLifecycle` | proofs about the scheduling core | |
| `ServerProof` | proofs about the sessions, the driver and the query cache | |
| `WorkerProof`, `DailyProof` | proofs about the worker and the daily submitter | |
| `MC*` | instances for TLC | |

Operators carry the name of the function they translate; an action stands for
a whole handler, or for the part of it between two points where the mutex is
released or another component can move. Operators preceded by a comment that
begins "Mutant:" are deliberately wrong variants that the properties must
reject; no specification uses them.

### How the scheduling core corresponds to the code

* **Atomicity.** A handler runs under `mutex_` and is one action, except
  that `schedule()` reads the worker table, which has its own mutex: each
  selection and each acquisition is a step, so a drain, a timeout or a close
  can fall between them (`ScheduleSelect`, `ScheduleAcquire`,
  `ScheduleAcquireFails`). The idle form of `recoverWorker` saves once per
  task and may throw in between, so it too is several steps (`RecoverIdle`,
  `IdleRequeue`, `IdleReady`, `IdleBlocked`, `IdleThrows`), during which
  `MutexFree` keeps the other handlers out.
* **Interleaving.** The model lets handlers run between the steps of a
  dispatch, which is what the Scheduler class allows and its claims
  (`dispatching_`) are for. In `WorkerServer` `session_mutex_` also serialises
  passes with worker callbacks; the model does not rely on it. The one place
  where the code does rely on it, the read-then-act of TASK_START and
  TASK_RESULT in the router, is one action. The same holds of
  `SchedulingDriver` and `RegressionQueries`: in the server binary the callers
  of the driver and the threads of a query come from sessions, one at a time,
  so the interleavings there are those the classes are written for (each has
  mutexes of its own) and more than the binary has. What is shown for all of
  them holds for the fewer.
* **Exceptions.** A save that throws rolls its transaction back. Where the
  code has a catch or an order that matters there is an action for it:
  `ScheduleThrows`, `ScheduleUndo`, `ScheduleRethrow`, `DispatchClaimThrows`,
  `DispatchFail`, `RollbackThrows`, `SubmitThrows`, `RecoverLostThrows`,
  `IdleThrows`. Elsewhere a throwing save changes nothing.
* **Crashes.** `Restart` may happen in every state, inside a pass too: memory
  is lost, the database stays, `markRecovery` (the StateStore constructor) and
  `restoreFrom` rebuild the scheduler, the worker table is empty except for
  the persisted policy.
* **Workers.** A worker sends START and RESULT for any run it was ever sent,
  in any order, repeatedly, while it has a connection; the result comes after
  the worker has asked to start. Its recovery claim ("idle", "active", "lost")
  is unconstrained here; `WorkerProcess` models the claims this worker makes.
* **Data.** Payloads, execution summaries and times are left out. Run ids are
  numbers (`newRunId` makes them unique). Time is left out: which workers are
  late is chosen freely (`checkTimeouts`).
* **History variables.** `sent`, `asked` and `reported` record what the
  workers saw; `latest` and `drained` do the same in `WorkerSession`. No guard
  of the server reads them.

### How the other models correspond to the code

* **Worker** (`WorkerProcess`). The worker has one thread; `pc` is where it is
  and every request, reply, file replacement and launch is a step, so that a
  kill, a broken connection or a server restart can fall between any two.
  Files survive the process, memory does not. A run is executed as up to three
  process trees (clean, case, clean), each under a guard that writes the
  receipt when nothing of the tree is left. A guard may be killed too; then
  the receipt never comes and the slot waits for an inspection. The manager
  restarts the process up to a number of failures.
* **Server seen by the worker** (`SlotServer`). A request is handled and its
  reply read in two steps. Answers are those of the router and of
  `recoverWorker` for one worker; what the server does with the task behind
  them is the subject of `Scheduler`. Here `session_mutex_` is relied on: a
  pass takes a run from ASSIGNED to sent in one step (`Dispatch`), so a claim
  never meets a run whose dispatch is under way, and the refusals of
  `recoverWorker` for a task in `dispatching_` (`Scheduler.cpp:98`, 119) do not
  occur. `NeverBlocked` is about that server; with passes running beside the
  sessions a claim could be refused. A
  heartbeat may find that the liveness timeout has made a DRAINING worker
  OFFLINE; then it makes it ONLINE, and a run can be sent to a worker that is
  about to leave (`beatReply`).
* **Transport.** Only the owning loop touches a connection's output and epoll
  interest; other threads reach it through functors, but a pool thread whose
  handler threw stores `Disconnected` itself, also between the load and the
  store of `Connection::shutdown`, which then overwrites it. Packets of one
  connection keep their order, its other functors may run at any later time.
  The accept functor, the protocol queue with its drain task, the store of
  `shutdown` and the two loads of `canBeClosed`, the log jobs with their
  leases, the idle check, `beginShutdown`, the force timer and
  `tryFinishShutdown` are steps. A message may end without a response: a
  registration on a connection that is closing (`WorkerSession.cpp:61`), a
  response that cannot be encoded (`WorkerSession.cpp:137`,
  `WorkerServer.cpp:18`), a log job that throws again (`WorkerServer.cpp:82`),
  a handler that throws before or after it (`EchoServer.cpp:68`). Which
  message it is is chosen freely, and `silent` and `threw` record it.
* **Daily submitter.** Each file it replaces and each request is a step; a
  request whose sender gave up may reach the server later and behind others.
  Plan, state and protect files survive; the lock makes processes exclusive.
* **Queries.** A query takes the scheduler's mutex to read the generation and
  again to scan, and the cache's mutex to look up and to store: four steps
  between which tasks change and other threads run. The cache is modelled
  switched on (`cache.regression.enabled` is false by default). What a query
  computes from a table is an operator of `QueryViews`; paging continues by
  task id, or by key in the daily comparison. The two services tell cases
  apart differently: `compareDaily` by stage and path (`keyOf`),
  `ProgressService` by path and flow within one target (`caseKey`).
* **Task lists.** The console passes the token of its first page and compares
  the server instance; `gcrp_client tasks --before` passes neither, and is
  given the newest snapshot of its filter. Tasks move on meanwhile: any queued
  one is taken while fewer than `Capacity` are executed.

## Model checking

Bounds: `MaxRun` (runs ever made), `MaxSeq` (queue sequence numbers),
`MaxHandle` (bindings), `HotLimit` (2048 in the code), `MaxEvent`
(disturbances), `FailLimit` (5 in the code), `Chunks` (blocks of a log),
`QueueLimit` (512), `LogLimit` (64), `SnapshotLimit` (8), `PageSize` and
`Limit` (50), `Capacity` (tasks executed at once), and the bounds of a
`Scenario`. They appear as guards of the
actions that draw a number or disturb.

| Run | Instance | What it shows |
|---|---|---|
| `MCRecovery` | 1 task, 1 worker, 3 runs, eviction limit 0 | Restart, loss and late messages: `RunHistory`, `ClaimPinned`, `RollbackOwnsRun`, `OwnMessagesOnly`, `RetriesAccounted`, `StoreAgrees`, `TypeOK`, and that the core implements `TaskLifecycle` (`LifecycleSpec`) |
| `MCPass` | 2 tasks, one in a batch, 1 worker with 2 slots, 2 runs, 1 key | Handlers, exceptions and restarts during a pass: `SlotAccounting`, `QueueExact`, `StoppedBatchDrained`, `CoreInv`, and that final things stay (`FinalStaysFinal`) |
| `MCSettle` | 2 tasks, 1 worker with 2 slots | Recovery of several runs and re-registration: `RecoveredWorkerHeld`, `NoOvercommit` |
| `MCLive` | 2 tasks of different priority, 1 worker | Workers drained, timed out and closed during a pass, no exceptions: `UnsentIsOwned`, `NoOvertaking`, `QueuedIsServed` |
| `MCDriver` | 3 threads | `SingleRunner`, `NoLostRequest`, `ChangeIsSeen` |
| `MCSession` | 2 workers, 3 connections, 4 bindings | `LatestWins`, `ReachableOrOffline` |
| `MCDrain` | 1 worker, 2 connections | **violated**: `DrainHolds`, see below |
| `MCWorker` | 2 runs, logs of 2 blocks, 2 disturbances, 2 failures | `NoOverlap` (one tree at a time), `ReportKept`, `NeverBlocked`, `LogsKept`, `RerunOnlyAfterDrop`, `RunSettles` |
| `MCRerun` | as `MCWorker` | **violated**: `RunsOnce`, see below |
| `MCTransport` | 1 connection, 2 messages of which one is a log request, 2 pool threads, queues of 1, 1 disturbance | `RepliesBeforeClose`, `DrainedInOrder`, `HalfCloseEnds`, `ShutdownFinishes` |
| `MCDaily` | a day of 3 entries in 2 groups and a day of 1 entry, 3 events, 2 snapshots, pages of 1 row, three scenarios | `SubmittedExactly`, `OpenWorkProtected`, `PagedListsTrue`, `BatchCompletes` |
| `MCQueries` | 2 threads, cache of 2, pages of 1 row, four scenarios | `AnswerCurrent`, `PagesExact`, `RollbacksListed` |

Why these bounds suffice for the cases of interest. A stale message, an ABA
rollback and a repeated loss need a task to be assigned a second time on the
same worker, and a late message after a retry needs a third run: `MCRecovery`.
Two tasks are needed for the order of the queue, for a plan of more than one
assignment, and for a worker with several recovered runs. Eviction limit 0
makes every submission evict. Three connections let a replaced connection and
its replacement close in both orders while a third registers. A worker needs a
second run to meet what the first left behind, and a second disturbance to be
disturbed while it recovers from the first; a log of two blocks can be left
half uploaded. Queues of one entry are full at once; the disturbance of the
transport is an idle tick, a broken connection, a message without a response
or a handler that throws. Two snapshots are enough for an older and a newer
one of a filter to coexist, and with pages of one row two other readers push a
list out between two pages. The submitter's first day has a group of several
entries, so that it can be stopped in the middle. A cache of two entries and
three filters make it evict while it holds an entry; a single entry would be
replaced before a stale one could be found.

The scenarios of `MCQueries` are the four questions asked of the queries:
cached answers while a task comes and ends, clients reading page by page
across a restart, the console's comparison across a restart, and the rollbacks
of two cases that passed, while they are run at the next revision, again, with
another flow and on another target. The scenarios of `MCDaily` say which
events happen together: faults of the submitter, new days, stops and restarts;
a console, restarts and expiring snapshots; a command line client, restarts
and expiring snapshots. Submission and scheduling go on in all of them.
Exploring all of it together would multiply independent histories. Threads are
symmetric there; nothing else is, since tasks and workers are ordered by their
ids in the code.

The deadlock check is off where the system may stop: all connections closed
and none to come (`MCSession`, `MCDrain`, `MCTransport`), the slot given up
(`MCWorker`, `MCRerun`), the last day submitted (`MCDaily`), the scenario
exhausted (`MCQueries`).

The next-state relations of `MCScheduler` leave out groups of actions that do
not bear on the question of a run; together the runs take every action.

`NoOvercommit` is about a step: `schedule()` plans one more task for a worker
only while the worker answers for fewer tasks than its slots. As a statement
about states it would be false, since a worker that holds tasks may register
again with fewer slots.

### Fairness

* `MCLive`: an enabled step of the pass is taken (the thread that runs it
  never waits for another party), and a connected worker sends its heartbeats
  (`gcrp_worker.py` sends one at least every second when idle). Nothing is
  assumed of clients, results or registrations. It is the heartbeat that makes
  a task whose dispatch failed be tried again. The property is checked with
  one worker: with two, a worker that becomes unavailable between each
  selection and acquisition ends every pass before the other one is tried.
* `MCDriver`: a thread inside `requestSchedule` goes on.
* `MCWorker`: the server answers what reaches it, the worker and its guards
  run on, the manager polls its children. Nothing has to break.
* `MCTransport`: weak fairness for loops, pool and log threads and timers.
  Strong fairness for queued functors of a connection, because the order in
  which the model runs them is freer than the loop's, which runs its whole
  list. That a peer reads its replies is a premise of `HalfCloseEnds` and not
  assumed for `ShutdownFinishes`.
* `MCDaily`: cron invokes the submitter, it goes on, and requests arrive.

### Finding: a drain is forgotten after a timeout

`WorkerManager.cpp:236` says "Heartbeats from a draining slot retain DRAINING
until its connection closes." `checkTimeouts` turns a DRAINING worker OFFLINE
when its heartbeats are late; the next heartbeat on the same connection makes
it ONLINE, since `updateHeartbeat` keeps only DRAINING. The worker announces
its drain once per connection. `MCDrain` shows the four steps.

### Finding: a lost connection after a case forgets its result

`docs/p12-recovery.md:5` says "TCP loss is not execution failure. A live
Python Worker continues the current case while reconnecting; completed results
remain in the durable pending outbox until acknowledged." When a case has
ended, `execute` first sends a pending drain request (`gcrp_worker.py:427`)
and then saves the result (433). If the connection is lost at that request,
the exception drops the result; the main loop reconnects with the assignment
still in memory, claims it "active", and the case runs again under the same
run. `MCRerun` shows it; `RerunOnlyAfterDrop` shows that it is the only way.

### Where documents and code differ

The properties follow the code, its tests and the later documents. Four
passages say otherwise:

* `docs/pjtest-clock.md:29-30` says that a submission that was interrupted, or
  whose response was lost, is marked uncertain and that later calls refuse to
  retry. `clock.py` resumes a state file in phase "submitting" whatever it says
  of uncertainty (262); the refusal (271-273) is for files it does not resume.
  `tests/fixtures/test_clock.py:107-126` and `docs/p11-sqlite.md:40-42` say
  what the code does, and submission keys make it safe: `SubmittedExactly`,
  `BatchCompletes`. With the refusal a batch that was interrupted would never
  complete; it is the mutant of `BatchCompletes`.
* `docs/batch-stop.md:13-14` says that a stop ends the submission in phase
  `stopped`. `clock.py` skips the stopped group, goes on with the others and
  ends in phase "complete" (351); it still reads `stopped`, from older files,
  and never writes it.
* `docs/server-api-v1.md:82-83` says "There is no retained cross-page snapshot:
  changes may alter counts/membership between pages." For task lists
  `TaskListQuery.h` retains up to eight, as `docs/production-hardening.md:16-20`
  describes, and `PagedListsTrue` depends on them. The sentence is still true
  of the regression, progress and rollback queries, whose pages are computed
  anew (`PagesExact` and `RollbacksListed` say what that leaves), and of
  `gcrp_client tasks --before`, whose pages may come from different snapshots.
* `docs/qt-ui-v3.md:26` says that a list loads at most the newest 5000 tasks,
  and that a change of the data ends the reading. `fetchList` reads to the end,
  up to 500000 rows, and the generation it compares is the snapshot's token,
  which a change of the tasks does not move.

### Observations

What the source does at places the properties do not judge:

* A connection lost inside `try_flush_logs` at the end of `connect`, or an
  archive that refuses, leaves `sock` empty and ends the main loop; the manager
  restarts the process and gives the slot up after five such exits. The same
  inside a live case's heartbeat ends the case, against the comment at
  `gcrp_worker.py:110`.
* The quarantine after a failed clean is kept in memory only: a restarted
  worker recovers the run as lost.
* A slot that is drained while it is disconnected exits without looking at an
  active journal; the next start does.
* A SIGTERM that reaches the slot manager between its test of `stopping` and
  the entry of a new child leaves that child without a drain file.
* A rollback that throws leaves the assignments behind it ASSIGNED and unsent
  until their worker reconnects.
* A handler that throws while the loop is between the load and the store of
  `Connection::shutdown` has its `Disconnected` overwritten: the connection is
  then closed as after an EOF, and messages behind the throwing one may still
  be handled.
* `removeConnection` by the idle check or the force timer is decided before it
  runs in the loop, so a message read in between can be dropped.
* An accept functor that passed its test of `stopping_` before shutdown began
  registers a connection that is not told to shut down; it ends by the force
  timer.
* The second generation check of `RegressionService::query`, before it stores,
  only avoids useless entries: `AnswerCurrent` holds without it, because a
  lookup clears a cache of another generation.
* Snapshot tokens of task lists start again after a restart of the server;
  only the console's comparison of server instances tells them apart.
* A plan entry that the server rejects as invalid leaves the day's batch
  "submitting": every later invocation meets it again. The model assumes valid
  entries.

## Proofs

All theorems hold for every value of the constants that satisfies the ASSUMEs
of the modules (for the core: tasks are a finite set of positive numbers,
workers natural numbers, and so on). A theorem is named for what it says and
proves the property a run checks, given in parentheses.

* `SchedulerTypes`: `TypeCorrect` (`TypeOK`). `TypeOK` is not inductive alone:
  the steps of a pass need to know that in each phase the plan, the list and
  the claim have the shape the phase uses. `TypeInv` adds that (`PassShape`);
  one lemma per action.
* `SchedulerInvariance`: `CoreInvariant` (`CoreInv`), and from it
  `SlotsAreAccounted` (`SlotAccounting`), `MemoryIsStore` (`StoreAgrees`),
  `QueueIsExact` (`QueueExact`), `StopIsFinal` (`StoppedBatchDrained`). What
  each action keeps is in `SchedulerSteps`. On top of it `HistoryInvariant`,
  and from it `RunsMatchTasks` (`RunHistory`) and `FinalIsKept`
  (`FinalStaysFinal`).
* `SchedulerDispatch`: `DispatchInvariant`, and from it `ClaimIsPinned`
  (`ClaimPinned`), `RollbackIsOwn` (`RollbackOwnsRun`) and `MessagesAreOwn`
  (`OwnMessagesOnly`); `RetriesAreAccounted` (`RetriesAccounted`) and
  `UnsentAreOwned` (`UnsentIsOwned`).
* `SchedulerLifecycle`: `CoreImplementsLifecycle` (`LifecycleSpec`): the core
  implements `TaskLifecycle`; `HoldInvariant`, and with it `RecoveredIsHeld`
  (`RecoveredWorkerHeld`) and `NeverOvercommitted` (`NoOvercommit`);
  `OrderIsKept` (`NoOvertaking`).
* `ServerProof`: `NewestBindingSurvives` (`LatestWins`), `OnlineIsReachable`
  (`ReachableOrOffline`), `OnePassAtATime` (`SingleRunner`), `EveryRequestKept`
  (`NoLostRequest`), for any number of workers, connections and threads;
  `CachedAnswersAreCurrent` (`AnswerCurrent`), for any number of threads, any
  cache size and any filters.
* `WorkerProof`: `WorkerInvariant`, and from it `TreesNeverOverlap`
  (`NoOverlap`), `ReportIsKept` (`ReportKept`), `WorkerIsNeverBlocked`
  (`NeverBlocked`), `LogsAreKept` (`LogsKept`) and `RerunsFollowADrop`
  (`RerunOnlyAfterDrop`), for any number of runs, blocks, disturbances and
  failures.
* `DailyProof`: `DailyInvariant`, and from it `SubmissionIsExact`
  (`SubmittedExactly`) and `OpenWorkIsProtected` (`OpenWorkProtected`), for
  any plans, page sizes and numbers of days and events.

**The core.** `CoreInv` is `MemoryInv` (true between any two steps) and
`PassInv` (what an open plan looks like). Slot accounting is the reason for
most of it. To show that a release is never one too many, a step must know
that the task it ends holds a slot: an active task does unless it was
recovered (`RecoveryShape`, `SlotAccounting`). To show that a plan entry and
its slot come and go together, the plan, the list of assignments and the queue
entries consumed must match (`PlanExact`, `PendingExact`), so that
`ScheduleCommit` turns planned slots into assigned ones and `ScheduleUndo`
gives back each once. Queue exactness needs that an entry is never left behind
by a task that becomes active (`QueueSound`): otherwise a requeued task would
meet its old entry. The slot lemmas (`SlotTaken`, `SlotGiven`,
`HolderReleases`) are about the cardinality of the set of holders when one
task joins or leaves it. `CoreInv` is itself checked by `MCPass`.

**The run history.** `save` inserts a run row or, if the id is known, updates
its status and keeps the task and worker of the old row. `RunHistory` is
therefore inductive only together with `RunsFresh`: an id that is not drawn
yet, or drawn by a plan that is not committed, has no row and no decision, and
two plan entries never share one. A commit then opens a run of its own for
each task; every later save of that task finds the run it opened, because
memory and database agree (`StoreAgrees`). The same lemmas, one per action,
show that no step changes what is final: `FinalIsKept` is an action property.

**The dispatch.** A pass sends with the mutex released, so what it knows of an
assignment may be old. `DispatchInv` says what is still true then. While a
message is handed over its claim exists, and it names the task's run and
worker; before the message is out the task has not left ASSIGNED, and when it
is to be rolled back and is still ASSIGNED, then for the same run
(`ClaimExact`). The assignments behind it are of other tasks and nothing was
sent for them (`TodoUnsent`). A worker asks to start only what it was sent, and
reports only what it asked for (`WorldSound`). The argument is that a run that
was not sent cannot be started, so its task stays ASSIGNED until the pass or a
recovery takes it back, and a recovery leaves a task without that run for
good: runs are drawn once (`RunsFresh`). `RetriesAccounted` is inductive over
`StoreAgrees` and `RunHistory`: a retry is counted in the transaction that
writes the "requeued" decision of a run that had none, so the set of lost runs
grows with the counter.

`UnsentAreOwned` is about the behaviours in which the process does not die and
no rollback fails to be saved (`UndisturbedSpec`); every other exception, loss
and late message is in them. Both exclusions are necessary: after a restart,
and after a rollback that throws, assignments stay ASSIGNED and unsent with no
pass to own them, which is left to the recovery of their worker.

**Holds, order and slots.** `RecoveredWorkerHeld` says nothing about
the worker a plan is about to take. `HoldInv` adds that a picked worker is not
quarantined until its slot is acquired. `NoOvercommit` then follows
from slot accounting: a worker that is not held answers for no recovered task,
so all it answers for occupies a slot, and an acquired slot was free.
`NoOvertaking` follows from `QueueExact`: the top entry of the queue belongs to
a queued task and every queued task that is not planned has an entry behind it.

**The refinement.** `lifeOf`, `drawnRuns` and `stopRows` map the database to
the variables of `TaskLifecycle`. One lemma per action shows which of its
steps the action is: `ScheduleCommit` is `Assign` of the planned tasks (or no
step, if nothing was planned), a rollback is `Return` or `Cancel`, a lost run
is `Return`, `Cancel` or `Finish` with "FAILED", and late messages, failed
dispatches and restarts are no step. The guards are tested on the memory and
the steps are about the database, which is where `StoreAgrees` is needed; that
the runs of a commit were never drawn is `RunsFresh`; that a submitted task
starts without a run and without retries (`AbsentLife`) follows from the life
cycle itself.

**The sessions.** `SessionInv` adds that binding handles are drawn once
(`HandlesUnique`), that what the registry holds is an open session of that
worker (`BindingsLive`) and that a worker without a binding is OFFLINE
(`UnboundOffline`). A close removes a binding only if the handle is its own,
and unique handles make that the binding of the same registration.

**The driver.** `DriverInv` ties `running_` to the one thread that is in its
loop; a runner gives the role up only in the step that finds no request.

**The query cache.** `CacheInv` is about the answers that were true while a
query ran (`during`). What is true now is always one of them (`NowCounts`). A
response of the current generation, computed or cached, is what is true now
(`CurrentExact`), and stays an answer for every query that has read that
generation when the tasks then change (`SeenCounts`). So what a thread finds
under the generation it has read was true during its query (`HeldCounts`).

**The worker.** `WorkerInv` relates four things that fail separately: the
process, its files, the trees it launched and the rows of the server. Where
the thread is says what it holds in memory (`PlaceInv`). A tree is the one the
journal names and its receipt is not written (`TreeInv`), so a receipt for the
journal's launch proves that no tree is left; as a launch is named in the
journal before its guard starts, two trees cannot be. `AgreeInv` is the
agreement of the two sides: the answer in flight is one the worker accepts
there (`ReplyInv`); until a claim is answered the worker is held and nothing
is on the wire to it (`HeldInv`); the run in memory is the server's only open
run (`AssignedInv`); the outbox holds a result the server has or will accept
(`OutboxInv`); a run that is RUNNING is in the journal, and the journal names
nothing that is settled unless the outbox does too (`JournalInv`). It follows
that no claim is refused, which is `NeverBlocked`. `SavedInv`, `ExecutedInv`
and `LogInv` carry the histories of reports, executions and uploads.

**The daily submitter.** A request whose sender gave up may arrive at any
later time, so the proof has to say what it can still do. `RequestInv`: a
request in flight is settled (its entry has a task, or its group is stopped,
and then the server creates nothing) or is for the very entry the saved state
stands at. `FilesInv` says which of memory, state file, plan and protect file
agree at each point of the program, `AwaitedInv` that the reply is for the
current entry, `ProgressInv` that all entries before the saved index are
settled, `DaysInv` that batches which have begun are of different days, and
`OpenInv` that unfinished work is the protected batch's. A new batch begins
only when no task is unfinished and every group of the old one was found, so a
late request of an old batch is settled when the saved state moves on. The
plans are assumed to be nonempty, with a case for every task of Tasks.yaml;
`build_plan` and `discover_cases` raise otherwise.

**Only model-checked.** The safety properties that no theorem states:

* `PagesExact`, `RollbacksListed` and `PagedListsTrue` are about what sorting,
  paging and counting compute from a table, or about pages gathered one after
  the other: they need induction over data, which the prover does not have.
* `RepliesBeforeClose` and `DrainedInOrder` of the transport count messages
  in queues, threads and functors (`pending_tasks_` is the number of messages
  in all of them together); only TLC checks them, for one connection.

Liveness under fairness is outside the prover's reach: `QueuedIsServed`,
`ChangeIsSeen`, `RunSettles`, `HalfCloseEnds`, `ShutdownFinishes` and
`BatchCompletes` stay with TLC. The violated properties `DrainHolds` and
`RunsOnce` have no theorem, of course.

## Not modelled

* The scheduler without a store (`WorkerServer` in the server binary always
  has one), and the inside of SQLite.
* Contents of messages and the validation of requests, except that a
  regression query must select by something; the encoding of frames.
* The states of a maintenance operation (`maintenance.py`,
  the operations of `WorkerManager`): the router answers every heartbeat with
  `command = null`, so no step of this system starts one.
* The catalogue, metrics, configuration, logging and the echo path of
  `EchoServer`, which the server does not use: they hold no state the others
  depend on.
* Checkout, configuration rewriting and output parsing of the pjtest adapter,
  and the comparison scripts: file and text processing.
* Search text and per-stage totals of the daily comparison, the byte budget
  and the filters of task lists (with a status filter a task may enter or
  leave a list between the pages of `gcrp_client`), forms and dialogs of the
  console, option parsing of the client.
* A crash of the slot manager itself, and several slots of one machine, which
  share no state but the manager's loop.
* Several connections in one instance of `Transport`: they meet only in the
  pool and in the shutdown test, and two of them make 1.8 million states.
