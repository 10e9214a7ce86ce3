------------------------------ MODULE Scheduler ------------------------------
(***************************************************************************)
(* The scheduling core of the server: Scheduler.cpp with the worker table  *)
(* (WorkerManager) and the database (StateStore) it changes, the           *)
(* coordinator's pass over new assignments (SchedulingCoordinator.cpp),    *)
(* the request flag of SchedulingDriver.cpp, and the protocol handlers     *)
(* that call them (TaskService.cpp, ProtocolRouter.cpp, WorkerSession.cpp).*)
(*                                                                         *)
(* Interleaving.  Every public method of Scheduler holds mutex_, so it is  *)
(* one atomic action.  Three things are longer than one action:            *)
(*   - schedule() talks to WorkerManager, which has a lock of its own, so  *)
(*     its loop is a sequence of steps between which the worker table may  *)
(*     change, but no other Scheduler method can run (MutexFree);          *)
(*   - the "idle" branch of recoverWorker saves task by task, and may      *)
(*     throw in between, so it is a loop of the same kind;                 *)
(*   - the coordinator's pass calls schedule, dispatchAssignment and       *)
(*     rollbackAssignment one after the other, and dispatchAssignment      *)
(*     releases mutex_ while it hands the message to the connection.       *)
(* WorkerServer additionally serializes handlers with session_mutex_; the  *)
(* model does not rely on it for the interleaving of a pass with handlers, *)
(* which is the contract the Scheduler class offers (and the one           *)
(* tests/test_dispatch_cancellation.cpp exercises).                        *)
(*                                                                         *)
(* Restart is a crash at any point followed by the start of a new server   *)
(* process.  A Worker process is an environment that may send TASK_START   *)
(* for any run it was sent and TASK_RESULT for any run it asked to start,  *)
(* at any time later and any number of times.                              *)
(***************************************************************************)
EXTENDS StateStore, Sequences

CONSTANTS MaxRetries, \* server.recovery_max_retries
          HotLimit,   \* terminal tasks are evicted above this many (2048)
          MaxSeq      \* bound: the largest queue sequence a behaviour uses

ASSUME SchedulerAssumption ==
  /\ MaxRetries \in Nat
  /\ HotLimit \in Nat
  /\ MaxSeq \in Nat

VARIABLES
  \* members of Scheduler
  tasks, queue, dispatching, stopped, quarantined, reconciling, nextSeq,
  lastSelected,
  \* the thread inside recoverWorker("idle"), and the coordinator's pass
  idler, pass, pending, plan, todo, after, picked, current,
  \* SchedulingDriver::pending_ and the registry of worker connections
  requested, session,
  \* the outside world: what workers were sent, asked and reported
  nextRun, sent, asked, reported

memVars   == <<tasks, queue, dispatching, stopped, quarantined, reconciling,
               nextSeq, lastSelected>>
passVars  == <<pass, pending, plan, todo, after, picked, current>>
worldVars == <<nextRun, sent, asked, reported>>
vars == <<workers, storeVars, memVars, idler, passVars, requested, session,
          worldVars>>

Entry      == [task : Task, seq : Nat]
Assignment == [task : Task, worker : Worker]
NoPlan     == [worker |-> NoWorker, run |-> NoRun]
NoClaim    == [task |-> NoTask, worker |-> NoWorker, run |-> NoRun]

\* Where the coordinator's thread is.  In the phases of Planning it is inside
\* schedule() and holds mutex_.
Planning == {"select", "acquire", "commit", "undo"}
Phase    == {"idle", "begin", "dispatch", "send", "sent", "rollback"}
              \cup Planning
SessionKind == {"none", "plain", "recovery"}

\* Type correctness of the scheduler's members, the tables and the pass,
\* including the shape of the rows that every handler reads and writes.
TypeOK ==
  /\ WorkersType
  /\ StoreType
  /\ tasks \in [Task -> TaskRow]
  /\ \A t \in Task : RowShape(tasks[t])
  /\ queue \subseteq Entry
  /\ dispatching \subseteq Task
  /\ stopped \subseteq Batch
  /\ quarantined \subseteq Worker
  /\ reconciling \subseteq Worker
  /\ nextSeq \in Nat
  /\ lastSelected \in Worker \cup {NoWorker}
  /\ idler \in Worker \cup {NoWorker}
  /\ pass \in Phase
  /\ pending \subseteq Entry
  /\ plan \in [Task -> [worker : Worker, run : RunId] \cup {NoPlan}]
  /\ todo \in Seq(Assignment)
  /\ after \in Worker \cup {NoWorker}
  /\ picked \in Worker \cup {NoWorker}
  /\ current \in [task : Task \cup {NoTask}, worker : Worker \cup {NoWorker},
                  run : RunId \cup {NoRun}]
  /\ requested \in BOOLEAN
  /\ session \in [Worker -> SessionKind]
  /\ nextRun \in 1..(MaxRun + 1)
  /\ sent \subseteq RunId
  /\ asked \subseteq RunId
  /\ reported \subseteq RunId

\* restoreFrom on an empty database leaves next_sequence_ at 0 + 1.
Init ==
  /\ WorkersInit
  /\ StoreInit
  /\ tasks = [t \in Task |-> AbsentTask]
  /\ queue = {} /\ dispatching = {} /\ stopped = {}
  /\ quarantined = {} /\ reconciling = {}
  /\ nextSeq = 1 /\ lastSelected = NoWorker
  /\ idler = NoWorker
  /\ pass = "idle" /\ pending = {} /\ plan = [t \in Task |-> NoPlan]
  /\ todo = <<>> /\ after = NoWorker /\ picked = NoWorker
  /\ current = NoClaim
  /\ requested = FALSE
  /\ session = [w \in Worker |-> "none"]
  /\ nextRun = 1 /\ sent = {} /\ asked = {} /\ reported = {}

MutexFree == pass \notin Planning /\ idler = NoWorker

BatchStopped(t) == BatchOf[t] \in stopped

\* Tasks in memory that a worker currently answers for.
ActiveOn(w) == {t \in Task : tasks[t].status \in Active /\ tasks[t].worker = w}

-----------------------------------------------------------------------------
(* Clients: SUBMIT_TASK, CANCEL_TASK, CANCEL_BATCH.                        *)

\* submitTask evicts terminal tasks from a hot set above the limit.
evicted ==
  IF Cardinality({u \in Task : tasks[u].status # "ABSENT"}) > HotLimit
  THEN [u \in Task |-> IF tasks[u].status \in Terminal /\ u \notin dispatching
                       THEN AbsentTask ELSE tasks[u]]
  ELSE tasks

\* A repeated key returns the earlier task, a stopped batch or a known id is
\* refused: none of them changes anything.
acceptsSubmit(t, k) ==
  /\ k # NoKey => keys[k] = NoTask
  /\ ~ BatchStopped(t)
  /\ db[t].status = "ABSENT"

submitTask(t, k) ==
  LET row == [AbsentTask EXCEPT !.status = "QUEUED", !.seq = nextSeq]
  IN /\ MutexFree
     /\ acceptsSubmit(t, k)
     /\ nextSeq <= MaxSeq
     /\ saveOne(t, row, "")
     /\ keys' = IF k = NoKey THEN keys ELSE [keys EXCEPT ![k] = t]
     /\ tasks' = [evicted EXCEPT ![t] = row]
     /\ queue' = queue \cup {[task |-> t, seq |-> nextSeq]}
     /\ nextSeq' = nextSeq + 1
     /\ requested' = TRUE
     /\ UNCHANGED <<workers, decisions, stopRows, dispatching, stopped,
                    quarantined, reconciling, lastSelected, idler, passVars,
                    session, worldVars>>

\* Only a queued task is cancelled: there is no remote cancellation.
cancelTask(t) ==
  LET row == [tasks[t] EXCEPT !.status = "CANCELLED"]
  IN /\ MutexFree
     /\ t \notin dispatching
     /\ tasks[t].status = "QUEUED"
     /\ saveOne(t, row, "")
     /\ tasks' = [tasks EXCEPT ![t] = row]
     /\ requested' = TRUE
     /\ UNCHANGED <<workers, decisions, stopRows, keys, queue, dispatching,
                    stopped, quarantined, reconciling, nextSeq, lastSelected,
                    idler, passVars, session, worldVars>>

cancelBatch(b) ==
  LET changed == {t \in Task : BatchOf[t] = b /\ tasks[t].status = "QUEUED"}
      row(t)  == [tasks[t] EXCEPT !.status = "CANCELLED"]
  IN /\ MutexFree
     /\ \E t \in Task : BatchOf[t] = b /\ db[t].status # "ABSENT"
     /\ saveRows([t \in changed |-> row(t)], "")
     /\ stopRows' = stopRows \cup {b}
     /\ stopped' = stopped \cup {b}
     /\ tasks' = [t \in Task |-> IF t \in changed THEN row(t) ELSE tasks[t]]
     /\ requested' = TRUE
     /\ UNCHANGED <<workers, decisions, keys, queue, dispatching, quarantined,
                    reconciling, nextSeq, lastSelected, idler, passVars,
                    session, worldVars>>

-----------------------------------------------------------------------------
(* SchedulingDriver and schedule().                                        *)

\* requestSchedule: one thread at a time runs passes while pending_ is set.
PassStart ==
  /\ pass = "idle" /\ requested
  /\ requested' = FALSE
  /\ pass' = "begin"
  /\ UNCHANGED <<workers, storeVars, memVars, idler, pending, plan, todo,
                 after, picked, current, session, worldVars>>

\* QueuedTaskInfo: the higher priority first, then the lower sequence.
Before(e, f) == \/ Priority[e.task] > Priority[f.task]
                \/ Priority[e.task] = Priority[f.task] /\ e.seq < f.seq

\* Mutant: the comparator forgets the priority.
isTopOldest(e, q) == e \in q /\ \A f \in q \ {e} : e.seq < f.seq

isTop(e, q) == e \in q /\ \A f \in q \ {e} : Before(e, f)

\* Mutant: the stale entries on top are not popped.
skipStaleNever(q) == q

\* The queue once the entries on top whose task is not QUEUED are popped.
skipStale(q) ==
  {e \in q : \E f \in q : /\ tasks[f.task].status = "QUEUED"
                          /\ f = e \/ Before(f, e)}

\* Mutant: recovered workers are not left out.
eligibleUnquarantined == getAvailableWorkers \ reconciling

eligible == getAvailableWorkers \ (quarantined \cup reconciling)

\* Most free slots; among equals the next id after the last selected one.
better(v, w) ==
  \/ freeSlots(v) > freeSlots(w)
  \/ /\ freeSlots(v) = freeSlots(w)
     /\ \/ v > after /\ ~ (w > after)
        \/ (v > after) = (w > after) /\ v < w

ScheduleBegin ==
  /\ pass = "begin" /\ MutexFree
  /\ pass' = "select"
  /\ pending' = queue
  /\ after' = lastSelected
  /\ UNCHANGED <<workers, storeVars, memVars, idler, plan, todo, picked,
                 current, requested, session, worldVars>>

ScheduleSelect(w) ==
  /\ pass = "select"
  /\ skipStale(pending) # {}
  /\ w \in eligible
  /\ \A v \in eligible : ~ better(v, w)
  /\ nextRun <= MaxRun
  /\ pending' = skipStale(pending)
  /\ picked' = w
  /\ pass' = "acquire"
  /\ UNCHANGED <<workers, storeVars, memVars, idler, plan, todo, after,
                 current, requested, session, worldVars>>

\* Nothing is queued or no worker may take a task: leave the loop.
ScheduleStop ==
  /\ pass = "select"
  /\ skipStale(pending) = {} \/ eligible = {} \/ nextRun > MaxRun
  /\ pending' = skipStale(pending)
  /\ pass' = "commit"
  /\ UNCHANGED <<workers, storeVars, memVars, idler, plan, todo, after,
                 picked, current, requested, session, worldVars>>

\* The worker table may have changed since the selection.
ScheduleAcquire ==
  /\ pass = "acquire"
  /\ canAcquire(picked)
  /\ acquireSlot(picked)
  /\ \E e \in pending :
       /\ isTop(e, pending)
       /\ plan' = [plan EXCEPT ![e.task] = [worker |-> picked, run |-> nextRun]]
       /\ todo' = Append(todo, [task |-> e.task, worker |-> picked])
       /\ pending' = pending \ {e}
  /\ nextRun' = nextRun + 1
  /\ after' = picked
  /\ picked' = NoWorker
  /\ pass' = "select"
  /\ UNCHANGED <<storeVars, memVars, idler, current, requested, session,
                 sent, asked, reported>>

ScheduleAcquireFails ==
  /\ pass = "acquire"
  /\ ~ canAcquire(picked)
  /\ picked' = NoWorker
  /\ pass' = "commit"
  /\ UNCHANGED <<workers, storeVars, memVars, idler, pending, plan, todo,
                 after, current, requested, session, worldVars>>

assignedRow(t) ==
  [tasks[t] EXCEPT !.status = "ASSIGNED", !.worker = plan[t].worker,
                   !.run = plan[t].run, !.recovery = FALSE]

planned == {t \in Task : plan[t] # NoPlan}

\* One transaction for all assignments, then the in-memory commit.
ScheduleCommit ==
  /\ pass = "commit"
  /\ saveRows([t \in planned |-> assignedRow(t)], "")
  /\ tasks' = [t \in Task |-> IF t \in planned THEN assignedRow(t)
                              ELSE tasks[t]]
  /\ queue' = pending
  /\ lastSelected' = after
  /\ plan' = [t \in Task |-> NoPlan]
  /\ pending' = {}
  /\ after' = NoWorker
  /\ pass' = "dispatch"
  /\ UNCHANGED <<workers, decisions, stopRows, keys, dispatching, stopped,
                 quarantined, reconciling, nextSeq, idler, todo, picked,
                 current, requested, session, worldVars>>

\* An allocation or the save throws: the acquired slots are released in
\* order and the pass ends; the queue was only copied.
ScheduleThrows ==
  /\ pass \in {"select", "acquire", "commit"}
  /\ pass = "commit" => planned # {}
  /\ pass' = "undo"
  /\ pending' = {} /\ after' = NoWorker /\ picked' = NoWorker
  /\ UNCHANGED <<workers, storeVars, memVars, idler, plan, todo, current,
                 requested, session, worldVars>>

\* Mutant: the undo forgets to release the slot.
ScheduleUndoKeepsSlot ==
  /\ pass = "undo" /\ todo # <<>>
  /\ plan' = [plan EXCEPT ![Head(todo).task] = NoPlan]
  /\ todo' = Tail(todo)
  /\ UNCHANGED <<workers, storeVars, memVars, idler, pass, pending, after,
                 picked, current, requested, session, worldVars>>

ScheduleUndo ==
  /\ pass = "undo" /\ todo # <<>>
  /\ releaseSlot(Head(todo).worker)
  /\ plan' = [plan EXCEPT ![Head(todo).task] = NoPlan]
  /\ todo' = Tail(todo)
  /\ UNCHANGED <<storeVars, memVars, idler, pass, pending, after, picked,
                 current, requested, session, worldVars>>

ScheduleRethrow ==
  /\ pass = "undo" /\ todo = <<>>
  /\ pass' = "idle"
  /\ UNCHANGED <<workers, storeVars, memVars, idler, pending, plan, todo,
                 after, picked, current, requested, session, worldVars>>

-----------------------------------------------------------------------------
(* SchedulingCoordinator::runOnce over the assignments, in order.          *)

\* Mutant: an assignment to a worker that went offline is skipped.
claimableOnline(a) ==
  /\ tasks[a.task].status = "ASSIGNED"
  /\ tasks[a.task].worker = a.worker
  /\ a.task \notin dispatching
  /\ workers[a.worker].status = "ONLINE"

claimable(a) ==
  /\ tasks[a.task].status = "ASSIGNED"
  /\ tasks[a.task].worker = a.worker
  /\ a.task \notin dispatching

DispatchClaim ==
  /\ pass = "dispatch" /\ todo # <<>> /\ MutexFree
  /\ LET a == Head(todo)
     IN /\ claimable(a)
        /\ dispatching' = dispatching \cup {a.task}
        /\ current' = [task |-> a.task, worker |-> a.worker,
                       run |-> tasks[a.task].run]
  /\ todo' = Tail(todo)
  /\ pass' = "send"
  /\ UNCHANGED <<workers, storeVars, tasks, queue, stopped, quarantined,
                 reconciling, nextSeq, lastSelected, idler, pending, plan,
                 after, picked, requested, session, worldVars>>

\* The task left ASSIGNED before the claim: it is never sent.
DispatchSkip ==
  /\ pass = "dispatch" /\ todo # <<>> /\ MutexFree
  /\ ~ claimable(Head(todo))
  /\ todo' = Tail(todo)
  /\ UNCHANGED <<workers, storeVars, memVars, idler, pass, pending, plan,
                 after, picked, current, requested, session, worldVars>>

\* Copying the snapshot throws before the claim exists.
DispatchClaimThrows ==
  /\ pass = "dispatch" /\ todo # <<>> /\ MutexFree
  /\ LET a == Head(todo)
     IN /\ claimable(a)
        /\ current' = [task |-> a.task, worker |-> a.worker,
                       run |-> tasks[a.task].run]
  /\ todo' = Tail(todo)
  /\ pass' = "rollback"
  /\ UNCHANGED <<workers, storeVars, memVars, idler, pending, plan, after,
                 picked, requested, session, worldVars>>

\* NetworkWorkerDispatcher::dispatch: the connection accepts the message.
DispatchSend ==
  /\ pass = "send"
  /\ session[current.worker] # "none"
  /\ sent' = sent \cup {current.run}
  /\ pass' = "sent"
  /\ UNCHANGED <<workers, storeVars, memVars, idler, pending, plan, todo,
                 after, picked, current, requested, session, nextRun, asked,
                 reported>>

DispatchReturn ==
  /\ pass = "sent" /\ MutexFree
  /\ dispatching' = dispatching \ {current.task}
  /\ current' = NoClaim
  /\ pass' = "dispatch"
  /\ UNCHANGED <<workers, storeVars, tasks, queue, stopped, quarantined,
                 reconciling, nextSeq, lastSelected, idler, pending, plan,
                 todo, after, picked, requested, session, worldVars>>

\* Mutant: dispatch can still throw after the connection took the message.
DispatchFailLate ==
  /\ pass \in {"send", "sent"} /\ MutexFree
  /\ dispatching' = dispatching \ {current.task}
  /\ pass' = "rollback"
  /\ UNCHANGED <<workers, storeVars, tasks, queue, stopped, quarantined,
                 reconciling, nextSeq, lastSelected, idler, pending, plan,
                 todo, after, picked, current, requested, session, worldVars>>

\* No connection, or the connection refuses the message or throws.
DispatchFail ==
  /\ pass = "send" /\ MutexFree
  /\ dispatching' = dispatching \ {current.task}
  /\ pass' = "rollback"
  /\ UNCHANGED <<workers, storeVars, tasks, queue, stopped, quarantined,
                 reconciling, nextSeq, lastSelected, idler, pending, plan,
                 todo, after, picked, current, requested, session, worldVars>>

\* Mutants: the rolled back task keeps its old place, or ignores the stop.
rolledBackRowOldSeq(t) ==
  [tasks[t] EXCEPT !.worker = NoWorker,
                   !.status = IF BatchStopped(t) THEN "CANCELLED" ELSE "QUEUED"]

rolledBackRowNoStop(t) ==
  [tasks[t] EXCEPT !.worker = NoWorker, !.status = "QUEUED", !.seq = nextSeq]

rolledBackRow(t) ==
  [tasks[t] EXCEPT !.worker = NoWorker,
                   !.status = IF BatchStopped(t) THEN "CANCELLED" ELSE "QUEUED",
                   !.seq = IF BatchStopped(t) THEN @ ELSE nextSeq]

\* rollbackAssignment is given the task id only.
canRollback(t) ==
  /\ t \notin dispatching
  /\ tasks[t].status = "ASSIGNED"
  /\ tasks[t].worker # NoWorker

\* The rollback is saved first.  If the slot cannot be released the method
\* throws with the old row in memory, which also ends the pass.
rollbackAssignment ==
  LET t  == current.task
      ok == canRelease(tasks[t].worker)
      requeued == ok /\ ~ BatchStopped(t)
  IN /\ pass = "rollback" /\ MutexFree
     /\ canRollback(t)
     /\ BatchStopped(t) \/ nextSeq <= MaxSeq
     /\ saveOne(t, rolledBackRow(t), "DISPATCH_FAILED")
     /\ releaseSlot(tasks[t].worker)
     /\ tasks' = IF ok THEN [tasks EXCEPT ![t] = rolledBackRow(t)] ELSE tasks
     /\ queue' = IF requeued THEN queue \cup {[task |-> t, seq |-> nextSeq]}
                 ELSE queue
     /\ nextSeq' = IF requeued THEN nextSeq + 1 ELSE nextSeq
     /\ todo' = IF ok THEN todo ELSE <<>>
     /\ pass' = IF ok THEN "dispatch" ELSE "idle"
     /\ current' = NoClaim
     /\ UNCHANGED <<decisions, stopRows, keys, dispatching, stopped,
                    quarantined, reconciling, lastSelected, idler, pending,
                    plan, after, picked, requested, session, worldVars>>

RollbackRefused ==
  /\ pass = "rollback" /\ MutexFree
  /\ ~ canRollback(current.task)
  /\ current' = NoClaim
  /\ pass' = "dispatch"
  /\ UNCHANGED <<workers, storeVars, memVars, idler, pending, plan, todo,
                 after, picked, requested, session, worldVars>>

\* The save throws.  Nothing in runOnce catches it: the assignments that
\* were not dispatched yet are abandoned.
RollbackThrows ==
  /\ pass = "rollback" /\ MutexFree
  /\ canRollback(current.task)
  /\ current' = NoClaim
  /\ todo' = <<>>
  /\ pass' = "idle"
  /\ UNCHANGED <<workers, storeVars, memVars, idler, pending, plan, after,
                 picked, requested, session, worldVars>>

PassEnd ==
  /\ pass = "dispatch" /\ todo = <<>>
  /\ pass' = "idle"
  /\ UNCHANGED <<workers, storeVars, memVars, idler, pending, plan, todo,
                 after, picked, current, requested, session, worldVars>>

-----------------------------------------------------------------------------
(* Workers: TASK_START and TASK_RESULT.  The message names a task, a       *)
(* worker and a run; it reaches the server over the worker's current       *)
(* connection, now or long after the run is over.                          *)

sentTo(r, t, w) ==
  /\ r \in sent
  /\ runs[r].task = t /\ runs[r].worker = w
  /\ session[w] # "none"

\* Mutant: START is not refused once the run is over.
startableAgain(t, w, r) == tasks[t].run = r /\ tasks[t].worker = w

startable(t, w, r) ==
  /\ tasks[t].run = r /\ tasks[t].worker = w
  /\ tasks[t].status = "ASSIGNED"

\* A repeated START of the running run is answered OK without a change.
TaskStart(t, w, r) ==
  /\ MutexFree
  /\ sentTo(r, t, w)
  /\ asked' = asked \cup {r}
  /\ IF startable(t, w, r)
     THEN LET row == [tasks[t] EXCEPT !.status = "RUNNING"]
          IN saveOne(t, row, "") /\ tasks' = [tasks EXCEPT ![t] = row]
     ELSE UNCHANGED <<db, runs, tasks>>
  /\ UNCHANGED <<workers, decisions, stopRows, keys, queue, dispatching,
                 stopped, quarantined, reconciling, nextSeq, lastSelected,
                 idler, passVars, requested, session, nextRun, sent, reported>>

\* Mutant: the run id of a result is not compared.
finishableAnyRun(t, w, r) ==
  tasks[t].worker = w /\ tasks[t].status = "RUNNING"

finishable(t, w, r) ==
  /\ tasks[t].run = r /\ tasks[t].worker = w
  /\ tasks[t].status = "RUNNING"

\* Mutant: the first finished task ends the quarantine.
releaseRecoveryHoldEarly(w) == quarantined' = quarantined \ {w}

\* releaseRecoveryHold, evaluated in the state the task change leads to.
releaseRecoveryHold(w) ==
  quarantined' = IF \E t \in Task : /\ tasks'[t].status \in Active
                                    /\ tasks'[t].worker = w
                 THEN quarantined ELSE quarantined \ {w}

\* completeTask: the result is saved before the slot is released.
completeTask(t, result) ==
  LET row == [tasks[t] EXCEPT !.status = result, !.recovery = FALSE]
      w   == tasks[t].worker
  IN /\ saveOne(t, row, "")
     /\ tasks' = [tasks EXCEPT ![t] = row]
     /\ releaseRecoveryHold(w)
     /\ IF tasks[t].recovery THEN UNCHANGED workers ELSE releaseSlot(w)
     /\ requested' = (tasks[t].recovery \/ canRelease(w) \/ requested)

TaskResult(t, w, r, result) ==
  /\ MutexFree
  /\ sentTo(r, t, w)
  /\ r \in asked
  /\ reported' = reported \cup {r}
  /\ IF finishable(t, w, r) THEN completeTask(t, result)
     ELSE UNCHANGED <<workers, db, runs, tasks, quarantined, requested>>
  /\ UNCHANGED <<decisions, stopRows, keys, queue, dispatching, stopped,
                 reconciling, nextSeq, lastSelected, idler, passVars, session,
                 nextRun, sent, asked>>

-----------------------------------------------------------------------------
(* Workers: WORKER_RECOVER with state "lost", "active" or "idle".          *)

\* Mutants: one retry too many; the requeued task keeps its worker.
lostRowExtraRetry(t) ==
  [tasks[t] EXCEPT !.status = IF BatchStopped(t) THEN "CANCELLED" ELSE "QUEUED",
                   !.worker = NoWorker,
                   !.retry = IF tasks[t].status = "RUNNING" THEN @ + 1 ELSE @,
                   !.seq = IF BatchStopped(t) THEN @ ELSE nextSeq,
                   !.recovery = FALSE]

lostRowKeepsWorker(t) ==
  [tasks[t] EXCEPT !.status = IF BatchStopped(t) THEN "CANCELLED" ELSE "QUEUED",
                   !.seq = IF BatchStopped(t) THEN @ ELSE nextSeq,
                   !.recovery = FALSE]

\* What recoverLost makes of task t.  A run that never started is always
\* retried, one that started is retried while the limit allows it.
lostRow(t) ==
  LET running == tasks[t].status = "RUNNING"
      halted  == BatchStopped(t)
      retry   == ~ halted /\ (~ running \/ tasks[t].retry < MaxRetries)
  IN [status   |-> IF halted THEN "CANCELLED"
                   ELSE IF retry THEN "QUEUED" ELSE "FAILED",
      worker   |-> IF retry \/ halted THEN NoWorker ELSE tasks[t].worker,
      retry    |-> IF retry /\ running THEN tasks[t].retry + 1
                   ELSE tasks[t].retry,
      seq      |-> IF retry THEN nextSeq ELSE tasks[t].seq,
      run      |-> tasks[t].run,
      recovery |-> FALSE]

lostAction(row) == CASE row.status = "QUEUED"    -> "requeued"
                     [] row.status = "CANCELLED" -> "cancelled"
                     [] row.status = "FAILED"    -> "failed"

\* Caller holds mutex_.  The decision is inserted with the new row; run_id
\* is the primary key of the decisions, so a second one makes save throw.
recoverLost(t) ==
  LET row == lostRow(t)
      w   == tasks[t].worker
      r   == tasks[t].run
  IN /\ r # NoRun /\ decisions[r] = Undecided
     /\ row.status = "QUEUED" => nextSeq <= MaxSeq
     /\ saveOne(t, row, "FAILED")
     /\ decisions' = [decisions EXCEPT ![r] =
                        [task |-> t, worker |-> w, action |-> lostAction(row)]]
     /\ tasks' = [tasks EXCEPT ![t] = row]
     /\ IF tasks[t].recovery THEN UNCHANGED workers ELSE releaseSlot(w)
     /\ IF row.status = "QUEUED"
        THEN /\ queue' = queue \cup {[task |-> t, seq |-> nextSeq]}
             /\ nextSeq' = nextSeq + 1
        ELSE UNCHANGED <<queue, nextSeq>>

\* The worker claims run r of task t and the server still agrees.
claimsActive(t, w, r) ==
  /\ session[w] = "recovery"
  /\ tasks[t].worker = w /\ tasks[t].run = r
  /\ tasks[t].status \in Active

\* Mutant: a run can be given up while it is being sent.
lostAcceptedSending(t, w, r) ==
  recoveryDecision(r, t, w) = "none" /\ claimsActive(t, w, r)

\* A "lost" request is answered from the saved decision when there is one,
\* and refused while the run is being sent.
lostAccepted(t, w, r) ==
  /\ recoveryDecision(r, t, w) = "none"
  /\ claimsActive(t, w, r)
  /\ t \notin dispatching

RecoverLost(t, w, r) ==
  /\ MutexFree
  /\ lostAccepted(t, w, r)
  /\ reconciling' = reconciling \cup {w}
  /\ recoverLost(t)
  /\ UNCHANGED <<stopRows, keys, dispatching, stopped, quarantined,
                 lastSelected, idler, passVars, requested, session, worldVars>>

\* The save of a "lost" request throws after the worker was held.
RecoverLostThrows(t, w, r) ==
  /\ MutexFree
  /\ lostAccepted(t, w, r)
  /\ reconciling' = reconciling \cup {w}
  /\ UNCHANGED <<workers, storeVars, tasks, queue, dispatching, stopped,
                 quarantined, nextSeq, lastSelected, idler, passVars,
                 requested, session, worldVars>>

RecoverActive(t, w, r) ==
  /\ MutexFree
  /\ claimsActive(t, w, r)
  /\ reconciling' = reconciling \ {w}
  /\ UNCHANGED <<workers, storeVars, tasks, queue, dispatching, stopped,
                 quarantined, nextSeq, lastSelected, idler, passVars,
                 requested, session, worldVars>>

\* "idle": the worker has no execution; walk over the tasks it answers for.
RecoverIdle(w) ==
  /\ MutexFree
  /\ session[w] = "recovery"
  /\ idler' = w
  /\ UNCHANGED <<workers, storeVars, memVars, passVars, requested, session,
                 worldVars>>

IdleRequeue(t) ==
  /\ idler # NoWorker
  /\ tasks[t].worker = idler /\ tasks[t].status = "ASSIGNED"
  /\ t \notin dispatching
  /\ recoverLost(t)
  /\ UNCHANGED <<stopRows, keys, dispatching, stopped, quarantined,
                 reconciling, lastSelected, idler, passVars, requested,
                 session, worldVars>>

\* A started run cannot be given up on the worker's word that it is idle.
IdleBlocked ==
  /\ idler # NoWorker
  /\ \E t \in ActiveOn(idler) :
       tasks[t].status = "RUNNING" \/ t \in dispatching
  /\ idler' = NoWorker
  /\ UNCHANGED <<workers, storeVars, memVars, passVars, requested, session,
                 worldVars>>

IdleReady ==
  /\ idler # NoWorker
  /\ ActiveOn(idler) = {}
  /\ quarantined' = quarantined \ {idler}
  /\ reconciling' = reconciling \ {idler}
  /\ idler' = NoWorker
  /\ requested' = TRUE
  /\ UNCHANGED <<workers, storeVars, tasks, queue, dispatching, stopped,
                 nextSeq, lastSelected, passVars, session, worldVars>>

\* The save of one of the tasks throws; the earlier ones stay recovered.
IdleThrows ==
  /\ idler # NoWorker
  /\ \E t \in ActiveOn(idler) :
       tasks[t].status = "ASSIGNED" /\ t \notin dispatching
  /\ idler' = NoWorker
  /\ UNCHANGED <<workers, storeVars, memVars, passVars, requested, session,
                 worldVars>>

-----------------------------------------------------------------------------
(* Worker connections: WorkerSession, the liveness thread and the policy.  *)

\* A recovering worker has one slot and is held before it is registered.
WorkerRegister(w, slots, kind) ==
  /\ kind = "recovery" => slots = 1
  /\ kind = "recovery" => MutexFree
  /\ reconciling' = IF kind = "recovery" THEN reconciling \cup {w}
                    ELSE reconciling
  /\ registerWorker(w, slots)
  /\ session' = [session EXCEPT ![w] = kind]
  /\ requested' = (kind = "plain" \/ requested)
  /\ UNCHANGED <<storeVars, tasks, queue, dispatching, stopped, quarantined,
                 nextSeq, lastSelected, idler, passVars, worldVars>>

\* registerWorker refuses the identity after holdWorker has taken effect.
WorkerRegisterRefused(w) ==
  /\ MutexFree
  /\ reconciling' = reconciling \cup {w}
  /\ UNCHANGED <<workers, storeVars, tasks, queue, dispatching, stopped,
                 quarantined, nextSeq, lastSelected, idler, passVars,
                 requested, session, worldVars>>

\* Mutant: a heartbeat does not request scheduling.
WorkerHeartbeatSilent(w) ==
  /\ session[w] # "none"
  /\ heartbeat(w)
  /\ UNCHANGED <<storeVars, memVars, idler, passVars, requested, session,
                 worldVars>>

WorkerHeartbeat(w) ==
  /\ session[w] # "none"
  /\ heartbeat(w)
  /\ requested' = TRUE
  /\ UNCHANGED <<storeVars, memVars, idler, passVars, session, worldVars>>

WorkerDrain(w) ==
  /\ session[w] # "none"
  /\ markDraining(w)
  /\ UNCHANGED <<storeVars, memVars, idler, passVars, requested, session,
                 worldVars>>

\* handleClose of the current connection: the slot stays taken.
WorkerClose(w) ==
  /\ session[w] # "none"
  /\ markOffline(w)
  /\ session' = [session EXCEPT ![w] = "none"]
  /\ UNCHANGED <<storeVars, memVars, idler, passVars, requested, worldVars>>

LivenessCheck(late) ==
  /\ checkTimeouts(late)
  /\ UNCHANGED <<storeVars, memVars, idler, passVars, requested, session,
                 worldVars>>

ChangePolicy(w) ==
  /\ setAccepting(w)
  /\ UNCHANGED <<storeVars, memVars, idler, passVars, requested, session,
                 worldVars>>

-----------------------------------------------------------------------------
\* Mutant: only queued tasks are loaded.
restoredRowQueued(t) ==
  IF db'[t].status = "QUEUED" THEN db'[t] ELSE AbsentTask

\* The rows restoreFrom loads: what is neither terminal nor absent.
restoredRow(t) ==
  IF db'[t].status \in Active \cup {"QUEUED"} THEN db'[t] ELSE AbsentTask

\* The process dies at any point; the StateStore constructor and
\* restoreFrom then rebuild the scheduler from the database.
Restart ==
  /\ markRecovery
  /\ tasks' = [t \in Task |-> restoredRow(t)]
  /\ queue' = {e \in [task : Task, seq : 0..MaxSeq] :
                 /\ restoredRow(e.task).status = "QUEUED"
                 /\ e.seq = restoredRow(e.task).seq}
  /\ quarantined' = {w \in Worker : \E t \in Task :
                       restoredRow(t).recovery /\ restoredRow(t).worker = w}
  /\ stopped' = stopRows
  /\ \E m \in 0..MaxSeq : highWaterMark(m) /\ nextSeq' = m + 1
  /\ dispatching' = {} /\ reconciling' = {}
  /\ lastSelected' = NoWorker
  /\ WorkersRestart
  /\ session' = [w \in Worker |-> "none"]
  /\ idler' = NoWorker
  /\ pass' = "idle" /\ pending' = {} /\ plan' = [t \in Task |-> NoPlan]
  /\ todo' = <<>> /\ after' = NoWorker /\ picked' = NoWorker
  /\ current' = NoClaim
  /\ requested' = FALSE
  /\ UNCHANGED <<runs, decisions, stopRows, keys, worldVars>>

\* A save that throws leaves the evictions of submitTask behind.
SubmitThrows(t, k) ==
  /\ MutexFree
  /\ acceptsSubmit(t, k)
  /\ tasks' = evicted
  /\ UNCHANGED <<workers, storeVars, queue, dispatching, stopped, quarantined,
                 reconciling, nextSeq, lastSelected, idler, passVars,
                 requested, session, worldVars>>

-----------------------------------------------------------------------------
\* The pass of the coordinator, without exceptions.
Coordinate ==
  \/ PassStart \/ ScheduleBegin \/ ScheduleStop
  \/ \E w \in Worker : ScheduleSelect(w)
  \/ ScheduleAcquire \/ ScheduleAcquireFails \/ ScheduleCommit
  \/ DispatchClaim \/ DispatchSkip \/ DispatchSend \/ DispatchReturn
  \/ DispatchFail \/ rollbackAssignment \/ RollbackRefused \/ PassEnd

Client ==
  \/ \E t \in Task, k \in Key \cup {NoKey} : submitTask(t, k)
  \/ \E t \in Task : cancelTask(t)
  \/ \E b \in Batch : cancelBatch(b)

\* A worker executes what it is sent.
Execution ==
  \E t \in Task, w \in Worker, r \in RunId :
    \/ TaskStart(t, w, r)
    \/ \E s \in {"SUCCEEDED", "FAILED", "TIMEOUT"} : TaskResult(t, w, r, s)

\* A worker with a recovery session settles what it answers for.
Recovery ==
  \/ \E t \in Task, w \in Worker, r \in RunId :
       RecoverLost(t, w, r) \/ RecoverActive(t, w, r)
  \/ \E w \in Worker : RecoverIdle(w)
  \/ \E t \in Task : IdleRequeue(t)
  \/ IdleBlocked \/ IdleReady

RecoveryRegister ==
  \E w \in Worker :
    WorkerRegister(w, 1, "recovery") \/ WorkerRegisterRefused(w)

PlainRegister ==
  \E w \in Worker : \E n \in 1..Slots[w] : WorkerRegister(w, n, "plain")

Heartbeat == \E w \in Worker : WorkerHeartbeat(w)

Close == \E w \in Worker : WorkerClose(w)

\* What makes a connected worker unavailable.
Unavailability ==
  \/ \E w \in Worker : WorkerDrain(w) \/ ChangePolicy(w)
  \/ \E late \in SUBSET Worker : LivenessCheck(late)

Exception ==
  \/ ScheduleThrows \/ ScheduleUndo \/ ScheduleRethrow
  \/ DispatchClaimThrows \/ RollbackThrows \/ IdleThrows
  \/ \E t \in Task, w \in Worker, r \in RunId : RecoverLostThrows(t, w, r)
  \/ \E t \in Task, k \in Key \cup {NoKey} : SubmitThrows(t, k)

Next == \/ Coordinate \/ Client \/ Execution
        \/ Recovery \/ RecoveryRegister
        \/ PlainRegister \/ Heartbeat \/ Close \/ Unavailability
        \/ Exception \/ Restart

Spec == Init /\ [][Next]_vars
=============================================================================
