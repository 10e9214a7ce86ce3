------------------------ MODULE SchedulerInvariance ------------------------
(***************************************************************************)
(* CoreInv is an invariant of the scheduling core, for every set of        *)
(* workers and every finite set of tasks: every used slot belongs to one   *)
(* task, memory and database agree after every operation, the queue holds  *)
(* every queued task exactly once, and a stopped batch stays drained.      *)
(*                                                                         *)
(* The parts depend on each other.  That a rollback finds a slot to        *)
(* release, so that the method does not throw between the save and the     *)
(* change in memory (StoreAgrees), follows from SlotAccounting; that the   *)
(* slot is the task's follows from PassUnrecovered; that schedule() does   *)
(* not assign a task twice follows from PendingExact, and that from        *)
(* QueueSound.                                                             *)
(*                                                                         *)
(* On top of it HistoryInv: the run history fits the tasks (RunHistory).   *)
(* That needs RunsFresh, because a commit must find the runs it writes     *)
(* absent: save would otherwise keep the task and worker of an older row.  *)
(* The same induction gives FinalStaysFinal.                               *)
(***************************************************************************)
EXTENDS SchedulerSteps

-----------------------------------------------------------------------------
(* The theorems.                                                           *)

\* Every step of the scheduling core keeps CoreInv.
LEMMA CoreNext == TypeInv /\ CoreInv /\ [Next]_vars => CoreInv'
<1> SUFFICES ASSUME TypeInv, CoreInv, [Next]_vars
             PROVE  CoreInv'
  OBVIOUS
<1>1. CASE Coordinate
  BY <1>1, CorePassOutside, CoreScheduleBegin, CoreScheduleSelect,
     CoreScheduleAcquire, CoreScheduleLeaves, CoreScheduleCommit, CoreRollback
     DEF Coordinate
<1>2. CASE Client
  BY <1>2, CoreSubmit, CoreCancelTask, CoreCancelBatch DEF Client
<1>3. CASE Execution
  BY <1>3, CoreTaskStart, CoreTaskResult DEF Execution
<1>4. CASE Recovery
  BY <1>4, CoreRecover, CoreRecoverQuiet, CoreIdle DEF Recovery
<1>5. CASE RecoveryRegister
  <2>1. 1 \in Nat
    OBVIOUS
  <2> QED
    BY <1>5, <2>1, CoreWorkerTable DEF RecoveryRegister
<1>6. CASE PlainRegister
  <2>1. PICK w \in Worker : \E n \in 1..Slots[w] : WorkerRegister(w, n, "plain")
    BY <1>6 DEF PlainRegister
  <2>2. PICK n \in 1..Slots[w] : WorkerRegister(w, n, "plain")
    BY <2>1
  <2>3. n \in Nat
    BY <2>2, WorkerAssumption
  <2> QED
    BY <2>2, <2>3, CoreWorkerTable
<1>7. CASE Heartbeat
  BY <1>7, CoreWorkerTable DEF Heartbeat
<1>8. CASE Close
  BY <1>8, CoreWorkerTable DEF Close
<1>9. CASE Unavailability
  <2>1. CASE \E w \in Worker : WorkerDrain(w) \/ ChangePolicy(w)
    BY <2>1, CoreWorkerTable
  <2>2. CASE \E late \in SUBSET Worker : LivenessCheck(late)
    <3>1. PICK late \in SUBSET Worker : LivenessCheck(late)
      BY <2>2
    <3>2. PICK w \in late : TRUE
      BY <3>1 DEF LivenessCheck, checkTimeouts
    <3>3. w \in Worker
      BY <3>2
    <3> QED
      BY <2>2, <3>3, CoreWorkerTable
  <2> QED
    BY <1>9, <2>1, <2>2 DEF Unavailability
<1>10. CASE Exception
  BY <1>10, CoreScheduleLeaves, CoreScheduleUndo, CorePassOutside, CoreIdle,
     CoreRecoverQuiet, CoreSubmitThrows
     DEF Exception
<1>11. CASE Restart
  BY <1>11, CoreRestart
<1>12. CASE UNCHANGED vars
  <2>1. UNCHANGED <<tasks, db, queue, plan, stopped, stopRows>>
    BY <1>12 DEF vars, storeVars, memVars, passVars
  <2>2. UNCHANGED <<passVars, idler>> /\ UNCHANGED workers
    BY <1>12 DEF vars
  <2> QED
    BY <2>1, <2>2, CoreQuiet DEF SlotsKept
<1> QED
  BY <1>1, <1>2, <1>3, <1>4, <1>5, <1>6, <1>7, <1>8, <1>9, <1>10, <1>11,
     <1>12 DEF Next

\* CoreInv is an invariant of the scheduling core, whatever the workers,
\* tasks, batches and limits are, and wherever exceptions and crashes strike.
THEOREM CoreInvariant == Spec => []CoreInv
BY TypeInit, TypeNext, CoreInit, CoreNext, PTL DEF Spec

\* The slot accounting of WorkerManager: used_slots is the number of tasks
\* that occupy the worker, in every reachable state.
THEOREM SlotsAreAccounted == Spec => []SlotAccounting
<1>1. CoreInv => SlotAccounting
  BY DEF CoreInv, MemoryInv
<1> QED
  BY <1>1, CoreInvariant, PTL

\* Memory and database agree after every operation of Scheduler, also when
\* one throws or the process dies.
THEOREM MemoryIsStore == Spec => []StoreAgrees
<1>1. CoreInv => StoreAgrees
  BY DEF CoreInv, MemoryInv
<1> QED
  BY <1>1, CoreInvariant, PTL

\* The priority queue with lazy deletion: its live entries are exactly the
\* queued tasks, so no queued task is lost and none is scheduled twice.
THEOREM QueueIsExact == Spec => []QueueExact
<1>1. TypeInv /\ CoreInv => QueueExact
  <2> SUFFICES ASSUME TypeInv, CoreInv PROVE QueueExact
    OBVIOUS
  <2>1. \A e \in queue : e = [task |-> e.task, seq |-> e.seq] /\ e.task \in Task
    BY DEF TypeInv, TypeOK, Entry
  <2>2. \A e \in queue : tasks[e.task].status = "QUEUED" =>
                           e.seq = tasks[e.task].seq
    BY DEF CoreInv, MemoryInv, QueueSound, EntryFresh
  <2>3. \A t \in Task : tasks[t].status = "QUEUED" =>
                          [task |-> t, seq |-> tasks[t].seq] \in queue
    BY DEF CoreInv, MemoryInv, QueueComplete
  <2> QED
    BY <2>1, <2>2, <2>3 DEF QueueExact
<1> QED
  BY <1>1, TypeInvariant, CoreInvariant, PTL

\* A stopped batch stays drained: cancelBatch cancels what is queued, and no
\* rollback, recovery, submission or restart queues a task of it again.
THEOREM StopIsFinal == Spec => []StoppedBatchDrained
<1>1. CoreInv => StoppedBatchDrained
  BY DEF CoreInv, MemoryInv
<1> QED
  BY <1>1, CoreInvariant, PTL

-----------------------------------------------------------------------------
(* The run history.                                                        *)

\* What one save makes of the task_runs table.
LEMMA SaveOneRuns ==
  ASSUME NEW t \in Task, NEW row, NEW override, saveOne(t, row, override)
  PROVE  \A r \in RunId :
           runs'[r] = IF writesRun(row, override, r)
                      THEN savedRun(t, row, override) ELSE runs[r]
<1> DEFINE rows == [u \in {t} |-> row]
<1> SUFFICES ASSUME NEW r \in RunId
             PROVE  runs'[r] = IF writesRun(row, override, r)
                               THEN savedRun(t, row, override) ELSE runs[r]
  OBVIOUS
<1>1. DOMAIN rows = {t} /\ rows[t] = row
  OBVIOUS
<1>2. runs'[r] = IF \E u \in DOMAIN rows : writesRun(rows[u], override, r)
                 THEN LET u == CHOOSE u \in DOMAIN rows : writesRun(rows[u], override, r)
                      IN  savedRun(u, rows[u], override)
                 ELSE runs[r]
  BY DEF saveOne, saveRows
<1> HIDE DEF rows
<1> DEFINE c == CHOOSE u \in DOMAIN rows : writesRun(rows[u], override, r)
<1>3. CASE writesRun(row, override, r)
  <2>1. c \in DOMAIN rows
    BY <1>1, <1>3
  <2>2. c = t
    BY <2>1, <1>1
  <2> QED
    BY <1>1, <1>2, <1>3, <2>2
<1>4. CASE ~ writesRun(row, override, r)
  BY <1>1, <1>2, <1>4
<1> QED
  BY <1>3, <1>4

\* Steps that touch neither the database nor the plan keep the history.
LEMMA HistoryQuiet ==
  ASSUME HistoryInv, UNCHANGED storeVars, UNCHANGED <<plan, nextRun>>
  PROVE  HistoryInv' /\ FinalKept
BY DEF HistoryInv, RunHistory, RunsFresh, Unused, FinalKept, storeVars

\* Without a worker, and without an override, save writes no run.
LEMMA SaveUnassigned ==
  ASSUME NEW rows, \A t \in DOMAIN rows : rows[t].worker = NoWorker,
         saveRows(rows, "")
  PROVE  \A r \in RunId : runs'[r] = runs[r]
<1>1. ASSUME NEW r \in RunId
      PROVE  ~ \E t \in DOMAIN rows : writesRun(rows[t], "", r)
  BY Zenon DEF writesRun
<1>2. runs' = [r \in RunId |->
       IF \E t \in DOMAIN rows : writesRun(rows[t], "", r)
       THEN LET t == CHOOSE t \in DOMAIN rows : writesRun(rows[t], "", r)
            IN  savedRun(t, rows[t], "")
       ELSE runs[r]]
  BY Zenon DEF saveRows
<1> QED
  BY Zenon, <1>1, <1>2

\* A save leaves a task's row alone or makes it the given one.
LEMMA SaveEach ==
  ASSUME NEW rows, NEW override, saveRows(rows, override)
  PROVE  \A t \in Task : db'[t] = db[t] \/ (t \in DOMAIN rows /\ db'[t] = rows[t])
<1>1. db' = [t \in Task |-> IF t \in DOMAIN rows THEN rows[t] ELSE db[t]]
  BY DEF saveRows
<1> SUFFICES ASSUME NEW t \in Task
             PROVE  db'[t] = db[t] \/ (t \in DOMAIN rows /\ db'[t] = rows[t])
  OBVIOUS
<1>2. db'[t] = IF t \in DOMAIN rows THEN rows[t] ELSE db[t]
  BY Zenon, <1>1
<1>3. CASE t \in DOMAIN rows
  BY Zenon, <1>2, <1>3
<1>4. CASE t \notin DOMAIN rows
  BY Zenon, <1>2, <1>4
<1> QED
  BY Zenon, <1>3, <1>4

\* Such a save, of submission and cancellation, keeps the history.
LEMMA HistoryUnassigned ==
  ASSUME TypeInv, HistoryInv,
         NEW rows, DOMAIN rows \subseteq Task,
         \A t \in DOMAIN rows : /\ db[t].status \notin Active \cup Terminal
                                /\ rows[t].status \notin Active,
         \A t \in Task : db'[t] = db[t] \/ (t \in DOMAIN rows /\ db'[t] = rows[t]),
         \A r \in RunId : runs'[r] = runs[r],
         stopRows \subseteq stopRows',
         \A k \in Key : keys[k] # NoTask => keys'[k] = keys[k],
         UNCHANGED <<decisions, plan, nextRun>>
  PROVE  HistoryInv' /\ FinalKept
<1>1. \A r \in RunId : runs'[r] = runs[r]
  OBVIOUS
<1>3. \A t \in Task : db'[t].status \in Active => db'[t] = db[t]
  BY Zenon
<1>4. \A t \in Task : db[t].status \in Active \cup Terminal => db'[t] = db[t]
  BY Zenon
<1>5. RunHistory'
  <2>1. ASSUME NEW r \in RunId, runs'[r].status \in Active
        PROVE  /\ runs'[r].task \in Task
               /\ db'[runs'[r].task].run = r
               /\ db'[runs'[r].task].status = runs'[r].status
               /\ db'[runs'[r].task].worker = runs'[r].worker
    BY <2>1, <1>1, <1>4 DEF HistoryInv, RunHistory
  <2>2. ASSUME NEW t \in Task, db'[t].status \in Active
        PROVE  /\ db'[t].run \in RunId
               /\ runs'[db'[t].run] = [task |-> t, worker |-> db'[t].worker,
                                       status |-> db'[t].status]
               /\ decisions'[db'[t].run] = Undecided
    BY <2>2, <1>1, <1>3 DEF HistoryInv, RunHistory
  <2> QED
    BY <2>1, <2>2 DEF RunHistory
<1>6. RunsFresh'
  <2>1. \A t \in Task : plan[t] # NoPlan => plan[t].run \in RunId
    BY DEF TypeInv, TypeOK
  <2> QED
    BY <1>1, <2>1 DEF HistoryInv, RunsFresh, Unused
<1>7. FinalKept
  BY <1>1, <1>4 DEF FinalKept
<1> QED
  BY <1>5, <1>6, <1>7 DEF HistoryInv

\* An active task has its run in the table.
LEMMA ActiveRun ==
  ASSUME HistoryInv, NEW t \in Task, db[t].status \in Active
  PROVE  /\ db[t].run \in RunId
         /\ runs[db[t].run].task = t
         /\ runs[db[t].run].worker = db[t].worker
         /\ runs[db[t].run].status = db[t].status
         /\ runs[db[t].run] # AbsentRun
         /\ decisions[db[t].run] = Undecided
<1>1. /\ db[t].run \in RunId
      /\ runs[db[t].run] = [task |-> t, worker |-> db[t].worker,
                            status |-> db[t].status]
      /\ decisions[db[t].run] = Undecided
  BY Zenon DEF HistoryInv, RunHistory
<1>2. AbsentRun.task # t
  BY Constants DEF AbsentRun
<1> QED
  BY <1>1, <1>2

\* The run an active task is in gets its new status and keeps its task and
\* worker; no other run is written.
LEMMA SaveActive ==
  ASSUME TypeInv, HistoryInv, NEW t \in Task, db[t].status \in Active,
         NEW row, row.run = db[t].run,
         NEW override, override # "" \/ row.worker # NoWorker,
         saveOne(t, row, override)
  PROVE  \A r \in RunId :
           runs'[r] = IF r = db[t].run
                      THEN [task |-> t, worker |-> db[t].worker,
                            status |-> IF override # "" THEN override ELSE row.status]
                      ELSE runs[r]
<1> SUFFICES ASSUME NEW r \in RunId
             PROVE  runs'[r] = IF r = db[t].run
                      THEN [task |-> t, worker |-> db[t].worker,
                            status |-> IF override # "" THEN override ELSE row.status]
                      ELSE runs[r]
  BY Zenon
<1>1. runs'[r] = IF writesRun(row, override, r)
                 THEN savedRun(t, row, override) ELSE runs[r]
  BY Zenon, SaveOneRuns
<1>2. writesRun(row, override, r) <=> r = db[t].run
  BY Zenon DEF writesRun
<1>3. runs[row.run].task = t /\ runs[row.run].worker = db[t].worker
  BY Zenon, ActiveRun
<1>4. runs[row.run] # AbsentRun
  BY Zenon, ActiveRun
<1>6. savedRun(t, row, override) =
        [task |-> t, worker |-> db[t].worker,
         status |-> IF override # "" THEN override ELSE row.status]
  BY Zenon, <1>3, <1>4 DEF savedRun
<1> QED
  BY Zenon, <1>1, <1>2, <1>6

\* A step that moves one active task on, with its run: start, result, loss and
\* rollback.
LEMMA HistoryMoves ==
  ASSUME TypeInv, HistoryInv, NEW t \in Task, db[t].status \in Active,
         NEW row, row.run = db[t].run, NEW status,
         \/ row.status \notin Active /\ status \notin Active
         \/ /\ row.status = status /\ row.worker = db[t].worker
            /\ UNCHANGED decisions,
         db' = [db EXCEPT ![t] = row],
         \A r \in RunId :
           runs'[r] = IF r = db[t].run
                      THEN [task |-> t, worker |-> db[t].worker, status |-> status]
                      ELSE runs[r],
         \A r \in RunId : r # db[t].run => decisions'[r] = decisions[r],
         UNCHANGED <<stopRows, keys, plan, nextRun>>
  PROVE  HistoryInv' /\ FinalKept
<1>1. /\ db[t].run \in RunId
      /\ runs[db[t].run].task = t
      /\ runs[db[t].run].status = db[t].status
      /\ runs[db[t].run] # AbsentRun
      /\ decisions[db[t].run] = Undecided
  BY Zenon, ActiveRun
<1>2. \A r \in RunId : r # db[t].run => runs'[r] = runs[r]
  BY Zenon
<1>3. db'[t] = row /\ \A u \in Task : u # t => db'[u] = db[u]
  BY DEF TypeInv, TypeOK, StoreType
<1>4. ASSUME NEW r \in RunId, runs'[r].status \in Active
      PROVE  /\ runs'[r].task \in Task
             /\ db'[runs'[r].task].run = r
             /\ db'[runs'[r].task].status = runs'[r].status
             /\ db'[runs'[r].task].worker = runs'[r].worker
  <2>1. CASE r = db[t].run
    <3>1. runs'[r] = [task |-> t, worker |-> db[t].worker, status |-> status]
      BY Zenon, <2>1
    <3>2. /\ runs'[r].task = t /\ runs'[r].worker = db[t].worker
          /\ runs'[r].status = status
      BY ONLY <3>1
    <3>3. status = row.status /\ row.worker = db[t].worker
      BY Zenon, <1>4, <3>2
    <3> QED
      BY Zenon, <1>3, <2>1, <3>2, <3>3
  <2>2. CASE r # db[t].run
    <3>1. runs'[r] = runs[r]
      BY Zenon, <1>2, <2>2
    <3>2. /\ runs[r].task \in Task
          /\ db[runs[r].task].run = r
          /\ db[runs[r].task].status = runs[r].status
          /\ db[runs[r].task].worker = runs[r].worker
      BY Zenon, <1>4, <3>1 DEF HistoryInv, RunHistory
    <3>3. runs[r].task # t
      BY Zenon, <2>2, <3>2
    <3> QED
      BY Zenon, <1>3, <3>1, <3>2, <3>3
  <2> QED
    BY <2>1, <2>2
<1>5. ASSUME NEW u \in Task, db'[u].status \in Active
      PROVE  /\ db'[u].run \in RunId
             /\ runs'[db'[u].run] = [task |-> u, worker |-> db'[u].worker,
                                     status |-> db'[u].status]
             /\ decisions'[db'[u].run] = Undecided
  <2>1. CASE u = t
    <3>1. db'[u] = row /\ row.status \in Active
      BY Zenon, <1>3, <1>5, <2>1
    <3>2. status = row.status /\ row.worker = db[t].worker /\ UNCHANGED decisions
      BY Zenon, <3>1
    <3> QED
      BY Zenon, <1>1, <2>1, <3>1, <3>2
  <2>2. CASE u # t
    <3>1. db'[u] = db[u]
      BY Zenon, <1>3, <2>2
    <3>2. /\ db[u].run \in RunId
          /\ runs[db[u].run] = [task |-> u, worker |-> db[u].worker,
                                status |-> db[u].status]
          /\ decisions[db[u].run] = Undecided
      BY Zenon, <1>5, <3>1 DEF HistoryInv, RunHistory
    <3>3. db[u].run # db[t].run
      BY ONLY <1>1, <2>2, <3>2
    <3> QED
      BY Zenon, <1>2, <3>1, <3>2, <3>3
  <2> QED
    BY <2>1, <2>2
<1>6. RunHistory'
  BY Zenon, <1>4, <1>5 DEF RunHistory
<1>7. ASSUME NEW r \in RunId, Unused(r)
      PROVE  Unused(r)'
  BY Zenon, <1>1, <1>2, <1>7 DEF Unused
<1>8. \A u \in Task : plan[u] # NoPlan => plan[u].run \in RunId
  BY DEF TypeInv, TypeOK
<1>9. RunsFresh'
  BY Zenon, <1>7, <1>8 DEF HistoryInv, RunsFresh
<1>10. FinalKept
  <2>1. db[t].status \notin Terminal
    BY DEF Active, Terminal
  <2>2. runs[db[t].run].status \in Active
    BY Zenon, <1>1
  <2> QED
    BY Zenon, <1>1, <1>2, <1>3, <2>1, <2>2 DEF FinalKept
<1> QED
  BY <1>6, <1>9, <1>10 DEF HistoryInv

\* What a planned task is committed with.
LEMMA PlannedRow ==
  ASSUME TypeInv, NEW t \in planned
  PROVE  /\ t \in Task /\ plan[t] # NoPlan
         /\ plan[t].worker \in Worker /\ plan[t].worker # NoWorker
         /\ plan[t].run \in RunId
         /\ assignedRow(t).run = plan[t].run
         /\ assignedRow(t).worker = plan[t].worker
         /\ assignedRow(t).status = "ASSIGNED"
<1>1. t \in Task /\ plan[t] # NoPlan
  BY DEF planned
<1>2. plan[t].worker \in Worker /\ plan[t].run \in RunId /\ tasks[t] \in TaskRow
  BY <1>1 DEF TypeInv, TypeOK
<1>3. plan[t].worker # NoWorker
  BY <1>2, Constants
<1> QED
  BY <1>1, <1>2, <1>3 DEF assignedRow, TaskRow

\* The commit of a pass opens a run of its own for each planned task.
LEMMA CommitRuns ==
  ASSUME TypeInv, HistoryInv,
         saveRows([t \in planned |-> assignedRow(t)], "")
  PROVE  /\ \A t \in planned : runs'[plan[t].run] = [task |-> t,
                worker |-> plan[t].worker, status |-> "ASSIGNED"]
         /\ \A r \in RunId : (\A t \in planned : plan[t].run # r) => runs'[r] = runs[r]
<1> DEFINE rows == [t \in planned |-> assignedRow(t)]
           writer(r) == CHOOSE t \in DOMAIN rows : writesRun(rows[t], "", r)
<1>1. \A t \in planned : plan[t].worker # NoWorker /\ plan[t].run \in RunId
  BY Zenon, PlannedRow
<1>2. \A t \in planned : /\ assignedRow(t).run = plan[t].run
                         /\ assignedRow(t).worker = plan[t].worker
                         /\ assignedRow(t).status = "ASSIGNED"
  BY Zenon, PlannedRow
<1>3. DOMAIN rows = planned /\ \A t \in planned : rows[t] = assignedRow(t)
  BY Zenon
<1>4. ASSUME NEW r \in RunId
      PROVE  runs'[r] = IF \E t \in DOMAIN rows : writesRun(rows[t], "", r)
                        THEN savedRun(writer(r), rows[writer(r)], "")
                        ELSE runs[r]
  BY Zenon DEF saveRows
<1> HIDE DEF rows
<1>5. ASSUME NEW r \in RunId, NEW t \in planned
      PROVE  writesRun(rows[t], "", r) <=> plan[t].run = r
  BY Zenon, <1>1, <1>2, <1>3 DEF writesRun
<1>6. ASSUME NEW t \in planned
      PROVE  runs'[plan[t].run] = [task |-> t, worker |-> plan[t].worker,
                                   status |-> "ASSIGNED"]
  <2> DEFINE r == plan[t].run
  <2>1. r \in RunId
    BY Zenon, <1>1
  <2> HIDE DEF r
  <2>2. t \in DOMAIN rows /\ writesRun(rows[t], "", r)
    BY Zenon, <1>3, <1>5, <2>1 DEF r
  <2>3. writer(r) \in planned /\ plan[writer(r)].run = r
    <3>1. writer(r) \in DOMAIN rows /\ writesRun(rows[writer(r)], "", r)
      BY Zenon, <2>2
    <3> QED
      BY Zenon, <3>1, <1>3, <1>5, <2>1
  <2> HIDE DEF writer
  <2>4. writer(r) = t
    BY Zenon, <2>3 DEF HistoryInv, RunsFresh, planned, r
  <2>5. runs[r] = AbsentRun
    BY Zenon DEF HistoryInv, RunsFresh, Unused, planned, r
  <2>6. runs'[r] = savedRun(t, rows[t], "")
    BY Zenon, <1>4, <2>1, <2>2, <2>4
  <2>7. savedRun(t, rows[t], "") = [task |-> t, worker |-> rows[t].worker,
                                    status |-> rows[t].status]
    BY Zenon, <2>5, <1>2, <1>3 DEF savedRun, r
  <2> QED
    BY Zenon, <2>6, <2>7, <1>2, <1>3 DEF r
<1>7. ASSUME NEW r \in RunId, \A t \in planned : plan[t].run # r
      PROVE  runs'[r] = runs[r]
  BY Zenon, <1>3, <1>4, <1>5, <1>7
<1> QED
  BY Zenon, <1>6, <1>7

\* The commit of a pass keeps the history: a planned task was queued, its run
\* id was unused, and no two of them share one.
LEMMA HistoryCommit ==
  ASSUME TypeInv, CoreInv, HistoryInv, ScheduleCommit
  PROVE  HistoryInv' /\ FinalKept
<1>1. /\ \A t \in planned : runs'[plan[t].run] = [task |-> t,
                worker |-> plan[t].worker, status |-> "ASSIGNED"]
      /\ \A r \in RunId : (\A t \in planned : plan[t].run # r) => runs'[r] = runs[r]
  BY Zenon, CommitRuns DEF ScheduleCommit
<1>2. /\ UNCHANGED <<decisions, stopRows, keys, nextRun>>
      /\ \A t \in Task : plan'[t] = NoPlan
  BY Zenon DEF ScheduleCommit, worldVars
<1>3. /\ \A t \in planned : db'[t] = assignedRow(t)
      /\ \A t \in Task : t \notin planned => db'[t] = db[t]
  BY Zenon DEF ScheduleCommit, saveRows, planned
<1>4. ASSUME NEW t \in planned
      PROVE  /\ t \in Task /\ plan[t].run \in RunId /\ plan[t].run < nextRun
             /\ runs[plan[t].run] = AbsentRun
             /\ decisions[plan[t].run] = Undecided
             /\ db[t].status = "QUEUED"
             /\ db'[t].run = plan[t].run /\ db'[t].worker = plan[t].worker
             /\ db'[t].status = "ASSIGNED"
  <2>1. t \in Task /\ plan[t] # NoPlan
    BY Zenon, PlannedRow
  <2>2. plan[t].run \in RunId
    BY Zenon, PlannedRow
  <2>3. plan[t].run < nextRun /\ Unused(plan[t].run)
    BY Zenon, <2>1 DEF HistoryInv, RunsFresh
  <2>4. tasks[t].status = "QUEUED"
    BY Zenon, <2>1 DEF CoreInv, PassInv, PlanExact
  <2>5. db[t] = tasks[t]
    <3>1. tasks[t].status # "ABSENT"
      BY <2>4
    <3> QED
      BY Zenon, <2>1, <3>1 DEF CoreInv, MemoryInv, StoreAgrees
  <2>6. /\ assignedRow(t).run = plan[t].run
        /\ assignedRow(t).worker = plan[t].worker
        /\ assignedRow(t).status = "ASSIGNED"
    BY Zenon, PlannedRow
  <2> QED
    BY Zenon, <1>3, <2>1, <2>2, <2>3, <2>4, <2>5, <2>6 DEF Unused
<1>5. ASSUME NEW r \in RunId, runs'[r].status \in Active
      PROVE  /\ runs'[r].task \in Task
             /\ db'[runs'[r].task].run = r
             /\ db'[runs'[r].task].status = runs'[r].status
             /\ db'[runs'[r].task].worker = runs'[r].worker
  <2>1. CASE \E t \in planned : plan[t].run = r
    <3>1. PICK t \in planned : plan[t].run = r
      BY <2>1
    <3>2. runs'[r] = [task |-> t, worker |-> plan[t].worker, status |-> "ASSIGNED"]
      BY Zenon, <1>1, <3>1
    <3>3. /\ runs'[r].task = t /\ runs'[r].worker = plan[t].worker
          /\ runs'[r].status = "ASSIGNED"
      BY ONLY <3>2
    <3> QED
      BY Zenon, <1>4, <3>1, <3>3
  <2>2. CASE \A t \in planned : plan[t].run # r
    <3>1. runs'[r] = runs[r]
      BY Zenon, <1>1, <2>2
    <3>2. /\ runs[r].task \in Task
          /\ db[runs[r].task].run = r
          /\ db[runs[r].task].status = runs[r].status
          /\ db[runs[r].task].worker = runs[r].worker
      BY Zenon, <1>5, <3>1 DEF HistoryInv, RunHistory
    <3>3. runs[r].task \notin planned
      <4>1. db[runs[r].task].status \in Active
        BY Zenon, <1>5, <3>1, <3>2
      <4>2. db[runs[r].task].status # "QUEUED"
        BY <4>1 DEF Active
      <4> QED
        BY Zenon, <1>4, <4>2
    <3> QED
      BY Zenon, <1>3, <3>1, <3>2, <3>3
  <2> QED
    BY Zenon, <2>1, <2>2
<1>6. ASSUME NEW t \in Task, db'[t].status \in Active
      PROVE  /\ db'[t].run \in RunId
             /\ runs'[db'[t].run] = [task |-> t, worker |-> db'[t].worker,
                                     status |-> db'[t].status]
             /\ decisions'[db'[t].run] = Undecided
  <2>1. CASE t \in planned
    <3>1. runs'[plan[t].run] = [task |-> t, worker |-> plan[t].worker,
                                status |-> "ASSIGNED"]
      BY Zenon, <1>1, <2>1
    <3>2. /\ plan[t].run \in RunId /\ decisions[plan[t].run] = Undecided
          /\ db'[t].run = plan[t].run /\ db'[t].worker = plan[t].worker
          /\ db'[t].status = "ASSIGNED"
      BY Zenon, <1>4, <2>1
    <3>3. decisions' = decisions
      BY Zenon, <1>2
    <3> QED
      BY ONLY <3>1, <3>2, <3>3
  <2>2. CASE t \notin planned
    <3>1. db'[t] = db[t]
      BY Zenon, <1>3, <2>2
    <3>2. /\ db[t].run \in RunId
          /\ runs[db[t].run] = [task |-> t, worker |-> db[t].worker,
                                status |-> db[t].status]
          /\ decisions[db[t].run] = Undecided
      BY Zenon, <1>6, <3>1 DEF HistoryInv, RunHistory
    <3>3. runs[db[t].run] # AbsentRun
      BY Zenon, <1>6, <3>1, ActiveRun
    <3>4. \A u \in planned : plan[u].run # db[t].run
      BY Zenon, <1>4, <3>3
    <3> QED
      BY Zenon, <1>1, <1>2, <3>1, <3>2, <3>4
  <2> QED
    BY Zenon, <2>1, <2>2
<1>7. RunHistory'
  BY Zenon, <1>5, <1>6 DEF RunHistory
<1>8. RunsFresh'
  <2>1. nextRun \in Nat
    BY StoreAssumption DEF TypeInv, TypeOK
  <2>2. ASSUME NEW r \in RunId, r >= nextRun
        PROVE  Unused(r)'
    <3>1. \A t \in planned : plan[t].run # r
      BY <1>4, <2>1, <2>2, Constants
    <3>2. Unused(r)
      BY Zenon, <2>2 DEF HistoryInv, RunsFresh
    <3> QED
      BY Zenon, <1>1, <1>2, <3>1, <3>2 DEF Unused
  <2> QED
    BY Zenon, <1>2, <2>2 DEF RunsFresh
<1>9. FinalKept
  <2>1. \A t \in Task : db[t].status \in Terminal => db'[t] = db[t]
    <3>1. \A t \in planned : db[t].status \notin Terminal
      BY <1>4 DEF Terminal
    <3> QED
      BY Zenon, <1>3, <3>1
  <2>2. ASSUME NEW r \in RunId, runs[r].status \notin Active \cup {"NONE"}
        PROVE  runs'[r] = runs[r]
    <3>1. runs[r] # AbsentRun
      BY <2>2 DEF AbsentRun
    <3> QED
      BY Zenon, <1>1, <1>4, <3>1
  <2> QED
    BY Zenon, <1>2, <2>1, <2>2 DEF FinalKept
<1> QED
  BY <1>7, <1>8, <1>9 DEF HistoryInv

\* A step that leaves the database alone and keeps or drops planned runs.
LEMMA HistoryPlanShrinks ==
  ASSUME HistoryInv, UNCHANGED storeVars, UNCHANGED nextRun,
         \A t \in Task : plan'[t] = plan[t] \/ plan'[t] = NoPlan
  PROVE  HistoryInv' /\ FinalKept
<1>1. RunHistory' /\ FinalKept
  BY DEF HistoryInv, RunHistory, FinalKept, storeVars
<1>2. \A r : Unused(r)' <=> Unused(r)
  BY DEF Unused, storeVars
<1>3. RunsFresh'
  BY Zenon, <1>2 DEF HistoryInv, RunsFresh
<1> QED
  BY <1>1, <1>3 DEF HistoryInv

\* Planning an assignment draws a run id that was never used.
LEMMA HistoryAcquire ==
  ASSUME TypeInv, HistoryInv, ScheduleAcquire
  PROVE  HistoryInv' /\ FinalKept
<1>1. PICK e \in pending :
        plan' = [plan EXCEPT ![e.task] = [worker |-> picked, run |-> nextRun]]
  BY Zenon DEF ScheduleAcquire
<1> DEFINE t == e.task
<1>2. /\ UNCHANGED storeVars /\ nextRun' = nextRun + 1
      /\ nextRun \in RunId /\ nextRun \in Nat
  <2>1. /\ UNCHANGED storeVars /\ nextRun' = nextRun + 1 /\ nextRun \in RunId
    BY Zenon DEF ScheduleAcquire, TypeInv, PassShape
  <2> QED
    BY ONLY <2>1, Constants
<1>3. t \in Task
  BY DEF TypeInv, TypeOK, Entry
<1> HIDE DEF t
<1>4. /\ plan'[t].run = nextRun
      /\ \A u \in Task : u # t => plan'[u] = plan[u]
  BY <1>1, <1>3 DEF TypeInv, TypeOK, t
<1>5. RunHistory' /\ FinalKept
  BY <1>2 DEF HistoryInv, RunHistory, FinalKept, storeVars
<1>6. \A r : Unused(r)' <=> Unused(r)
  BY <1>2 DEF Unused, storeVars
<1>7. \A r \in RunId : r >= nextRun => Unused(r)
  BY DEF HistoryInv, RunsFresh
<1>8. Unused(nextRun)
  BY <1>2, <1>7
<1>9. \A u \in Task : u # t /\ plan'[u] # NoPlan =>
        plan'[u].run \in Nat /\ plan'[u].run < nextRun /\ Unused(plan'[u].run)
  <2>1. \A u \in Task : plan[u] # NoPlan => plan[u].run \in Nat
    <3>1. plan \in [Task -> [worker : Worker, run : RunId] \cup {NoPlan}]
      BY Zenon DEF TypeInv, TypeOK
    <3> QED
      BY ONLY Zenon, <3>1, Constants
  <2> QED
    BY Zenon, <1>4, <2>1 DEF HistoryInv, RunsFresh
<1>10. ASSUME NEW u \in Task, plan'[u] # NoPlan
       PROVE  plan'[u].run < nextRun' /\ Unused(plan[u].run)'
  <2>1. CASE u = t
    <3>1. plan'[u].run = nextRun
      BY Zenon, <1>4, <2>1
    <3>2. Unused(plan[u].run)'
      BY Zenon, <1>6, <1>8, <3>1 DEF Unused
    <3> QED
      BY ONLY <1>2, <3>1, <3>2
  <2>2. CASE u # t
    <3>1. /\ plan'[u].run \in Nat /\ plan'[u].run < nextRun
          /\ Unused(plan'[u].run)
      BY Zenon, <1>9, <1>10, <2>2
    <3>2. Unused(plan[u].run)'
      BY Zenon, <1>6, <3>1 DEF Unused
    <3> QED
      BY ONLY <1>2, <3>1, <3>2
  <2> QED
    BY <2>1, <2>2
<1>11. ASSUME NEW u \in Task, NEW v \in Task, plan'[u] # NoPlan,
              plan'[v] # NoPlan, plan'[u].run = plan'[v].run
       PROVE  u = v
  <2>1. CASE u # t /\ v # t
    BY Zenon, <1>4, <1>11, <2>1 DEF HistoryInv, RunsFresh
  <2>2. CASE u = t \/ v = t
    BY <1>2, <1>4, <1>9, <1>11, <2>2
  <2> QED
    BY <2>1, <2>2
<1>12. \A r \in RunId : r >= nextRun' => Unused(r)'
  BY <1>2, <1>6, <1>7, Constants
<1>13. RunsFresh'
  BY ONLY <1>10, <1>11, <1>12 DEF RunsFresh
<1> QED
  BY <1>5, <1>13 DEF HistoryInv

\* The constructor of StateStore marks rows and leaves the runs alone.
LEMMA HistoryRestart ==
  ASSUME TypeInv, HistoryInv, Restart
  PROVE  HistoryInv' /\ FinalKept
<1>1. /\ UNCHANGED <<runs, decisions, stopRows, keys, nextRun>>
      /\ plan' = [t \in Task |-> NoPlan]
      /\ db' = [t \in Task |-> IF db[t].status \in Active
                               THEN [db[t] EXCEPT !.recovery = TRUE] ELSE db[t]]
  BY Zenon DEF Restart, markRecovery, worldVars
<1>2. ASSUME NEW t \in Task
      PROVE  /\ db'[t].status = db[t].status /\ db'[t].run = db[t].run
             /\ db'[t].worker = db[t].worker
             /\ db[t].status \in Terminal => db'[t] = db[t]
  <2>1. db[t] \in TaskRow
    BY DEF TypeInv, TypeOK, StoreType
  <2> QED
    BY <1>1, <2>1 DEF TaskRow, Active, Terminal
<1>3. RunHistory'
  BY <1>1, <1>2 DEF HistoryInv, RunHistory
<1>4. \A t \in Task : plan'[t] = NoPlan
  BY Zenon, <1>1
<1>5. \A r : Unused(r)' <=> Unused(r)
  BY <1>1 DEF Unused
<1>6. RunsFresh'
  BY Zenon, <1>1, <1>4, <1>5 DEF HistoryInv, RunsFresh
<1>7. FinalKept
  BY <1>1, <1>2 DEF FinalKept
<1> QED
  BY <1>3, <1>6, <1>7 DEF HistoryInv

\* What the memory says of a resident task, the database says too.
LEMMA Resident ==
  ASSUME CoreInv, NEW t \in Task, tasks[t].status # "ABSENT"
  PROVE  db[t] = tasks[t]
BY Zenon DEF CoreInv, MemoryInv, StoreAgrees

\* A submission writes the row of a new task, and no run.
LEMMA HistorySubmit ==
  ASSUME TypeInv, HistoryInv, NEW t \in Task, NEW k \in Key \cup {NoKey},
         submitTask(t, k)
  PROVE  HistoryInv' /\ FinalKept
<1> DEFINE row  == [AbsentTask EXCEPT !.status = "QUEUED", !.seq = nextSeq]
           rows == [u \in {t} |-> row]
<1>1. /\ saveRows(rows, "") /\ acceptsSubmit(t, k)
      /\ keys' = IF k = NoKey THEN keys ELSE [keys EXCEPT ![k] = t]
      /\ UNCHANGED <<decisions, stopRows, plan, nextRun>>
  BY Zenon DEF submitTask, saveOne, passVars, worldVars
<1>2. row.worker = NoWorker /\ row.status = "QUEUED"
  BY Zenon DEF AbsentTask
<1>3. DOMAIN rows = {t} /\ rows[t] = row
  BY Zenon
<1> HIDE DEF row
<1> HIDE DEF rows
<1>4. \A r \in RunId : runs'[r] = runs[r]
  BY Zenon, <1>1, <1>2, <1>3, SaveUnassigned
<1>5. /\ db[t].status = "ABSENT" /\ db[t].status \notin Active \cup Terminal
      /\ row.status \notin Active
  BY Zenon, <1>1, <1>2 DEF acceptsSubmit, Active, Terminal
<1>6. \A j \in Key : keys[j] # NoTask => keys'[j] = keys[j]
  BY Zenon, <1>1 DEF acceptsSubmit, TypeInv, TypeOK, StoreType
<1>7. \A u \in Task : db'[u] = db[u] \/ (u \in DOMAIN rows /\ db'[u] = rows[u])
  BY Zenon, <1>1, SaveEach
<1> QED
  BY Zenon, <1>1, <1>3, <1>4, <1>5, <1>6, <1>7, HistoryUnassigned

\* Cancellation closes queued tasks, which have no worker and no open run.
LEMMA HistoryCancelled ==
  ASSUME TypeInv, CoreInv, HistoryInv, NEW changed \in SUBSET Task,
         \A t \in changed : tasks[t].status = "QUEUED",
         NEW rows, DOMAIN rows = changed,
         \A t \in changed : rows[t] = [tasks[t] EXCEPT !.status = "CANCELLED"],
         saveRows(rows, ""), stopRows \subseteq stopRows',
         UNCHANGED <<decisions, keys, plan, nextRun>>
  PROVE  HistoryInv' /\ FinalKept
<1>1. ASSUME NEW t \in changed
      PROVE  /\ db[t].status \notin Active \cup Terminal
             /\ rows[t].status \notin Active /\ rows[t].worker = NoWorker
  <2>1. tasks[t] \in TaskRow /\ RowShape(tasks[t]) /\ tasks[t].status = "QUEUED"
    BY Zenon DEF TypeInv, TypeOK
  <2>2. db[t] = tasks[t]
    BY Zenon, <2>1, Resident
  <2>3. rows[t].status = "CANCELLED" /\ rows[t].worker = tasks[t].worker
    BY Zenon, <2>1 DEF TaskRow
  <2>4. tasks[t].worker = NoWorker
    BY Zenon, <2>1 DEF RowShape
  <2> QED
    BY Zenon, <2>1, <2>2, <2>3, <2>4 DEF Active, Terminal
<1>2. \A r \in RunId : runs'[r] = runs[r]
  BY Zenon, <1>1, SaveUnassigned
<1>3. \A u \in Task : db'[u] = db[u] \/ (u \in DOMAIN rows /\ db'[u] = rows[u])
  BY Zenon, SaveEach
<1> QED
  BY Zenon, <1>1, <1>2, <1>3, HistoryUnassigned

\* CANCEL_TASK keeps the history.
LEMMA HistoryCancelTask ==
  ASSUME TypeInv, CoreInv, HistoryInv, NEW t \in Task, cancelTask(t)
  PROVE  HistoryInv' /\ FinalKept
<1> DEFINE row  == [tasks[t] EXCEPT !.status = "CANCELLED"]
           rows == [u \in {t} |-> row]
<1>1. /\ saveRows(rows, "") /\ tasks[t].status = "QUEUED"
      /\ UNCHANGED <<decisions, stopRows, keys, plan, nextRun>>
  BY Zenon DEF cancelTask, saveOne, passVars, worldVars
<1>2. DOMAIN rows = {t} /\ rows[t] = row
  BY Zenon
<1> HIDE DEF rows
<1>3. {t} \in SUBSET Task /\ \A u \in {t} : u = t
  BY Zenon
<1> QED
  BY Zenon, <1>1, <1>2, <1>3, HistoryCancelled

\* CANCEL_BATCH keeps the history.
LEMMA HistoryCancelBatch ==
  ASSUME TypeInv, CoreInv, HistoryInv, NEW b \in Batch, cancelBatch(b)
  PROVE  HistoryInv' /\ FinalKept
<1> DEFINE changed == {t \in Task : BatchOf[t] = b /\ tasks[t].status = "QUEUED"}
           rows == [t \in changed |-> [tasks[t] EXCEPT !.status = "CANCELLED"]]
<1>1. /\ saveRows(rows, "") /\ stopRows \subseteq stopRows'
      /\ UNCHANGED <<decisions, keys, plan, nextRun>>
  BY Zenon DEF cancelBatch, passVars, worldVars
<1>2. /\ DOMAIN rows = changed
      /\ \A t \in changed : rows[t] = [tasks[t] EXCEPT !.status = "CANCELLED"]
  BY Zenon
<1> HIDE DEF rows
<1>3. changed \in SUBSET Task /\ \A t \in changed : tasks[t].status = "QUEUED"
  BY Zenon
<1> HIDE DEF changed
<1> QED
  BY Zenon, <1>1, <1>2, <1>3, HistoryCancelled

\* A save that moves an active task on.
LEMMA HistorySaves ==
  ASSUME TypeInv, CoreInv, HistoryInv, NEW t \in Task, tasks[t].status \in Active,
         NEW row, row.run = tasks[t].run,
         NEW override, override # "" \/ row.worker # NoWorker,
         NEW status, status = IF override # "" THEN override ELSE row.status,
         \/ row.status \notin Active /\ status \notin Active
         \/ /\ row.status = status /\ row.worker = tasks[t].worker
            /\ UNCHANGED decisions,
         saveOne(t, row, override),
         \A r \in RunId : r # tasks[t].run => decisions'[r] = decisions[r],
         UNCHANGED <<stopRows, keys, plan, nextRun>>
  PROVE  HistoryInv' /\ FinalKept
<1>1. tasks[t].status # "ABSENT"
  BY Zenon DEF Active
<1>2. db[t] = tasks[t]
  BY Zenon, <1>1, Resident
<1>3. db' = [db EXCEPT ![t] = row]
  BY Zenon, SaveOne DEF TypeInv, TypeOK, StoreType
<1>4. db[t].status \in Active /\ row.run = db[t].run
  BY Zenon, <1>2
<1>5. \A r \in RunId :
        runs'[r] = IF r = db[t].run
                   THEN [task |-> t, worker |-> db[t].worker,
                         status |-> IF override # "" THEN override ELSE row.status]
                   ELSE runs[r]
  BY Zenon, <1>4, SaveActive
<1>6. \A r \in RunId :
        runs'[r] = IF r = db[t].run
                   THEN [task |-> t, worker |-> db[t].worker, status |-> status]
                   ELSE runs[r]
  BY ONLY Zenon, <1>5, status = IF override # "" THEN override ELSE row.status
<1>7. \/ row.status \notin Active /\ status \notin Active
      \/ /\ row.status = status /\ row.worker = db[t].worker
         /\ UNCHANGED decisions
  BY Zenon, <1>2
<1>8. \A r \in RunId : r # db[t].run => decisions'[r] = decisions[r]
  BY Zenon, <1>2
<1> QED
  BY ONLY Zenon, TypeInv, HistoryInv, t \in Task, <1>3, <1>4, <1>6, <1>7, <1>8,
     UNCHANGED <<stopRows, keys, plan, nextRun>>, HistoryMoves

\* A rollback closes the run as DISPATCH_FAILED with the row that gives it up.
LEMMA HistoryRollback ==
  ASSUME TypeInv, CoreInv, HistoryInv, rollbackAssignment
  PROVE  HistoryInv' /\ FinalKept
<1> DEFINE t   == current.task
           row == rolledBackRow(t)
<1>1. /\ pass = "rollback" /\ canRollback(t) /\ saveOne(t, row, "DISPATCH_FAILED")
      /\ UNCHANGED <<decisions, stopRows, keys, plan, nextRun>>
  BY Zenon DEF rollbackAssignment, worldVars
<1>2. t \in Task /\ tasks[t] \in TaskRow
  BY Zenon, <1>1 DEF TypeInv, TypeOK, PassShape
<1>3. tasks[t].status \in Active
  BY Zenon, <1>1 DEF canRollback, Active
<1>4. row.run = tasks[t].run /\ row.status \notin Active
  BY Zenon, <1>2 DEF rolledBackRow, TaskRow, Active
<1>5. "DISPATCH_FAILED" # "" /\ "DISPATCH_FAILED" \notin Active
  BY Zenon DEF Active
<1> HIDE DEF t, row
<1> QED
  BY Zenon, <1>1, <1>2, <1>3, <1>4, <1>5, HistorySaves

\* TASK_START moves the run and its task together, or changes nothing.
LEMMA HistoryTaskStart ==
  ASSUME TypeInv, CoreInv, HistoryInv, NEW t \in Task, NEW w \in Worker,
         NEW r \in RunId, TaskStart(t, w, r)
  PROVE  HistoryInv' /\ FinalKept
<1>1. UNCHANGED <<decisions, stopRows, keys, plan, nextRun>>
  BY Zenon DEF TaskStart, passVars
<1>2. CASE startable(t, w, r)
  <2> DEFINE row == [tasks[t] EXCEPT !.status = "RUNNING"]
  <2>1. saveOne(t, row, "")
    BY Zenon, <1>2 DEF TaskStart
  <2>2. tasks[t] \in TaskRow /\ NoWorker \notin Worker
    BY Zenon, Constants DEF TypeInv, TypeOK
  <2>3. tasks[t].status \in Active /\ tasks[t].worker = w
    BY Zenon, <1>2 DEF startable, Active
  <2>4. row.run = tasks[t].run /\ row.worker = tasks[t].worker
    BY Zenon, <2>2 DEF TaskRow
  <2> HIDE DEF row
  <2>5. row.worker # NoWorker
    BY Zenon, <2>2, <2>3, <2>4
  <2> QED
    BY Zenon, <1>1, <2>1, <2>3, <2>4, <2>5, HistorySaves
<1>3. CASE ~ startable(t, w, r)
  <2>1. UNCHANGED <<db, runs>>
    BY Zenon, <1>3 DEF TaskStart
  <2> QED
    BY Zenon, <1>1, <2>1, HistoryQuiet DEF storeVars
<1> QED
  BY Zenon, <1>2, <1>3

\* TASK_RESULT closes the run with its task, or changes nothing.
LEMMA HistoryTaskResult ==
  ASSUME TypeInv, CoreInv, HistoryInv, NEW t \in Task, NEW w \in Worker,
         NEW r \in RunId, NEW s \in {"SUCCEEDED", "FAILED", "TIMEOUT"},
         TaskResult(t, w, r, s)
  PROVE  HistoryInv' /\ FinalKept
<1>1. UNCHANGED <<decisions, stopRows, keys, plan, nextRun>>
  BY Zenon DEF TaskResult, passVars
<1>2. CASE finishable(t, w, r)
  <2> DEFINE row == [tasks[t] EXCEPT !.status = s, !.recovery = FALSE]
  <2>1. saveOne(t, row, "")
    BY Zenon, <1>2 DEF TaskResult, completeTask
  <2>2. tasks[t] \in TaskRow /\ NoWorker \notin Worker
    BY Zenon, Constants DEF TypeInv, TypeOK
  <2>3. tasks[t].status \in Active /\ tasks[t].worker = w
    BY Zenon, <1>2 DEF finishable, Active
  <2>4. /\ row.run = tasks[t].run /\ row.worker = tasks[t].worker
        /\ row.status \notin Active
    BY Zenon, <2>2 DEF TaskRow, Active
  <2> HIDE DEF row
  <2>5. row.worker # NoWorker
    BY Zenon, <2>2, <2>3, <2>4
  <2> QED
    BY Zenon, <1>1, <2>1, <2>3, <2>4, <2>5, HistorySaves
<1>3. CASE ~ finishable(t, w, r)
  <2>1. UNCHANGED <<db, runs>>
    BY Zenon, <1>3 DEF TaskResult
  <2> QED
    BY Zenon, <1>1, <2>1, HistoryQuiet DEF storeVars
<1> QED
  BY Zenon, <1>2, <1>3

\* Giving up a run closes it and enters the decision about it.
LEMMA HistoryLost ==
  ASSUME TypeInv, CoreInv, HistoryInv, NEW t \in Task, tasks[t].status \in Active,
         recoverLost(t), UNCHANGED <<stopRows, keys, plan, nextRun>>
  PROVE  HistoryInv' /\ FinalKept
<1> DEFINE row == lostRow(t)
<1>1. saveOne(t, row, "FAILED")
  BY Zenon DEF recoverLost
<1>2. row.run = tasks[t].run /\ row.status \notin Active
  BY Zenon DEF lostRow, Active
<1>3. \A r \in RunId : r # tasks[t].run => decisions'[r] = decisions[r]
  <2>1. PICK d : decisions' = [decisions EXCEPT ![tasks[t].run] = d]
    BY Zenon DEF recoverLost
  <2>2. decisions \in [RunId -> Decision]
    BY Zenon DEF TypeInv, TypeOK, StoreType
  <2> QED
    BY Zenon, <2>1, <2>2
<1>4. "FAILED" # "" /\ "FAILED" \notin Active
  BY Zenon DEF Active
<1> HIDE DEF row
<1> QED
  BY Zenon, <1>1, <1>2, <1>3, <1>4, HistorySaves

\* Recovery gives up an active run, by a "lost" request or for an idle worker.
LEMMA HistoryRecover ==
  ASSUME TypeInv, CoreInv, HistoryInv, NEW t \in Task,
         \/ \E w \in Worker, r \in RunId : RecoverLost(t, w, r)
         \/ IdleRequeue(t)
  PROVE  HistoryInv' /\ FinalKept
<1>1. tasks[t].status \in Active
  BY Zenon DEF RecoverLost, IdleRequeue, lostAccepted, claimsActive, Active
<1>2. recoverLost(t) /\ UNCHANGED <<stopRows, keys, plan, nextRun>>
  BY Zenon DEF RecoverLost, IdleRequeue, passVars, worldVars
<1> QED
  BY Zenon, <1>1, <1>2, HistoryLost

\* Every step of the scheduling core keeps the history, and what is final.
LEMMA HistoryNext ==
  TypeInv /\ CoreInv /\ HistoryInv /\ [Next]_vars => HistoryInv' /\ FinalKept
<1> SUFFICES ASSUME TypeInv, CoreInv, HistoryInv, [Next]_vars
             PROVE  HistoryInv' /\ FinalKept
  BY Zenon
<1>q. UNCHANGED storeVars /\ UNCHANGED <<plan, nextRun>> => HistoryInv' /\ FinalKept
  BY Zenon, HistoryQuiet
<1>1. CASE Coordinate
  <2>1. CASE \/ PassStart \/ ScheduleBegin \/ ScheduleStop
             \/ \E w \in Worker : ScheduleSelect(w)
             \/ ScheduleAcquireFails \/ DispatchClaim \/ DispatchSkip
             \/ DispatchSend \/ DispatchReturn \/ DispatchFail
             \/ RollbackRefused \/ PassEnd
    BY Zenon, <1>q, <2>1
       DEF PassStart, ScheduleBegin, ScheduleStop, ScheduleSelect,
           ScheduleAcquireFails, DispatchClaim, DispatchSkip, DispatchSend,
           DispatchReturn, DispatchFail, RollbackRefused, PassEnd, worldVars
  <2> QED
    BY Zenon, <1>1, <2>1, HistoryAcquire, HistoryCommit, HistoryRollback
       DEF Coordinate
<1>2. CASE Client
  BY Zenon, <1>2, HistorySubmit, HistoryCancelTask, HistoryCancelBatch DEF Client
<1>3. CASE Execution
  BY Zenon, <1>3, HistoryTaskStart, HistoryTaskResult DEF Execution
<1>4. CASE Recovery
  <2>1. CASE \/ \E t \in Task, w \in Worker, r \in RunId : RecoverActive(t, w, r)
             \/ \E w \in Worker : RecoverIdle(w)
             \/ IdleBlocked \/ IdleReady
    BY Zenon, <1>q, <2>1
       DEF RecoverActive, RecoverIdle, IdleBlocked, IdleReady, passVars, worldVars
  <2> QED
    BY Zenon, <1>4, <2>1, HistoryRecover DEF Recovery
<1>5. CASE RecoveryRegister \/ PlainRegister \/ Heartbeat \/ Close \/ Unavailability
  <2>1. UNCHANGED storeVars /\ UNCHANGED <<passVars, worldVars>>
    BY Zenon, <1>5
       DEF RecoveryRegister, PlainRegister, Heartbeat, Close, Unavailability,
           WorkerRegister, WorkerRegisterRefused, WorkerHeartbeat, WorkerClose,
           WorkerDrain, ChangePolicy, LivenessCheck
  <2> QED
    BY Zenon, <1>q, <2>1 DEF passVars, worldVars
<1>6. CASE Exception
  <2>1. CASE \/ ScheduleThrows \/ ScheduleRethrow \/ DispatchClaimThrows
             \/ RollbackThrows \/ IdleThrows
             \/ \E t \in Task, w \in Worker, r \in RunId : RecoverLostThrows(t, w, r)
             \/ \E t \in Task, k \in Key \cup {NoKey} : SubmitThrows(t, k)
    BY Zenon, <1>q, <2>1
       DEF ScheduleThrows, ScheduleRethrow, DispatchClaimThrows, RollbackThrows,
           IdleThrows, RecoverLostThrows, SubmitThrows, passVars, worldVars
  <2>2. CASE ScheduleUndo
    <3>1. /\ plan' = [plan EXCEPT ![Head(todo).task] = NoPlan]
          /\ UNCHANGED storeVars /\ UNCHANGED nextRun
      BY Zenon, <2>2 DEF ScheduleUndo, worldVars
    <3>2. plan \in [Task -> [worker : Worker, run : RunId] \cup {NoPlan}]
      BY Zenon DEF TypeInv, TypeOK
    <3>3. \A t \in Task : plan'[t] = plan[t] \/ plan'[t] = NoPlan
      BY Zenon, <3>1, <3>2
    <3> QED
      BY Zenon, <3>1, <3>3, HistoryPlanShrinks
  <2> QED
    BY Zenon, <1>6, <2>1, <2>2 DEF Exception
<1>7. CASE Restart
  BY Zenon, <1>7, HistoryRestart
<1>8. CASE UNCHANGED vars
  BY Zenon, <1>q, <1>8 DEF vars, passVars, worldVars
<1> QED
  BY Zenon, <1>1, <1>2, <1>3, <1>4, <1>5, <1>6, <1>7, <1>8 DEF Next

\* The empty database has no runs.
LEMMA HistoryInit == Init => HistoryInv
<1> SUFFICES ASSUME Init PROVE HistoryInv
  OBVIOUS
<1>1. /\ db = [t \in Task |-> AbsentTask] /\ runs = [r \in RunId |-> AbsentRun]
      /\ decisions = [r \in RunId |-> Undecided]
      /\ plan = [t \in Task |-> NoPlan]
  BY DEF Init, StoreInit
<1>2. \A t \in Task : db[t].status \notin Active /\ plan[t] = NoPlan
  BY <1>1 DEF AbsentTask, Active
<1>3. \A r \in RunId : runs[r].status \notin Active /\ Unused(r)
  BY <1>1 DEF AbsentRun, Active, Unused
<1> QED
  BY Zenon, <1>2, <1>3 DEF HistoryInv, RunHistory, RunsFresh

\* Runs and tasks fit together in every reachable state, and no id that was
\* drawn but not saved, or not drawn yet, is in the database.
THEOREM HistoryInvariant == Spec => []HistoryInv
<1>1. TypeInv /\ CoreInv /\ HistoryInv /\ [Next]_vars => HistoryInv'
  BY HistoryNext
<1> QED
  BY <1>1, HistoryInit, TypeInvariant, CoreInvariant, PTL DEF Spec

\* The run history and the tasks tell the same story: an open run is the run
\* of exactly the task that is assigned or running under it.
THEOREM RunsMatchTasks == Spec => []RunHistory
<1>1. HistoryInv => RunHistory
  BY DEF HistoryInv
<1> QED
  BY <1>1, HistoryInvariant, PTL

\* What is final in the database is never changed again, by no handler, no
\* pass, no exception and no restart.
THEOREM FinalIsKept == Spec => FinalStaysFinal
<1>1. TypeInv /\ CoreInv /\ HistoryInv /\ [Next]_vars => [FinalKept]_vars
  BY HistoryNext
<1> QED
  BY <1>1, TypeInvariant, CoreInvariant, HistoryInvariant, PTL
     DEF Spec, FinalStaysFinal

=============================================================================
