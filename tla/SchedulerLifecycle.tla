------------------------- MODULE SchedulerLifecycle -------------------------
(***************************************************************************)
(* The scheduling core implements TaskLifecycle, for every instance.  Each *)
(* step that changes a row is one step of the life cycle; the others, with *)
(* restarts and failures, are none.  A handler decides by the task in      *)
(* memory and the life cycle is about the database, so this rests on       *)
(* StoreAgrees; that an assignment draws a run no attempt ever had rests   *)
(* on RunsFresh.                                                           *)
(*                                                                         *)
(* What a pass may assign is the second part: never to a worker that still *)
(* answers for a recovered task, never more than a worker's slots, and     *)
(* never a task while one before it in the order waits.                    *)
(***************************************************************************)
EXTENDS SchedulerDispatch

-----------------------------------------------------------------------------
(* The life of the tasks.                                                  *)

\* A step of the life cycle, or none.
LifeStep == Lifecycle!Next \/ UNCHANGED Lifecycle!lifeVars

\* A task that was never submitted has no past.
AbsentLife ==
  \A t \in Task : lifeOf[t].status = "ABSENT" =>
                    lifeOf[t].run = NoRun /\ lifeOf[t].retry = 0

\* The entries of lifeOf, before and after a step.
LEMMA LifeRows ==
  /\ \A t \in Task : lifeOf[t] = [status |-> db[t].status, run |-> db[t].run,
                                  retry |-> db[t].retry]
  /\ \A t \in Task : lifeOf'[t] = [status |-> db'[t].status, run |-> db'[t].run,
                                   retry |-> db'[t].retry]
  /\ DOMAIN lifeOf = Task /\ DOMAIN lifeOf' = Task
BY DEF lifeOf

\* The fields of an entry of lifeOf.
LEMMA LifeFields ==
  \A t \in Task : /\ lifeOf[t].status = db[t].status
                  /\ lifeOf[t].run = db[t].run
                  /\ lifeOf[t].retry = db[t].retry
BY Zenon DEF lifeOf

\* A new row of task t.
LEMMA LifeMove ==
  ASSUME TypeInv, NEW t \in Task, NEW row, db' = [db EXCEPT ![t] = row]
  PROVE  lifeOf' = [lifeOf EXCEPT ![t] = [status |-> row.status, run |-> row.run,
                                          retry |-> row.retry]]
<1>1. db \in [Task -> TaskRow]
  BY DEF TypeInv, TypeOK, StoreType
<1>2. db'[t] = row /\ \A u \in Task : u # t => db'[u] = db[u]
  BY <1>1, Zenon
<1> QED
  BY <1>2 DEF lifeOf

\* A new row that changes no more than the status.
LEMMA LifeStatus ==
  ASSUME TypeInv, NEW t \in Task, NEW row, db' = [db EXCEPT ![t] = row],
         row.run = db[t].run, row.retry = db[t].retry
  PROVE  lifeOf' = [lifeOf EXCEPT ![t].status = row.status]
<1>1. lifeOf' = [lifeOf EXCEPT ![t] = [status |-> row.status, run |-> row.run,
                                       retry |-> row.retry]]
  BY Zenon, LifeMove
<1>2. lifeOf[t] = [status |-> db[t].status, run |-> db[t].run,
                   retry |-> db[t].retry]
  BY Zenon, LifeRows
<1>3. [lifeOf[t] EXCEPT !.status = row.status]
        = [status |-> row.status, run |-> row.run, retry |-> row.retry]
  BY ONLY <1>2, row.run = db[t].run, row.retry = db[t].retry
<1> QED
  BY ONLY Zenon, <1>1, <1>3

\* No new run row, no drawn run.
LEMMA DrawnKept ==
  ASSUME \A r \in RunId : runs'[r] = AbsentRun <=> runs[r] = AbsentRun
  PROVE  drawnRuns' = drawnRuns
BY DEF drawnRuns

\* Saving an active task writes the row of a run that was drawn.
LEMMA DrawnActive ==
  ASSUME TypeInv, CoreInv, HistoryInv, NEW t \in Task, tasks[t].status \in Active,
         NEW row, row.run = tasks[t].run,
         NEW override, override # "" \/ row.worker # NoWorker,
         saveOne(t, row, override)
  PROVE  /\ db[t] = tasks[t] /\ db' = [db EXCEPT ![t] = row]
         /\ drawnRuns' = drawnRuns
<1>1. tasks[t].status # "ABSENT"
  BY Zenon DEF Active
<1>2. db[t] = tasks[t]
  BY Zenon, <1>1, Resident
<1>3. db' = [db EXCEPT ![t] = row]
  BY Zenon, SaveOne DEF TypeInv, TypeOK, StoreType
<1>4. db[t].status \in Active /\ row.run = db[t].run
  BY Zenon, <1>2
<1> DEFINE status == IF override # "" THEN override ELSE row.status
<1>5. \A r \in RunId :
        runs'[r] = IF r = db[t].run
                   THEN [task |-> t, worker |-> db[t].worker, status |-> status]
                   ELSE runs[r]
  BY Zenon, <1>4, SaveActive
<1> HIDE DEF status
<1>6. runs[db[t].run] # AbsentRun
  BY Zenon, <1>4, ActiveRun
<1>7. [task |-> t, worker |-> db[t].worker, status |-> status] # AbsentRun
  BY ONLY Constants, t \in Task DEF AbsentRun
<1>8. \A r \in RunId : runs'[r] = AbsentRun <=> runs[r] = AbsentRun
  BY ONLY Zenon, <1>5, <1>6, <1>7
<1> QED
  BY Zenon, <1>2, <1>3, <1>8, DrawnKept

\* Steps that leave the database alone are no steps of the life cycle.
LEMMA LifeQuiet ==
  ASSUME UNCHANGED storeVars
  PROVE  LifeStep
BY DEF LifeStep, Lifecycle!lifeVars, lifeOf, drawnRuns, storeVars

\* A restart marks rows for recovery, which the life of a task does not show.
LEMMA LifeRestart ==
  ASSUME TypeInv, Restart
  PROVE  LifeStep
<1>1. /\ UNCHANGED <<runs, stopRows>>
      /\ db' = [t \in Task |-> IF db[t].status \in Active
                               THEN [db[t] EXCEPT !.recovery = TRUE] ELSE db[t]]
  BY Zenon DEF Restart, markRecovery
<1>2. ASSUME NEW t \in Task
      PROVE  /\ db'[t].status = db[t].status /\ db'[t].run = db[t].run
             /\ db'[t].retry = db[t].retry
  <2>1. db[t] \in TaskRow
    BY DEF TypeInv, TypeOK, StoreType
  <2> QED
    BY <1>1, <2>1, Zenon DEF TaskRow
<1>3. lifeOf' = lifeOf
  BY <1>2, Zenon DEF lifeOf
<1> QED
  BY <1>1, <1>3, Zenon DEF LifeStep, Lifecycle!lifeVars, drawnRuns

\* SUBMIT_TASK is Submit.
LEMMA LifeSubmit ==
  ASSUME TypeInv, CoreInv, AbsentLife, NEW t \in Task, NEW k \in Key \cup {NoKey},
         submitTask(t, k)
  PROVE  LifeStep
<1> DEFINE row == [AbsentTask EXCEPT !.status = "QUEUED", !.seq = nextSeq]
           rows == [u \in {t} |-> row]
<1>1. saveOne(t, row, "") /\ saveRows(rows, "") /\ acceptsSubmit(t, k)
      /\ UNCHANGED stopRows
  BY Zenon DEF submitTask, saveOne
<1>2. /\ row.worker = NoWorker /\ row.status = "QUEUED" /\ row.run = NoRun
      /\ row.retry = 0
  BY Zenon DEF AbsentTask
<1>3. DOMAIN rows = {t} /\ rows[t] = row
  BY Zenon
<1> HIDE DEF row, rows
<1>4. db' = [db EXCEPT ![t] = row]
  BY Zenon, <1>1, SaveOne DEF TypeInv, TypeOK, StoreType
<1>5. \A r \in RunId : runs'[r] = runs[r]
  BY Zenon, <1>1, <1>2, <1>3, SaveUnassigned
<1>6. drawnRuns' = drawnRuns
  BY Zenon, <1>5, DrawnKept
<1>7. lifeOf[t].status = "ABSENT" /\ lifeOf[t].run = db[t].run
      /\ lifeOf[t].retry = db[t].retry
  <2>1. db[t].status = "ABSENT"
    BY Zenon, <1>1 DEF acceptsSubmit
  <2> QED
    BY Zenon, <2>1, LifeFields
<1>8. row.run = db[t].run /\ row.retry = db[t].retry
  BY Zenon, <1>2, <1>7 DEF AbsentLife
<1>9. lifeOf' = [lifeOf EXCEPT ![t].status = "QUEUED"]
  BY Zenon, <1>2, <1>4, <1>8, LifeStatus
<1>10. BatchOf[t] \notin stopRows
  BY Zenon, <1>1 DEF acceptsSubmit, BatchStopped, CoreInv, MemoryInv, StoreAgrees
<1>11. Lifecycle!Submit(t)
  BY Zenon, <1>1, <1>6, <1>7, <1>9, <1>10 DEF Lifecycle!Submit, Lifecycle!In
<1> QED
  BY Zenon, <1>11 DEF LifeStep, Lifecycle!Next

\* The cancelled row of a queued task has no worker, so no run is written.
LEMMA CancelledRow ==
  ASSUME TypeInv, CoreInv, NEW t \in Task, tasks[t].status = "QUEUED",
         NEW row, row = [tasks[t] EXCEPT !.status = "CANCELLED"]
  PROVE  /\ db[t].status = "QUEUED" /\ row.status = "CANCELLED"
         /\ row.run = db[t].run /\ row.retry = db[t].retry
         /\ row.worker = NoWorker
<1>1. tasks[t] \in TaskRow /\ RowShape(tasks[t])
  BY Zenon DEF TypeInv, TypeOK
<1>2. db[t] = tasks[t]
  BY Zenon, Resident
<1>3. /\ row.status = "CANCELLED" /\ row.worker = tasks[t].worker
      /\ row.run = tasks[t].run /\ row.retry = tasks[t].retry
  BY Zenon, <1>1 DEF TaskRow
<1>4. tasks[t].worker = NoWorker
  BY Zenon, <1>1 DEF RowShape
<1> QED
  BY Zenon, <1>2, <1>3, <1>4

\* CANCEL_TASK of a queued task is Cancel.
LEMMA LifeCancelTask ==
  ASSUME TypeInv, CoreInv, NEW t \in Task, cancelTask(t)
  PROVE  LifeStep
<1> DEFINE row  == [tasks[t] EXCEPT !.status = "CANCELLED"]
           rows == [u \in {t} |-> row]
<1>1. /\ saveOne(t, row, "") /\ saveRows(rows, "") /\ tasks[t].status = "QUEUED"
      /\ UNCHANGED stopRows
  BY Zenon DEF cancelTask, saveOne
<1>2. DOMAIN rows = {t} /\ rows[t] = row
  BY Zenon
<1> HIDE DEF rows
<1>3. /\ db[t].status = "QUEUED" /\ row.status = "CANCELLED"
      /\ row.run = db[t].run /\ row.retry = db[t].retry
      /\ row.worker = NoWorker
  BY Zenon, <1>1, CancelledRow
<1> HIDE DEF row
<1>4. drawnRuns' = drawnRuns
  <2>1. \A r \in RunId : runs'[r] = runs[r]
    BY Zenon, <1>1, <1>2, <1>3, SaveUnassigned
  <2> QED
    BY Zenon, <2>1, DrawnKept
<1>5. db' = [db EXCEPT ![t] = row]
  BY Zenon, <1>1, SaveOne DEF TypeInv, TypeOK, StoreType
<1>6. lifeOf' = [lifeOf EXCEPT ![t].status = "CANCELLED"]
  <2>1. lifeOf' = [lifeOf EXCEPT ![t].status = row.status]
    BY ONLY Zenon, TypeInv, t \in Task, <1>3, <1>5, LifeStatus
  <2> QED
    BY Zenon, <1>3, <2>1
<1>7. lifeOf[t].status = "QUEUED"
  BY Zenon, <1>3, LifeFields
<1>8. Lifecycle!Cancel(t)
  BY Zenon, <1>1, <1>4, <1>6, <1>7 DEF Lifecycle!Cancel, Lifecycle!In
<1> QED
  BY Zenon, <1>8 DEF LifeStep, Lifecycle!Next

\* CANCEL_BATCH is StopBatch: what is queued in memory is what is queued in
\* the database.
LEMMA LifeCancelBatch ==
  ASSUME TypeInv, CoreInv, NEW b \in Batch, cancelBatch(b)
  PROVE  LifeStep
<1> DEFINE changed == {t \in Task : BatchOf[t] = b /\ tasks[t].status = "QUEUED"}
           rows == [t \in changed |-> [tasks[t] EXCEPT !.status = "CANCELLED"]]
<1>1. saveRows(rows, "") /\ stopRows' = stopRows \cup {b}
  BY Zenon DEF cancelBatch
<1>2. /\ DOMAIN rows = changed
      /\ \A t \in changed : rows[t] = [tasks[t] EXCEPT !.status = "CANCELLED"]
  BY Zenon
<1> HIDE DEF rows
<1>3. changed \in SUBSET Task /\ \A t \in changed : tasks[t].status = "QUEUED"
  BY Zenon
<1>4. ASSUME NEW t \in Task
      PROVE  t \in changed <=> BatchOf[t] = b /\ lifeOf[t].status = "QUEUED"
  <2>1. tasks[t].status = "QUEUED" <=> db[t].status = "QUEUED"
    <3>1. CASE tasks[t].status = "ABSENT"
      BY Zenon, <3>1 DEF CoreInv, MemoryInv, StoreAgrees, Terminal
    <3>2. CASE tasks[t].status # "ABSENT"
      BY Zenon, <3>2, Resident
    <3> QED
      BY Zenon, <3>1, <3>2
  <2>2. lifeOf[t].status = db[t].status
    BY Zenon, LifeFields
  <2> QED
    BY Zenon, <2>1, <2>2
<1> HIDE DEF changed
<1>5. \A t \in changed : /\ rows[t].status = "CANCELLED"
                         /\ rows[t].run = db[t].run
                         /\ rows[t].retry = db[t].retry
                         /\ rows[t].worker = NoWorker
  <2> SUFFICES ASSUME NEW t \in changed
               PROVE  /\ rows[t].status = "CANCELLED"
                      /\ rows[t].run = db[t].run
                      /\ rows[t].retry = db[t].retry
                      /\ rows[t].worker = NoWorker
    BY Zenon
  <2>1. /\ t \in Task /\ tasks[t].status = "QUEUED"
        /\ rows[t] = [tasks[t] EXCEPT !.status = "CANCELLED"]
    BY Zenon, <1>2, <1>3
  <2> QED
    BY Zenon, <2>1, CancelledRow
<1>6. \A t \in Task : db'[t] = IF t \in changed THEN rows[t] ELSE db[t]
  BY Zenon, <1>1, <1>2 DEF saveRows
<1>7. ASSUME NEW t \in Task
      PROVE  lifeOf'[t] = IF BatchOf[t] = b /\ t \in Lifecycle!In("QUEUED")
                          THEN [lifeOf[t] EXCEPT !.status = "CANCELLED"]
                          ELSE lifeOf[t]
  <2>1. /\ lifeOf[t] = [status |-> db[t].status, run |-> db[t].run,
                        retry |-> db[t].retry]
        /\ lifeOf'[t] = [status |-> db'[t].status, run |-> db'[t].run,
                         retry |-> db'[t].retry]
    BY Zenon, LifeRows
  <2>2. t \in changed <=> BatchOf[t] = b /\ t \in Lifecycle!In("QUEUED")
    BY Zenon, <1>4 DEF Lifecycle!In
  <2>3. CASE t \in changed
    <3>1. /\ db'[t].status = "CANCELLED" /\ db'[t].run = db[t].run
          /\ db'[t].retry = db[t].retry
      BY Zenon, <1>5, <1>6, <2>3
    <3>2. lifeOf'[t] = [lifeOf[t] EXCEPT !.status = "CANCELLED"]
      BY ONLY <2>1, <3>1
    <3> QED
      BY Zenon, <2>2, <2>3, <3>2
  <2>4. CASE t \notin changed
    <3>1. db'[t] = db[t]
      BY Zenon, <1>6, <2>4
    <3>2. lifeOf'[t] = lifeOf[t]
      BY ONLY Zenon, <2>1, <3>1
    <3> QED
      BY Zenon, <2>2, <2>4, <3>2
  <2> QED
    BY Zenon, <2>3, <2>4
<1>8. lifeOf' = [t \in Task |->
        IF BatchOf[t] = b /\ t \in Lifecycle!In("QUEUED")
        THEN [lifeOf[t] EXCEPT !.status = "CANCELLED"] ELSE lifeOf[t]]
  <2>1. lifeOf' = [t \in Task |-> lifeOf'[t]]
    BY Zenon DEF lifeOf
  <2> QED
    BY Zenon, <1>7, <2>1
<1>9. drawnRuns' = drawnRuns
  <2>1. \A r \in RunId : runs'[r] = runs[r]
    BY Zenon, <1>1, <1>2, <1>5, SaveUnassigned
  <2> QED
    BY Zenon, <2>1, DrawnKept
<1>10. Lifecycle!StopBatch(b)
  BY Zenon, <1>1, <1>8, <1>9 DEF Lifecycle!StopBatch
<1> QED
  BY Zenon, <1>10 DEF LifeStep, Lifecycle!Next

\* The commit of a pass assigns what it planned; an empty plan changes nothing.
LEMMA LifeCommit ==
  ASSUME TypeInv, CoreInv, HistoryInv, ScheduleCommit
  PROVE  LifeStep
<1>1. /\ \A t \in planned : runs'[plan[t].run] = [task |-> t,
                worker |-> plan[t].worker, status |-> "ASSIGNED"]
      /\ \A r \in RunId : (\A t \in planned : plan[t].run # r) => runs'[r] = runs[r]
  BY Zenon, CommitRuns DEF ScheduleCommit
<1>2. UNCHANGED stopRows
  BY Zenon DEF ScheduleCommit
<1>3. \A t \in Task : db'[t] = IF t \in planned THEN assignedRow(t) ELSE db[t]
  BY Zenon DEF ScheduleCommit, saveRows
<1> DEFINE run == [t \in planned |-> plan[t].run]
<1>4. ASSUME NEW t \in planned
      PROVE  /\ t \in Task /\ plan[t] # NoPlan
             /\ plan[t].run \in RunId /\ runs[plan[t].run] = AbsentRun
             /\ runs'[plan[t].run] # AbsentRun
             /\ db[t].status = "QUEUED"
             /\ db'[t].status = "ASSIGNED" /\ db'[t].run = plan[t].run
             /\ db'[t].retry = db[t].retry
  <2>1. /\ t \in Task /\ plan[t] # NoPlan /\ plan[t].run \in RunId
        /\ assignedRow(t).run = plan[t].run
        /\ assignedRow(t).status = "ASSIGNED"
    BY Zenon, PlannedRow
  <2>2. runs[plan[t].run] = AbsentRun
    BY Zenon, <2>1 DEF HistoryInv, RunsFresh, Unused
  <2>3. tasks[t].status = "QUEUED" /\ tasks[t].status # "ABSENT"
    BY Zenon, <2>1 DEF CoreInv, PassInv, PlanExact
  <2>4. db[t] = tasks[t]
    BY Zenon, <2>1, <2>3, Resident
  <2>5. assignedRow(t).retry = tasks[t].retry
    <3>1. tasks[t] \in TaskRow
      BY Zenon, <2>1 DEF TypeInv, TypeOK
    <3> QED
      BY Zenon, <3>1 DEF assignedRow, TaskRow
  <2>6. runs'[plan[t].run] # AbsentRun
    <3>1. runs'[plan[t].run] = [task |-> t, worker |-> plan[t].worker,
                                status |-> "ASSIGNED"]
      BY Zenon, <1>1
    <3> QED
      BY ONLY <2>1, <3>1, Constants DEF AbsentRun
  <2> QED
    BY Zenon, <1>3, <2>1, <2>2, <2>3, <2>4, <2>5, <2>6
<1>5. drawnRuns' = drawnRuns \cup {run[t] : t \in planned}
  <2>1. ASSUME NEW r \in RunId
        PROVE  runs'[r] # AbsentRun <=> runs[r] # AbsentRun \/ \E t \in planned : plan[t].run = r
    BY Zenon, <1>1, <1>4
  <2>2. {run[t] : t \in planned} = {r \in RunId : \E t \in planned : plan[t].run = r}
    BY Zenon, <1>4
  <2> HIDE DEF run
  <2> QED
    BY ONLY <2>1, <2>2 DEF drawnRuns
<1>6. ASSUME NEW t \in Task
      PROVE  lifeOf'[t] = IF t \in planned
                          THEN [status |-> "ASSIGNED", run |-> run[t],
                                retry |-> lifeOf[t].retry]
                          ELSE lifeOf[t]
  <2>1. /\ lifeOf[t] = [status |-> db[t].status, run |-> db[t].run,
                        retry |-> db[t].retry]
        /\ lifeOf'[t] = [status |-> db'[t].status, run |-> db'[t].run,
                         retry |-> db'[t].retry]
    BY Zenon, LifeRows
  <2>2. CASE t \in planned
    <3>1. /\ db'[t].status = "ASSIGNED" /\ db'[t].run = run[t]
          /\ db'[t].retry = db[t].retry
      BY Zenon, <1>4, <2>2
    <3> HIDE DEF run
    <3>2. lifeOf[t].retry = db[t].retry
      BY Zenon, LifeFields
    <3>3. lifeOf'[t] = [status |-> "ASSIGNED", run |-> run[t],
                        retry |-> lifeOf[t].retry]
      BY ONLY Zenon, <2>1, <3>1, <3>2
    <3> QED
      BY Zenon, <2>2, <3>3
  <2>3. CASE t \notin planned
    <3>1. db'[t] = db[t]
      BY Zenon, <1>3, <2>3
    <3> QED
      BY ONLY Zenon, <2>1, <2>3, <3>1
  <2> QED
    BY Zenon, <2>2, <2>3
<1>7. lifeOf' = [t \in Task |->
        IF t \in planned
        THEN [status |-> "ASSIGNED", run |-> run[t], retry |-> lifeOf[t].retry]
        ELSE lifeOf[t]]
  <2>1. lifeOf' = [t \in Task |-> lifeOf'[t]]
    BY Zenon DEF lifeOf
  <2> HIDE DEF run
  <2> QED
    BY Zenon, <1>6, <2>1
<1>8. CASE planned = {}
  <2>1. \A r \in RunId : runs'[r] = runs[r]
    BY Zenon, <1>1, <1>8
  <2>2. drawnRuns' = drawnRuns
    BY Zenon, <2>1, DrawnKept
  <2>3. lifeOf' = lifeOf
    <3>1. \A t \in Task : db'[t] = db[t]
      BY Zenon, <1>3, <1>8
    <3> QED
      BY Zenon, <3>1 DEF lifeOf
  <2> QED
    BY Zenon, <1>2, <2>2, <2>3 DEF LifeStep, Lifecycle!lifeVars
<1>9. CASE planned # {}
  <2>1. planned \in SUBSET Task /\ run \in [planned -> RunId]
    BY Zenon, <1>4
  <2>2. planned \subseteq Lifecycle!In("QUEUED")
    <3>1. \A t \in planned : t \in Task /\ lifeOf[t].status = "QUEUED"
      BY Zenon, <1>4, LifeFields
    <3> QED
      BY Zenon, <3>1 DEF Lifecycle!In
  <2>3. \A t \in planned : run[t] \in RunId \ drawnRuns
    BY Zenon, <1>4 DEF drawnRuns
  <2>4. \A t, u \in planned : t # u => run[t] # run[u]
    BY Zenon, <1>4 DEF HistoryInv, RunsFresh
  <2> HIDE DEF run
  <2>5. Lifecycle!Assign(planned, run)
    BY Zenon, <1>2, <1>5, <1>7, <1>9, <2>2, <2>3, <2>4 DEF Lifecycle!Assign
  <2> QED
    BY Zenon, <2>1, <2>5 DEF LifeStep, Lifecycle!Next
<1> QED
  BY Zenon, <1>8, <1>9

\* A failed dispatch returns its task to the queue, or cancels it.
LEMMA LifeRollback ==
  ASSUME TypeInv, CoreInv, HistoryInv, rollbackAssignment
  PROVE  LifeStep
<1> DEFINE t   == current.task
           row == rolledBackRow(t)
<1>1. /\ pass = "rollback" /\ canRollback(t) /\ saveOne(t, row, "DISPATCH_FAILED")
      /\ UNCHANGED stopRows
  BY Zenon DEF rollbackAssignment
<1>2. t \in Task /\ tasks[t] \in TaskRow
  BY Zenon, <1>1 DEF TypeInv, TypeOK, PassShape
<1>3. tasks[t].status = "ASSIGNED" /\ tasks[t].status \in Active
  BY Zenon, <1>1 DEF canRollback, Active
<1>4. /\ row.run = tasks[t].run /\ row.retry = tasks[t].retry
      /\ row.status = IF BatchOf[t] \in stopRows THEN "CANCELLED" ELSE "QUEUED"
  <2>1. BatchStopped(t) <=> BatchOf[t] \in stopRows
    BY Zenon DEF BatchStopped, CoreInv, MemoryInv, StoreAgrees
  <2> QED
    BY Zenon, <1>2, <2>1 DEF rolledBackRow, TaskRow
<1>5. "DISPATCH_FAILED" # ""
  BY Zenon
<1> HIDE DEF t, row
<1>6. db[t] = tasks[t] /\ db' = [db EXCEPT ![t] = row] /\ drawnRuns' = drawnRuns
  BY Zenon, <1>1, <1>2, <1>3, <1>4, <1>5, DrawnActive
<1>7. lifeOf' = [lifeOf EXCEPT ![t].status = row.status]
  BY Zenon, <1>2, <1>4, <1>6, LifeStatus
<1>8. lifeOf[t].status = "ASSIGNED"
  BY Zenon, <1>2, <1>3, <1>6, LifeFields
<1>9. CASE BatchOf[t] \in stopRows
  <2>1. Lifecycle!Cancel(t)
    BY Zenon, <1>1, <1>2, <1>4, <1>6, <1>7, <1>8, <1>9
       DEF Lifecycle!Cancel, Lifecycle!In
  <2> QED
    BY Zenon, <1>2, <2>1 DEF LifeStep, Lifecycle!Next
<1>10. CASE BatchOf[t] \notin stopRows
  <2>1. Lifecycle!Return(t)
    BY Zenon, <1>1, <1>2, <1>4, <1>6, <1>7, <1>8, <1>10
       DEF Lifecycle!Return, Lifecycle!In
  <2> QED
    BY Zenon, <1>2, <2>1 DEF LifeStep, Lifecycle!Next
<1> QED
  BY Zenon, <1>9, <1>10

\* TASK_START is Start, or no step when it is late or repeated.
LEMMA LifeTaskStart ==
  ASSUME TypeInv, CoreInv, HistoryInv, NEW t \in Task, NEW w \in Worker,
         NEW r \in RunId, TaskStart(t, w, r)
  PROVE  LifeStep
<1>1. UNCHANGED <<decisions, stopRows, keys>>
  BY Zenon DEF TaskStart
<1>2. CASE startable(t, w, r)
  <2> DEFINE row == [tasks[t] EXCEPT !.status = "RUNNING"]
  <2>1. saveOne(t, row, "")
    BY Zenon, <1>2 DEF TaskStart
  <2>2. tasks[t] \in TaskRow /\ NoWorker \notin Worker
    BY Zenon, Constants DEF TypeInv, TypeOK
  <2>3. /\ tasks[t].status = "ASSIGNED" /\ tasks[t].status \in Active
        /\ tasks[t].worker = w
    BY Zenon, <1>2 DEF startable, Active
  <2>4. /\ row.run = tasks[t].run /\ row.worker = tasks[t].worker
        /\ row.retry = tasks[t].retry /\ row.status = "RUNNING"
    BY Zenon, <2>2 DEF TaskRow
  <2> HIDE DEF row
  <2>5. row.worker # NoWorker
    BY Zenon, <2>2, <2>3, <2>4
  <2>6. db[t] = tasks[t] /\ db' = [db EXCEPT ![t] = row] /\ drawnRuns' = drawnRuns
    BY Zenon, <2>1, <2>3, <2>4, <2>5, DrawnActive
  <2>7. lifeOf' = [lifeOf EXCEPT ![t].status = row.status]
    BY Zenon, <2>4, <2>6, LifeStatus
  <2>8. lifeOf[t].status = "ASSIGNED"
    BY Zenon, <2>3, <2>6, LifeFields
  <2>9. Lifecycle!Start(t)
    BY Zenon, <1>1, <2>4, <2>6, <2>7, <2>8 DEF Lifecycle!Start, Lifecycle!In
  <2> QED
    BY Zenon, <2>9 DEF LifeStep, Lifecycle!Next
<1>3. CASE ~ startable(t, w, r)
  <2>1. UNCHANGED <<db, runs>>
    BY Zenon, <1>3 DEF TaskStart
  <2> QED
    BY Zenon, <1>1, <2>1, LifeQuiet DEF storeVars
<1> QED
  BY Zenon, <1>2, <1>3

\* TASK_RESULT is Finish, or no step when it is late or repeated.
LEMMA LifeTaskResult ==
  ASSUME TypeInv, CoreInv, HistoryInv, NEW t \in Task, NEW w \in Worker,
         NEW r \in RunId, NEW s \in {"SUCCEEDED", "FAILED", "TIMEOUT"},
         TaskResult(t, w, r, s)
  PROVE  LifeStep
<1>1. UNCHANGED <<decisions, stopRows, keys>>
  BY Zenon DEF TaskResult
<1>2. CASE finishable(t, w, r)
  <2> DEFINE row == [tasks[t] EXCEPT !.status = s, !.recovery = FALSE]
  <2>1. saveOne(t, row, "")
    BY Zenon, <1>2 DEF TaskResult, completeTask
  <2>2. tasks[t] \in TaskRow /\ NoWorker \notin Worker
    BY Zenon, Constants DEF TypeInv, TypeOK
  <2>3. /\ tasks[t].status = "RUNNING" /\ tasks[t].status \in Active
        /\ tasks[t].worker = w
    BY Zenon, <1>2 DEF finishable, Active
  <2>4. /\ row.run = tasks[t].run /\ row.worker = tasks[t].worker
        /\ row.retry = tasks[t].retry /\ row.status = s
    BY Zenon, <2>2 DEF TaskRow
  <2> HIDE DEF row
  <2>5. row.worker # NoWorker
    BY Zenon, <2>2, <2>3, <2>4
  <2>6. db[t] = tasks[t] /\ db' = [db EXCEPT ![t] = row] /\ drawnRuns' = drawnRuns
    BY Zenon, <2>1, <2>3, <2>4, <2>5, DrawnActive
  <2>7. lifeOf' = [lifeOf EXCEPT ![t].status = row.status]
    BY Zenon, <2>4, <2>6, LifeStatus
  <2>8. lifeOf[t].status = "RUNNING"
    BY Zenon, <2>3, <2>6, LifeFields
  <2>9. Lifecycle!Finish(t, s)
    BY Zenon, <1>1, <2>4, <2>6, <2>7, <2>8 DEF Lifecycle!Finish, Lifecycle!In
  <2> QED
    BY Zenon, <2>9 DEF LifeStep, Lifecycle!Next
<1>3. CASE ~ finishable(t, w, r)
  <2>1. UNCHANGED <<db, runs>>
    BY Zenon, <1>3 DEF TaskResult
  <2> QED
    BY Zenon, <1>1, <2>1, LifeQuiet DEF storeVars
<1> QED
  BY Zenon, <1>2, <1>3

\* A lost run is returned, with a retry when it had started, or it fails; in a
\* stopped batch its task is cancelled.
LEMMA LifeLost ==
  ASSUME TypeInv, CoreInv, HistoryInv, NEW t \in Task, tasks[t].status \in Active,
         recoverLost(t), UNCHANGED stopRows
  PROVE  LifeStep
<1> DEFINE row == lostRow(t)
           halted == BatchOf[t] \in stopRows
           running == tasks[t].status = "RUNNING"
           retry == ~ halted /\ (~ running \/ tasks[t].retry < MaxRetries)
<1>1. saveOne(t, row, "FAILED")
  BY Zenon DEF recoverLost
<1>2. /\ row.run = tasks[t].run
      /\ row.status = IF halted THEN "CANCELLED"
                      ELSE IF retry THEN "QUEUED" ELSE "FAILED"
      /\ row.retry = IF retry /\ running THEN tasks[t].retry + 1
                     ELSE tasks[t].retry
  <2>1. BatchStopped(t) <=> BatchOf[t] \in stopRows
    BY Zenon DEF BatchStopped, CoreInv, MemoryInv, StoreAgrees
  <2> QED
    BY Zenon, <2>1 DEF lostRow
<1>3. "FAILED" # ""
  BY Zenon
<1> HIDE DEF row
<1>4. db[t] = tasks[t] /\ db' = [db EXCEPT ![t] = row] /\ drawnRuns' = drawnRuns
  BY Zenon, <1>1, <1>2, <1>3, DrawnActive
<1>5. /\ lifeOf[t].status = tasks[t].status /\ lifeOf[t].run = tasks[t].run
      /\ lifeOf[t].retry = tasks[t].retry
  BY Zenon, <1>4, LifeFields
<1>6. ~ running => tasks[t].status = "ASSIGNED"
  BY Zenon DEF Active
<1>7. CASE retry /\ running
  <2>1. lifeOf' = [lifeOf EXCEPT ![t] = [status |-> row.status, run |-> row.run,
                                         retry |-> row.retry]]
    BY Zenon, <1>4, LifeMove
  <2>2. /\ row.status = "QUEUED" /\ row.run = lifeOf[t].run
        /\ row.retry = lifeOf[t].retry + 1
    BY Zenon, <1>2, <1>5, <1>7
  <2>3. lifeOf' = [lifeOf EXCEPT ![t] = [status |-> "QUEUED", run |-> lifeOf[t].run,
                                         retry |-> lifeOf[t].retry + 1]]
    BY ONLY Zenon, <2>1, <2>2
  <2>4. /\ lifeOf[t].status = "RUNNING" /\ lifeOf[t].retry < MaxRetries
        /\ BatchOf[t] \notin stopRows
    BY Zenon, <1>5, <1>7
  <2>5. Lifecycle!Return(t)
    BY Zenon, <1>4, <2>3, <2>4 DEF Lifecycle!Return, Lifecycle!In
  <2> QED
    BY Zenon, <2>5 DEF LifeStep, Lifecycle!Next
<1>8. CASE ~ (retry /\ running)
  <2>1. lifeOf' = [lifeOf EXCEPT ![t].status = row.status]
    <3>1. row.retry = db[t].retry /\ row.run = db[t].run
      BY Zenon, <1>2, <1>4, <1>8
    <3> QED
      BY Zenon, <1>4, <3>1, LifeStatus
  <2>2. CASE halted
    <3>1. row.status = "CANCELLED" /\ BatchOf[t] \in stopRows
      BY Zenon, <1>2, <2>2
    <3>2. lifeOf[t].status \in {"ASSIGNED", "RUNNING"}
      BY Zenon, <1>5 DEF Active
    <3>3. Lifecycle!Cancel(t)
      BY Zenon, <1>4, <2>1, <3>1, <3>2 DEF Lifecycle!Cancel, Lifecycle!In
    <3> QED
      BY Zenon, <3>3 DEF LifeStep, Lifecycle!Next
  <2>3. CASE ~ halted /\ ~ running
    <3>1. row.status = "QUEUED" /\ BatchOf[t] \notin stopRows
      BY Zenon, <1>2, <2>3
    <3>2. lifeOf[t].status = "ASSIGNED"
      BY Zenon, <1>5, <1>6, <2>3
    <3>3. Lifecycle!Return(t)
      BY Zenon, <1>4, <2>1, <3>1, <3>2 DEF Lifecycle!Return, Lifecycle!In
    <3> QED
      BY Zenon, <3>3 DEF LifeStep, Lifecycle!Next
  <2>4. CASE ~ halted /\ running
    <3>1. row.status = "FAILED" /\ lifeOf[t].status = "RUNNING"
      BY Zenon, <1>2, <1>5, <1>8, <2>4
    <3>2. Lifecycle!Finish(t, "FAILED")
      BY Zenon, <1>4, <2>1, <3>1 DEF Lifecycle!Finish, Lifecycle!In
    <3> QED
      BY Zenon, <3>2 DEF LifeStep, Lifecycle!Next
  <2> QED
    BY Zenon, <2>2, <2>3, <2>4
<1> QED
  BY Zenon, <1>7, <1>8

\* The two ways in which a run is given up.
LEMMA LifeRecover ==
  ASSUME TypeInv, CoreInv, HistoryInv, NEW t \in Task,
         \/ \E w \in Worker, r \in RunId : RecoverLost(t, w, r)
         \/ IdleRequeue(t)
  PROVE  LifeStep
<1>1. tasks[t].status \in Active
  BY Zenon DEF RecoverLost, IdleRequeue, lostAccepted, claimsActive, Active
<1>2. recoverLost(t) /\ UNCHANGED stopRows
  BY Zenon DEF RecoverLost, IdleRequeue
<1> QED
  BY Zenon, <1>1, <1>2, LifeLost

\* Every step of the scheduling core is a step of the life cycle, or none.
LEMMA LifeNext ==
  TypeInv /\ CoreInv /\ HistoryInv /\ AbsentLife /\ [Next]_vars => LifeStep
<1> SUFFICES ASSUME TypeInv, CoreInv, HistoryInv, AbsentLife, [Next]_vars
             PROVE  LifeStep
  BY Zenon
<1>q. UNCHANGED storeVars => LifeStep
  BY Zenon, LifeQuiet
<1>1. CASE Coordinate
  <2>1. CASE \/ PassStart \/ ScheduleBegin \/ ScheduleStop
             \/ \E w \in Worker : ScheduleSelect(w)
             \/ ScheduleAcquire \/ ScheduleAcquireFails
             \/ DispatchClaim \/ DispatchSkip \/ DispatchSend \/ DispatchReturn
             \/ DispatchFail \/ RollbackRefused \/ PassEnd
    BY Zenon, <1>q, <2>1
       DEF PassStart, ScheduleBegin, ScheduleStop, ScheduleSelect,
           ScheduleAcquire, ScheduleAcquireFails, DispatchClaim, DispatchSkip,
           DispatchSend, DispatchReturn, DispatchFail, RollbackRefused, PassEnd
  <2> QED
    BY Zenon, <1>1, <2>1, LifeCommit, LifeRollback DEF Coordinate
<1>2. CASE Client
  BY Zenon, <1>2, LifeSubmit, LifeCancelTask, LifeCancelBatch DEF Client
<1>3. CASE Execution
  BY Zenon, <1>3, LifeTaskStart, LifeTaskResult DEF Execution
<1>4. CASE Recovery
  <2>1. CASE \/ \E t \in Task, w \in Worker, r \in RunId : RecoverActive(t, w, r)
             \/ \E w \in Worker : RecoverIdle(w)
             \/ IdleBlocked \/ IdleReady
    BY Zenon, <1>q, <2>1 DEF RecoverActive, RecoverIdle, IdleBlocked, IdleReady
  <2> QED
    BY Zenon, <1>4, <2>1, LifeRecover DEF Recovery
<1>5. CASE RecoveryRegister \/ PlainRegister \/ Heartbeat \/ Close \/ Unavailability
  BY Zenon, <1>q, <1>5
     DEF RecoveryRegister, PlainRegister, Heartbeat, Close, Unavailability,
         WorkerRegister, WorkerRegisterRefused, WorkerHeartbeat, WorkerClose,
         WorkerDrain, ChangePolicy, LivenessCheck
<1>6. CASE Exception
  BY Zenon, <1>q, <1>6
     DEF Exception, ScheduleThrows, ScheduleUndo, ScheduleRethrow,
         DispatchClaimThrows, RollbackThrows, IdleThrows, RecoverLostThrows,
         SubmitThrows
<1>7. CASE Restart
  BY Zenon, <1>7, LifeRestart
<1>8. CASE UNCHANGED vars
  BY Zenon, <1>q, <1>8 DEF vars
<1> QED
  BY Zenon, <1>1, <1>2, <1>3, <1>4, <1>5, <1>6, <1>7, <1>8 DEF Next

\* No step of the life cycle takes a task back to before its submission.
LEMMA AbsentKept ==
  ASSUME AbsentLife, LifeStep
  PROVE  AbsentLife'
<1>1. DOMAIN lifeOf = Task
  BY Zenon, LifeRows
<1> SUFFICES ASSUME NEW u \in Task, lifeOf'[u].status = "ABSENT"
             PROVE  lifeOf'[u] = lifeOf[u]
  BY Zenon DEF AbsentLife
<1>2. ASSUME NEW t \in Task, NEW row, lifeOf' = [lifeOf EXCEPT ![t] = row],
             row.status # "ABSENT"
      PROVE  lifeOf'[u] = lifeOf[u]
  BY Zenon, <1>1, <1>2
<1>3. ASSUME NEW t \in Task, NEW x, lifeOf' = [lifeOf EXCEPT ![t].status = x],
             x # "ABSENT"
      PROVE  lifeOf'[u] = lifeOf[u]
  <2>1. CASE u # t
    BY Zenon, <1>1, <1>3, <2>1
  <2>2. CASE u = t
    <3>1. lifeOf'[t] = [lifeOf[t] EXCEPT !.status = x]
      BY Zenon, <1>1, <1>3
    <3>2. lifeOf[t] = [status |-> db[t].status, run |-> db[t].run,
                       retry |-> db[t].retry]
      BY Zenon, LifeRows
    <3>3. lifeOf'[t].status = x
      BY ONLY <3>1, <3>2
    <3> QED
      BY Zenon, <1>3, <2>2, <3>3
  <2> QED
    BY Zenon, <2>1, <2>2
<1>4. ASSUME NEW t \in Task,
             \/ Lifecycle!Submit(t) \/ Lifecycle!Start(t) \/ Lifecycle!Cancel(t)
             \/ \E s \in {"SUCCEEDED", "FAILED", "TIMEOUT"} : Lifecycle!Finish(t, s)
      PROVE  lifeOf'[u] = lifeOf[u]
  <2>1. \E x \in {"QUEUED", "RUNNING", "CANCELLED", "SUCCEEDED", "FAILED", "TIMEOUT"} :
          lifeOf' = [lifeOf EXCEPT ![t].status = x]
    BY Zenon, <1>4
       DEF Lifecycle!Submit, Lifecycle!Start, Lifecycle!Cancel, Lifecycle!Finish
  <2> QED
    BY Zenon, <1>3, <2>1
<1>5. ASSUME NEW t \in Task, Lifecycle!Return(t)
      PROVE  lifeOf'[u] = lifeOf[u]
  <2>1. CASE lifeOf' = [lifeOf EXCEPT ![t].status = "QUEUED"]
    BY Zenon, <1>3, <2>1
  <2>2. CASE lifeOf' = [lifeOf EXCEPT ![t] = [status |-> "QUEUED",
                          run |-> lifeOf[t].run, retry |-> lifeOf[t].retry + 1]]
    <3> DEFINE row == [status |-> "QUEUED", run |-> lifeOf[t].run,
                       retry |-> lifeOf[t].retry + 1]
    <3>1. row.status # "ABSENT"
      BY ONLY TRUE, Zenon
    <3>2. lifeOf' = [lifeOf EXCEPT ![t] = row]
      BY Zenon, <2>2
    <3> HIDE DEF row
    <3> QED
      BY Zenon, <1>2, <3>1, <3>2
  <2> QED
    BY Zenon, <1>5, <2>1, <2>2 DEF Lifecycle!Return
<1>6. ASSUME NEW S \in SUBSET Task, NEW run, Lifecycle!Assign(S, run)
      PROVE  lifeOf'[u] = lifeOf[u]
  <2>1. lifeOf'[u] = IF u \in S
                     THEN [status |-> "ASSIGNED", run |-> run[u],
                           retry |-> lifeOf[u].retry]
                     ELSE lifeOf[u]
    BY Zenon, <1>6 DEF Lifecycle!Assign
  <2>2. CASE u \in S
    <3>1. lifeOf'[u] = [status |-> "ASSIGNED", run |-> run[u],
                        retry |-> lifeOf[u].retry]
      BY Zenon, <2>1, <2>2
    <3>2. lifeOf'[u].status = "ASSIGNED"
      BY ONLY <3>1
    <3> QED
      BY Zenon, <3>2
  <2>3. CASE u \notin S
    BY Zenon, <2>1, <2>3
  <2> QED
    BY Zenon, <2>2, <2>3
<1>7. ASSUME NEW b \in Batch, Lifecycle!StopBatch(b)
      PROVE  lifeOf'[u] = lifeOf[u]
  <2>1. lifeOf'[u] = IF BatchOf[u] = b /\ u \in Lifecycle!In("QUEUED")
                     THEN [lifeOf[u] EXCEPT !.status = "CANCELLED"] ELSE lifeOf[u]
    BY Zenon, <1>7 DEF Lifecycle!StopBatch
  <2>2. lifeOf[u] = [status |-> db[u].status, run |-> db[u].run,
                     retry |-> db[u].retry]
    BY Zenon, LifeRows
  <2>3. [lifeOf[u] EXCEPT !.status = "CANCELLED"].status = "CANCELLED"
    BY ONLY <2>2, Zenon
  <2> QED
    BY Zenon, <2>1, <2>3
<1>8. CASE UNCHANGED Lifecycle!lifeVars
  BY Zenon, <1>8 DEF Lifecycle!lifeVars
<1> QED
  BY Zenon, <1>4, <1>5, <1>6, <1>7, <1>8 DEF LifeStep, Lifecycle!Next

\* The empty database is the initial state of the life cycle.
LEMMA LifeInit == Init => Lifecycle!Init /\ AbsentLife
<1> SUFFICES ASSUME Init PROVE Lifecycle!Init /\ AbsentLife
  BY Zenon
<1>1. /\ db = [t \in Task |-> AbsentTask] /\ runs = [r \in RunId |-> AbsentRun]
      /\ stopRows = {}
  BY Zenon DEF Init, StoreInit
<1>2. lifeOf = [t \in Task |-> [status |-> "ABSENT", run |-> NoRun, retry |-> 0]]
  BY <1>1, Zenon DEF lifeOf, AbsentTask
<1>3. drawnRuns = {}
  BY <1>1 DEF drawnRuns
<1>4. AbsentLife
  BY <1>2, Zenon DEF AbsentLife
<1> QED
  BY Zenon, <1>1, <1>2, <1>3, <1>4 DEF Lifecycle!Init

\* The scheduling core implements the task life cycle, for every instance:
\* crashes, exceptions, lost workers and late messages included.
THEOREM CoreImplementsLifecycle == Spec => LifecycleSpec
<1>1. /\ TypeInv /\ CoreInv /\ HistoryInv /\ AbsentLife /\ [Next]_vars
        => AbsentLife' /\ [Lifecycle!Next]_(Lifecycle!lifeVars)
  BY LifeNext, AbsentKept DEF LifeStep
<1> QED
  BY <1>1, LifeInit, TypeInvariant, CoreInvariant, HistoryInvariant, PTL
     DEF Spec, LifecycleSpec, Lifecycle!Spec

-----------------------------------------------------------------------------
(* The workers that are held back after a restart.                         *)

\* A worker holds a slot for a planned or an assigned task.
PlanShrinks == \A u \in Task, w \in Worker : plan'[u].worker = w => plan[u].worker = w

\* Steps that make no task active keep recovered workers held, as long as
\* they let no worker go that still answers for a task.
LEMMA HoldKept ==
  ASSUME TypeInv, RecoveredWorkerHeld, \A u \in Task : HandlerMoves(u), PlanShrinks,
         \A w \in quarantined \ quarantined' : \A u \in Task :
           ~ (tasks'[u].status \in Active /\ tasks'[u].worker = w)
  PROVE  RecoveredWorkerHeld'
<1>1. \A u \in Task : tasks'[u].status \in Active =>
        /\ tasks[u].status \in Active /\ tasks'[u].worker = tasks[u].worker
        /\ tasks'[u].recovery = tasks[u].recovery
  <2> SUFFICES ASSUME NEW u \in Task, tasks'[u].status \in Active
               PROVE  /\ tasks[u].status \in Active
                      /\ tasks'[u].worker = tasks[u].worker
                      /\ tasks'[u].recovery = tasks[u].recovery
    BY Zenon
  <2>1. \A s \in Reported : s \notin Active
    BY Zenon DEF Reported, Active
  <2> QED
    BY Zenon, <2>1 DEF HandlerMoves
<1> SUFFICES ASSUME NEW t \in Task, tasks'[t].status \in Active, tasks'[t].recovery
             PROVE  /\ tasks'[t].worker \in quarantined'
                    /\ \A u \in Task : ~ HoldsSlot(u, tasks[t].worker)'
  BY Zenon DEF RecoveredWorkerHeld
<1>2. /\ tasks[t].worker \in quarantined /\ tasks'[t].worker = tasks[t].worker
      /\ \A u \in Task : ~ HoldsSlot(u, tasks[t].worker)
  BY Zenon, <1>1 DEF RecoveredWorkerHeld
<1>3. tasks[t].worker \in Worker
  BY Zenon, <1>2 DEF TypeInv, TypeOK
<1>4. tasks'[t].worker \in quarantined'
  BY Zenon, <1>2
<1>5. \A u \in Task : ~ HoldsSlot(u, tasks[t].worker)'
  BY Zenon, <1>1, <1>2, <1>3 DEF HoldsSlot, PlanShrinks
<1> QED
  BY Zenon, <1>4, <1>5

\* An acquired slot is not on a worker that is held back.
LEMMA HoldAcquire ==
  ASSUME TypeInv, HoldInv, ScheduleAcquire
  PROVE  HoldInv'
<1>1. /\ pass = "acquire" /\ pass' = "select" /\ UNCHANGED <<tasks, quarantined>>
      /\ picked \in Worker /\ picked \notin quarantined
  BY Zenon DEF ScheduleAcquire, memVars, HoldInv, TypeInv, PassShape
<1>2. PICK e \in pending :
        plan' = [plan EXCEPT ![e.task] = [worker |-> picked, run |-> nextRun]]
  BY Zenon DEF ScheduleAcquire
<1>3. plan \in [Task -> [worker : Worker, run : RunId] \cup {NoPlan}]
  BY Zenon DEF TypeInv, TypeOK
<1>4. \A u \in Task : plan'[u] = plan[u] \/ plan'[u].worker = picked
  BY <1>2, <1>3, Zenon
<1>5. RecoveredWorkerHeld'
  BY Zenon, <1>1, <1>4 DEF HoldInv, RecoveredWorkerHeld, HoldsSlot
<1> QED
  BY <1>1, <1>5, Zenon DEF HoldInv

\* The commit turns planned slots into assigned ones of the same workers.
LEMMA HoldCommit ==
  ASSUME TypeInv, HoldInv, ScheduleCommit
  PROVE  HoldInv'
<1>1. /\ pass' = "dispatch" /\ quarantined' = quarantined
      /\ tasks' = [t \in Task |-> IF t \in planned THEN assignedRow(t) ELSE tasks[t]]
      /\ plan' = [t \in Task |-> NoPlan]
  BY Zenon DEF ScheduleCommit
<1>2. \A t \in planned : /\ tasks'[t].worker = plan[t].worker
                         /\ ~ tasks'[t].recovery /\ t \in Task
  <2> SUFFICES ASSUME NEW t \in planned
               PROVE  tasks'[t].worker = plan[t].worker /\ ~ tasks'[t].recovery /\ t \in Task
    OBVIOUS
  <2>1. t \in Task /\ tasks[t] \in TaskRow
    BY Zenon DEF planned, TypeInv, TypeOK
  <2>2. tasks'[t] = assignedRow(t)
    BY Zenon, <1>1, <2>1
  <2>3. ~ assignedRow(t).recovery
    BY Zenon, <2>1 DEF assignedRow, TaskRow
  <2> QED
    BY Zenon, <2>1, <2>2, <2>3, PlannedRow
<1>3. \A t \in Task : t \notin planned => tasks'[t] = tasks[t]
  BY Zenon, <1>1
<1>4. \A t \in Task : plan'[t].worker \notin Worker
  <2>1. \A t \in Task : plan'[t].worker = NoWorker
    BY Zenon, <1>1 DEF NoPlan
  <2> QED
    BY Zenon, <2>1, Constants
<1> SUFFICES ASSUME NEW t \in Task, tasks'[t].status \in Active, tasks'[t].recovery
             PROVE  /\ tasks'[t].worker \in quarantined'
                    /\ \A u \in Task : ~ HoldsSlot(u, tasks[t].worker)'
  BY Zenon, <1>1, <1>2, <1>3 DEF HoldInv, RecoveredWorkerHeld
<1>5. /\ tasks'[t] = tasks[t] /\ tasks[t].worker \in quarantined
      /\ \A u \in Task : ~ HoldsSlot(u, tasks[t].worker)
  BY Zenon, <1>2, <1>3 DEF HoldInv, RecoveredWorkerHeld
<1>6. tasks[t].worker \in Worker
  BY Zenon, <1>5 DEF TypeInv, TypeOK
<1>7. ASSUME NEW u \in Task PROVE ~ HoldsSlot(u, tasks[t].worker)'
  BY Zenon, <1>2, <1>3, <1>4, <1>5, <1>6, <1>7 DEF HoldsSlot
<1> QED
  BY Zenon, <1>1, <1>5, <1>7

\* restoreFrom holds every worker back that answers for a task.
LEMMA HoldRestart ==
  ASSUME TypeInv, Restart
  PROVE  HoldInv'
<1>1. /\ pass' = "idle" /\ plan' = [t \in Task |-> NoPlan]
      /\ tasks' = [t \in Task |-> restoredRow(t)] /\ markRecovery
      /\ quarantined' = {w \in Worker : \E t \in Task :
                           restoredRow(t).recovery /\ restoredRow(t).worker = w}
  BY Zenon DEF Restart
<1>2. db \in [Task -> TaskRow] /\ \A t \in Task : RowShape(db[t])
  BY Zenon DEF TypeInv, TypeOK, StoreType
<1>3. ASSUME NEW t \in Task, tasks'[t].status \in Active
      PROVE  tasks'[t].recovery /\ tasks'[t].worker \in Worker
  <2>1. tasks'[t] = restoredRow(t)
    BY Zenon, <1>1
  <2>2. tasks'[t] = db'[t]
    <3>1. AbsentTask.status \notin Active
      BY DEF AbsentTask, Active
    <3> QED
      BY Zenon, <1>3, <2>1, <3>1 DEF restoredRow
  <2>3. db'[t] = IF db[t].status \in Active
                 THEN [db[t] EXCEPT !.recovery = TRUE] ELSE db[t]
    BY Zenon, <1>1 DEF markRecovery
  <2>4. db[t].status \in Active /\ db'[t] = [db[t] EXCEPT !.recovery = TRUE]
    BY Zenon, <1>3, <2>2, <2>3
  <2>5. /\ [db[t] EXCEPT !.recovery = TRUE].recovery
        /\ [db[t] EXCEPT !.recovery = TRUE].worker = db[t].worker
        /\ db[t].worker \in Worker \cup {NoWorker}
    BY Zenon, <1>2 DEF TaskRow
  <2> QED
    BY Zenon, <1>2, <2>2, <2>4, <2>5 DEF RowShape
<1>4. \A t \in Task : plan'[t].worker \notin Worker
  <2>1. \A t \in Task : plan'[t].worker = NoWorker
    BY Zenon, <1>1 DEF NoPlan
  <2> QED
    BY Zenon, <2>1, Constants
<1>5. \A t \in Task : tasks'[t].status \in Active => tasks'[t].worker \in quarantined'
  BY Zenon, <1>1, <1>3
<1>6. RecoveredWorkerHeld'
  BY Zenon, <1>3, <1>4, <1>5 DEF RecoveredWorkerHeld, HoldsSlot
<1> QED
  BY <1>1, <1>6 DEF HoldInv

\* The rollback of an assignment leaves its task inactive.
LEMMA RollbackMoves ==
  ASSUME TypeInv, rollbackAssignment
  PROVE  \A u \in Task : HandlerMoves(u)
<1> DEFINE t == current.task
<1>1. /\ t \notin dispatching
      /\ tasks' = tasks \/ tasks' = [tasks EXCEPT ![t] = rolledBackRow(t)]
  BY Zenon DEF rollbackAssignment, canRollback
<1>2. t \in Task /\ tasks \in [Task -> TaskRow] /\ pass = "rollback"
  BY Zenon, PassTasks DEF TypeInv, TypeOK, rollbackAssignment
<1> HIDE DEF t
<1>3. rolledBackRow(t).status \notin Active
  <2>1. tasks[t] \in TaskRow
    BY Zenon, <1>2
  <2>2. rolledBackRow(t).status \in {"QUEUED", "CANCELLED"}
    BY Zenon, <2>1 DEF rolledBackRow, TaskRow
  <2> QED
    BY Zenon, <2>2 DEF Active
<1> QED
  BY Zenon, <1>1, <1>2, <1>3 DEF HandlerMoves

\* Every step of the scheduling core keeps recovered workers held.
LEMMA HoldNext ==
  ASSUME TypeInv, CoreInv, ClaimInv, HoldInv, [Next]_vars
  PROVE  HoldInv'
<1>0. \A u \in Task : tasks'[u] = tasks[u] => HandlerMoves(u)
  BY Zenon DEF HandlerMoves
<1>p. UNCHANGED plan => PlanShrinks
  BY Zenon DEF PlanShrinks
<1>h. (\A u \in Task : HandlerMoves(u)) /\ PlanShrinks
        /\ quarantined' = quarantined /\ pass' # "acquire" => HoldInv'
  BY Zenon, HoldKept DEF HoldInv
<1>q. UNCHANGED <<tasks, quarantined, plan, pass, picked>> => HoldInv'
  BY Zenon, <1>0, <1>p, HoldKept DEF HoldInv
<1>m. MutexFree => pass # "acquire"
  BY DEF MutexFree, Planning
<1>1. CASE Coordinate
  <2>1. CASE \/ PassStart \/ ScheduleBegin \/ ScheduleStop
             \/ ScheduleAcquireFails \/ DispatchClaim
             \/ DispatchSkip \/ DispatchSend \/ DispatchReturn \/ DispatchFail
             \/ RollbackRefused \/ PassEnd
    <3>1. UNCHANGED <<tasks, quarantined, plan>> /\ pass' # "acquire"
      BY Zenon, <1>m, <2>1
         DEF PassStart, ScheduleBegin, ScheduleStop,
             ScheduleAcquireFails, DispatchClaim, DispatchSkip, DispatchSend,
             DispatchReturn, DispatchFail, RollbackRefused, PassEnd, memVars, passVars
    <3> QED
      BY Zenon, <1>0, <1>h, <1>p, <3>1
  <2>2. CASE \E w \in Worker : ScheduleSelect(w)
    <3>1. UNCHANGED <<tasks, quarantined, plan>> /\ picked' \notin quarantined
      BY Zenon, <2>2 DEF ScheduleSelect, eligible, memVars
    <3> QED
      BY Zenon, <1>0, <1>p, <3>1, HoldKept DEF HoldInv
  <2>3. CASE rollbackAssignment
    <3>1. UNCHANGED <<quarantined, plan>> /\ pass' # "acquire"
      BY Zenon, <2>3 DEF rollbackAssignment
    <3> QED
      BY Zenon, <1>h, <1>p, <2>3, <3>1, RollbackMoves
  <2> QED
    BY Zenon, <1>1, <2>1, <2>2, <2>3, HoldAcquire, HoldCommit DEF Coordinate
<1>2. CASE Client \/ \E t \in Task, k \in Key \cup {NoKey} : SubmitThrows(t, k)
  <2>1. MutexFree
    BY Zenon, <1>2 DEF Client, submitTask, cancelTask, cancelBatch, SubmitThrows
  <2> QED
    BY Zenon, <1>h, <1>m, <1>p, <1>2, <2>1, ClientMoves DEF passVars
<1>3. CASE Execution
  <2>1. PICK t \in Task, w \in Worker, r \in RunId :
          TaskStart(t, w, r) \/ \E s \in Reported : TaskResult(t, w, r, s)
    BY Zenon, <1>3 DEF Execution, Reported
  <2>2. /\ \A u \in Task : HandlerMoves(u)
        /\ UNCHANGED <<pass, plan>> /\ MutexFree
    BY Zenon, <2>1, ExecutionMoves DEF passVars, TaskStart, TaskResult
  <2>3. \A v \in quarantined \ quarantined' : \A u \in Task :
          ~ (tasks'[u].status \in Active /\ tasks'[u].worker = v)
    BY Zenon, <2>1 DEF TaskStart, TaskResult, completeTask, releaseRecoveryHold
  <2> QED
    BY Zenon, <1>m, <1>p, <2>2, <2>3, HoldKept DEF HoldInv
<1>4. CASE Recovery
  <2>1. CASE IdleReady
    <3>1. /\ UNCHANGED <<tasks, plan, pass, picked>>
          /\ \A v \in quarantined \ quarantined' : ActiveOn(v) = {}
          /\ quarantined' \subseteq quarantined
      BY Zenon, <2>1 DEF IdleReady, passVars
    <3>2. \A v \in quarantined \ quarantined' : \A u \in Task :
            ~ (tasks'[u].status \in Active /\ tasks'[u].worker = v)
      BY Zenon, <3>1 DEF ActiveOn
    <3> QED
      BY Zenon, <1>0, <1>p, <3>1, <3>2, HoldKept DEF HoldInv
  <2>2. CASE \/ \E t \in Task, w \in Worker, r \in RunId : RecoverActive(t, w, r)
             \/ \E w \in Worker : RecoverIdle(w)
             \/ IdleBlocked
    BY Zenon, <1>q, <2>2, QuietSteps DEF passVars
  <2>3. ASSUME NEW t \in Task,
               \/ \E w \in Worker, r \in RunId : RecoverLost(t, w, r)
               \/ IdleRequeue(t)
        PROVE  HoldInv'
    <3>1. /\ \A u \in Task : HandlerMoves(u)
          /\ UNCHANGED <<quarantined, pass, plan, picked>>
      BY Zenon, <2>3, LossMoves DEF passVars
    <3> QED
      BY Zenon, <1>p, <3>1, HoldKept DEF HoldInv
  <2> QED
    BY Zenon, <1>4, <2>1, <2>2, <2>3 DEF Recovery
<1>5. CASE RecoveryRegister \/ PlainRegister \/ Heartbeat \/ Close \/ Unavailability
  BY Zenon, <1>q, <1>5, QuietSteps DEF passVars
<1>6. CASE Exception
  <2>1. CASE ScheduleThrows \/ ScheduleRethrow \/ RollbackThrows \/ DispatchClaimThrows
    <3>1. UNCHANGED <<tasks, quarantined, plan>> /\ pass' # "acquire"
      BY Zenon, <2>1
         DEF ScheduleThrows, ScheduleRethrow, RollbackThrows, DispatchClaimThrows, memVars
    <3> QED
      BY Zenon, <1>0, <1>h, <1>p, <3>1
  <2>2. CASE ScheduleUndo
    <3>1. /\ UNCHANGED <<tasks, quarantined>> /\ pass' # "acquire"
          /\ plan' = [plan EXCEPT ![Head(todo).task] = NoPlan]
      BY Zenon, <2>2 DEF ScheduleUndo, memVars
    <3>2. plan \in [Task -> [worker : Worker, run : RunId] \cup {NoPlan}]
      BY Zenon DEF TypeInv, TypeOK
    <3>3. \A u \in Task : plan'[u] = plan[u] \/ plan'[u] = NoPlan
      BY <3>1, <3>2, Zenon
    <3>4. NoPlan.worker \notin Worker
      BY Constants DEF NoPlan
    <3>5. PlanShrinks
      BY Zenon, <3>3, <3>4 DEF PlanShrinks
    <3> QED
      BY Zenon, <1>0, <1>h, <3>1, <3>5
  <2>3. CASE \/ IdleThrows
             \/ \E t \in Task, w \in Worker, r \in RunId : RecoverLostThrows(t, w, r)
    BY Zenon, <1>q, <2>3, QuietSteps DEF passVars
  <2> QED
    BY Zenon, <1>2, <1>6, <2>1, <2>2, <2>3 DEF Exception
<1>7. CASE Restart
  BY Zenon, <1>7, HoldRestart
<1>8. CASE UNCHANGED vars
  BY Zenon, <1>q, <1>8 DEF vars, memVars, passVars
<1> QED
  BY Zenon, <1>1, <1>2, <1>3, <1>4, <1>5, <1>6, <1>7, <1>8 DEF Next

\* No worker that is held back is picked, and every worker that answers for a
\* recovered task is held back and holds no other.
THEOREM HoldInvariant == Spec => []HoldInv
<1>1. Init => HoldInv
  <2> SUFFICES ASSUME Init PROVE HoldInv
    BY Zenon
  <2>1. pass = "idle" /\ \A t \in Task : tasks[t].status = "ABSENT"
    BY Zenon DEF Init, AbsentTask
  <2> QED
    BY <2>1, Zenon DEF HoldInv, RecoveredWorkerHeld, Active
<1>2. TypeInv /\ CoreInv /\ (ClaimInv /\ MessagesInv) /\ HoldInv /\ [Next]_vars => HoldInv'
  BY HoldNext, Zenon
<1>3. TypeInv /\ CoreInv /\ HistoryInv /\ (ClaimInv /\ MessagesInv) /\ [Next]_vars
        => (ClaimInv /\ MessagesInv)'
  BY Zenon, ClaimNext, MessagesNext DEF MessagesInv
<1> QED
  BY <1>1, <1>2, <1>3, DispatchInit, TypeInvariant, CoreInvariant, HistoryInvariant, PTL
     DEF Spec

\* After a crash, a worker takes no new task while one of the old server
\* process is still unsettled on it.
THEOREM RecoveredIsHeld == Spec => []RecoveredWorkerHeld
<1>1. HoldInv => RecoveredWorkerHeld
  BY DEF HoldInv
<1> QED
  BY <1>1, HoldInvariant, PTL

-----------------------------------------------------------------------------
(* The order and the number of the assignments.                            *)

\* Only schedule() plans an assignment, by acquiring a slot for it.
LEMMA OnlyAcquirePlans ==
  ASSUME TypeInv, [Next]_vars, NEW t \in Task, plan[t] = NoPlan, plan'[t] # NoPlan
  PROVE  ScheduleAcquire
<1>1. plan \in [Task -> [worker : Worker, run : RunId] \cup {NoPlan}]
  BY Zenon DEF TypeInv, TypeOK
<1>2. plan' # plan
  BY Zenon
<1>3. ~ (UNCHANGED passVars) /\ ~ (UNCHANGED plan)
  BY Zenon, <1>2 DEF passVars
<1>4. ~ ScheduleCommit /\ ~ Restart
  BY Zenon DEF ScheduleCommit, Restart
<1>5. ~ ScheduleUndo
  <2>1. ScheduleUndo => plan' = [plan EXCEPT ![Head(todo).task] = NoPlan]
    BY Zenon DEF ScheduleUndo
  <2> QED
    BY <1>1, <2>1
<1>6. ~ Client /\ ~ Execution /\ ~ Recovery
  BY Zenon, <1>3
     DEF Client, Execution, Recovery, submitTask, cancelTask, cancelBatch, TaskStart,
         TaskResult, RecoverLost, RecoverActive, RecoverIdle, IdleRequeue, IdleBlocked,
         IdleReady
<1>7. ~ (RecoveryRegister \/ PlainRegister \/ Heartbeat \/ Close \/ Unavailability)
  BY Zenon, <1>3, QuietSteps DEF passVars
<1>8. ~ Exception
  BY Zenon, <1>3, <1>5
     DEF Exception, ScheduleThrows, ScheduleRethrow, DispatchClaimThrows,
         RollbackThrows, IdleThrows, RecoverLostThrows, SubmitThrows
<1>9. Coordinate => ScheduleAcquire
  BY Zenon, <1>3, <1>4
     DEF Coordinate, PassStart, ScheduleBegin, ScheduleStop, ScheduleSelect,
         ScheduleAcquireFails, DispatchClaim, DispatchSkip, DispatchSend,
         DispatchReturn, DispatchFail, rollbackAssignment, RollbackRefused, PassEnd
<1>10. ~ UNCHANGED vars
  BY Zenon, <1>3 DEF vars
<1> QED
  BY Zenon, <1>4, <1>6, <1>7, <1>8, <1>9, <1>10 DEF Next

\* What an acquired slot is for: the queued task on top of the pending ones.
LEMMA AcquiredTop ==
  ASSUME TypeInv, CoreInv, ScheduleAcquire
  PROVE  \E e \in pending :
           /\ e \in Entry /\ isTop(e, pending)
           /\ tasks[e.task].status = "QUEUED" /\ e.seq = db[e.task].seq
           /\ \A u \in Task : u # e.task => plan'[u] = plan[u]
           /\ plan'[e.task].worker = picked
<1>1. PICK e \in pending :
        /\ isTop(e, pending)
        /\ plan' = [plan EXCEPT ![e.task] = [worker |-> picked, run |-> nextRun]]
  BY Zenon DEF ScheduleAcquire
<1>2. /\ pass = "acquire" /\ pending \subseteq Entry
      /\ plan \in [Task -> [worker : Worker, run : RunId] \cup {NoPlan}]
  BY Zenon DEF ScheduleAcquire, TypeInv, TypeOK
<1>3. e \in Entry /\ e.task \in Task
  BY Zenon, <1>2 DEF Entry
<1>4. tasks[e.task].status = "QUEUED"
  <2>1. PICK f \in pending :
          tasks[f.task].status = "QUEUED" /\ (f = e \/ Before(f, e))
    BY Zenon, <1>2 DEF CoreInv, PassInv, TopIsLive
  <2>2. f # e => Before(e, f)
    BY Zenon, <1>1 DEF isTop
  <2> QED
    BY Zenon, <1>2, <1>3, <2>1, <2>2, BeforeAsymmetric
<1>5. e.seq = tasks[e.task].seq
  BY Zenon, <1>2, <1>4 DEF CoreInv, PassInv, PendingExact, EntryFresh
<1>6. db[e.task] = tasks[e.task]
  BY <1>3, <1>4, Resident
<1>7. (\A u \in Task : u # e.task => plan'[u] = plan[u]) /\ plan'[e.task].worker = picked
  BY <1>1, <1>2, <1>3, Zenon
<1> QED
  BY Zenon, <1>1, <1>3, <1>4, <1>5, <1>6, <1>7

\* schedule() plans tasks in the order of their priority and sequence, also
\* after rollbacks, recoveries and restarts.
THEOREM OrderIsKept == Spec => NoOvertaking
<1>1. ASSUME TypeInv, CoreInv, [Next]_vars, NEW t \in Task, NEW u \in Task,
             plan[t] = NoPlan, plan'[t] # NoPlan,
             u # t, tasks[u].status = "QUEUED", plan[u] = NoPlan
      PROVE  Before([task |-> t, seq |-> db[t].seq], [task |-> u, seq |-> db[u].seq])
  <2>1. ScheduleAcquire
    BY Zenon, <1>1, OnlyAcquirePlans
  <2>2. PICK e \in pending :
          /\ e \in Entry /\ isTop(e, pending)
          /\ tasks[e.task].status = "QUEUED" /\ e.seq = db[e.task].seq
          /\ \A v \in Task : v # e.task => plan'[v] = plan[v]
    BY Zenon, <1>1, <2>1, AcquiredTop
  <2>3. e.task = t
    BY Zenon, <1>1, <2>2
  <2> DEFINE f == [task |-> u, seq |-> tasks[u].seq]
  <2>4. pass = "acquire"
    BY Zenon, <2>1 DEF ScheduleAcquire
  <2>5. f \in pending
    BY Zenon, <1>1, <2>4 DEF CoreInv, PassInv, PendingExact
  <2>6. f # e
    <3>1. f.task = u
      BY Zenon
    <3> HIDE DEF f
    <3> QED
      BY Zenon, <1>1, <2>3, <3>1
  <2>7. Before(e, f)
    BY Zenon, <2>2, <2>5, <2>6 DEF isTop
  <2>8. db[u] = tasks[u]
    BY <1>1, Resident, Zenon
  <2> QED
    BY <2>2, <2>3, <2>7, <2>8 DEF Before
<1>2. TypeInv /\ CoreInv /\ [Next]_vars =>
        [\A t, u \in Task :
           /\ plan[t] = NoPlan /\ plan'[t] # NoPlan
           /\ u # t /\ tasks[u].status = "QUEUED" /\ plan[u] = NoPlan
           => Before([task |-> t, seq |-> db[t].seq],
                     [task |-> u, seq |-> db[u].seq])]_vars
  BY Zenon, <1>1
<1> QED
  BY <1>2, TypeInvariant, CoreInvariant, PTL DEF Spec, NoOvertaking

\* schedule() never gives a worker more than the slots it registered, and
\* counts the tasks of earlier server processes.
THEOREM NeverOvercommitted == Spec => NoOvercommit
<1>1. ASSUME TypeInv, CoreInv, HoldInv, [Next]_vars, NEW t \in Task, NEW w \in Worker,
             plan[t] = NoPlan, plan'[t].worker = w
      PROVE  Cardinality(AnswersFor(w)) < workers[w].total
  <2>1. plan'[t] # NoPlan
    BY ONLY <1>1, Constants DEF NoPlan
  <2>2. ScheduleAcquire
    BY Zenon, <1>1, <2>1, OnlyAcquirePlans
  <2>3. PICK e \in pending : /\ \A v \in Task : v # e.task => plan'[v] = plan[v]
                             /\ plan'[e.task].worker = picked
    BY Zenon, <1>1, <2>2, AcquiredTop
  <2>4. picked = w
    BY Zenon, <1>1, <2>1, <2>3
  <2>5. /\ w \notin quarantined /\ w \in getAvailableWorkers
        /\ UNCHANGED tasks
    BY Zenon, <1>1, <2>2, <2>4 DEF HoldInv, ScheduleAcquire, canAcquire, memVars
  <2>6. AnswersFor(w) \subseteq Holders(w)
    <3> SUFFICES ASSUME NEW u \in Task, db[u].status \in Active, db[u].worker = w
                 PROVE  HoldsSlot(u, w)
      BY Zenon DEF AnswersFor, Holders, HoldsSlot
    <3>1. tasks[u] = db[u]
      <4>1. db[u].status \notin Terminal \cup {"ABSENT"}
        BY DEF Active, Terminal
      <4> QED
        BY Zenon, <1>1, <4>1 DEF CoreInv, MemoryInv, StoreAgrees
    <3>2. ~ tasks[u].recovery
      BY Zenon, <1>1, <2>5, <3>1 DEF HoldInv, RecoveredWorkerHeld
    <3> QED
      BY Zenon, <3>1, <3>2 DEF HoldsSlot
  <2>7. /\ IsFiniteSet(Holders(w)) /\ workers[w].used = Cardinality(Holders(w))
    BY Zenon, <1>1, TaskSetsFinite DEF Holders, CoreInv, MemoryInv, SlotAccounting
  <2>8. /\ Cardinality(AnswersFor(w)) \in Nat /\ Cardinality(Holders(w)) \in Nat
        /\ Cardinality(AnswersFor(w)) <= Cardinality(Holders(w))
    BY Zenon, <2>6, <2>7, FS_Subset, FS_CardinalityType
  <2>9. workers[w].used < workers[w].total
    <3>1. workers[w].used \in Nat /\ workers[w].total \in Nat
      BY <1>1 DEF TypeInv, TypeOK, WorkersType, WorkerRecord
    <3> QED
      BY <2>5, <3>1 DEF getAvailableWorkers, freeSlots
  <2>10. workers[w].total \in Nat
    BY <1>1 DEF TypeInv, TypeOK, WorkersType, WorkerRecord
  <2> QED
    BY <2>7, <2>8, <2>9, <2>10
<1>2. TypeInv /\ CoreInv /\ HoldInv /\ [Next]_vars =>
        [\A t \in Task, w \in Worker :
           plan[t] = NoPlan /\ plan'[t].worker = w =>
             Cardinality(AnswersFor(w)) < workers[w].total]_vars
  BY Zenon, <1>1
<1> QED
  BY <1>2, TypeInvariant, CoreInvariant, HoldInvariant, PTL DEF Spec, NoOvercommit
=============================================================================
