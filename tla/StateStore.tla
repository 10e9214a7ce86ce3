----------------------------- MODULE StateStore -----------------------------
(***************************************************************************)
(* The SQLite tables that survive a server process                         *)
(* (server/src/StateStore.cpp): tasks, task_runs, recovery_decisions,      *)
(* submission_keys and the stopped batches.  StateStore::save is one       *)
(* BEGIN IMMEDIATE ... COMMIT transaction, so it is one atomic change of   *)
(* these variables, or no change when it throws.                           *)
(*                                                                         *)
(* Of a task row the model keeps the columns the scheduler decides with.   *)
(* The target, payload, execution summary and time stamps are left out;    *)
(* the priority and the batch of a task never change after submission, so  *)
(* they are constants of the task.  Run ids are drawn at random by         *)
(* newRunId; the model numbers them in the order in which they are drawn   *)
(* (nextRun), which takes their uniqueness as given.                       *)
(***************************************************************************)
EXTENDS Integers, FiniteSets, WorkerManager

CONSTANTS Task,      \* task ids, positive integers
          Batch,     \* batch ids
          BatchOf,   \* the batch of each task, or NoBatch
          NoBatch,
          Priority,  \* the priority of each task
          Key,       \* client submission keys
          MaxRun     \* bound: how many run ids a behaviour draws

NoTask == 0
NoRun  == 0
NoKey  == "no key"
RunId  == 1..MaxRun

ASSUME StoreAssumption ==
  /\ IsFiniteSet(Task) /\ Task \subseteq Nat \ {0}
  /\ NoBatch \notin Batch /\ BatchOf \in [Task -> Batch \cup {NoBatch}]
  /\ Priority \in [Task -> Int]
  /\ NoKey \notin Key
  /\ MaxRun \in Nat

VARIABLES db,        \* the tasks table
          runs,      \* the task_runs table
          decisions, \* the recovery_decisions table
          stopRows,  \* the batches with stop_requested = 1
          keys       \* the submission_keys table

storeVars == <<db, runs, decisions, stopRows, keys>>

Active   == {"ASSIGNED", "RUNNING"}
Terminal == {"SUCCEEDED", "FAILED", "TIMEOUT", "CANCELLED"}

\* ABSENT: there is no such row (or no such entry in the scheduler's map).
TaskStatus == {"ABSENT", "QUEUED"} \cup Active \cup Terminal
RunStatus  == Active \cup {"SUCCEEDED", "FAILED", "TIMEOUT", "DISPATCH_FAILED"}

TaskRow == [status : TaskStatus, worker : Worker \cup {NoWorker}, retry : Nat,
            seq : Nat, run : RunId \cup {NoRun}, recovery : BOOLEAN]
RunRow  == [task : Task \cup {NoTask}, worker : Worker \cup {NoWorker},
            status : RunStatus \cup {"NONE"}]
Decision == [task : Task \cup {NoTask}, worker : Worker \cup {NoWorker},
             action : {"none", "requeued", "failed", "cancelled"}]

AbsentTask == [status |-> "ABSENT", worker |-> NoWorker, retry |-> 0,
               seq |-> 0, run |-> NoRun, recovery |-> FALSE]
AbsentRun  == [task |-> NoTask, worker |-> NoWorker, status |-> "NONE"]
Undecided  == [task |-> NoTask, worker |-> NoWorker, action |-> "none"]

\* An active row names its worker and its run, a queued or cancelled one has
\* no worker.
RowShape(row) ==
  /\ row.status \in Active => row.worker # NoWorker /\ row.run # NoRun
  /\ row.status \in {"ABSENT", "QUEUED", "CANCELLED"} => row.worker = NoWorker

\* The CHECK constraints of the tables are part of their type.
StoreType ==
  /\ db \in [Task -> TaskRow]
  /\ \A t \in Task : RowShape(db[t])
  /\ runs \in [RunId -> RunRow]
  /\ decisions \in [RunId -> Decision]
  /\ stopRows \subseteq Batch
  /\ keys \in [Key -> Task \cup {NoTask}]

StoreInit ==
  /\ db = [t \in Task |-> AbsentTask]
  /\ runs = [r \in RunId |-> AbsentRun]
  /\ decisions = [r \in RunId |-> Undecided]
  /\ stopRows = {}
  /\ keys = [k \in Key |-> NoTask]

-----------------------------------------------------------------------------
\* Mutant: only tasks with a worker reach the run history.
writesRunOwned(row, override, r) == row.run = r /\ row.worker # NoWorker

\* The rows of save: a function from the tasks it is given to their new rows.
\* "" is the absent run_status_override.
writesRun(row, override, r) ==
  row.run = r /\ (override # "" \/ row.worker # NoWorker)

savedRun(t, row, override) ==
  [task   |-> IF runs[row.run] = AbsentRun THEN t ELSE runs[row.run].task,
   worker |-> IF runs[row.run] = AbsentRun THEN row.worker
              ELSE runs[row.run].worker,
   status |-> IF override # "" THEN override ELSE row.status]

\* The task and run rows written by one save: insert-or-ignore, then update.
saveRows(rows, override) ==
  /\ db' = [t \in Task |-> IF t \in DOMAIN rows THEN rows[t] ELSE db[t]]
  /\ runs' = [r \in RunId |->
       IF \E t \in DOMAIN rows : writesRun(rows[t], override, r)
       THEN LET t == CHOOSE t \in DOMAIN rows : writesRun(rows[t], override, r)
            IN  savedRun(t, rows[t], override)
       ELSE runs[r]]

\* save({row}) for the single task t.
saveOne(t, row, override) == saveRows([u \in {t} |-> row], override)

\* recoveryDecision: the saved answer to a repeated "lost" request.
recoveryDecision(r, t, w) ==
  IF decisions[r].task = t /\ decisions[r].worker = w
  THEN decisions[r].action ELSE "none"

\* The constructor's UPDATE: what was in flight must be reconciled.
markRecovery ==
  db' = [t \in Task |-> IF db[t].status \in Active
                        THEN [db[t] EXCEPT !.recovery = TRUE] ELSE db[t]]

\* highWaterMarks().second = m: the largest queue_sequence of a row, or 0.
highWaterMark(m) ==
  /\ \A t \in Task : db[t].status # "ABSENT" => db[t].seq <= m
  /\ m = 0 \/ \E t \in Task : db[t].status # "ABSENT" /\ db[t].seq = m
=============================================================================
