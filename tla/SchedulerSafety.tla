--------------------------- MODULE SchedulerSafety ---------------------------
(***************************************************************************)
(* What the scheduling core promises: safety invariants, action properties *)
(* and liveness of the Scheduler module.                                   *)
(***************************************************************************)
EXTENDS Scheduler

\* t occupies one of the used_slots of w: it is assigned to w by this server
\* process, or schedule() has acquired a slot for it and not committed yet.
HoldsSlot(t, w) ==
  \/ /\ tasks[t].status \in Active /\ tasks[t].worker = w
     /\ ~ tasks[t].recovery
  \/ plan[t].worker = w

Holders(w) == {t \in Task : HoldsSlot(t, w)}

\* Slot accounting: used_slots of every worker is exactly the number of tasks
\* that occupy it.  acquireSlot and releaseSlot are spread over schedule, its
\* two undo loops, rollbackAssignment, completeTask and recoverLost, and a
\* recovered task never took a slot of the new process: one release too many
\* or too few and the slot is oversold or lost.
SlotAccounting ==
  \A w \in Worker :
    workers[w].used = Cardinality(Holders(w))

\* The tasks that w answers for, those of earlier server processes included.
AnswersFor(w) == {t \in Task : \/ db[t].status \in Active /\ db[t].worker = w
                               \/ plan[t].worker = w}

\* schedule() gives a worker one more task only while it answers for fewer
\* than the slots it has registered, counting the tasks that an earlier
\* server process gave it (p11-sqlite.md: recovered assignments are never
\* requeued automatically and quarantine the worker).
NoOvercommit ==
  [][\A t \in Task, w \in Worker :
       plan[t] = NoPlan /\ plan'[t].worker = w =>
         Cardinality(AnswersFor(w)) < workers[w].total]_vars

\* A worker that answers for a task of an earlier server process is held back
\* until that task is settled, and takes no other task meanwhile.
RecoveredWorkerHeld ==
  \A t \in Task :
    tasks[t].status \in Active /\ tasks[t].recovery =>
      /\ tasks[t].worker \in quarantined
      /\ \A u \in Task : ~ HoldsSlot(u, tasks[t].worker)

\* The database and the memory agree after every operation, whatever throws
\* and wherever the process dies: a resident task is its row, and a task that
\* is not resident is finished.
StoreAgrees ==
  /\ \A t \in Task : tasks[t].status # "ABSENT" => tasks[t] = db[t]
  /\ \A t \in Task : tasks[t].status = "ABSENT" =>
                       db[t].status \in Terminal \cup {"ABSENT"}
  /\ stopped = stopRows

\* The queue with lazy deletion: its live entries are exactly the queued
\* tasks, each once and with its saved sequence.  A missing entry is a task
\* that never runs; a second one is a task scheduled twice in one pass.
QueueExact ==
  {e \in queue : tasks[e.task].status = "QUEUED"} =
  {[task |-> t, seq |-> tasks[t].seq] :
     t \in {u \in Task : tasks[u].status = "QUEUED"}}

\* A stopped batch has nothing left to schedule: what was queued is
\* cancelled, a failed dispatch or a lost run is cancelled instead of queued
\* again, in memory and in the database (batch-stop.md).
StoppedBatchDrained ==
  \A t \in Task : BatchOf[t] \in stopRows \cup stopped =>
                    tasks[t].status # "QUEUED" /\ db[t].status # "QUEUED"

\* The run history is consistent with the tasks: an open run is the current
\* run of its task, with the same worker and status, and an active task has
\* its run open and undecided.  So a task never has two open runs.
RunHistory ==
  /\ \A r \in RunId : runs[r].status \in Active =>
       /\ runs[r].task \in Task
       /\ db[runs[r].task].run = r
       /\ db[runs[r].task].status = runs[r].status
       /\ db[runs[r].task].worker = runs[r].worker
  /\ \A t \in Task : db[t].status \in Active =>
       /\ db[t].run \in RunId
       /\ runs[db[t].run] = [task |-> t, worker |-> db[t].worker,
                             status |-> db[t].status]
       /\ decisions[db[t].run] = Undecided

\* While an assignment is being handed to the connection its task stays
\* resident and keeps the run in the snapshot: it is not cancelled, rolled
\* back, recovered or evicted under the sender.
ClaimPinned ==
  \A t \in dispatching :
    /\ current.task = t
    /\ tasks[t].run = current.run
    /\ tasks[t].worker = current.worker
    /\ tasks[t].status \in Active \cup {"SUCCEEDED", "FAILED", "TIMEOUT"}

\* rollbackAssignment is given a task id and no run.  When it finds the task
\* ASSIGNED, that is still the assignment whose dispatch failed, although the
\* mutex was released in between; and a run whose dispatch was rolled back was
\* never handed to a connection, so nobody executes it.
RollbackOwnsRun ==
  /\ pass = "rollback" /\ tasks[current.task].status = "ASSIGNED" =>
       /\ tasks[current.task].run = current.run
       /\ tasks[current.task].worker = current.worker
       /\ current.run \notin sent
  /\ \A r \in RunId : runs[r].status = "DISPATCH_FAILED" => r \notin sent

\* An assignment that was not sent yet is in the hands of the pass that made
\* it: it is never left ASSIGNED on a worker that does not know of it.  (It
\* is, when the save of a rollback throws, and after a restart.)
UnsentIsOwned ==
  \A t \in Task :
    tasks[t].status = "ASSIGNED" /\ tasks[t].run \notin sent =>
      \/ pass \in {"send", "rollback"} /\ current.task = t
      \/ \E i \in 1..Len(todo) : todo[i] = [task   |-> t,
                                            worker |-> tasks[t].worker]

\* Messages of an old run never move a newer one: a run is RUNNING only if
\* its own worker asked to start it, and finished only if that worker
\* reported that run (or the run was declared lost).
OwnMessagesOnly ==
  \A r \in RunId :
    /\ runs[r].status \in {"RUNNING", "SUCCEEDED", "TIMEOUT"} => r \in asked
    /\ runs[r].status \in {"SUCCEEDED", "TIMEOUT"} => r \in reported
    /\ runs[r].status = "FAILED" =>
         r \in reported \/ decisions[r] # Undecided

\* retry_count counts lost runs: it stays within the limit, and each retry is
\* backed by a saved "requeued" decision of its own, so that a repeated
\* "lost" request cannot count one loss twice (p12-recovery.md).
RetriesAccounted ==
  \A t \in Task :
    /\ db[t].retry <= MaxRetries
    /\ db[t].retry <= Cardinality({r \in RunId : /\ decisions[r].task = t
                                                 /\ decisions[r].action = "requeued"
                                                 /\ r \in asked})

\* A step that leaves what is final in the database alone.
FinalKept ==
  /\ \A t \in Task : db[t].status \in Terminal => db'[t] = db[t]
  /\ \A r \in RunId : runs[r].status \notin Active \cup {"NONE"} =>
                        runs'[r] = runs[r]
  /\ \A r \in RunId : decisions[r] # Undecided =>
                        decisions'[r] = decisions[r]
  /\ stopRows \subseteq stopRows'
  /\ \A k \in Key : keys[k] # NoTask => keys'[k] = keys[k]

\* Everything that is final in the database stays: a finished task, a closed
\* run, a recovery decision, a batch stop and a submission key.
FinalStaysFinal == [][FinalKept]_vars

\* Priority and first-in-first-out order: no queued task is passed over for
\* one that ranks behind it, also after rollbacks, recoveries and restarts.
NoOvertaking ==
  [][\A t, u \in Task :
       /\ plan[t] = NoPlan /\ plan'[t] # NoPlan
       /\ u # t /\ tasks[u].status = "QUEUED" /\ plan[u] = NoPlan
       => Before([task |-> t, seq |-> db[t].seq],
                 [task |-> u, seq |-> db[u].seq])]_vars

-----------------------------------------------------------------------------
(* The inductive invariant behind the safety properties.  CoreInv is about *)
(* the scheduler between its methods and inside schedule(); the parts say  *)
(* what each step finds.                                                   *)

\* An entry of the queue never belongs to an active task, so a task that is
\* queued again cannot meet its old entry.
EntryFresh(e) ==
  /\ tasks[e.task].status \notin Active
  /\ db[e.task].status # "ABSENT"
  /\ tasks[e.task].status = "QUEUED" => e.seq = tasks[e.task].seq

QueueSound == \A e \in queue : EntryFresh(e)

QueueComplete ==
  \A t \in Task : tasks[t].status = "QUEUED" =>
                    [task |-> t, seq |-> tasks[t].seq] \in queue

\* Only an active task waits for recovery.
RecoveryShape == \A t \in Task : tasks[t].recovery => tasks[t].status \in Active

\* A worker that is not registered has no slot in use.
UnregisteredFree ==
  \A w \in Worker : workers[w].status = "UNREGISTERED" => workers[w].used = 0

MemoryInv ==
  /\ QueueSound /\ QueueComplete /\ RecoveryShape /\ UnregisteredFree
  /\ SlotAccounting /\ StoreAgrees /\ StoppedBatchDrained

\* schedule() holds mutex_, and starts with no assignment left over.
PassMutex ==
  /\ pass \in Planning => idler = NoWorker
  /\ pass \in {"idle", "begin"} => todo = <<>>

\* The assignments planned so far and the list of them are the same thing.
PlanExact ==
  /\ \A t \in Task : plan[t] # NoPlan =>
       /\ pass \in Planning
       /\ tasks[t].status = "QUEUED"
       /\ \E i \in 1..Len(todo) : todo[i].task = t
  /\ pass \in Planning =>
       /\ \A i \in 1..Len(todo) : plan[todo[i].task].worker = todo[i].worker
       /\ \A i, j \in 1..Len(todo) : todo[i].task = todo[j].task => i = j

\* The copy of the queue that schedule() works on.
PendingExact ==
  pass \in {"select", "acquire", "commit"} =>
    /\ \A e \in pending : EntryFresh(e) /\ plan[e.task] = NoPlan
    /\ \A t \in Task : tasks[t].status = "QUEUED" /\ plan[t] = NoPlan =>
                        [task |-> t, seq |-> tasks[t].seq] \in pending

\* After the stale entries are skipped a live one is on top.
TopIsLive ==
  pass = "acquire" =>
    /\ pending # {}
    /\ \A e \in pending : \E f \in pending :
         tasks[f.task].status = "QUEUED" /\ (f = e \/ Before(f, e))

\* No assignment of the pass is a recovered one: it took a slot.
PassUnrecovered ==
  /\ \A i \in 1..Len(todo) : ~ tasks[todo[i].task].recovery
  /\ pass \in {"send", "sent", "rollback"} => ~ tasks[current.task].recovery

PassInv ==
  PassMutex /\ PlanExact /\ PendingExact /\ TopIsLive /\ PassUnrecovered

\* What every step of the scheduling core preserves: the memory, the worker
\* table and the database fit together, and so does what schedule() has
\* planned but not committed.
CoreInv == MemoryInv /\ PassInv

\* A run id is written to the database only when its assignment is saved: the
\* ids not drawn yet, and those of an open plan, have no row and no decision.
Unused(r) == runs[r] = AbsentRun /\ decisions[r] = Undecided

RunsFresh ==
  /\ \A r \in RunId : r >= nextRun => Unused(r)
  /\ \A t \in Task : plan[t] # NoPlan =>
       plan[t].run < nextRun /\ Unused(plan[t].run)
  /\ \A t, u \in Task :
       plan[t] # NoPlan /\ plan[u] # NoPlan /\ plan[t].run = plan[u].run => t = u

\* The run history fits the tasks, and stays so when an assignment draws a
\* run of its own.
HistoryInv == RunHistory /\ RunsFresh

\* The claim of a dispatch: it exists while the message is handed over, and
\* the task cannot have left ASSIGNED before it is.
ClaimExact ==
  /\ dispatching = IF pass \in {"send", "sent"} THEN {current.task} ELSE {}
  /\ pass \in {"send", "sent"} =>
       /\ tasks[current.task].run = current.run
       /\ tasks[current.task].worker = current.worker
       /\ tasks[current.task].status \in
            Active \cup {"SUCCEEDED", "FAILED", "TIMEOUT"}
  /\ pass = "send" => /\ tasks[current.task].status = "ASSIGNED"
                      /\ current.run \notin sent
  /\ pass = "rollback" /\ tasks[current.task].status = "ASSIGNED" =>
       /\ tasks[current.task].run = current.run
       /\ tasks[current.task].worker = current.worker
       /\ current.run \notin sent

\* The assignments of the pass that are still to be dispatched are of
\* different tasks, and nothing was sent for them.
TodoUnsent ==
  pass \in {"dispatch", "send", "sent", "rollback"} =>
    /\ \A i, j \in 1..Len(todo) : todo[i].task = todo[j].task => i = j
    /\ \A i \in 1..Len(todo) :
         /\ pass # "dispatch" => todo[i].task # current.task
         /\ tasks[todo[i].task].status = "ASSIGNED" =>
              tasks[todo[i].task].run \notin sent

\* Only a run with a row is sent, only a sent one is asked for, and only one
\* that was asked for is reported.
WorldSound ==
  /\ reported \subseteq asked /\ asked \subseteq sent
  /\ \A r \in sent : runs[r] # AbsentRun

\* What the dispatch of an assignment and the messages about it rely on.
DispatchInv ==
  /\ ClaimExact /\ TodoUnsent /\ WorldSound
  /\ RollbackOwnsRun /\ OwnMessagesOnly

\* A worker that was picked is not one that is held back.
HoldInv ==
  RecoveredWorkerHeld /\ (pass = "acquire" => picked \notin quarantined)

\* The behaviours in which the process does not die and no rollback fails to
\* be saved.  Everything else may go wrong in them.
UndisturbedSpec == Init /\ [][Next /\ ~ RollbackThrows /\ ~ Restart]_vars

-----------------------------------------------------------------------------
\* The life of the tasks as the database shows it.
lifeOf == [t \in Task |-> [status |-> db[t].status, run |-> db[t].run,
                           retry |-> db[t].retry]]

drawnRuns == {r \in RunId : runs[r] # AbsentRun}

Lifecycle == INSTANCE TaskLifecycle WITH
  life <- lifeOf, drawn <- drawnRuns, halted <- stopRows

\* The scheduling core implements the task life cycle that clients rely on:
\* crashes, exceptions, lost workers and late messages show up as nothing or
\* as one of its steps.
LifecycleSpec == Lifecycle!Spec

-----------------------------------------------------------------------------
\* The scheduling thread keeps running its pass, and a connected worker
\* keeps sending heartbeats (gcrp_worker.py sends one at least every second
\* while it is idle); nothing else is assumed to happen.
Fairness == WF_vars(Coordinate) /\ \A w \in Worker : WF_vars(WorkerHeartbeat(w))

\* A queued task does not wait forever beside a worker that could take it:
\* each request for scheduling that arrives during a pass is honoured, and a
\* dispatch that failed is tried again at the next heartbeat.
QueuedIsServed ==
  \A t \in Task :
    tasks[t].status = "QUEUED" ~>
      \/ tasks[t].status # "QUEUED"
      \/ eligible = {}
      \/ nextRun > MaxRun \/ nextSeq > MaxSeq   \* the bounds of the model
=============================================================================
