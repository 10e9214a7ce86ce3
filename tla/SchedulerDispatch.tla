------------------------- MODULE SchedulerDispatch --------------------------
(***************************************************************************)
(* What happens to an assignment after the commit of a pass, and to the    *)
(* messages about it, for every instance of the scheduling core: the claim *)
(* of a dispatch pins its task, a rollback finds its own assignment, a     *)
(* message moves only the run it names, each retry is backed by a decision *)
(* of its own, and an assignment that was not sent is still on the list of *)
(* the pass.                                                               *)
(*                                                                         *)
(* dispatchAssignment releases mutex_ while the message is handed over,    *)
(* and rollbackAssignment is given a task id and no run.  That both still  *)
(* mean the assignment of the pass rests on ClaimExact and TodoUnsent: a   *)
(* run that was not sent cannot be started, so its task stays ASSIGNED     *)
(* until the pass or a recovery takes it back, and only the commit of a    *)
(* later pass assigns it again.                                            *)
(***************************************************************************)
EXTENDS SchedulerInvariance

-----------------------------------------------------------------------------
(* The claim and the list of assignments.                                  *)

Dispatching == {"dispatch", "send", "sent", "rollback"}

Reported == {"SUCCEEDED", "FAILED", "TIMEOUT"}

ClaimInv == ClaimExact /\ TodoUnsent

\* What a handler does to a task: nothing; or it leaves a task that is not
\* being sent inactive; or it moves the task of a run that was sent on.
HandlerMoves(t) ==
  \/ tasks'[t] = tasks[t]
  \/ t \notin dispatching /\ tasks'[t].status \notin Active
  \/ /\ tasks[t].status \in Active /\ tasks[t].run \in sent
     /\ tasks'[t].run = tasks[t].run /\ tasks'[t].worker = tasks[t].worker
     /\ tasks'[t].status \in {"RUNNING"} \cup Reported
     /\ tasks'[t].status = "RUNNING" => tasks'[t].recovery = tasks[t].recovery

\* The task of a claim, and those of the list, are tasks.
LEMMA PassTasks ==
  ASSUME TypeInv
  PROVE  /\ pass \in {"send", "sent", "rollback"} =>
              /\ current.task \in Task /\ current.worker \in Worker
              /\ current.run \in RunId
         /\ \A i \in 1..Len(todo) : todo[i].task \in Task /\ todo[i].worker \in Worker
<1>1. pass \in {"send", "sent", "rollback"} =>
        /\ current.task \in Task /\ current.worker \in Worker
        /\ current.run \in RunId
  BY Zenon DEF TypeInv, PassShape
<1>2. todo \in Seq(Assignment)
  BY Zenon DEF TypeInv, TypeOK
<1>3. \A i \in 1..Len(todo) : todo[i] \in Assignment
  BY <1>2
<1> QED
  BY <1>1, <1>3 DEF Assignment

\* A handler that runs beside a pass leaves its claim and its list sound.
LEMMA ClaimHandlers ==
  ASSUME TypeInv, ClaimInv, UNCHANGED <<dispatching, pass, current, todo, sent>>,
         \A t \in Task : HandlerMoves(t)
  PROVE  ClaimInv'
<1>1. ASSUME pass \in {"send", "sent"}
      PROVE  /\ tasks'[current.task].run = current.run
             /\ tasks'[current.task].worker = current.worker
             /\ tasks'[current.task].status \in Active \cup Reported
             /\ pass = "send" => tasks'[current.task].status = "ASSIGNED"
  <2>1. current.task \in Task /\ current.task \in dispatching
    BY <1>1, PassTasks, Zenon DEF ClaimInv, ClaimExact
  <2>2. /\ tasks[current.task].run = current.run
        /\ tasks[current.task].worker = current.worker
        /\ tasks[current.task].status \in Active \cup Reported
        /\ pass = "send" => tasks[current.task].status = "ASSIGNED"
        /\ pass = "send" => current.run \notin sent
    BY <1>1, Zenon DEF ClaimInv, ClaimExact, Reported
  <2>3. HandlerMoves(current.task)
    BY <2>1, Zenon
  <2> QED
    BY <2>1, <2>2, <2>3 DEF HandlerMoves, Active
<1>2. ASSUME NEW t \in Task, tasks'[t].status = "ASSIGNED"
      PROVE  tasks'[t] = tasks[t]
  BY <1>2, Zenon DEF HandlerMoves, Reported, Active
<1>3. pass = "rollback" /\ tasks'[current.task].status = "ASSIGNED" =>
        /\ tasks'[current.task].run = current.run
        /\ tasks'[current.task].worker = current.worker
        /\ current.run \notin sent
  <2> SUFFICES ASSUME pass = "rollback", tasks'[current.task].status = "ASSIGNED"
               PROVE  /\ tasks'[current.task].run = current.run
                      /\ tasks'[current.task].worker = current.worker
                      /\ current.run \notin sent
    BY Zenon
  <2>1. tasks'[current.task] = tasks[current.task]
    BY <1>2, PassTasks, Zenon
  <2> QED
    BY <2>1, Zenon DEF ClaimInv, ClaimExact
<1>4. ClaimExact'
  <2>1. pass = "send" => current.run \notin sent
    BY Zenon DEF ClaimInv, ClaimExact
  <2>2. dispatching = IF pass \in {"send", "sent"} THEN {current.task} ELSE {}
    BY Zenon DEF ClaimInv, ClaimExact
  <2> QED
    BY <1>1, <1>3, <2>1, <2>2 DEF ClaimExact, Reported
<1>5. TodoUnsent'
  <2>1. \A i \in 1..Len(todo) : tasks'[todo[i].task].status = "ASSIGNED" =>
          tasks'[todo[i].task] = tasks[todo[i].task]
    BY <1>2, PassTasks, Zenon
  <2> QED
    BY <2>1, Zenon DEF ClaimInv, TodoUnsent
<1> QED
  BY <1>4, <1>5, Zenon DEF ClaimInv

\* Inside schedule(), and before and after a pass, there is no claim.
LEMMA ClaimAway ==
  ASSUME ClaimInv, pass \notin {"send", "sent"}, pass' \notin Dispatching,
         UNCHANGED dispatching
  PROVE  ClaimInv'
BY Zenon DEF ClaimInv, ClaimExact, TodoUnsent, Dispatching

\* No task is twice in the list of assignments.
TodoDistinct == \A i, j \in 1..Len(todo) : todo[i].task = todo[j].task => i = j

\* The list without its head has elements of the list, and not the head.
LEMMA TailOfTodo ==
  ASSUME TypeInv, todo # <<>>, todo' = Tail(todo)
  PROVE  /\ \E k \in 1..Len(todo) : Head(todo) = todo[k]
         /\ \A i \in 1..Len(todo') : \E k \in 1..Len(todo) : todo'[i] = todo[k]
         /\ TodoDistinct => /\ TodoDistinct'
                            /\ \A i \in 1..Len(todo') : todo'[i].task # Head(todo).task
<1>1. todo \in Seq(Assignment)
  BY Zenon DEF TypeInv, TypeOK
<1>2. 1 \in 1..Len(todo) /\ Head(todo) = todo[1]
  BY <1>1
<1>3. ASSUME NEW i \in 1..Len(todo')
      PROVE  i + 1 \in 1..Len(todo) /\ i + 1 # 1 /\ todo'[i] = todo[i + 1]
  BY <1>1
<1>4. ASSUME TodoDistinct, NEW i \in 1..Len(todo')
      PROVE  todo'[i].task # Head(todo).task
  BY <1>2, <1>3, <1>4, Zenon DEF TodoDistinct
<1>5. ASSUME TodoDistinct, NEW i \in 1..Len(todo'), NEW j \in 1..Len(todo'),
             todo'[i].task = todo'[j].task
      PROVE  i = j
  <2>1. /\ i + 1 \in 1..Len(todo) /\ todo'[i] = todo[i + 1]
        /\ j + 1 \in 1..Len(todo) /\ todo'[j] = todo[j + 1]
    BY <1>3, Zenon
  <2>2. i + 1 = j + 1
    BY <1>5, <2>1, Zenon DEF TodoDistinct
  <2> QED
    BY <2>2
<1>6. TodoDistinct => TodoDistinct'
  BY Zenon, <1>5 DEF TodoDistinct
<1> QED
  BY Zenon, <1>2, <1>3, <1>4, <1>6

\* The steps of the dispatch that change no task.
LEMMA ClaimDispatch ==
  ASSUME TypeInv, ClaimInv,
         \/ DispatchClaim \/ DispatchClaimThrows \/ DispatchSkip
         \/ DispatchReturn \/ DispatchFail \/ RollbackRefused
  PROVE  ClaimInv'
<1>1. CASE DispatchClaim \/ DispatchClaimThrows
  <2>1. /\ pass = "dispatch" /\ todo # <<>> /\ claimable(Head(todo))
        /\ current' = [task |-> Head(todo).task, worker |-> Head(todo).worker,
                       run |-> tasks[Head(todo).task].run]
        /\ todo' = Tail(todo) /\ UNCHANGED <<tasks, sent>>
        /\ \/ pass' = "send" /\ dispatching' = dispatching \cup {Head(todo).task}
           \/ pass' = "rollback" /\ dispatching' = dispatching
    BY Zenon, <1>1 DEF DispatchClaim, DispatchClaimThrows, memVars, worldVars
  <2>2. /\ current'.task = Head(todo).task /\ current'.worker = Head(todo).worker
        /\ current'.run = tasks[Head(todo).task].run
    BY ONLY <2>1, Zenon
  <2>3. /\ dispatching = {} /\ TodoDistinct
        /\ \A i \in 1..Len(todo) : tasks[todo[i].task].status = "ASSIGNED" =>
                                     tasks[todo[i].task].run \notin sent
    BY <2>1, Zenon DEF ClaimInv, ClaimExact, TodoUnsent, TodoDistinct
  <2>4. /\ \E k \in 1..Len(todo) : Head(todo) = todo[k]
        /\ \A i \in 1..Len(todo') : \E k \in 1..Len(todo) : todo'[i] = todo[k]
        /\ TodoDistinct'
        /\ \A i \in 1..Len(todo') : todo'[i].task # Head(todo).task
    BY Zenon, <2>1, <2>3, TailOfTodo
  <2>5. /\ tasks[Head(todo).task].status = "ASSIGNED"
        /\ tasks[Head(todo).task].worker = Head(todo).worker
        /\ tasks[Head(todo).task].run \notin sent
    BY Zenon, <2>1, <2>3, <2>4 DEF claimable
  <2>6. ClaimExact'
    BY <2>1, <2>2, <2>3, <2>5 DEF ClaimExact, Active
  <2>7. \A i \in 1..Len(todo') : tasks[todo'[i].task].status = "ASSIGNED" =>
                                   tasks[todo'[i].task].run \notin sent
    BY Zenon, <2>3, <2>4
  <2>8. TodoUnsent'
    BY <2>1, <2>2, <2>4, <2>7, Zenon DEF TodoUnsent, TodoDistinct
  <2> QED
    BY <2>6, <2>8 DEF ClaimInv
<1>2. CASE DispatchSkip
  <2>1. /\ pass = "dispatch" /\ todo # <<>> /\ todo' = Tail(todo)
        /\ UNCHANGED <<tasks, sent, pass, dispatching, current>>
    BY Zenon, <1>2 DEF DispatchSkip, memVars, worldVars
  <2>2. /\ TodoDistinct
        /\ \A i \in 1..Len(todo) : tasks[todo[i].task].status = "ASSIGNED" =>
                                     tasks[todo[i].task].run \notin sent
    BY <2>1 DEF ClaimInv, TodoUnsent, TodoDistinct
  <2>a. /\ \A i \in 1..Len(todo') : \E k \in 1..Len(todo) : todo'[i] = todo[k]
        /\ TodoDistinct'
    BY Zenon, <2>1, <2>2, TailOfTodo
  <2>b. \A i \in 1..Len(todo') : tasks[todo'[i].task].status = "ASSIGNED" =>
                                   tasks[todo'[i].task].run \notin sent
    BY Zenon, <2>2, <2>a
  <2>3. TodoUnsent'
    BY <2>1, <2>a, <2>b, Zenon DEF TodoUnsent, TodoDistinct
  <2> QED
    BY <2>1, <2>3 DEF ClaimInv, ClaimExact
<1>3. CASE DispatchReturn
  <2>1. /\ pass = "sent" /\ pass' = "dispatch" /\ UNCHANGED <<tasks, sent, todo>>
        /\ dispatching' = dispatching \ {current.task}
    BY Zenon, <1>3 DEF DispatchReturn, memVars, worldVars
  <2> QED
    BY <2>1, Zenon DEF ClaimInv, ClaimExact, TodoUnsent
<1>4. CASE DispatchFail
  <2>1. /\ pass = "send" /\ pass' = "rollback" /\ UNCHANGED <<tasks, sent, todo, current>>
        /\ dispatching' = dispatching \ {current.task}
    BY Zenon, <1>4 DEF DispatchFail, memVars, worldVars
  <2> QED
    BY <2>1, Zenon DEF ClaimInv, ClaimExact, TodoUnsent
<1>5. CASE RollbackRefused
  <2>1. /\ pass = "rollback" /\ pass' = "dispatch"
        /\ UNCHANGED <<tasks, sent, todo, dispatching>>
    BY Zenon, <1>5 DEF RollbackRefused, memVars, worldVars
  <2> QED
    BY <2>1 DEF ClaimInv, ClaimExact, TodoUnsent
<1> QED
  BY <1>1, <1>2, <1>3, <1>4, <1>5, Zenon

\* The connection takes the message of an assignment that is still the
\* task's, so that no other assignment of the list has this run.
LEMMA ClaimSend ==
  ASSUME TypeInv, CoreInv, HistoryInv, ClaimInv, DispatchSend
  PROVE  ClaimInv'
<1>1. /\ pass = "send" /\ pass' = "sent" /\ sent' = sent \cup {current.run}
      /\ UNCHANGED <<tasks, dispatching, current, todo>>
  BY Zenon DEF DispatchSend, memVars
<1>2. ClaimExact'
  BY <1>1 DEF ClaimInv, ClaimExact
<1>3. ASSUME NEW i \in 1..Len(todo), tasks[todo[i].task].status = "ASSIGNED"
      PROVE  tasks[todo[i].task].run \notin sent'
  <2>1. todo[i].task \in Task /\ current.task \in Task
    BY <1>1, PassTasks
  <2>2. /\ todo[i].task # current.task
        /\ tasks[todo[i].task].run \notin sent
        /\ tasks[current.task].status = "ASSIGNED"
        /\ tasks[current.task].run = current.run
    BY <1>1, <1>3, Zenon DEF ClaimInv, ClaimExact, TodoUnsent
  <2>3. /\ db[todo[i].task] = tasks[todo[i].task]
        /\ db[current.task] = tasks[current.task]
    BY <1>3, <2>1, <2>2, Resident
  <2>4. /\ runs[tasks[todo[i].task].run].task = todo[i].task
        /\ runs[tasks[current.task].run].task = current.task
    BY <1>3, <2>1, <2>2, <2>3, ActiveRun DEF Active
  <2>5. tasks[todo[i].task].run # current.run
    BY Zenon, <2>2, <2>4
  <2> QED
    BY Zenon, <1>1, <2>2, <2>5
<1>4. TodoUnsent'
  BY <1>1, <1>3, Zenon DEF ClaimInv, TodoUnsent
<1> QED
  BY <1>2, <1>4, Zenon DEF ClaimInv

\* The commit hands the list over to the dispatch: its runs are new, so that
\* nothing was sent for them.
LEMMA ClaimCommit ==
  ASSUME TypeInv, CoreInv, HistoryInv, ClaimInv, WorldSound, ScheduleCommit
  PROVE  ClaimInv'
<1>1. /\ pass = "commit" /\ pass' = "dispatch" /\ UNCHANGED <<dispatching, todo, sent>>
      /\ \A t \in Task : t \in planned => tasks'[t] = assignedRow(t)
  BY Zenon DEF ScheduleCommit, worldVars
<1>2. /\ \A i \in 1..Len(todo) : plan[todo[i].task].worker = todo[i].worker
      /\ TodoDistinct
  BY <1>1, Zenon DEF CoreInv, PassInv, PlanExact, Planning, TodoDistinct
<1>3. ASSUME NEW i \in 1..Len(todo)
      PROVE  tasks'[todo[i].task].run \notin sent
  <2>1. todo[i].task \in Task /\ plan[todo[i].task].worker \in Worker
    BY <1>2, PassTasks, Zenon
  <2>2. plan[todo[i].task] # NoPlan
    BY <2>1, Constants DEF NoPlan
  <2>3. todo[i].task \in planned
    BY Zenon, <2>1, <2>2 DEF planned
  <2>4. tasks'[todo[i].task].run = plan[todo[i].task].run
    BY Zenon, <1>1, <2>1, <2>3, PlannedRow
  <2>5. runs[plan[todo[i].task].run] = AbsentRun
    BY Zenon, <2>1, <2>2 DEF HistoryInv, RunsFresh, Unused
  <2> QED
    BY Zenon, <2>4, <2>5 DEF WorldSound
<1>4. ClaimExact'
  BY <1>1, Zenon DEF ClaimInv, ClaimExact
<1>5. TodoUnsent'
  BY <1>1, <1>2, <1>3 DEF TodoUnsent, TodoDistinct
<1> QED
  BY <1>4, <1>5, Zenon DEF ClaimInv

\* A rollback takes the claimed task out of ASSIGNED and nothing else.
LEMMA ClaimRollback ==
  ASSUME TypeInv, ClaimInv, rollbackAssignment
  PROVE  ClaimInv'
<1>1. /\ pass = "rollback" /\ UNCHANGED <<dispatching, sent>>
      /\ current.task \in Task /\ tasks \in [Task -> TaskRow]
  BY PassTasks DEF rollbackAssignment, worldVars, TypeInv, TypeOK
<1>2. CASE canRelease(tasks[current.task].worker)
  <2>1. /\ tasks' = [tasks EXCEPT ![current.task] = rolledBackRow(current.task)]
        /\ todo' = todo /\ pass' = "dispatch"
    BY Zenon, <1>2 DEF rollbackAssignment
  <2>2. \A t \in Task : t # current.task => tasks'[t] = tasks[t]
    BY Zenon, <1>1, <2>1
  <2>3. \A i \in 1..Len(todo) : /\ tasks'[todo[i].task] = tasks[todo[i].task]
    BY Zenon, <1>1, <2>2, PassTasks DEF ClaimInv, TodoUnsent
  <2>4. TodoUnsent'
    BY <1>1, <2>1, <2>3 DEF ClaimInv, TodoUnsent
  <2> QED
    BY <1>1, <2>1, <2>4, Zenon DEF ClaimInv, ClaimExact
<1>3. CASE ~ canRelease(tasks[current.task].worker)
  <2>1. pass' = "idle"
    BY Zenon, <1>3 DEF rollbackAssignment
  <2> QED
    BY <1>1, <2>1, ClaimAway, Zenon DEF Dispatching
<1> QED
  BY <1>2, <1>3, Zenon

-----------------------------------------------------------------------------
(* What the handlers do to the tasks.                                      *)

\* A task that is being sent is known to the database.
LEMMA ClaimedKnown ==
  ASSUME TypeInv, CoreInv, ClaimInv, NEW t \in dispatching
  PROVE  t \in Task /\ tasks[t].status # "QUEUED" /\ db[t].status # "ABSENT"
<1>1. /\ t = current.task /\ pass \in {"send", "sent"}
      /\ tasks[t].status \in Active \cup Reported
  BY Zenon DEF ClaimInv, ClaimExact, Reported
<1>2. t \in Task
  BY <1>1, PassTasks, Zenon
<1>3. tasks[t].status \notin {"ABSENT", "QUEUED"}
  BY <1>1, Zenon DEF Active, Reported
<1> QED
  BY <1>2, <1>3, Resident, Zenon

\* Eviction drops finished tasks that are not being sent.
LEMMA EvictionMoves ==
  ASSUME NEW t \in Task, tasks'[t] = evicted[t]
  PROVE  HandlerMoves(t)
<1>1. evicted[t] = tasks[t] \/ (t \notin dispatching /\ evicted[t] = AbsentTask)
  BY Zenon DEF evicted
<1>2. AbsentTask.status \notin Active
  BY Zenon DEF AbsentTask, Active
<1> QED
  BY <1>1, <1>2, Zenon DEF HandlerMoves

\* Clients queue and cancel tasks; none of those is being sent.
LEMMA ClientMoves ==
  ASSUME TypeInv, CoreInv, ClaimInv,
         \/ Client \/ \E t \in Task, k \in Key \cup {NoKey} : SubmitThrows(t, k)
  PROVE  /\ \A u \in Task : HandlerMoves(u)
         /\ UNCHANGED <<dispatching, quarantined, passVars, worldVars, decisions>>
<1>0. tasks \in [Task -> TaskRow] /\ \A u \in Task : u \in DOMAIN evicted
  BY EvictedType, Zenon DEF TypeInv, TypeOK
<1>1. ASSUME NEW t \in Task, NEW k \in Key \cup {NoKey}, submitTask(t, k)
      PROVE  \A u \in Task : HandlerMoves(u)
  <2>1. PICK row : /\ row.status = "QUEUED" /\ db[t].status = "ABSENT"
                   /\ tasks' = [evicted EXCEPT ![t] = row]
    <3>1. /\ db[t].status = "ABSENT"
          /\ tasks' = [evicted EXCEPT ![t] =
                         [AbsentTask EXCEPT !.status = "QUEUED", !.seq = nextSeq]]
      BY Zenon, <1>1 DEF submitTask, acceptsSubmit
    <3>2. [AbsentTask EXCEPT !.status = "QUEUED", !.seq = nextSeq].status = "QUEUED"
      BY Zenon DEF AbsentTask
    <3> QED
      BY Zenon, <3>1, <3>2
  <2>2. t \notin dispatching
    BY Zenon, <2>1, ClaimedKnown
  <2>3. tasks'[t].status \notin Active
    BY Zenon, <1>0, <2>1 DEF Active
  <2>4. \A u \in Task : u # t => tasks'[u] = evicted[u]
    BY Zenon, <1>0, <2>1
  <2> QED
    BY Zenon, <2>2, <2>3, <2>4, EvictionMoves DEF HandlerMoves
<1>2. ASSUME NEW t \in Task, cancelTask(t)
      PROVE  \A u \in Task : HandlerMoves(u)
  <2>1. /\ t \notin dispatching
        /\ tasks' = [tasks EXCEPT ![t] = [tasks[t] EXCEPT !.status = "CANCELLED"]]
    BY Zenon, <1>2 DEF cancelTask
  <2>2. tasks'[t].status = "CANCELLED" /\ \A u \in Task : u # t => tasks'[u] = tasks[u]
    BY <1>0, <2>1, Zenon DEF TaskRow
  <2> QED
    BY <2>1, <2>2, Zenon DEF HandlerMoves, Active
<1>3. ASSUME NEW b \in Batch, cancelBatch(b)
      PROVE  \A u \in Task : HandlerMoves(u)
  <2> SUFFICES ASSUME NEW u \in Task PROVE HandlerMoves(u)
    BY Zenon
  <2>1. \/ tasks'[u] = tasks[u]
        \/ /\ tasks[u].status = "QUEUED"
           /\ tasks'[u] = [tasks[u] EXCEPT !.status = "CANCELLED"]
    BY Zenon, <1>3 DEF cancelBatch
  <2>2. tasks[u].status = "QUEUED" => u \notin dispatching
    BY Zenon, ClaimedKnown
  <2> QED
    BY <1>0, <2>1, <2>2 DEF HandlerMoves, TaskRow, Active
<1>4. ASSUME NEW t \in Task, NEW k \in Key \cup {NoKey}, SubmitThrows(t, k)
      PROVE  \A u \in Task : HandlerMoves(u)
  BY Zenon, <1>4, EvictionMoves DEF SubmitThrows
<1>5. \A u \in Task : HandlerMoves(u)
  BY Zenon, <1>1, <1>2, <1>3, <1>4 DEF Client
<1>6. UNCHANGED <<dispatching, quarantined, passVars, worldVars, decisions>>
  BY Zenon DEF Client, submitTask, cancelTask, cancelBatch, SubmitThrows, storeVars
<1> QED
  BY <1>5, <1>6

\* START and RESULT move the task of the run they name, which was sent.
LEMMA ExecutionMoves ==
  ASSUME TypeInv, NEW t \in Task, NEW w \in Worker, NEW r \in RunId,
         \/ TaskStart(t, w, r)
         \/ \E s \in Reported : TaskResult(t, w, r, s)
  PROVE  /\ \A u \in Task : HandlerMoves(u)
         /\ UNCHANGED <<dispatching, passVars, sent, nextRun>>
<1>0. tasks \in [Task -> TaskRow] /\ r \in sent
  BY Zenon DEF TypeInv, TypeOK, TaskStart, TaskResult, sentTo
<1>1. UNCHANGED <<dispatching, passVars, sent, nextRun>>
  BY Zenon DEF TaskStart, TaskResult
<1>2. CASE TaskStart(t, w, r) /\ startable(t, w, r)
  <2>1. /\ tasks' = [tasks EXCEPT ![t] = [tasks[t] EXCEPT !.status = "RUNNING"]]
        /\ tasks[t].run = r /\ tasks[t].status = "ASSIGNED"
    BY Zenon, <1>2 DEF TaskStart, startable
  <2>2. /\ \A u \in Task : u # t => tasks'[u] = tasks[u]
        /\ tasks'[t].status = "RUNNING" /\ tasks'[t].run = tasks[t].run
        /\ tasks'[t].worker = tasks[t].worker /\ tasks'[t].recovery = tasks[t].recovery
    BY <1>0, <2>1 DEF TaskRow
  <2>3. HandlerMoves(t)
    BY <1>0, <2>1, <2>2, Zenon DEF HandlerMoves, Active
  <2> QED
    BY Zenon, <1>1, <2>2, <2>3 DEF HandlerMoves
<1>3. ASSUME NEW s \in Reported, TaskResult(t, w, r, s), finishable(t, w, r)
      PROVE  \A u \in Task : HandlerMoves(u)
  <2>1. /\ tasks' = [tasks EXCEPT ![t] =
                       [tasks[t] EXCEPT !.status = s, !.recovery = FALSE]]
        /\ tasks[t].run = r /\ tasks[t].status = "RUNNING"
    BY Zenon, <1>3 DEF TaskResult, completeTask, finishable
  <2>2. /\ \A u \in Task : u # t => tasks'[u] = tasks[u]
        /\ tasks'[t].status = s /\ tasks'[t].run = tasks[t].run
        /\ tasks'[t].worker = tasks[t].worker
    BY <1>0, <2>1 DEF TaskRow
  <2>3. HandlerMoves(t)
    BY Zenon, <1>0, <2>1, <2>2 DEF HandlerMoves, Active, Reported
  <2> QED
    BY Zenon, <2>2, <2>3 DEF HandlerMoves
<1>4. CASE \/ TaskStart(t, w, r) /\ ~ startable(t, w, r)
           \/ \E s \in Reported : TaskResult(t, w, r, s) /\ ~ finishable(t, w, r)
  <2>1. tasks' = tasks
    BY Zenon, <1>4 DEF TaskStart, TaskResult
  <2> QED
    BY Zenon, <1>1, <2>1 DEF HandlerMoves
<1> QED
  BY Zenon, <1>1, <1>2, <1>3, <1>4

\* recoverLost takes a task from its worker, and is refused while the task is
\* being sent.
LEMMA LossMoves ==
  ASSUME TypeInv, NEW t \in Task,
         \/ \E w \in Worker, r \in RunId : RecoverLost(t, w, r)
         \/ IdleRequeue(t)
  PROVE  /\ \A u \in Task : HandlerMoves(u)
         /\ UNCHANGED <<dispatching, quarantined, passVars, worldVars>>
<1>1. /\ recoverLost(t) /\ t \notin dispatching
      /\ UNCHANGED <<dispatching, quarantined, passVars, worldVars>>
  BY Zenon DEF RecoverLost, IdleRequeue, lostAccepted
<1>2. tasks' = [tasks EXCEPT ![t] = lostRow(t)] /\ tasks \in [Task -> TaskRow]
  BY Zenon, <1>1 DEF recoverLost, TypeInv, TypeOK
<1>3. lostRow(t).status \notin Active
  BY Zenon DEF lostRow, Active
<1> QED
  BY Zenon, <1>1, <1>2, <1>3 DEF HandlerMoves

\* The steps that leave the tasks and the pass alone.
LEMMA QuietSteps ==
  ASSUME \/ \E t \in Task, w \in Worker, r \in RunId :
              RecoverActive(t, w, r) \/ RecoverLostThrows(t, w, r)
         \/ \E w \in Worker : RecoverIdle(w)
         \/ IdleBlocked \/ IdleThrows
         \/ RecoveryRegister \/ PlainRegister \/ Heartbeat \/ Close
         \/ Unavailability
  PROVE  UNCHANGED <<storeVars, tasks, dispatching, quarantined, passVars, worldVars>>
BY Zenon
   DEF RecoverActive, RecoverLostThrows, RecoverIdle, IdleBlocked, IdleThrows,
       RecoveryRegister, PlainRegister, Heartbeat, Close, Unavailability,
       WorkerRegister, WorkerRegisterRefused, WorkerHeartbeat, WorkerClose,
       WorkerDrain, ChangePolicy, LivenessCheck, memVars

\* Every step of the scheduling core keeps the claim and the list sound.
LEMMA ClaimNext ==
  ASSUME TypeInv, CoreInv, HistoryInv, ClaimInv, WorldSound, [Next]_vars
  PROVE  ClaimInv'
<1>h. (\A t \in Task : HandlerMoves(t)) /\ UNCHANGED <<dispatching, passVars, sent>>
        => ClaimInv'
  BY Zenon, ClaimHandlers DEF passVars
<1>q. UNCHANGED <<tasks, dispatching, passVars, sent>> => ClaimInv'
  BY Zenon, <1>h DEF HandlerMoves
<1>a. pass \notin {"send", "sent"} /\ pass' \notin Dispatching /\ UNCHANGED dispatching
        => ClaimInv'
  BY Zenon, ClaimAway
<1>1. CASE Coordinate
  <2>1. CASE \/ PassStart \/ ScheduleBegin \/ ScheduleStop
             \/ \E w \in Worker : ScheduleSelect(w)
             \/ ScheduleAcquire \/ ScheduleAcquireFails \/ PassEnd
    BY Zenon, <1>a, <2>1
       DEF PassStart, ScheduleBegin, ScheduleStop, ScheduleSelect, ScheduleAcquire,
           ScheduleAcquireFails, PassEnd, memVars, Dispatching
  <2> QED
    BY Zenon, <1>1, <2>1, ClaimDispatch, ClaimSend, ClaimCommit, ClaimRollback
       DEF Coordinate
<1>2. CASE Client
  BY Zenon, <1>h, <1>2, ClientMoves DEF worldVars
<1>3. CASE Execution
  BY Zenon, <1>h, <1>3, ExecutionMoves DEF Execution, Reported
<1>4. CASE Recovery
  <2>1. CASE IdleReady
    BY Zenon, <1>q, <2>1 DEF IdleReady, worldVars
  <2>2. CASE \/ \E t \in Task, w \in Worker, r \in RunId : RecoverActive(t, w, r)
             \/ \E w \in Worker : RecoverIdle(w)
             \/ IdleBlocked
    BY Zenon, <1>q, <2>2, QuietSteps DEF worldVars
  <2> QED
    BY Zenon, <1>h, <1>4, <2>1, <2>2, LossMoves DEF Recovery, worldVars
<1>5. CASE RecoveryRegister \/ PlainRegister \/ Heartbeat \/ Close \/ Unavailability
  BY Zenon, <1>q, <1>5, QuietSteps DEF worldVars
<1>6. CASE Exception
  <2>1. CASE ScheduleThrows \/ ScheduleUndo \/ ScheduleRethrow \/ RollbackThrows
    BY Zenon, <1>a, <2>1
       DEF ScheduleThrows, ScheduleUndo, ScheduleRethrow, RollbackThrows, memVars,
           Dispatching
  <2>2. CASE \/ IdleThrows
             \/ \E t \in Task, w \in Worker, r \in RunId : RecoverLostThrows(t, w, r)
    BY Zenon, <1>q, <2>2, QuietSteps DEF worldVars
  <2>3. CASE \E t \in Task, k \in Key \cup {NoKey} : SubmitThrows(t, k)
    BY Zenon, <1>h, <2>3, ClientMoves DEF worldVars
  <2> QED
    BY Zenon, <1>6, <2>1, <2>2, <2>3, ClaimDispatch DEF Exception
<1>7. CASE Restart
  <2>1. dispatching' = {} /\ pass' = "idle"
    BY Zenon, <1>7 DEF Restart
  <2> QED
    BY <2>1, Zenon DEF ClaimInv, ClaimExact, TodoUnsent
<1>8. CASE UNCHANGED vars
  BY Zenon, <1>q, <1>8 DEF vars, memVars, worldVars
<1> QED
  BY Zenon, <1>1, <1>2, <1>3, <1>4, <1>5, <1>6, <1>7, <1>8 DEF Next

-----------------------------------------------------------------------------
(* The messages.                                                           *)

\* What the runs say about the messages, and the messages about the runs.
MessagesInv ==
  /\ WorldSound /\ OwnMessagesOnly
  /\ \A r \in RunId : runs[r].status = "DISPATCH_FAILED" => r \notin sent

\* The runs keep their rows, or get rows that the messages justify, while
\* more is asked for and reported.
LEMMA MessagesMove ==
  ASSUME MessagesInv, sent' = sent,
         asked \subseteq asked', asked' \subseteq sent,
         reported \subseteq reported', reported' \subseteq asked',
         \A r \in RunId : decisions[r] # Undecided => decisions'[r] = decisions[r],
         \A r \in RunId : runs'[r] = runs[r] \/
           /\ runs'[r] # AbsentRun
           /\ runs'[r].status \in {"RUNNING", "SUCCEEDED", "TIMEOUT"} => r \in asked'
           /\ runs'[r].status \in {"SUCCEEDED", "TIMEOUT"} => r \in reported'
           /\ runs'[r].status = "FAILED" => r \in reported' \/ decisions'[r] # Undecided
           /\ runs'[r].status = "DISPATCH_FAILED" => r \notin sent,
         sent \subseteq RunId
  PROVE  MessagesInv'
<1>1. WorldSound'
  BY Zenon DEF MessagesInv, WorldSound
<1>2. OwnMessagesOnly'
  BY Zenon DEF MessagesInv, OwnMessagesOnly
<1>3. \A r \in RunId : runs'[r].status = "DISPATCH_FAILED" => r \notin sent'
  BY Zenon DEF MessagesInv
<1> QED
  BY <1>1, <1>2, <1>3 DEF MessagesInv

\* Nothing changes but what is asked for and reported.
LEMMA MessagesGrow ==
  ASSUME TypeInv, MessagesInv, UNCHANGED <<runs, decisions, sent>>,
         asked \subseteq asked', asked' \subseteq sent,
         reported \subseteq reported', reported' \subseteq asked'
  PROVE  MessagesInv'
<1>1. sent \subseteq RunId
  BY Zenon DEF TypeInv, TypeOK
<1> QED
  BY Zenon, <1>1, MessagesMove

\* A save that moves an active task on writes one run.
LEMMA MessagesSaves ==
  ASSUME TypeInv, CoreInv, HistoryInv, MessagesInv,
         NEW t \in Task, tasks[t].status \in Active,
         NEW row, row.run = tasks[t].run,
         NEW override, override # "" \/ row.worker # NoWorker,
         NEW status, status = IF override # "" THEN override ELSE row.status,
         saveOne(t, row, override),
         \A r \in RunId : r # tasks[t].run => decisions'[r] = decisions[r],
         sent' = sent, asked \subseteq asked', asked' \subseteq sent,
         reported \subseteq reported', reported' \subseteq asked',
         status \in {"RUNNING", "SUCCEEDED", "TIMEOUT"} => tasks[t].run \in asked',
         status \in {"SUCCEEDED", "TIMEOUT"} => tasks[t].run \in reported',
         status = "FAILED" =>
           tasks[t].run \in reported' \/ decisions'[tasks[t].run] # Undecided,
         status = "DISPATCH_FAILED" => tasks[t].run \notin sent
  PROVE  MessagesInv'
<1>1. tasks[t].status # "ABSENT"
  BY Zenon DEF Active
<1>2. db[t] = tasks[t]
  BY Zenon, <1>1, Resident
<1> DEFINE r0 == tasks[t].run
<1>3. /\ db[t].status \in Active /\ row.run = db[t].run
      /\ r0 \in RunId /\ decisions[r0] = Undecided
  BY Zenon, <1>2, ActiveRun
<1>4. \A r \in RunId :
        runs'[r] = IF r = db[t].run
                   THEN [task |-> t, worker |-> db[t].worker,
                         status |-> IF override # "" THEN override ELSE row.status]
                   ELSE runs[r]
  BY Zenon, <1>3, SaveActive
<1>5. /\ runs'[r0] = [task |-> t, worker |-> db[t].worker, status |-> status]
      /\ \A r \in RunId : r # r0 => runs'[r] = runs[r]
  BY Zenon, <1>2, <1>3, <1>4
<1>6. runs'[r0].status = status /\ runs'[r0].task = t
  BY ONLY <1>5
<1>7. runs'[r0] # AbsentRun
  BY ONLY <1>6, Constants, t \in Task DEF AbsentRun
<1>8. \A r \in RunId : decisions[r] # Undecided => decisions'[r] = decisions[r]
  BY Zenon, <1>3
<1>9. sent \subseteq RunId
  BY Zenon DEF TypeInv, TypeOK
<1> HIDE DEF r0
<1>10. ASSUME NEW r \in RunId
       PROVE  runs'[r] = runs[r] \/
           /\ runs'[r] # AbsentRun
           /\ runs'[r].status \in {"RUNNING", "SUCCEEDED", "TIMEOUT"} => r \in asked'
           /\ runs'[r].status \in {"SUCCEEDED", "TIMEOUT"} => r \in reported'
           /\ runs'[r].status = "FAILED" => r \in reported' \/ decisions'[r] # Undecided
           /\ runs'[r].status = "DISPATCH_FAILED" => r \notin sent
  <2>1. CASE r = r0
    BY Zenon, <1>6, <1>7, <2>1 DEF r0
  <2> QED
    BY Zenon, <1>5, <2>1
<1> QED
  BY Zenon, <1>8, <1>9, <1>10, MessagesMove

\* The commit opens runs that nobody was sent yet.
LEMMA MessagesCommit ==
  ASSUME TypeInv, HistoryInv, MessagesInv, ScheduleCommit
  PROVE  MessagesInv'
<1>1. /\ \A t \in planned : runs'[plan[t].run] = [task |-> t,
                worker |-> plan[t].worker, status |-> "ASSIGNED"]
      /\ \A r \in RunId : (\A t \in planned : plan[t].run # r) => runs'[r] = runs[r]
  BY Zenon, CommitRuns DEF ScheduleCommit
<1>2. UNCHANGED <<decisions, worldVars>>
  BY Zenon DEF ScheduleCommit
<1>3. ASSUME NEW t \in planned
      PROVE  /\ runs'[plan[t].run].status = "ASSIGNED"
             /\ runs'[plan[t].run] # AbsentRun
  <2>1. t \in Task
    BY Zenon, PlannedRow
  <2>2. runs'[plan[t].run].status = "ASSIGNED" /\ runs'[plan[t].run].task = t
    <3>1. runs'[plan[t].run] = [task |-> t, worker |-> plan[t].worker,
                                status |-> "ASSIGNED"]
      BY Zenon, <1>1
    <3> QED
      BY ONLY <3>1
  <2> QED
    BY ONLY <2>1, <2>2, Constants DEF AbsentRun
<1>4. \A r \in RunId :
        \/ runs'[r] = runs[r]
        \/ runs'[r].status = "ASSIGNED" /\ runs'[r] # AbsentRun
  BY Zenon, <1>1, <1>3
<1>5. /\ sent' = sent /\ asked' = asked /\ reported' = reported
      /\ asked \subseteq sent /\ reported \subseteq asked /\ sent \subseteq RunId
  BY Zenon, <1>2 DEF worldVars, MessagesInv, WorldSound, TypeInv, TypeOK
<1> QED
  BY <1>2, <1>4, <1>5, MessagesMove, Zenon

\* A run that is sent is open.
LEMMA MessagesSend ==
  ASSUME TypeInv, CoreInv, HistoryInv, ClaimInv, MessagesInv, DispatchSend
  PROVE  MessagesInv'
<1>1. /\ pass = "send" /\ sent' = sent \cup {current.run}
      /\ UNCHANGED <<runs, decisions, asked, reported>>
  BY Zenon DEF DispatchSend, storeVars
<1>2. /\ current.task \in Task /\ tasks[current.task].status = "ASSIGNED"
      /\ tasks[current.task].run = current.run
  BY <1>1, PassTasks DEF ClaimInv, ClaimExact
<1>3. db[current.task] = tasks[current.task]
  BY <1>2, Resident, Zenon
<1>4. /\ runs[current.run].status = "ASSIGNED" /\ runs[current.run] # AbsentRun
  BY <1>2, <1>3, ActiveRun DEF Active
<1>5. WorldSound'
  BY Zenon, <1>1, <1>4 DEF MessagesInv, WorldSound
<1>6. OwnMessagesOnly'
  BY Zenon, <1>1 DEF MessagesInv, OwnMessagesOnly
<1>7. \A r \in RunId : runs'[r].status = "DISPATCH_FAILED" => r \notin sent'
  BY <1>1, <1>4, Zenon DEF MessagesInv
<1> QED
  BY <1>5, <1>6, <1>7 DEF MessagesInv

\* The run of a rolled back assignment was not sent.
LEMMA MessagesRollback ==
  ASSUME TypeInv, CoreInv, HistoryInv, ClaimInv, MessagesInv, rollbackAssignment
  PROVE  MessagesInv'
<1> DEFINE t   == current.task
           row == rolledBackRow(t)
<1>1. /\ pass = "rollback" /\ canRollback(t) /\ saveOne(t, row, "DISPATCH_FAILED")
      /\ UNCHANGED <<decisions, worldVars>>
  BY Zenon DEF rollbackAssignment
<1>2. t \in Task /\ tasks[t] \in TaskRow
  BY Zenon, <1>1, PassTasks DEF TypeInv, TypeOK
<1>3. tasks[t].status \in Active /\ tasks[t].run \notin sent
  BY Zenon, <1>1 DEF canRollback, Active, ClaimInv, ClaimExact
<1>4. row.run = tasks[t].run
  BY Zenon, <1>2 DEF rolledBackRow, TaskRow
<1>5. /\ sent' = sent /\ asked' = asked /\ reported' = reported
      /\ asked \subseteq sent /\ reported \subseteq asked
  BY Zenon, <1>1 DEF worldVars, MessagesInv, WorldSound
<1>6. /\ "DISPATCH_FAILED" # "" /\ "DISPATCH_FAILED" # "FAILED"
      /\ "DISPATCH_FAILED" \notin {"RUNNING", "SUCCEEDED", "TIMEOUT"}
      /\ "DISPATCH_FAILED" \notin {"SUCCEEDED", "TIMEOUT"}
  BY Zenon
<1>7. asked \subseteq asked' /\ reported \subseteq reported'
      /\ asked' \subseteq sent /\ reported' \subseteq asked'
  BY Zenon, <1>5
<1> HIDE DEF t, row
<1> QED
  BY Zenon, <1>1, <1>2, <1>3, <1>4, <1>5, <1>6, <1>7, MessagesSaves

\* A run is started when its own worker asks for it.
LEMMA MessagesStart ==
  ASSUME TypeInv, CoreInv, HistoryInv, MessagesInv, NEW t \in Task, NEW w \in Worker,
         NEW r \in RunId, TaskStart(t, w, r)
  PROVE  MessagesInv'
<1>1. /\ r \in sent /\ asked' = asked \cup {r}
      /\ UNCHANGED <<decisions, sent, reported>>
  BY Zenon DEF TaskStart, sentTo
<1>2. /\ asked \subseteq asked' /\ asked' \subseteq sent
      /\ reported \subseteq reported' /\ reported' \subseteq asked'
  BY Zenon, <1>1 DEF MessagesInv, WorldSound
<1>3. CASE startable(t, w, r)
  <2> DEFINE row == [tasks[t] EXCEPT !.status = "RUNNING"]
  <2>1. saveOne(t, row, "")
    BY Zenon, <1>3 DEF TaskStart
  <2>2. tasks[t] \in TaskRow /\ NoWorker \notin Worker
    BY Zenon, Constants DEF TypeInv, TypeOK
  <2>3. tasks[t].status \in Active /\ tasks[t].worker = w /\ tasks[t].run = r
    BY Zenon, <1>3 DEF startable, Active
  <2>4. /\ row.run = tasks[t].run /\ row.worker = tasks[t].worker
        /\ row.status = "RUNNING"
    BY Zenon, <2>2 DEF TaskRow
  <2> HIDE DEF row
  <2>5. row.worker # NoWorker /\ tasks[t].run \in asked'
    BY Zenon, <1>1, <2>2, <2>3, <2>4
  <2>6. "RUNNING" = IF "" # "" THEN "" ELSE row.status
    BY Zenon, <2>4
  <2>7. /\ "RUNNING" \notin {"SUCCEEDED", "TIMEOUT"}
        /\ "RUNNING" # "FAILED" /\ "RUNNING" # "DISPATCH_FAILED"
    BY Zenon
  <2> QED
    BY Zenon, <1>1, <1>2, <2>1, <2>3, <2>4, <2>5, <2>6, <2>7, MessagesSaves
<1>4. CASE ~ startable(t, w, r)
  <2>1. runs' = runs
    BY Zenon, <1>4 DEF TaskStart
  <2> QED
    BY Zenon, <1>1, <1>2, <2>1, MessagesGrow
<1> QED
  BY Zenon, <1>3, <1>4

\* A run is finished by its own report.
LEMMA MessagesResult ==
  ASSUME TypeInv, CoreInv, HistoryInv, MessagesInv, NEW t \in Task, NEW w \in Worker,
         NEW r \in RunId, NEW s \in Reported, TaskResult(t, w, r, s)
  PROVE  MessagesInv'
<1>1. /\ r \in asked /\ reported' = reported \cup {r}
      /\ UNCHANGED <<decisions, sent, asked>>
  BY Zenon DEF TaskResult
<1>2. /\ asked \subseteq asked' /\ asked' \subseteq sent
      /\ reported \subseteq reported' /\ reported' \subseteq asked'
  BY Zenon, <1>1 DEF MessagesInv, WorldSound
<1>3. CASE finishable(t, w, r)
  <2> DEFINE row == [tasks[t] EXCEPT !.status = s, !.recovery = FALSE]
  <2>1. saveOne(t, row, "")
    BY Zenon, <1>3 DEF TaskResult, completeTask
  <2>2. tasks[t] \in TaskRow /\ NoWorker \notin Worker
    BY Zenon, Constants DEF TypeInv, TypeOK
  <2>3. tasks[t].status \in Active /\ tasks[t].worker = w /\ tasks[t].run = r
    BY Zenon, <1>3 DEF finishable, Active
  <2>4. row.run = tasks[t].run /\ row.worker = tasks[t].worker /\ row.status = s
    BY Zenon, <2>2 DEF TaskRow
  <2> HIDE DEF row
  <2>5. /\ row.worker # NoWorker /\ tasks[t].run \in asked'
        /\ tasks[t].run \in reported'
    BY Zenon, <1>1, <2>2, <2>3, <2>4
  <2>6. s = IF "" # "" THEN "" ELSE row.status
    BY Zenon, <2>4
  <2>7. s # "DISPATCH_FAILED"
    BY Zenon DEF Reported
  <2> QED
    BY Zenon, <1>1, <1>2, <2>1, <2>3, <2>4, <2>5, <2>6, <2>7, MessagesSaves
<1>4. CASE ~ finishable(t, w, r)
  <2>1. runs' = runs
    BY Zenon, <1>4 DEF TaskResult
  <2> QED
    BY Zenon, <1>1, <1>2, <2>1, MessagesGrow
<1> QED
  BY Zenon, <1>3, <1>4

\* A run that is given up gets its decision with its last status.
LEMMA MessagesLoss ==
  ASSUME TypeInv, CoreInv, HistoryInv, MessagesInv, NEW t \in Task,
         \/ \E w \in Worker, r \in RunId : RecoverLost(t, w, r)
         \/ IdleRequeue(t)
  PROVE  MessagesInv'
<1>1. tasks[t].status \in Active
  BY Zenon DEF RecoverLost, IdleRequeue, lostAccepted, claimsActive, Active
<1>2. recoverLost(t) /\ UNCHANGED worldVars
  BY Zenon DEF RecoverLost, IdleRequeue
<1> DEFINE row == lostRow(t)
<1>3. saveOne(t, row, "FAILED") /\ row.run = tasks[t].run
  BY Zenon, <1>2 DEF recoverLost, lostRow
<1>4. decisions' = [decisions EXCEPT ![tasks[t].run] =
                      [task |-> t, worker |-> tasks[t].worker,
                       action |-> lostAction(row)]]
  BY Zenon, <1>2 DEF recoverLost
<1> HIDE DEF row
<1>5. decisions \in [RunId -> Decision] /\ tasks[t].run \in RunId
  <2>1. tasks[t].status # "ABSENT"
    BY <1>1 DEF Active
  <2> QED
    BY Zenon, <1>1, <2>1, Resident, ActiveRun DEF TypeInv, TypeOK, StoreType
<1>6. decisions'[tasks[t].run].task = t
      /\ \A r \in RunId : r # tasks[t].run => decisions'[r] = decisions[r]
  BY <1>4, <1>5, Zenon
<1>7. decisions'[tasks[t].run] # Undecided
  BY ONLY <1>6, Constants, t \in Task DEF Undecided
<1>8. /\ sent' = sent /\ asked \subseteq asked' /\ asked' \subseteq sent
      /\ reported \subseteq reported' /\ reported' \subseteq asked'
  BY Zenon, <1>2 DEF worldVars, MessagesInv, WorldSound
<1>9. /\ "FAILED" # "" /\ "FAILED" # "DISPATCH_FAILED"
      /\ "FAILED" \notin {"RUNNING", "SUCCEEDED", "TIMEOUT"}
      /\ "FAILED" \notin {"SUCCEEDED", "TIMEOUT"}
  BY Zenon
<1> QED
  BY Zenon, <1>1, <1>3, <1>6, <1>7, <1>8, <1>9, MessagesSaves

\* The clients write no run: a row without a worker leaves them alone.
LEMMA ClientRuns ==
  ASSUME TypeInv, Client
  PROVE  \A r \in RunId : runs'[r] = runs[r]
<1>0. tasks \in [Task -> TaskRow] /\ \A t \in Task : RowShape(tasks[t])
  BY Zenon DEF TypeInv, TypeOK
<1>1. ASSUME NEW t \in Task, NEW k \in Key \cup {NoKey}, submitTask(t, k)
      PROVE  \A r \in RunId : runs'[r] = runs[r]
  <2> DEFINE row  == [AbsentTask EXCEPT !.status = "QUEUED", !.seq = nextSeq]
             rows == [u \in {t} |-> row]
  <2>1. saveRows(rows, "")
    BY Zenon, <1>1 DEF submitTask, saveOne
  <2>2. row.worker = NoWorker
    BY Zenon DEF AbsentTask
  <2>3. \A u \in DOMAIN rows : rows[u].worker = NoWorker
    BY Zenon, <2>2
  <2> HIDE DEF rows
  <2> QED
    BY Zenon, <2>1, <2>3, SaveUnassigned
<1>2. ASSUME NEW changed \in SUBSET Task, \A t \in changed : tasks[t].status = "QUEUED",
             saveRows([t \in changed |-> [tasks[t] EXCEPT !.status = "CANCELLED"]], "")
      PROVE  \A r \in RunId : runs'[r] = runs[r]
  <2> DEFINE rows == [t \in changed |-> [tasks[t] EXCEPT !.status = "CANCELLED"]]
  <2>1. \A u \in changed : [tasks[u] EXCEPT !.status = "CANCELLED"].worker = NoWorker
    BY Zenon, <1>0, <1>2 DEF RowShape, TaskRow
  <2>2. \A u \in DOMAIN rows : rows[u].worker = NoWorker
    BY Zenon, <2>1
  <2>3. saveRows(rows, "")
    BY Zenon, <1>2
  <2> HIDE DEF rows
  <2> QED
    BY Zenon, <2>2, <2>3, SaveUnassigned
<1>3. ASSUME NEW t \in Task, cancelTask(t)
      PROVE  \A r \in RunId : runs'[r] = runs[r]
  <2> DEFINE row == [tasks[t] EXCEPT !.status = "CANCELLED"]
  <2>1. saveRows([u \in {t} |-> row], "") /\ tasks[t].status = "QUEUED"
    BY Zenon, <1>3 DEF cancelTask, saveOne
  <2>2. [u \in {t} |-> row] = [u \in {t} |-> [tasks[u] EXCEPT !.status = "CANCELLED"]]
    BY Zenon
  <2>3. saveRows([u \in {t} |-> [tasks[u] EXCEPT !.status = "CANCELLED"]], "")
    BY Zenon, <2>1, <2>2
  <2>4. {t} \in SUBSET Task /\ \A u \in {t} : tasks[u].status = "QUEUED"
    BY Zenon, <2>1
  <2> QED
    BY Zenon, <1>2, <2>3, <2>4
<1>4. ASSUME NEW b \in Batch, cancelBatch(b)
      PROVE  \A r \in RunId : runs'[r] = runs[r]
  <2> DEFINE changed == {t \in Task : BatchOf[t] = b /\ tasks[t].status = "QUEUED"}
  <2>1. saveRows([t \in changed |-> [tasks[t] EXCEPT !.status = "CANCELLED"]], "")
    BY Zenon, <1>4 DEF cancelBatch
  <2>2. changed \in SUBSET Task /\ \A t \in changed : tasks[t].status = "QUEUED"
    BY Zenon
  <2> HIDE DEF changed
  <2> QED
    BY Zenon, <1>2, <2>1, <2>2
<1> QED
  BY Zenon, <1>1, <1>3, <1>4 DEF Client

\* Every step of the scheduling core keeps the messages sound.
LEMMA MessagesNext ==
  ASSUME TypeInv, CoreInv, HistoryInv, ClaimInv, MessagesInv, [Next]_vars
  PROVE  MessagesInv'
<1>0. asked \subseteq sent /\ reported \subseteq asked /\ sent \subseteq RunId
  BY Zenon DEF MessagesInv, WorldSound, TypeInv, TypeOK
<1>q. UNCHANGED <<runs, decisions, sent, asked, reported>> => MessagesInv'
  BY Zenon, <1>0, MessagesGrow
<1>1. CASE Coordinate
  <2>1. CASE \/ PassStart \/ ScheduleBegin \/ ScheduleStop
             \/ \E w \in Worker : ScheduleSelect(w)
             \/ ScheduleAcquire \/ ScheduleAcquireFails \/ DispatchClaim
             \/ DispatchSkip \/ DispatchReturn \/ DispatchFail
             \/ RollbackRefused \/ PassEnd
    BY Zenon, <1>q, <2>1
       DEF PassStart, ScheduleBegin, ScheduleStop, ScheduleSelect, ScheduleAcquire,
           ScheduleAcquireFails, DispatchClaim, DispatchSkip, DispatchReturn,
           DispatchFail, RollbackRefused, PassEnd, storeVars, worldVars
  <2> QED
    BY Zenon, <1>1, <2>1, MessagesSend, MessagesCommit, MessagesRollback DEF Coordinate
<1>2. CASE Client
  <2>1. UNCHANGED <<decisions, sent, asked, reported>>
    BY Zenon, <1>2, ClientMoves DEF worldVars
  <2> QED
    BY Zenon, <1>0, <1>2, <2>1, ClientRuns, MessagesMove
<1>3. CASE Execution
  BY Zenon, <1>3, MessagesStart, MessagesResult DEF Execution, Reported
<1>4. CASE Recovery
  <2>1. CASE IdleReady
    BY Zenon, <1>q, <2>1 DEF IdleReady, storeVars, worldVars
  <2>2. CASE \/ \E t \in Task, w \in Worker, r \in RunId : RecoverActive(t, w, r)
             \/ \E w \in Worker : RecoverIdle(w)
             \/ IdleBlocked
    BY Zenon, <1>q, <2>2, QuietSteps DEF storeVars, worldVars
  <2> QED
    BY Zenon, <1>4, <2>1, <2>2, MessagesLoss DEF Recovery
<1>5. CASE RecoveryRegister \/ PlainRegister \/ Heartbeat \/ Close \/ Unavailability
  BY Zenon, <1>q, <1>5, QuietSteps DEF storeVars, worldVars
<1>6. CASE Exception
  BY Zenon, <1>q, <1>6
     DEF Exception, ScheduleThrows, ScheduleUndo, ScheduleRethrow, DispatchClaimThrows,
         RollbackThrows, IdleThrows, RecoverLostThrows, SubmitThrows, storeVars, worldVars
<1>7. CASE Restart
  BY Zenon, <1>q, <1>7 DEF Restart, worldVars
<1>8. CASE UNCHANGED vars
  BY Zenon, <1>q, <1>8 DEF vars, storeVars, worldVars
<1> QED
  BY Zenon, <1>1, <1>2, <1>3, <1>4, <1>5, <1>6, <1>7, <1>8 DEF Next

\* A new server has sent nothing and claims nothing.
LEMMA DispatchInit == Init => ClaimInv /\ MessagesInv
<1> SUFFICES ASSUME Init PROVE ClaimInv /\ MessagesInv
  BY Zenon
<1>1. ClaimInv
  BY Zenon DEF Init, ClaimInv, ClaimExact, TodoUnsent
<1>2. \A r \in RunId : runs[r].status = "NONE"
  BY Zenon DEF Init, StoreInit, AbsentRun
<1>3. WorldSound
  BY Zenon DEF Init, WorldSound
<1> QED
  BY <1>1, <1>2, <1>3 DEF MessagesInv, OwnMessagesOnly

\* The claim of a dispatch, the list of assignments and the messages of the
\* workers fit the tasks and the run history in every reachable state.
THEOREM DispatchInvariant == Spec => []DispatchInv
<1>1. TypeInv /\ CoreInv /\ HistoryInv /\ (ClaimInv /\ MessagesInv) /\ [Next]_vars
        => (ClaimInv /\ MessagesInv)'
  BY Zenon, ClaimNext, MessagesNext DEF MessagesInv
<1>2. ClaimInv /\ MessagesInv => DispatchInv
  BY Zenon DEF ClaimInv, MessagesInv, DispatchInv, RollbackOwnsRun, ClaimExact
<1> QED
  BY <1>1, <1>2, DispatchInit, TypeInvariant, CoreInvariant, HistoryInvariant, PTL
     DEF Spec

\* dispatchAssignment releases mutex_ while it hands the message over; the
\* claim keeps every other method from moving the task to another run.
THEOREM ClaimIsPinned == Spec => []ClaimPinned
<1>1. DispatchInv => ClaimPinned
  BY Zenon DEF DispatchInv, ClaimExact, ClaimPinned
<1> QED
  BY <1>1, DispatchInvariant, PTL

\* rollbackAssignment, which is given a task id and no run, undoes only the
\* assignment whose dispatch failed, and that run was never sent.
THEOREM RollbackIsOwn == Spec => []RollbackOwnsRun
<1>1. DispatchInv => RollbackOwnsRun
  BY Zenon DEF DispatchInv
<1> QED
  BY <1>1, DispatchInvariant, PTL

\* START and RESULT move only the run they name: no run is started, finished
\* or failed on a message of another run.
THEOREM MessagesAreOwn == Spec => []OwnMessagesOnly
<1>1. DispatchInv => OwnMessagesOnly
  BY DEF DispatchInv
<1> QED
  BY <1>1, DispatchInvariant, PTL

-----------------------------------------------------------------------------
(* The retries.                                                            *)

\* The lost runs of t that were queued again after they had started.
LostRuns(t) == {r \in RunId : /\ decisions[r].task = t
                              /\ decisions[r].action = "requeued"
                              /\ r \in asked}

\* A behaviour draws finitely many run ids.
LEMMA RunsFinite == IsFiniteSet(RunId)
<1>1. MaxRun \in Int /\ 1 \in Int
  BY StoreAssumption
<1> QED
  BY <1>1, FS_Interval DEF RunId

\* A save that keeps the retry count of the task it writes.
LEMMA RetrySaved ==
  ASSUME TypeInv, CoreInv, NEW t \in Task, NEW row, NEW override,
         saveOne(t, row, override), tasks[t].status # "ABSENT",
         row.retry = tasks[t].retry
  PROVE  \A u \in Task : db'[u].retry = db[u].retry
<1>1. db \in [Task -> TaskRow]
  BY Zenon DEF TypeInv, TypeOK, StoreType
<1>2. db' = [db EXCEPT ![t] = row]
  BY Zenon, <1>1, SaveOne
<1>3. db'[t] = row /\ \A u \in Task : u # t => db'[u] = db[u]
  BY Zenon, <1>1, <1>2
<1> QED
  BY Zenon, <1>3, Resident

\* Saved decisions and remembered requests: no lost run is forgotten.
LEMMA LostRunsGrow ==
  ASSUME NEW t \in Task,
         \A r \in RunId : decisions[r] # Undecided => decisions'[r] = decisions[r],
         asked \subseteq asked'
  PROVE  /\ LostRuns(t) \subseteq LostRuns(t)'
         /\ IsFiniteSet(LostRuns(t)) /\ IsFiniteSet(LostRuns(t)')
         /\ Cardinality(LostRuns(t)) \in Nat /\ Cardinality(LostRuns(t)') \in Nat
         /\ Cardinality(LostRuns(t)) <= Cardinality(LostRuns(t)')
<1>1. IsFiniteSet(RunId) /\ LostRuns(t) \subseteq RunId /\ LostRuns(t)' \subseteq RunId
  BY RunsFinite DEF LostRuns
<1>2. LostRuns(t) \subseteq LostRuns(t)'
  <2> SUFFICES ASSUME NEW r \in LostRuns(t) PROVE r \in LostRuns(t)'
    BY Zenon
  <2>1. r \in RunId /\ decisions[r].task = t /\ decisions[r].action = "requeued"
        /\ r \in asked
    BY Zenon DEF LostRuns
  <2>2. decisions[r] # Undecided
    BY ONLY <2>1 DEF Undecided
  <2> QED
    BY <2>1, <2>2, Zenon DEF LostRuns
<1> QED
  BY <1>1, <1>2, FS_Subset, FS_CardinalityType

\* The account of a task whose retry count does not grow.
LEMMA RetriesKept ==
  ASSUME TypeInv, RetriesAccounted,
         \A t \in Task : db'[t].retry \in Nat /\ db'[t].retry <= db[t].retry,
         \A r \in RunId : decisions[r] # Undecided => decisions'[r] = decisions[r],
         asked \subseteq asked'
  PROVE  RetriesAccounted'
<1> SUFFICES ASSUME NEW t \in Task
             PROVE  /\ db'[t].retry <= MaxRetries
                    /\ db'[t].retry <= Cardinality(LostRuns(t)')
  BY Zenon DEF RetriesAccounted, LostRuns
<1>1. /\ db[t].retry <= MaxRetries
      /\ db[t].retry <= Cardinality(LostRuns(t))
  BY Zenon DEF RetriesAccounted, LostRuns
<1>2. /\ Cardinality(LostRuns(t)) \in Nat /\ Cardinality(LostRuns(t)') \in Nat
      /\ Cardinality(LostRuns(t)) <= Cardinality(LostRuns(t)')
  BY LostRunsGrow
<1>3. MaxRetries \in Nat /\ db[t].retry \in Nat
  BY SchedulerAssumption, Zenon DEF TypeInv, TypeOK, StoreType, TaskRow
<1> QED
  BY <1>1, <1>2, <1>3

\* recoverLost counts a retry only for a run that was started, and saves the
\* decision about that run, which had none, with it.
LEMMA RetriesLost ==
  ASSUME TypeInv, CoreInv, HistoryInv, OwnMessagesOnly, RetriesAccounted,
         TypeInv', FinalKept, NEW t \in Task, tasks[t].status \in Active,
         recoverLost(t), UNCHANGED worldVars
  PROVE  RetriesAccounted'
<1> DEFINE r == tasks[t].run
           row == lostRow(t)
<1>1. /\ tasks[t].status # "ABSENT" /\ db[t] = tasks[t]
      /\ db \in [Task -> TaskRow] /\ decisions \in [RunId -> Decision]
  BY Resident DEF TypeInv, TypeOK, StoreType, Active
<1>2. /\ r \in RunId /\ decisions[r] = Undecided
      /\ runs[r].status = tasks[t].status
  BY Zenon, <1>1, ActiveRun
<1>3. saveOne(t, row, "FAILED") /\ asked' = asked
  BY Zenon DEF recoverLost, worldVars
<1>4. db' = [db EXCEPT ![t] = row]
  BY Zenon, <1>1, <1>3, SaveOne
<1>5. db'[t] = row /\ \A u \in Task : u # t => db'[u] = db[u]
  BY Zenon, <1>1, <1>4
<1>6. \A q \in RunId : decisions[q] # Undecided => decisions'[q] = decisions[q]
  BY Zenon DEF FinalKept
<1>7. \A u \in Task : db'[u].retry \in Nat /\ db[u].retry \in Nat
  BY Zenon DEF TypeInv, TypeOK, StoreType, TaskRow
<1>8. CASE row.retry = tasks[t].retry
  <2>1. \A u \in Task : db'[u].retry = db[u].retry
    BY Zenon, <1>1, <1>5, <1>8
  <2>2. \A u \in Task : db'[u].retry \in Nat /\ db'[u].retry <= db[u].retry
    BY <1>7, <2>1
  <2> QED
    BY Zenon, <1>3, <1>6, <2>2, RetriesKept
<1>9. CASE row.retry # tasks[t].retry
  <2>1. /\ tasks[t].status = "RUNNING" /\ tasks[t].retry < MaxRetries
        /\ row.retry = tasks[t].retry + 1 /\ row.status = "QUEUED"
    BY <1>9 DEF lostRow
  <2>2. r \in asked
    BY Zenon, <1>2, <2>1 DEF OwnMessagesOnly
  <2>3. decisions'[r].task = t /\ decisions'[r].action = "requeued"
    <3>1. decisions' = [decisions EXCEPT ![r] =
             [task |-> t, worker |-> tasks[t].worker, action |-> lostAction(row)]]
      BY Zenon DEF recoverLost
    <3>2. lostAction(row) = "requeued"
      BY <2>1, Zenon DEF lostAction
    <3> HIDE DEF row
    <3>3. decisions'[r] = [task |-> t, worker |-> tasks[t].worker, action |-> "requeued"]
      BY Zenon, <1>1, <1>2, <3>1, <3>2
    <3> QED
      BY ONLY <3>3
  <2>4. r \in LostRuns(t)' /\ r \notin LostRuns(t)
    <3>1. decisions[r].action = "none"
      BY ONLY <1>2 DEF Undecided
    <3>2. decisions[r].action # "requeued"
      BY ONLY <3>1, Zenon
    <3> QED
      BY Zenon, <1>2, <1>3, <2>2, <2>3, <3>2 DEF LostRuns
  <2>5. Cardinality(LostRuns(t)) + 1 <= Cardinality(LostRuns(t)')
    <3>1. /\ LostRuns(t) \cup {r} \subseteq LostRuns(t)'
          /\ IsFiniteSet(LostRuns(t)) /\ IsFiniteSet(LostRuns(t)')
      BY Zenon, <1>3, <1>6, <2>4, LostRunsGrow
    <3>2. Cardinality(LostRuns(t) \cup {r}) = Cardinality(LostRuns(t)) + 1
      BY Zenon, <2>4, <3>1, FS_AddElement
    <3> QED
      BY <3>1, <3>2, FS_Subset
  <2> SUFFICES ASSUME NEW u \in Task
               PROVE  /\ db'[u].retry <= MaxRetries
                      /\ db'[u].retry <= Cardinality(LostRuns(u)')
    BY Zenon DEF RetriesAccounted, LostRuns
  <2>6. /\ db[u].retry <= MaxRetries /\ db[u].retry <= Cardinality(LostRuns(u))
    BY Zenon DEF RetriesAccounted, LostRuns
  <2>7. /\ Cardinality(LostRuns(u)) \in Nat /\ Cardinality(LostRuns(u)') \in Nat
        /\ Cardinality(LostRuns(u)) <= Cardinality(LostRuns(u)')
    BY Zenon, <1>3, <1>6, LostRunsGrow
  <2>8. MaxRetries \in Nat
    BY SchedulerAssumption
  <2> HIDE DEF row
  <2>9. CASE u # t
    BY <1>5, <1>7, <2>6, <2>7, <2>9
  <2>10. CASE u = t
    BY <1>1, <1>5, <1>7, <2>1, <2>5, <2>6, <2>7, <2>8, <2>10
  <2> QED
    BY <2>9, <2>10, Zenon
<1> QED
  BY <1>8, <1>9


\* The commit of a pass keeps the retry counts.
LEMMA RetryCommit ==
  ASSUME TypeInv, CoreInv, ScheduleCommit
  PROVE  \A t \in Task : db'[t].retry = db[t].retry
<1> SUFFICES ASSUME NEW t \in Task PROVE db'[t].retry = db[t].retry
  BY Zenon
<1>1. saveRows([u \in planned |-> assignedRow(u)], "")
  BY Zenon DEF ScheduleCommit
<1>2. db'[t] = IF t \in planned THEN assignedRow(t) ELSE db[t]
  BY Zenon, <1>1 DEF saveRows
<1>3. ASSUME t \in planned PROVE assignedRow(t).retry = db[t].retry
  <2>1. tasks[t].status = "QUEUED" /\ tasks[t] \in TaskRow
    BY Zenon, <1>3 DEF planned, CoreInv, PassInv, PlanExact, TypeInv, TypeOK
  <2>2. db[t] = tasks[t]
    BY <2>1, Resident
  <2> QED
    BY Zenon, <2>1, <2>2 DEF assignedRow, TaskRow
<1> QED
  BY Zenon, <1>2, <1>3

\* A client adds tasks without retries and cancels queued ones.
LEMMA RetryClient ==
  ASSUME TypeInv, CoreInv, Client
  PROVE  \A t \in Task : db'[t].retry = db[t].retry \/ db'[t].retry = 0
<1>0. tasks \in [Task -> TaskRow] /\ db \in [Task -> TaskRow]
  BY Zenon DEF TypeInv, TypeOK, StoreType
<1>1. ASSUME NEW t \in Task, NEW k \in Key \cup {NoKey}, submitTask(t, k)
      PROVE  \A u \in Task : db'[u].retry = db[u].retry \/ db'[u].retry = 0
  <2> DEFINE row == [AbsentTask EXCEPT !.status = "QUEUED", !.seq = nextSeq]
  <2>1. saveOne(t, row, "")
    BY Zenon, <1>1 DEF submitTask
  <2>2. row.retry = 0
    BY Zenon DEF AbsentTask
  <2> HIDE DEF row
  <2>3. db' = [db EXCEPT ![t] = row]
    BY Zenon, <1>0, <2>1, SaveOne
  <2> QED
    BY Zenon, <1>0, <2>2, <2>3
<1>2. ASSUME NEW t \in Task, cancelTask(t)
      PROVE  \A u \in Task : db'[u].retry = db[u].retry
  <2> DEFINE row == [tasks[t] EXCEPT !.status = "CANCELLED"]
  <2>1. saveOne(t, row, "") /\ tasks[t].status = "QUEUED"
    BY Zenon, <1>2 DEF cancelTask
  <2>2. row.retry = tasks[t].retry
    BY Zenon, <1>0 DEF TaskRow
  <2>3. tasks[t].status # "ABSENT"
    BY Zenon, <2>1
  <2> HIDE DEF row
  <2> QED
    BY Zenon, <2>1, <2>2, <2>3, RetrySaved
<1>3. ASSUME NEW b \in Batch, cancelBatch(b), NEW u \in Task
      PROVE  db'[u].retry = db[u].retry
  <2>1. \/ db'[u] = db[u]
        \/ /\ tasks[u].status = "QUEUED"
           /\ db'[u] = [tasks[u] EXCEPT !.status = "CANCELLED"]
    BY Zenon, <1>3 DEF cancelBatch, saveRows
  <2>2. [tasks[u] EXCEPT !.status = "CANCELLED"].retry = tasks[u].retry
    BY Zenon, <1>0 DEF TaskRow
  <2>3. tasks[u].status = "QUEUED" => db[u] = tasks[u]
    BY Resident
  <2> QED
    BY Zenon, <2>1, <2>2, <2>3
<1> QED
  BY Zenon, <1>1, <1>2, <1>3 DEF Client

\* A message of a worker, and the rollback of an assignment, keep the retry
\* counts.
LEMMA RetryActive ==
  ASSUME TypeInv, CoreInv, Execution \/ rollbackAssignment
  PROVE  \A t \in Task : db'[t].retry = db[t].retry
<1>0. tasks \in [Task -> TaskRow] /\ db \in [Task -> TaskRow]
  BY Zenon DEF TypeInv, TypeOK, StoreType
<1>1. ASSUME NEW t \in Task, startable(t, tasks[t].worker, tasks[t].run),
             saveOne(t, [tasks[t] EXCEPT !.status = "RUNNING"], "")
      PROVE  \A u \in Task : db'[u].retry = db[u].retry
  <2>1. [tasks[t] EXCEPT !.status = "RUNNING"].retry = tasks[t].retry
    BY Zenon, <1>0 DEF TaskRow
  <2>2. tasks[t].status # "ABSENT"
    BY Zenon, <1>1 DEF startable
  <2> QED
    BY Zenon, <1>1, <2>1, <2>2, RetrySaved
<1>2. ASSUME NEW t \in Task, NEW w \in Worker, NEW r \in RunId, TaskStart(t, w, r)
      PROVE  \A u \in Task : db'[u].retry = db[u].retry
  BY Zenon, <1>1, <1>2 DEF TaskStart, startable
<1>3. ASSUME NEW t \in Task, NEW w \in Worker, NEW r \in RunId,
             NEW s \in {"SUCCEEDED", "FAILED", "TIMEOUT"}, TaskResult(t, w, r, s)
      PROVE  \A u \in Task : db'[u].retry = db[u].retry
  <2>1. CASE ~ finishable(t, w, r)
    BY Zenon, <1>3, <2>1 DEF TaskResult
  <2>2. CASE finishable(t, w, r)
    <3>1. saveOne(t, [tasks[t] EXCEPT !.status = s, !.recovery = FALSE], "")
      BY Zenon, <1>3, <2>2 DEF TaskResult, completeTask
    <3>2. [tasks[t] EXCEPT !.status = s, !.recovery = FALSE].retry = tasks[t].retry
      BY Zenon, <1>0 DEF TaskRow
    <3>3. tasks[t].status # "ABSENT"
      BY <2>2 DEF finishable
    <3> QED
      BY Zenon, <3>1, <3>2, <3>3, RetrySaved
  <2> QED
    BY <2>1, <2>2, Zenon
<1>4. ASSUME rollbackAssignment
      PROVE  \A u \in Task : db'[u].retry = db[u].retry
  <2> DEFINE t == current.task
  <2>1. /\ pass = "rollback" /\ tasks[t].status = "ASSIGNED"
        /\ saveOne(t, rolledBackRow(t), "DISPATCH_FAILED")
    BY Zenon, <1>4 DEF rollbackAssignment, canRollback
  <2>2. t \in Task
    BY Zenon, <2>1, PassTasks
  <2> HIDE DEF t
  <2>3. rolledBackRow(t).retry = tasks[t].retry
    <3>1. tasks[t] \in TaskRow
      BY Zenon, <1>0, <2>2
    <3> QED
      BY Zenon, <3>1 DEF rolledBackRow, TaskRow
  <2>4. tasks[t].status # "ABSENT"
    BY Zenon, <2>1
  <2> QED
    BY Zenon, <2>1, <2>2, <2>3, <2>4, RetrySaved
<1> QED
  BY Zenon, <1>2, <1>3, <1>4 DEF Execution

\* Every step of the scheduling core keeps the account of the retries.
LEMMA RetriesNext ==
  ASSUME TypeInv, TypeInv', CoreInv, HistoryInv, OwnMessagesOnly, RetriesAccounted,
         [Next]_vars
  PROVE  RetriesAccounted'
<1>0. \A t \in Task : db'[t].retry \in Nat /\ db[t].retry \in Nat
  BY Zenon DEF TypeInv, TypeOK, StoreType, TaskRow
<1>f. FinalKept /\ \A r \in RunId : decisions[r] # Undecided => decisions'[r] = decisions[r]
  BY Zenon, HistoryNext DEF FinalKept
<1>k. (\A t \in Task : db'[t].retry = db[t].retry \/ db'[t].retry = 0)
        /\ asked \subseteq asked' => RetriesAccounted'
  <2> SUFFICES ASSUME \A t \in Task : db'[t].retry = db[t].retry \/ db'[t].retry = 0,
                      asked \subseteq asked'
               PROVE  RetriesAccounted'
    BY Zenon
  <2>1. \A t \in Task : db'[t].retry \in Nat /\ db'[t].retry <= db[t].retry
    BY <1>0
  <2> QED
    BY Zenon, <1>f, <2>1, RetriesKept
<1>q. UNCHANGED <<db, asked>> => RetriesAccounted'
  BY Zenon, <1>k
<1>1. CASE Coordinate
  <2>1. CASE \/ PassStart \/ ScheduleBegin \/ ScheduleStop
             \/ \E w \in Worker : ScheduleSelect(w)
             \/ ScheduleAcquire \/ ScheduleAcquireFails \/ DispatchClaim
             \/ DispatchSkip \/ DispatchSend \/ DispatchReturn \/ DispatchFail
             \/ RollbackRefused \/ PassEnd
    BY Zenon, <1>q, <2>1
       DEF PassStart, ScheduleBegin, ScheduleStop, ScheduleSelect, ScheduleAcquire,
           ScheduleAcquireFails, DispatchClaim, DispatchSkip, DispatchSend,
           DispatchReturn, DispatchFail, RollbackRefused, PassEnd, storeVars, worldVars
  <2>2. CASE ScheduleCommit
    BY Zenon, <1>k, <2>2, RetryCommit DEF ScheduleCommit, worldVars
  <2>3. CASE rollbackAssignment
    BY Zenon, <1>k, <2>3, RetryActive DEF rollbackAssignment, worldVars
  <2> QED
    BY Zenon, <1>1, <2>1, <2>2, <2>3 DEF Coordinate
<1>2. CASE Client
  <2>1. asked' = asked
    BY Zenon, <1>2 DEF Client, submitTask, cancelTask, cancelBatch, worldVars
  <2> QED
    BY Zenon, <1>2, <1>k, <2>1, RetryClient
<1>3. CASE Execution
  <2>1. asked \subseteq asked'
    BY Zenon, <1>3 DEF Execution, TaskStart, TaskResult
  <2> QED
    BY Zenon, <1>3, <1>k, <2>1, RetryActive
<1>4. CASE Recovery
  <2>1. CASE IdleReady
    BY Zenon, <1>q, <2>1 DEF IdleReady, storeVars, worldVars
  <2>2. CASE \/ \E t \in Task, w \in Worker, r \in RunId : RecoverActive(t, w, r)
             \/ \E w \in Worker : RecoverIdle(w)
             \/ IdleBlocked
    BY Zenon, <1>q, <2>2, QuietSteps DEF storeVars, worldVars
  <2>3. ASSUME NEW t \in Task,
               \/ \E w \in Worker, r \in RunId : RecoverLost(t, w, r)
               \/ IdleRequeue(t)
        PROVE  RetriesAccounted'
    <3>1. tasks[t].status \in Active /\ recoverLost(t) /\ UNCHANGED worldVars
      BY Zenon, <2>3 DEF RecoverLost, IdleRequeue, lostAccepted, claimsActive, Active
    <3> QED
      BY Zenon, <1>f, <3>1, RetriesLost
  <2> QED
    BY Zenon, <1>4, <2>1, <2>2, <2>3 DEF Recovery
<1>5. CASE RecoveryRegister \/ PlainRegister \/ Heartbeat \/ Close \/ Unavailability
  BY Zenon, <1>q, <1>5, QuietSteps DEF storeVars, worldVars
<1>6. CASE Exception
  BY Zenon, <1>q, <1>6
     DEF Exception, ScheduleThrows, ScheduleUndo, ScheduleRethrow, DispatchClaimThrows,
         RollbackThrows, IdleThrows, RecoverLostThrows, SubmitThrows, storeVars, worldVars
<1>7. CASE Restart
  <2>1. db \in [Task -> TaskRow]
    BY Zenon DEF TypeInv, TypeOK, StoreType
  <2>2. \A t \in Task : [db[t] EXCEPT !.recovery = TRUE].retry = db[t].retry
    BY Zenon, <2>1 DEF TaskRow
  <2>3. \A t \in Task : db'[t].retry = db[t].retry
    BY Zenon, <1>7, <2>2 DEF Restart, markRecovery
  <2> QED
    BY Zenon, <1>k, <1>7, <2>3 DEF Restart, worldVars
<1>8. CASE UNCHANGED vars
  BY Zenon, <1>q, <1>8 DEF vars, storeVars, worldVars
<1> QED
  BY Zenon, <1>1, <1>2, <1>3, <1>4, <1>5, <1>6, <1>7, <1>8 DEF Next

\* retry_count stays within recovery_max_retries and counts started runs that
\* were declared lost, each once, whatever is repeated or restarted.
THEOREM RetriesAreAccounted == Spec => []RetriesAccounted
<1>1. Init => RetriesAccounted
  <2> SUFFICES ASSUME Init, NEW t \in Task
               PROVE  /\ db[t].retry <= MaxRetries
                      /\ db[t].retry <= Cardinality(LostRuns(t))
    BY Zenon DEF RetriesAccounted, LostRuns
  <2>1. db[t].retry = 0
    BY Zenon DEF Init, StoreInit, AbsentTask
  <2>2. IsFiniteSet(LostRuns(t))
    BY RunsFinite, FS_Subset DEF LostRuns
  <2>3. Cardinality(LostRuns(t)) \in Nat
    BY <2>2, FS_CardinalityType
  <2> QED
    BY <2>1, <2>3, SchedulerAssumption
<1>2. TypeInv /\ TypeInv' /\ CoreInv /\ HistoryInv /\ OwnMessagesOnly /\ RetriesAccounted
        /\ [Next]_vars => RetriesAccounted'
  BY RetriesNext
<1> QED
  BY <1>1, <1>2, TypeInvariant, CoreInvariant, HistoryInvariant, MessagesAreOwn, PTL
     DEF Spec

-----------------------------------------------------------------------------
(* The assignments that were not sent.                                     *)

Unsent(t) == tasks[t].status = "ASSIGNED" /\ tasks[t].run \notin sent

Listed(t) == \E i \in 1..Len(todo) : todo[i] = [task |-> t, worker |-> tasks[t].worker]

\* UnsentIsOwned in terms of the two.
LEMMA OwnedMeans ==
  UnsentIsOwned <=> \A t \in Task : Unsent(t) =>
                      \/ pass \in {"send", "rollback"} /\ current.task = t
                      \/ Listed(t)
BY Zenon DEF UnsentIsOwned, Unsent, Listed

\* While no pass is between its commit and its end, nothing is unsent.
LEMMA NothingUnsent ==
  ASSUME TypeInv, CoreInv, UnsentIsOwned,
         pass \in {"idle", "begin"} \cup Planning \/ (pass = "dispatch" /\ todo = <<>>)
  PROVE  \A t \in Task : ~ Unsent(t)
<1> SUFFICES ASSUME NEW t \in Task, Unsent(t) PROVE FALSE
  BY Zenon
<1>1. pass \notin {"send", "rollback"}
  BY DEF Planning
<1>2. PICK i \in 1..Len(todo) : todo[i] = [task |-> t, worker |-> tasks[t].worker]
  BY Zenon, <1>1, OwnedMeans DEF Listed
<1>3. todo # <<>>
  BY <1>2
<1>4. pass \in Planning
  BY Zenon, <1>3 DEF CoreInv, PassInv, PassMutex
<1>5. todo[i].task = t /\ todo[i].worker \in Worker
  <2>1. todo[i].task = t
    BY ONLY <1>2
  <2> QED
    BY Zenon, <2>1, PassTasks
<1>6. plan[t].worker = todo[i].worker
  BY Zenon, <1>4, <1>5 DEF CoreInv, PassInv, PlanExact
<1>7. plan[t] # NoPlan
  <2>1. plan[t].worker # NoWorker
    BY Zenon, <1>5, <1>6, Constants
  <2> QED
    BY ONLY <2>1 DEF NoPlan
<1>8. tasks[t].status = "QUEUED"
  BY Zenon, <1>7 DEF CoreInv, PassInv, PlanExact
<1> QED
  BY Zenon, <1>8 DEF Unsent

\* A handler makes no task ASSIGNED.
LEMMA OwnedHandlers ==
  ASSUME UnsentIsOwned, \A u \in Task : HandlerMoves(u), sent \subseteq sent',
         UNCHANGED <<pass, current, todo>>
  PROVE  UnsentIsOwned'
<1>1. ASSUME NEW t \in Task, tasks'[t].status = "ASSIGNED"
      PROVE  tasks'[t] = tasks[t]
  <2>1. "ASSIGNED" \in Active /\ "ASSIGNED" \notin {"RUNNING"} \cup Reported
    BY DEF Active, Reported
  <2> QED
    BY Zenon, <1>1, <2>1 DEF HandlerMoves
<1> QED
  BY Zenon, <1>1 DEF UnsentIsOwned

\* The commit lists every assignment it makes.
LEMMA OwnedCommit ==
  ASSUME TypeInv, CoreInv, UnsentIsOwned, ScheduleCommit
  PROVE  UnsentIsOwned'
<1>1. /\ pass = "commit" /\ UNCHANGED <<todo, sent>>
      /\ tasks' = [t \in Task |-> IF t \in planned THEN assignedRow(t) ELSE tasks[t]]
  BY Zenon DEF ScheduleCommit, worldVars
<1>2. pass \in Planning
  BY <1>1, Zenon DEF Planning
<1>3. \A t \in Task : ~ Unsent(t)
  BY <1>2, NothingUnsent
<1> SUFFICES ASSUME NEW t \in Task, Unsent(t)' PROVE Listed(t)'
  BY Zenon DEF UnsentIsOwned, Unsent, Listed
<1>4. t \in planned
  <2>1. t \notin planned => tasks'[t] = tasks[t]
    BY Zenon, <1>1
  <2> QED
    BY Zenon, <1>1, <1>3, <2>1 DEF Unsent
<1>5. tasks'[t].worker = plan[t].worker /\ plan[t] # NoPlan
  BY Zenon, <1>1, <1>4, PlannedRow
<1>6. PICK i \in 1..Len(todo) : todo[i].task = t
  BY Zenon, <1>5 DEF CoreInv, PassInv, PlanExact
<1>7. todo[i].worker = plan[t].worker /\ todo[i] \in Assignment
  BY Zenon, <1>2, <1>6, TodoElements DEF CoreInv, PassInv, PlanExact, TypeInv
<1>8. todo[i] = [task |-> t, worker |-> tasks'[t].worker]
  BY <1>5, <1>6, <1>7 DEF Assignment
<1> QED
  BY Zenon, <1>1, <1>8 DEF Listed

\* What is in the list without its head.
LEMMA RestOfTodo ==
  ASSUME TypeInv, todo # <<>>, todo' = Tail(todo), NEW i \in 1..Len(todo)
  PROVE  todo[i] = Head(todo) \/ \E k \in 1..Len(todo') : todo'[k] = todo[i]
<1>1. todo \in Seq(Assignment)
  BY DEF TypeInv, TypeOK
<1>2. CASE i = 1
  BY <1>1, <1>2
<1>3. CASE i # 1
  <2>1. i - 1 \in 1..Len(todo') /\ todo'[i - 1] = todo[i]
    BY <1>1, <1>3
  <2> QED
    BY Zenon, <2>1
<1> QED
  BY <1>2, <1>3, Zenon

\* An assignment leaves the list when its turn comes: it is claimed, or its
\* task is no longer assigned to that worker.
LEMMA OwnedTurn ==
  ASSUME TypeInv, ClaimInv, UnsentIsOwned,
         DispatchClaim \/ DispatchClaimThrows \/ DispatchSkip
  PROVE  UnsentIsOwned'
<1> DEFINE a == Head(todo)
<1>1. /\ pass = "dispatch" /\ todo # <<>> /\ todo' = Tail(todo)
      /\ UNCHANGED <<tasks, sent>>
  BY Zenon DEF DispatchClaim, DispatchClaimThrows, DispatchSkip, memVars, worldVars
<1>2. \/ pass' \in {"send", "rollback"}
         /\ current' = [task |-> a.task, worker |-> a.worker, run |-> tasks[a.task].run]
      \/ ~ claimable(a)
  BY Zenon DEF DispatchClaim, DispatchClaimThrows, DispatchSkip
<1>3. dispatching = {} /\ pass \notin {"send", "rollback"}
  BY <1>1, Zenon DEF ClaimInv, ClaimExact
<1> SUFFICES ASSUME NEW t \in Task, Unsent(t)
             PROVE  (pass' \in {"send", "rollback"} /\ current'.task = t) \/ Listed(t)'
  BY Zenon, <1>1 DEF UnsentIsOwned, Unsent, Listed
<1>4. PICK i \in 1..Len(todo) : todo[i] = [task |-> t, worker |-> tasks[t].worker]
  BY Zenon, <1>3, OwnedMeans DEF Listed
<1>5. CASE todo[i] = a
  <2>1. a.task = t /\ a.worker = tasks[t].worker
    BY ONLY <1>4, <1>5
  <2>2. claimable(a)
    BY Zenon, <1>3, <2>1 DEF claimable, Unsent
  <2>3. pass' \in {"send", "rollback"}
        /\ current' = [task |-> a.task, worker |-> a.worker, run |-> tasks[a.task].run]
    BY Zenon, <1>2, <2>2
  <2> QED
    BY ONLY <2>1, <2>3
<1>6. CASE todo[i] # a
  <2>1. \E k \in 1..Len(todo') : todo'[k] = todo[i]
    BY <1>1, <1>6, RestOfTodo
  <2> QED
    BY Zenon, <1>1, <1>4, <2>1 DEF Listed
<1> QED
  BY <1>5, <1>6, Zenon

\* The handover of a message ends with the run sent or with a rollback.
LEMMA OwnedSend ==
  ASSUME TypeInv, CoreInv, ClaimInv, UnsentIsOwned,
         DispatchSend \/ DispatchReturn \/ DispatchFail \/ RollbackRefused
  PROVE  UnsentIsOwned'
<1>1. /\ UNCHANGED <<tasks, todo>> /\ sent \subseteq sent'
  BY Zenon DEF DispatchSend, DispatchReturn, DispatchFail, RollbackRefused,
               memVars, worldVars
<1> SUFFICES ASSUME NEW t \in Task, Unsent(t)'
             PROVE  (pass' \in {"send", "rollback"} /\ current'.task = t) \/ Listed(t)'
  BY Zenon DEF UnsentIsOwned, Unsent, Listed
<1>2. Unsent(t) /\ (Listed(t) => Listed(t)')
  BY Zenon, <1>1 DEF Unsent, Listed
<1>3. CASE DispatchSend
  <2>1. pass = "send" /\ sent' = sent \cup {current.run}
    BY Zenon, <1>3 DEF DispatchSend
  <2>2. tasks[current.task].run = current.run
    BY <2>1, Zenon DEF ClaimInv, ClaimExact
  <2>3. current.task # t
    BY Zenon, <1>1, <2>1, <2>2 DEF Unsent
  <2> QED
    BY Zenon, <1>2, <2>3, OwnedMeans
<1>4. CASE DispatchReturn
  <2>1. pass \notin {"send", "rollback"}
    BY <1>4, Zenon DEF DispatchReturn
  <2> QED
    BY Zenon, <1>2, <2>1, OwnedMeans
<1>5. CASE DispatchFail
  <2>1. pass' = "rollback" /\ current' = current
    BY Zenon, <1>5 DEF DispatchFail
  <2> QED
    BY Zenon, <1>2, <2>1, OwnedMeans
<1>6. CASE RollbackRefused
  <2>1. pass = "rollback" /\ ~ canRollback(current.task)
    BY Zenon, <1>6 DEF RollbackRefused
  <2>2. dispatching = {}
    BY <2>1, Zenon DEF ClaimInv, ClaimExact
  <2>3. tasks[t].worker # NoWorker
    <3>1. tasks[t].status \in Active
      BY Zenon, <1>2 DEF Unsent, Active
    <3> QED
      BY Zenon, <3>1 DEF TypeInv, TypeOK, RowShape
  <2>4. current.task # t
    BY Zenon, <1>2, <2>1, <2>2, <2>3 DEF canRollback, Unsent
  <2> QED
    BY Zenon, <1>2, <2>4, OwnedMeans
<1> QED
  BY Zenon, <1>3, <1>4, <1>5, <1>6

\* A rollback always finds a slot to release, so that it takes its
\* assignment back and the pass goes on.
LEMMA OwnedRollback ==
  ASSUME TypeInv, CoreInv, UnsentIsOwned, rollbackAssignment
  PROVE  UnsentIsOwned'
<1> DEFINE t == current.task
           v == tasks[t].worker
<1>1. /\ pass = "rollback" /\ canRollback(t) /\ sent' = sent
      /\ tasks' = IF canRelease(v) THEN [tasks EXCEPT ![t] = rolledBackRow(t)] ELSE tasks
      /\ todo' = IF canRelease(v) THEN todo ELSE <<>>
  BY Zenon DEF rollbackAssignment, worldVars
<1>2. t \in Task /\ tasks \in [Task -> TaskRow] /\ tasks[t] \in TaskRow
  BY Zenon, <1>1, PassTasks DEF TypeInv, TypeOK
<1>3. v \in Worker /\ tasks[t].status \in Active /\ ~ tasks[t].recovery
  <2>1. tasks[t].status = "ASSIGNED" /\ v # NoWorker
    BY Zenon, <1>1 DEF canRollback
  <2> QED
    BY Zenon, <1>1, <1>2, <2>1 DEF TaskRow, Active, CoreInv, PassInv, PassUnrecovered
<1>4. canRelease(v)
  <2>1. t \in Holders(v)
    BY Zenon, <1>2, <1>3 DEF Holders, HoldsSlot
  <2> QED
    BY Zenon, <1>3, <2>1, HolderReleases DEF CoreInv, MemoryInv
<1>5. tasks' = [tasks EXCEPT ![t] = rolledBackRow(t)] /\ todo' = todo
  BY Zenon, <1>1, <1>4
<1>t. t = current.task
  BY Zenon
<1> HIDE DEF t
<1>6. rolledBackRow(t).status # "ASSIGNED"
  <2>1. rolledBackRow(t).status \in {"QUEUED", "CANCELLED"}
    BY Zenon, <1>2 DEF rolledBackRow, TaskRow
  <2> QED
    BY Zenon, <2>1
<1>7. tasks'[t] = rolledBackRow(t) /\ \A u \in Task : u # t => tasks'[u] = tasks[u]
  BY Zenon, <1>2, <1>5
<1> SUFFICES ASSUME NEW u \in Task, Unsent(u)' PROVE Listed(u)'
  BY Zenon DEF UnsentIsOwned, Unsent, Listed
<1>8. u # t /\ tasks'[u] = tasks[u]
  BY Zenon, <1>6, <1>7 DEF Unsent
<1>9. Listed(u)
  <2>1. u # current.task
    BY <1>8, <1>t
  <2>2. sent' = sent
    BY <1>1, Zenon
  <2>3. Unsent(u)
    BY Zenon, <1>8, <2>2 DEF Unsent
  <2> QED
    BY Zenon, <2>1, <2>3, OwnedMeans
<1> QED
  BY Zenon, <1>5, <1>8, <1>9 DEF Listed

\* Every step but a crash and a rollback that cannot be saved leaves the
\* unsent assignments in the hands of the pass.
LEMMA OwnedNext ==
  ASSUME TypeInv, CoreInv, ClaimInv, UnsentIsOwned,
         [Next /\ ~ RollbackThrows /\ ~ Restart]_vars
  PROVE  UnsentIsOwned'
<1>h. (\A u \in Task : HandlerMoves(u)) /\ UNCHANGED <<pass, current, todo>>
        /\ sent \subseteq sent' => UnsentIsOwned'
  BY Zenon, OwnedHandlers
<1>q. UNCHANGED <<tasks, passVars, sent>> => UnsentIsOwned'
  BY Zenon, <1>h DEF HandlerMoves, passVars
<1>n. UNCHANGED <<tasks, sent>>
        /\ (pass \in {"idle", "begin"} \cup Planning \/ (pass = "dispatch" /\ todo = <<>>))
        => UnsentIsOwned'
  BY Zenon, NothingUnsent DEF UnsentIsOwned, Unsent
<1>1. CASE Coordinate
  <2>1. CASE \/ PassStart \/ ScheduleBegin \/ ScheduleStop
             \/ \E w \in Worker : ScheduleSelect(w)
             \/ ScheduleAcquire \/ ScheduleAcquireFails \/ PassEnd
    BY Zenon, <1>n, <2>1
       DEF PassStart, ScheduleBegin, ScheduleStop, ScheduleSelect, ScheduleAcquire,
           ScheduleAcquireFails, PassEnd, memVars, worldVars, Planning
  <2> QED
    BY Zenon, <1>1, <2>1, OwnedTurn, OwnedSend, OwnedCommit, OwnedRollback DEF Coordinate
<1>2. CASE Client
  BY Zenon, <1>h, <1>2, ClientMoves DEF worldVars, passVars
<1>3. CASE Execution
  BY Zenon, <1>h, <1>3, ExecutionMoves DEF Execution, Reported, passVars
<1>4. CASE Recovery
  <2>1. CASE IdleReady
    BY Zenon, <1>q, <2>1 DEF IdleReady, worldVars
  <2>2. CASE \/ \E t \in Task, w \in Worker, r \in RunId : RecoverActive(t, w, r)
             \/ \E w \in Worker : RecoverIdle(w)
             \/ IdleBlocked
    BY Zenon, <1>q, <2>2, QuietSteps DEF worldVars
  <2> QED
    BY Zenon, <1>h, <1>4, <2>1, <2>2, LossMoves DEF Recovery, worldVars, passVars
<1>5. CASE RecoveryRegister \/ PlainRegister \/ Heartbeat \/ Close \/ Unavailability
  BY Zenon, <1>q, <1>5, QuietSteps DEF worldVars
<1>6. CASE Exception /\ ~ RollbackThrows
  <2>1. CASE ScheduleThrows \/ ScheduleUndo \/ ScheduleRethrow
    BY Zenon, <1>n, <2>1
       DEF ScheduleThrows, ScheduleUndo, ScheduleRethrow, memVars, worldVars, Planning
  <2>2. CASE \/ IdleThrows
             \/ \E t \in Task, w \in Worker, r \in RunId : RecoverLostThrows(t, w, r)
    BY Zenon, <1>q, <2>2, QuietSteps DEF worldVars
  <2>3. CASE \E t \in Task, k \in Key \cup {NoKey} : SubmitThrows(t, k)
    BY Zenon, <1>h, <2>3, ClientMoves DEF worldVars, passVars
  <2> QED
    BY Zenon, <1>6, <2>1, <2>2, <2>3, OwnedTurn DEF Exception
<1>7. CASE UNCHANGED vars
  BY Zenon, <1>q, <1>7 DEF vars, memVars, worldVars
<1> QED
  BY Zenon, <1>1, <1>2, <1>3, <1>4, <1>5, <1>6, <1>7 DEF Next

\* No assignment is forgotten: what is ASSIGNED and was not sent is still in
\* the pass that made it, unless the process dies or a rollback cannot be
\* saved (RollbackThrows, which runOnce does not catch).
THEOREM UnsentAreOwned == UndisturbedSpec => []UnsentIsOwned
<1>1. Init => UnsentIsOwned
  <2> SUFFICES ASSUME Init, NEW t \in Task PROVE tasks[t].status # "ASSIGNED"
    BY Zenon DEF UnsentIsOwned
  <2>1. tasks[t].status = "ABSENT"
    BY Zenon DEF Init, AbsentTask
  <2> QED
    BY <2>1
<1>2. TypeInv /\ CoreInv /\ (ClaimInv /\ MessagesInv) /\ UnsentIsOwned
        /\ [Next /\ ~ RollbackThrows /\ ~ Restart]_vars => UnsentIsOwned'
  BY OwnedNext, Zenon
<1>3. TypeInv /\ CoreInv /\ HistoryInv /\ (ClaimInv /\ MessagesInv) /\ [Next]_vars
        => (ClaimInv /\ MessagesInv)'
  BY Zenon, ClaimNext, MessagesNext DEF MessagesInv
<1>4. [Next /\ ~ RollbackThrows /\ ~ Restart]_vars => [Next]_vars
  BY Zenon
<1> QED
  BY <1>1, <1>2, <1>3, <1>4, DispatchInit, TypeInvariant, CoreInvariant,
     HistoryInvariant, PTL DEF Spec, UndisturbedSpec
=============================================================================
