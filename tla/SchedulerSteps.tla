--------------------------- MODULE SchedulerSteps ---------------------------
(***************************************************************************)
(* The steps of the scheduling core preserve CoreInv.                      *)
(*                                                                         *)
(* Inside schedule() a slot is acquired, given back, or handed over to the *)
(* task it was taken for; the plan, the list of assignments and the copy   *)
(* of the queue move together.  Outside it only the list and the claim     *)
(* change.  The handlers of clients and workers, a rollback, a recovery    *)
(* and a new process change the row of one task, or evict finished ones,   *)
(* and at most one slot.                                                   *)
(***************************************************************************)
EXTENDS SchedulerTypes

-----------------------------------------------------------------------------
(* The pass outside schedule(): only the list and the claim change.        *)

\* What holds of all assignments left to dispatch holds of the rest of them.
LEMMA TodoTail ==
  ASSUME TypeOK, todo # <<>>, PassUnrecovered, todo' = Tail(todo)
  PROVE  /\ \A i \in 1..Len(todo') : ~ tasks[todo'[i].task].recovery
         /\ ~ tasks[Head(todo).task].recovery
<1>1. todo \in Seq(Assignment)
  BY Zenon DEF TypeOK
<1>2. \A i \in 1..Len(todo) : ~ tasks[todo[i].task].recovery
  BY Zenon DEF PassUnrecovered
<1>3. \A i \in 1..Len(todo') : i + 1 \in 1..Len(todo) /\ todo'[i] = todo[i + 1]
  BY <1>1
<1>4. 1 \in 1..Len(todo) /\ Head(todo) = todo[1]
  BY <1>1
<1> QED
  BY Zenon, <1>2, <1>3, <1>4

\* The dispatch steps of a pass, which only move claims, keep CoreInv.
LEMMA CorePassOutside ==
  ASSUME TypeInv, CoreInv,
         \/ PassStart \/ PassEnd \/ ScheduleRethrow
         \/ DispatchSend \/ DispatchReturn \/ DispatchFail
         \/ DispatchClaim \/ DispatchClaimThrows \/ DispatchSkip
         \/ RollbackRefused \/ RollbackThrows
  PROVE  CoreInv'
<1>1. /\ UNCHANGED <<tasks, db, queue, plan, stopped, stopRows>>
      /\ UNCHANGED workers
  BY Zenon DEF PassStart, PassEnd, ScheduleRethrow, DispatchSend,
     DispatchReturn,
         DispatchFail, DispatchClaim, DispatchClaimThrows, DispatchSkip,
         RollbackRefused, RollbackThrows, storeVars, memVars
<1>2. MemoryInv'
  BY <1>1, MemoryQuiet DEF SlotsKept, CoreInv
<1>3. PassUnrecovered /\ PassMutex /\ PlanExact /\ TypeOK
  BY Zenon DEF CoreInv, PassInv, TypeInv
<1>4. CASE PassStart \/ PassEnd
  <2>1. pass \notin Planning /\ pass' \in {"idle", "begin"} /\ pass' \notin Planning
    BY Zenon, <1>4 DEF PassStart, PassEnd, Planning
  <2>2. todo' = todo /\ todo = <<>>
    BY Zenon, <1>3, <1>4 DEF PassStart, PassEnd, PassMutex
  <2>3. \A j \in 1..Len(todo') : ~ tasks[todo'[j].task].recovery
    BY Zenon, <1>3, <2>2 DEF PassUnrecovered
  <2> QED
    BY Zenon, <1>1, <1>2, <2>1, <2>2, <2>3, PassOutside DEF CoreInv
<1>5. CASE ScheduleRethrow
  <2>1. pass' = "idle" /\ todo' = todo /\ todo = <<>>
    BY Zenon, <1>5 DEF ScheduleRethrow
  <2>2. Len(todo) = 0
    BY Zenon, <2>1
  <2>3. \A t \in Task : plan[t] = NoPlan
    BY <1>3, <2>2 DEF PlanExact
  <2>4. pass' \notin Planning /\ pass' \notin {"select", "acquire", "commit"}
    BY Zenon, <2>1 DEF Planning
  <2>5. PassInv'
    BY <1>1, <2>1, <2>2, <2>3, <2>4
       DEF PassInv, PassMutex, PlanExact, PendingExact, TopIsLive,
           PassUnrecovered
  <2> QED
    BY Zenon, <1>2, <2>5 DEF CoreInv
<1>6. CASE DispatchSend \/ DispatchReturn \/ DispatchFail
  <2>1. /\ pass \in {"send", "sent"} /\ pass' \in {"sent", "dispatch", "rollback"}
        /\ todo' = todo
        /\ pass' \in {"sent", "rollback"} => current' = current
    BY Zenon, <1>6 DEF DispatchSend, DispatchReturn, DispatchFail
  <2>2. pass \notin Planning /\ pass' \notin Planning
    BY Zenon, <2>1 DEF Planning
  <2>3. \A j \in 1..Len(todo') : ~ tasks[todo'[j].task].recovery
    BY Zenon, <1>3, <2>1 DEF PassUnrecovered
  <2>4. pass' \in {"send", "sent", "rollback"} => ~ tasks[current'.task].recovery
    BY Zenon, <1>3, <2>1 DEF PassUnrecovered
  <2>5. pass' \notin {"idle", "begin"}
    BY Zenon, <2>1
  <2> QED
    BY <1>1, <1>2, <2>2, <2>3, <2>4, <2>5, PassOutside DEF CoreInv
<1>7. CASE DispatchClaim \/ DispatchClaimThrows \/ DispatchSkip
  <2>1. /\ pass = "dispatch" /\ pass' \in {"dispatch", "send", "rollback"}
        /\ todo # <<>> /\ todo' = Tail(todo)
        /\ pass' # "dispatch" => current'.task = Head(todo).task
    <3>1. CASE DispatchClaim
      BY Zenon, <3>1 DEF DispatchClaim
    <3>2. CASE DispatchClaimThrows
      BY Zenon, <3>2 DEF DispatchClaimThrows
    <3>3. CASE DispatchSkip
      BY Zenon, <3>3 DEF DispatchSkip
    <3> QED
      BY Zenon, <1>7, <3>1, <3>2, <3>3
  <2>2. pass \notin Planning /\ pass' \notin Planning
    BY Zenon, <2>1 DEF Planning
  <2>3. /\ \A j \in 1..Len(todo') : ~ tasks[todo'[j].task].recovery
        /\ ~ tasks[Head(todo).task].recovery
    BY Zenon, <1>3, <2>1, TodoTail
  <2>4. pass' \in {"send", "sent", "rollback"} => ~ tasks[current'.task].recovery
    BY Zenon, <2>1, <2>3
  <2>5. pass' \notin {"idle", "begin"}
    BY Zenon, <2>1
  <2> QED
    BY Zenon, <1>1, <1>2, <2>2, <2>3, <2>4, <2>5, PassOutside DEF CoreInv
<1>8. CASE RollbackRefused \/ RollbackThrows
  <2>1. /\ pass = "rollback"
        /\ \/ pass' = "dispatch" /\ todo' = todo
           \/ pass' = "idle" /\ todo' = <<>>
    BY Zenon, <1>8 DEF RollbackRefused, RollbackThrows
  <2>2. /\ pass \notin Planning /\ pass' \notin Planning
        /\ pass' \notin {"send", "sent", "rollback"}
    BY Zenon, <2>1 DEF Planning
  <2>3. \A j \in 1..Len(todo') : ~ tasks[todo'[j].task].recovery
    BY <1>3, <2>1 DEF PassUnrecovered
  <2>4. pass' \in {"idle", "begin"} => todo' = <<>>
    BY Zenon, <2>1
  <2> QED
    BY Zenon, <1>1, <1>2, <2>2, <2>3, <2>4, PassOutside DEF CoreInv
<1> QED
  BY Zenon, <1>4, <1>5, <1>6, <1>7, <1>8

-----------------------------------------------------------------------------
(* schedule(): the steps that change the plan only.                        *)

\* Entries are compared with the priority of their task and their sequence.
LEMMA BeforeAsymmetric ==
  ASSUME NEW e \in Entry, NEW f \in Entry, Before(e, f)
  PROVE  ~ Before(f, e) /\ e # f
<1>1. Priority[e.task] \in Int /\ Priority[f.task] \in Int
  BY Zenon, StoreAssumption DEF Entry
<1>2. e.seq \in Nat /\ f.seq \in Nat
  BY Zenon DEF Entry
<1> QED
  BY <1>1, <1>2 DEF Before

\* The copy schedule() takes of the queue makes PendingExact true.
LEMMA CoreScheduleBegin ==
  ASSUME TypeInv, CoreInv, ScheduleBegin
  PROVE  CoreInv'
<1>1. /\ UNCHANGED <<tasks, db, queue, plan, stopped, stopRows>>
      /\ UNCHANGED workers
      /\ UNCHANGED <<todo, current, idler>>
      /\ pass = "begin" /\ pass' = "select" /\ idler = NoWorker
      /\ pending' = queue
  BY Zenon DEF ScheduleBegin, storeVars, memVars, MutexFree
<1>2. MemoryInv'
  BY Zenon, <1>1, MemoryQuiet DEF SlotsKept, CoreInv
<1>3. PassMutex /\ PlanExact /\ PassUnrecovered /\ QueueSound /\ QueueComplete
  BY Zenon DEF CoreInv, PassInv, MemoryInv
<1>4. pass \notin Planning
  BY <1>1 DEF Planning
<1>5. \A t \in Task : plan[t] = NoPlan
  BY Zenon, <1>3, <1>4 DEF PlanExact
<1>6. Len(todo) = 0
  BY <1>1, <1>3 DEF PassMutex
<1>7. PassMutex' /\ PlanExact'
  BY <1>1, <1>5, <1>6 DEF PassMutex, PlanExact
<1>8. PendingExact'
  <2>1. \A e \in queue : e.task \in Task
    BY Zenon DEF TypeInv, TypeOK, Entry
  <2> QED
    BY Zenon, <1>1, <1>3, <1>5, <2>1
       DEF PendingExact, QueueSound, QueueComplete, EntryFresh
<1>9. TopIsLive' /\ PassUnrecovered'
  BY Zenon, <1>1, <1>3 DEF TopIsLive, PassUnrecovered
<1> QED
  BY Zenon, <1>2, <1>7, <1>8, <1>9 DEF CoreInv, PassInv

\* Popping stale entries and selecting a worker keeps CoreInv.
LEMMA CoreScheduleSelect ==
  ASSUME TypeInv, CoreInv,
         ScheduleStop \/ \E w \in Worker : ScheduleSelect(w)
  PROVE  CoreInv'
<1>1. /\ UNCHANGED <<tasks, db, queue, plan, stopped, stopRows>>
      /\ UNCHANGED workers
      /\ UNCHANGED <<todo, current, idler>>
      /\ pass = "select" /\ pass' \in {"acquire", "commit"}
      /\ pending' = skipStale(pending)
      /\ pass' = "acquire" => pending' # {}
  BY Zenon DEF ScheduleStop, ScheduleSelect, storeVars, memVars
<1>2. MemoryInv'
  BY Zenon, <1>1, MemoryQuiet DEF SlotsKept, CoreInv
<1>3. PassMutex /\ PlanExact /\ PassUnrecovered /\ PendingExact
  BY Zenon DEF CoreInv, PassInv
<1>4. pass \in Planning /\ pass' \in Planning
  BY Zenon, <1>1 DEF Planning
<1>5. PassMutex'
  BY Zenon, <1>1, <1>3, <1>4 DEF PassMutex
<1>6. PlanExact'
  BY Zenon, <1>1, <1>3, <1>4 DEF PlanExact
<1>7. /\ pending' \subseteq pending
      /\ \A e \in pending : tasks[e.task].status = "QUEUED" => e \in pending'
  BY Zenon, <1>1 DEF skipStale
<1>8. PendingExact'
  BY Zenon, <1>1, <1>3, <1>7 DEF PendingExact, EntryFresh
<1>9. \A e \in pending' : \E f \in pending' :
        tasks[f.task].status = "QUEUED" /\ (f = e \/ Before(f, e))
  BY Zenon, <1>1, <1>7 DEF skipStale
<1>10. TopIsLive'
  BY Zenon, <1>1, <1>9 DEF TopIsLive, Before
<1>11. PassUnrecovered'
  BY Zenon, <1>1, <1>3 DEF PassUnrecovered
<1> QED
  BY Zenon, <1>2, <1>5, <1>6, <1>8, <1>10, <1>11 DEF CoreInv, PassInv

\* Leaving the loop of schedule() on a lost slot or an exception keeps CoreInv.
LEMMA CoreScheduleLeaves ==
  ASSUME TypeInv, CoreInv, ScheduleAcquireFails \/ ScheduleThrows
  PROVE  CoreInv'
<1>1. /\ UNCHANGED <<tasks, db, queue, plan, stopped, stopRows>>
      /\ UNCHANGED workers
      /\ UNCHANGED <<todo, current, idler>>
      /\ pass \in {"select", "acquire", "commit"}
      /\ \/ pass = "acquire" /\ pass' = "commit" /\ pending' = pending
         \/ pass' = "undo"
  BY Zenon DEF ScheduleAcquireFails, ScheduleThrows, storeVars, memVars
<1>2. MemoryInv'
  BY Zenon, <1>1, MemoryQuiet DEF SlotsKept, CoreInv
<1>3. PassMutex /\ PlanExact /\ PassUnrecovered /\ PendingExact
  BY Zenon DEF CoreInv, PassInv
<1>4. pass \in Planning /\ pass' \in Planning
  BY Zenon, <1>1 DEF Planning
<1>5. PassMutex' /\ PlanExact'
  BY <1>1, <1>3, <1>4 DEF PassMutex, PlanExact
<1>6. PendingExact' /\ TopIsLive'
  BY Zenon, <1>1, <1>3 DEF PendingExact, TopIsLive, EntryFresh
<1>7. PassUnrecovered'
  BY Zenon, <1>1, <1>3 DEF PassUnrecovered
<1> QED
  BY Zenon, <1>2, <1>5, <1>6, <1>7 DEF CoreInv, PassInv
-----------------------------------------------------------------------------
(* schedule(): a slot is acquired, released, or handed over to the task.   *)

\* The rest of the memory when only the slots and the plan change.
LEMMA MemoryPlanned ==
  ASSUME MemoryInv, SlotAccounting', UnregisteredFree',
         UNCHANGED <<tasks, db, queue, stopped, stopRows>>
  PROVE  MemoryInv'
<1>1. QueueSound' /\ QueueComplete' /\ RecoveryShape'
  BY Zenon DEF MemoryInv, QueueSound, QueueComplete, RecoveryShape, EntryFresh
<1>2. StoreAgrees' /\ StoppedBatchDrained'
  BY Zenon DEF MemoryInv, StoreAgrees, StoppedBatchDrained
<1> QED
  BY Zenon, <1>1, <1>2 DEF MemoryInv

\* The slot taken is exactly the one the new plan entry holds.
LEMMA CoreScheduleAcquire ==
  ASSUME TypeInv, CoreInv, ScheduleAcquire
  PROVE  CoreInv'
<1>1. /\ UNCHANGED <<tasks, db, queue, stopped, stopRows, idler, current>>
      /\ pass = "acquire" /\ pass' = "select"
      /\ canAcquire(picked) /\ acquireSlot(picked)
  BY Zenon DEF ScheduleAcquire, storeVars, memVars
<1>2. PICK e \in pending :
        /\ isTop(e, pending)
        /\ plan' = [plan EXCEPT ![e.task] = [worker |-> picked, run |-> nextRun]]
        /\ todo' = Append(todo, [task |-> e.task, worker |-> picked])
        /\ pending' = pending \ {e}
  BY Zenon DEF ScheduleAcquire
<1> DEFINE t == e.task
           a == [task |-> t, worker |-> picked]
<1>3. /\ TypeOK /\ MemoryInv /\ PassMutex /\ PlanExact /\ PendingExact
      /\ TopIsLive /\ PassUnrecovered
  BY Zenon DEF TypeInv, CoreInv, PassInv
<1>4. /\ pending \subseteq Entry /\ e \in Entry /\ t \in Task
      /\ picked \in Worker /\ NoWorker \notin Worker
      /\ todo \in Seq(Assignment) /\ a \in Assignment
  <2>1. pending \subseteq Entry /\ todo \in Seq(Assignment)
    BY Zenon, <1>3 DEF TypeOK
  <2>2. picked \in Worker
    BY Zenon, <1>1 DEF TypeInv, PassShape
  <2>3. e \in Entry /\ e.task \in Task
    BY Zenon, <2>1 DEF Entry
  <2> QED
    BY Zenon, <2>1, <2>2, <2>3, Constants DEF Assignment
<1>5. tasks[t].status = "QUEUED"
  <2>1. PICK f \in pending :
          tasks[f.task].status = "QUEUED" /\ (f = e \/ Before(f, e))
    BY Zenon, <1>1, <1>3 DEF TopIsLive
  <2>2. f # e => Before(e, f)
    BY Zenon, <1>2 DEF isTop
  <2>3. f = e
    BY Zenon, <1>4, <2>1, <2>2, BeforeAsymmetric
  <2> QED
    BY Zenon, <2>1, <2>3
<1>6. EntryFresh(e) /\ plan[t] = NoPlan /\ plan[t].worker = NoWorker
  BY <1>1, <1>3 DEF PendingExact, NoPlan
<1>7. /\ \A u \in Task : u # t => plan'[u] = plan[u]
      /\ plan'[t].worker = picked
      /\ plan'[t] # NoPlan
  <2>1. plan \in [Task -> [worker : Worker, run : RunId] \cup {NoPlan}]
    BY Zenon, <1>3 DEF TypeOK
  <2>2. plan'[t] = [worker |-> picked, run |-> nextRun]
    BY Zenon, <1>2, <1>4, <2>1
  <2>3. \A u \in Task : u # t => plan'[u] = plan[u]
    BY Zenon, <1>2, <1>4, <2>1
  <2> QED
    BY <1>4, <2>2, <2>3 DEF NoPlan
<1>8. SlotAccounting'
  <2>1. \A w \in Worker : t \notin Holders(w)
    BY Zenon, <1>4, <1>5, <1>6 DEF Holders, HoldsSlot, Active
  <2>2. \A w \in Worker : Holders(w)' = IF w = picked THEN Holders(w) \cup {t}
                                        ELSE Holders(w)
    BY <1>1, <1>4, <1>7, <2>1 DEF Holders, HoldsSlot
  <2>3. WorkersType /\ SlotAccounting
    BY Zenon, <1>3 DEF TypeOK, MemoryInv
  <2> QED
    BY Zenon, <1>1, <1>4, <2>1, <2>2, <2>3, SlotTaken
<1>9. UnregisteredFree'
  <2>1. workers' = [workers EXCEPT ![picked].used = @ + 1]
    BY Zenon, <1>1 DEF acquireSlot
  <2>2. \A w \in Worker : /\ workers'[w].status = workers[w].status
                          /\ w # picked => workers'[w].used = workers[w].used
    BY <1>3, <2>1 DEF TypeOK, WorkersType, WorkerRecord
  <2>3. workers[picked].status = "ONLINE"
    BY Zenon, <1>1 DEF canAcquire, getAvailableWorkers
  <2> QED
    BY Zenon, <1>3, <2>2, <2>3 DEF UnregisteredFree, MemoryInv
<1>10. MemoryInv'
  BY Zenon, <1>1, <1>3, <1>8, <1>9, MemoryPlanned
<1>11. pass \in Planning /\ pass' \in Planning
  BY Zenon, <1>1 DEF Planning
<1>12. PassMutex'
  BY Zenon, <1>1, <1>3, <1>11 DEF PassMutex
<1>13. /\ Len(todo') = Len(todo) + 1 /\ Len(todo) \in Nat
       /\ \A i \in 1..Len(todo) : todo'[i] = todo[i]
       /\ todo'[Len(todo) + 1] = a
  BY <1>2, <1>4
<1>14. \A i \in 1..Len(todo) :
         /\ todo[i].task \in Task /\ todo[i].worker \in Worker
         /\ plan[todo[i].task].worker = todo[i].worker
         /\ todo[i].task # t
  BY <1>3, <1>4, <1>6, <1>11, TodoElements DEF PlanExact
<1>15. PlanExact'
  <2>1. ASSUME NEW u \in Task, plan'[u] # NoPlan
        PROVE  /\ pass' \in Planning
               /\ tasks'[u].status = "QUEUED"
               /\ \E i \in 1..Len(todo') : todo'[i].task = u
    <3>1. CASE u = t
      <4>1. Len(todo) + 1 \in 1..Len(todo')
        BY <1>13
      <4> QED
        BY <1>1, <1>5, <1>11, <1>13, <3>1, <4>1
    <3>2. CASE u # t
      <4>1. PICK i \in 1..Len(todo) : todo[i].task = u
        BY Zenon, <1>3, <1>7, <2>1, <3>2 DEF PlanExact
      <4>2. i \in 1..Len(todo')
        BY <1>13
      <4> QED
        BY Zenon, <1>1, <1>3, <1>7, <1>11, <1>13, <2>1, <3>2, <4>1, <4>2
           DEF PlanExact
    <3> QED
      BY Zenon, <3>1, <3>2
  <2>2. \A i \in 1..Len(todo') : i \in 1..Len(todo) \/ i = Len(todo) + 1
    BY <1>13
  <2>3. \A i \in 1..Len(todo') : plan'[todo'[i].task].worker = todo'[i].worker
    BY <1>7, <1>13, <1>14, <2>2
  <2>4. \A i, j \in 1..Len(todo') : todo'[i].task = todo'[j].task => i = j
    BY <1>3, <1>11, <1>13, <1>14, <2>2 DEF PlanExact
  <2> QED
    BY Zenon, <2>1, <2>3, <2>4 DEF PlanExact
<1>16. PendingExact'
  <2>1. ASSUME NEW f \in pending, f # e
        PROVE  EntryFresh(f)' /\ f.task # t /\ plan'[f.task] = NoPlan
    <3>1. EntryFresh(f) /\ plan[f.task] = NoPlan /\ f \in Entry
      BY Zenon, <1>1, <1>3, <1>4 DEF PendingExact
    <3>2. f.task # t
      BY <1>4, <1>5, <1>6, <2>1, <3>1 DEF EntryFresh, Entry
    <3>3. EntryFresh(f)'
      BY Zenon, <1>1, <3>1 DEF EntryFresh
    <3> QED
      BY Zenon, <1>7, <3>1, <3>2, <3>3 DEF Entry
  <2>2. ASSUME NEW u \in Task, tasks[u].status = "QUEUED", plan'[u] = NoPlan
        PROVE  [task |-> u, seq |-> tasks[u].seq] \in pending'
    <3>1. u # t
      BY Zenon, <1>7, <2>2
    <3>2. [task |-> u, seq |-> tasks[u].seq] \in pending
      BY Zenon, <1>1, <1>3, <1>7, <2>2, <3>1 DEF PendingExact
    <3> QED
      BY <1>2, <3>1, <3>2
  <2> QED
    BY Zenon, <1>1, <1>2, <2>1, <2>2 DEF PendingExact
<1>17. TopIsLive'
  BY Zenon, <1>1 DEF TopIsLive
<1>18. PassUnrecovered'
  <2>1. ~ tasks[t].recovery
    BY Zenon, <1>3, <1>4, <1>5 DEF MemoryInv, RecoveryShape, Active
  <2>2. \A i \in 1..Len(todo') : i \in 1..Len(todo) \/ i = Len(todo) + 1
    BY <1>13
  <2> QED
    BY <1>1, <1>3, <1>13, <2>1, <2>2 DEF PassUnrecovered
<1> QED
  BY Zenon, <1>10, <1>12, <1>15, <1>16, <1>17, <1>18 DEF CoreInv, PassInv
\* The slot given back is exactly the one the dropped plan entry held.
LEMMA CoreScheduleUndo ==
  ASSUME TypeInv, CoreInv, ScheduleUndo
  PROVE  CoreInv'
<1> DEFINE t == Head(todo).task
           v == Head(todo).worker
<1>1. /\ UNCHANGED <<tasks, db, queue, stopped, stopRows, idler, current>>
      /\ pass = "undo" /\ pass' = "undo" /\ todo # <<>>
      /\ releaseSlot(v)
      /\ plan' = [plan EXCEPT ![t] = NoPlan]
      /\ todo' = Tail(todo)
  BY Zenon DEF ScheduleUndo, storeVars, memVars
<1>2. /\ TypeOK /\ MemoryInv /\ PassMutex /\ PlanExact /\ PassUnrecovered
  BY Zenon DEF TypeInv, CoreInv, PassInv
<1>3. pass \in Planning /\ pass' \in Planning
  BY Zenon, <1>1 DEF Planning
<1>4. /\ todo \in Seq(Assignment)
      /\ plan \in [Task -> [worker : Worker, run : RunId] \cup {NoPlan}]
  BY Zenon, <1>2 DEF TypeOK
<1>5. 1 \in 1..Len(todo) /\ Head(todo) = todo[1]
  BY <1>1, <1>4
<1>6. t \in Task /\ v \in Worker /\ plan[t].worker = v /\ NoWorker \notin Worker
  BY <1>2, <1>3, <1>5, TodoElements, Constants DEF PlanExact
<1>7. /\ \A u \in Task : u # t => plan'[u] = plan[u]
      /\ plan'[t] = NoPlan /\ plan'[t].worker = NoWorker
      /\ plan[t] # NoPlan
  BY <1>1, <1>4, <1>6 DEF NoPlan
<1>8. tasks[t].status = "QUEUED"
  BY Zenon, <1>2, <1>6, <1>7 DEF PlanExact
<1>9. SlotAccounting' /\ UnregisteredFree'
  <2>1. t \in Holders(v) /\ \A w \in Worker : w # v => t \notin Holders(w)
    BY Zenon, <1>6, <1>8 DEF Holders, HoldsSlot, Active
  <2>2. \A w \in Worker : t \notin Holders(w)'
    BY Zenon, <1>1, <1>6, <1>7, <1>8 DEF Holders, HoldsSlot, Active
  <2>3. \A w \in Worker, u \in Task : u # t => (HoldsSlot(u, w)' <=> HoldsSlot(u, w))
    BY Zenon, <1>1, <1>7 DEF HoldsSlot
  <2>4. \A w \in Worker : Holders(w)' = IF w = v THEN Holders(w) \ {t}
                                        ELSE Holders(w)
    BY Zenon, <2>1, <2>2, <2>3 DEF Holders
  <2>5. WorkersType /\ SlotAccounting /\ UnregisteredFree
    BY Zenon, <1>2 DEF TypeOK, MemoryInv
  <2> QED
    BY Zenon, <1>1, <1>6, <2>1, <2>4, <2>5, SlotGiven
<1>10. MemoryInv'
  BY Zenon, <1>1, <1>2, <1>9, MemoryPlanned
<1>11. PassMutex'
  BY Zenon, <1>1, <1>2, <1>3 DEF PassMutex
<1>12. /\ Len(todo') = Len(todo) - 1 /\ Len(todo) \in Nat
       /\ \A i \in 1..Len(todo') : i + 1 \in 1..Len(todo) /\ todo'[i] = todo[i + 1]
  BY <1>1, <1>4
<1>13. \A i \in 1..Len(todo) : i # 1 => i - 1 \in 1..Len(todo') /\ todo'[i - 1] = todo[i]
  BY <1>1, <1>4
<1>14. PlanExact'
  <2>1. ASSUME NEW u \in Task, plan'[u] # NoPlan
        PROVE  /\ pass' \in Planning
               /\ tasks'[u].status = "QUEUED"
               /\ \E i \in 1..Len(todo') : todo'[i].task = u
    <3>1. u # t /\ plan[u] # NoPlan
      BY Zenon, <1>7, <2>1
    <3>2. PICK i \in 1..Len(todo) : todo[i].task = u
      BY Zenon, <1>2, <3>1 DEF PlanExact
    <3>3. i # 1
      BY Zenon, <1>5, <3>1, <3>2
    <3>4. tasks[u].status = "QUEUED"
      BY Zenon, <1>2, <3>1 DEF PlanExact
    <3> QED
      BY Zenon, <1>1, <1>3, <1>13, <3>2, <3>3, <3>4
  <2>2. \A i \in 1..Len(todo) : i # 1 => todo[i].task # t
    BY <1>2, <1>3, <1>5 DEF PlanExact
  <2>3. \A i \in 1..Len(todo') : i + 1 # 1
    BY <1>12
  <2>4. \A i \in 1..Len(todo') : todo'[i].task \in Task /\ todo'[i].task # t
    BY Zenon, <1>2, <1>12, <2>2, <2>3, TodoElements
  <2>5. \A i \in 1..Len(todo') : plan'[todo'[i].task].worker = todo'[i].worker
    BY <1>2, <1>3, <1>7, <1>12, <2>4 DEF PlanExact
  <2>6. \A i, j \in 1..Len(todo') : todo'[i].task = todo'[j].task => i = j
    <3>1. SUFFICES ASSUME NEW i \in 1..Len(todo'), NEW j \in 1..Len(todo'),
                          todo'[i].task = todo'[j].task
                   PROVE  i = j
      OBVIOUS
    <3>2. /\ i + 1 \in 1..Len(todo) /\ j + 1 \in 1..Len(todo)
          /\ todo[i + 1].task = todo[j + 1].task
      BY Zenon, <1>12, <3>1
    <3>3. i + 1 = j + 1
      BY Zenon, <1>2, <1>3, <3>2 DEF PlanExact
    <3> QED
      BY <3>3, <1>12
  <2> QED
    BY Zenon, <2>1, <2>5, <2>6 DEF PlanExact
<1>15. PendingExact' /\ TopIsLive'
  BY Zenon, <1>1 DEF PendingExact, TopIsLive
<1>16. PassUnrecovered'
  BY Zenon, <1>1, <1>2, <1>12 DEF PassUnrecovered
<1> QED
  BY Zenon, <1>10, <1>11, <1>14, <1>15, <1>16 DEF CoreInv, PassInv

\* Publishing the plan turns planned slots into assigned ones, task by task.
LEMMA CoreScheduleCommit ==
  ASSUME TypeInv, CoreInv, ScheduleCommit
  PROVE  CoreInv'
<1>1. /\ UNCHANGED <<workers, stopped, stopRows, idler, todo, current>>
      /\ pass = "commit" /\ pass' = "dispatch"
      /\ saveRows([u \in planned |-> assignedRow(u)], "")
      /\ tasks' = [u \in Task |-> IF u \in planned THEN assignedRow(u)
                                  ELSE tasks[u]]
      /\ queue' = pending
      /\ plan' = [u \in Task |-> NoPlan]
  BY Zenon DEF ScheduleCommit
<1>2. /\ TypeOK /\ MemoryInv /\ PassMutex /\ PlanExact /\ PendingExact
      /\ PassUnrecovered
  BY Zenon DEF TypeInv, CoreInv, PassInv
<1>3. /\ tasks \in [Task -> TaskRow] /\ db \in [Task -> TaskRow]
      /\ pending \subseteq Entry /\ NoWorker \notin Worker
      /\ plan \in [Task -> [worker : Worker, run : RunId] \cup {NoPlan}]
  BY Zenon, <1>2, Constants DEF TypeOK, StoreType
<1>4. db' = [u \in Task |-> IF u \in planned THEN assignedRow(u) ELSE db[u]]
  BY Zenon, <1>1 DEF saveRows
<1>5. ASSUME NEW u \in planned
      PROVE  /\ u \in Task /\ plan[u] # NoPlan /\ tasks[u].status = "QUEUED"
             /\ tasks'[u] = db'[u] /\ tasks'[u].status = "ASSIGNED"
             /\ tasks'[u].worker = plan[u].worker
             /\ tasks'[u].recovery = FALSE
  <2>1. u \in Task /\ plan[u] # NoPlan
    BY Zenon DEF planned
  <2>2. tasks'[u] = assignedRow(u) /\ db'[u] = assignedRow(u)
    BY Zenon, <1>1, <1>4, <2>1
  <2>3. /\ assignedRow(u).status = "ASSIGNED"
        /\ assignedRow(u).worker = plan[u].worker
        /\ assignedRow(u).recovery = FALSE
    BY <1>3, <2>1 DEF assignedRow, TaskRow
  <2>4. tasks[u].status = "QUEUED"
    BY Zenon, <1>2, <2>1 DEF PlanExact
  <2> QED
    BY Zenon, <2>1, <2>2, <2>3, <2>4
<1>6. ASSUME NEW u \in Task, u \notin planned
      PROVE  tasks'[u] = tasks[u] /\ db'[u] = db[u] /\ plan[u] = NoPlan
  BY Zenon, <1>1, <1>4, <1>6 DEF planned
<1>7. \A w \in Worker : Holders(w)' = Holders(w)
  <2>1. SUFFICES ASSUME NEW w \in Worker, NEW u \in Task
                 PROVE  HoldsSlot(u, w)' <=> HoldsSlot(u, w)
    BY Zenon DEF Holders
  <2>2. plan'[u].worker = NoWorker
    BY Zenon, <1>1 DEF NoPlan
  <2>3. CASE u \in planned
    BY Zenon, <1>3, <1>5, <2>2, <2>3 DEF HoldsSlot, Active
  <2>4. CASE u \notin planned
    BY <1>3, <1>6, <2>2, <2>4 DEF HoldsSlot, NoPlan
  <2> QED
    BY Zenon, <2>3, <2>4
<1>8. SlotAccounting' /\ UnregisteredFree'
  BY Zenon, <1>1, <1>2, <1>7, SlotsSame DEF MemoryInv, UnregisteredFree
<1>9. QueueSound'
  <2>1. SUFFICES ASSUME NEW e \in pending PROVE EntryFresh(e)'
    BY Zenon, <1>1 DEF QueueSound
  <2>2. EntryFresh(e) /\ plan[e.task] = NoPlan /\ e.task \in Task
    BY Zenon, <1>1, <1>2, <1>3 DEF PendingExact, Entry
  <2>3. e.task \notin planned
    BY Zenon, <2>2 DEF planned
  <2> QED
    BY Zenon, <1>6, <2>2, <2>3 DEF EntryFresh
<1>10. QueueComplete'
  <2>1. SUFFICES ASSUME NEW u \in Task, tasks'[u].status = "QUEUED"
                 PROVE  [task |-> u, seq |-> tasks'[u].seq] \in pending
    BY Zenon, <1>1 DEF QueueComplete
  <2>2. u \notin planned
    BY Zenon, <1>5, <2>1
  <2> QED
    BY Zenon, <1>1, <1>2, <1>6, <2>1, <2>2 DEF PendingExact
<1>11. RecoveryShape'
  BY Zenon, <1>2, <1>5, <1>6 DEF RecoveryShape, MemoryInv
<1>12. StoreAgrees' /\ StoppedBatchDrained'
  <2>1. ASSUME NEW u \in Task
        PROVE  /\ tasks'[u].status # "ABSENT" => tasks'[u] = db'[u]
               /\ tasks'[u].status = "ABSENT" =>
                    db'[u].status \in Terminal \cup {"ABSENT"}
               /\ BatchOf[u] \in stopRows \cup stopped =>
                    tasks'[u].status # "QUEUED" /\ db'[u].status # "QUEUED"
    <3>1. CASE u \in planned
      BY Zenon, <1>5, <3>1
    <3>2. CASE u \notin planned
      BY Zenon, <1>2, <1>6, <3>2
         DEF MemoryInv, StoreAgrees, StoppedBatchDrained
    <3> QED
      BY Zenon, <3>1, <3>2
  <2>2. stopped = stopRows
    BY Zenon, <1>2 DEF MemoryInv, StoreAgrees
  <2> QED
    BY Zenon, <1>1, <2>1, <2>2 DEF StoreAgrees, StoppedBatchDrained
<1>13. PassInv'
  <2>1. /\ pass' \notin Planning /\ pass' \notin {"select", "acquire", "commit"}
        /\ pass' \notin {"idle", "begin"} /\ pass' \notin {"send", "sent", "rollback"}
        /\ pass \in Planning
    BY Zenon, <1>1 DEF Planning
  <2>2. ASSUME NEW i \in 1..Len(todo)
        PROVE  todo[i].task \in planned
    <3>1. todo[i].task \in Task /\ todo[i].worker \in Worker
      BY Zenon, <1>2, TodoElements
    <3>2. plan[todo[i].task].worker = todo[i].worker
      BY Zenon, <1>2, <2>1 DEF PlanExact
    <3>3. NoPlan.worker \notin Worker
      BY Zenon, Constants DEF NoPlan
    <3>4. plan[todo[i].task] # NoPlan
      BY Zenon, <3>1, <3>2, <3>3
    <3> QED
      BY Zenon, <3>1, <3>4 DEF planned
  <2>3. PassUnrecovered'
    BY Zenon, <1>1, <1>5, <2>1, <2>2 DEF PassUnrecovered
  <2>4. PassMutex' /\ PlanExact' /\ PendingExact' /\ TopIsLive'
    BY Zenon, <1>1, <2>1 DEF PassMutex, PlanExact, PendingExact, TopIsLive
  <2> QED
    BY Zenon, <2>3, <2>4 DEF PassInv
<1> QED
  BY Zenon, <1>8, <1>9, <1>10, <1>11, <1>12, <1>13 DEF CoreInv, MemoryInv

-----------------------------------------------------------------------------
(* The handlers: each changes the row of one task, or evicts finished ones. *)

\* What a handler may do to the tasks it is not about.
Untouched(u) == \/ tasks'[u] = tasks[u]
                \/ tasks[u].status \in Terminal /\ tasks'[u] = AbsentTask

\* No handler runs while schedule() has planned something.
LEMMA HandlerSlots ==
  ASSUME CoreInv, pass \notin Planning, UNCHANGED plan,
         NEW u \in Task, NEW w \in Worker
  PROVE  /\ u \in Holders(w) <=> /\ tasks[u].status \in Active
                                 /\ tasks[u].worker = w /\ ~ tasks[u].recovery
         /\ u \in Holders(w)' <=> /\ tasks'[u].status \in Active
                                  /\ tasks'[u].worker = w /\ ~ tasks'[u].recovery
<1>1. plan[u] = NoPlan /\ plan'[u] = NoPlan
  BY Zenon DEF CoreInv, PassInv, PlanExact
<1>2. plan[u].worker # w /\ plan'[u].worker # w
  BY <1>1, Constants DEF NoPlan
<1> QED
  BY Zenon, <1>2 DEF Holders, HoldsSlot

\* A handler that changes whether tasks hold slots in nothing.
LEMMA HandlerSlotsSame ==
  ASSUME CoreInv, pass \notin Planning, UNCHANGED <<plan, workers>>,
         \A u \in Task :
           \/ Untouched(u)
           \/ /\ tasks[u].status \notin Active \/ tasks[u].recovery
              /\ tasks'[u].status \notin Active \/ tasks'[u].recovery
           \/ /\ tasks[u].status \in Active /\ tasks'[u].status \in Active
              /\ tasks'[u].worker = tasks[u].worker
              /\ tasks'[u].recovery = tasks[u].recovery
  PROVE  SlotAccounting' /\ UnregisteredFree'
<1>1. ASSUME NEW w \in Worker, NEW u \in Task
      PROVE  u \in Holders(w)' <=> u \in Holders(w)
  <2>1. CASE Untouched(u)
    BY <2>1, HandlerSlots DEF Untouched, AbsentTask, Active, Terminal
  <2>2. CASE ~ Untouched(u)
    BY Zenon, <2>2, HandlerSlots
  <2> QED
    BY Zenon, <2>1, <2>2
<1>2. \A w \in Worker : Holders(w)' \subseteq Task /\ Holders(w) \subseteq Task
  BY Zenon DEF Holders
<1>3. \A w \in Worker : Holders(w)' = Holders(w)
  BY Zenon, <1>1, <1>2
<1> QED
  BY Zenon, <1>3, SlotsSame DEF CoreInv, MemoryInv, UnregisteredFree

\* A handler that settles the active task t: the slot goes back, unless an
\* earlier server process took it.
LEMMA HandlerSlotsSettled ==
  ASSUME TypeInv, CoreInv, pass \notin Planning, UNCHANGED plan,
         NEW t \in Task, tasks[t].status \in Active, tasks'[t].status \notin Active,
         \A u \in Task : u # t => tasks'[u] = tasks[u],
         IF tasks[t].recovery THEN UNCHANGED workers
         ELSE releaseSlot(tasks[t].worker)
  PROVE  SlotAccounting' /\ UnregisteredFree'
<1>1. CASE tasks[t].recovery
  BY Zenon, <1>1, HandlerSlotsSame DEF Untouched
<1>2. CASE ~ tasks[t].recovery
  <2> DEFINE v == tasks[t].worker
  <2>1. v \in Worker
    BY Zenon DEF TypeInv, TypeOK, TaskRow, RowShape
  <2>2. t \in Holders(v) /\ \A w \in Worker : w # v => t \notin Holders(w)
    BY Zenon, <1>2, <2>1, HandlerSlots
  <2>3. \A w \in Worker : t \notin Holders(w)'
    BY Zenon, HandlerSlots
  <2>4. \A w \in Worker, u \in Task :
          u # t => (u \in Holders(w)' <=> u \in Holders(w))
    BY Zenon, HandlerSlots
  <2>5. \A w \in Worker : Holders(w)' \subseteq Task /\ Holders(w) \subseteq Task
    BY Zenon DEF Holders
  <2>6. \A w \in Worker : Holders(w)' = IF w = v THEN Holders(w) \ {t}
                                        ELSE Holders(w)
    BY <2>2, <2>3, <2>4, <2>5
  <2>7. WorkersType /\ SlotAccounting /\ UnregisteredFree /\ releaseSlot(v)
    BY Zenon, <1>2 DEF TypeInv, TypeOK, CoreInv, MemoryInv
  <2> HIDE DEF v
  <2> QED
    BY Zenon, <2>1, <2>2, <2>6, <2>7, SlotGiven
<1> QED
  BY Zenon, <1>1, <1>2

\* A handler that saves a new row for task t, and puts it in the queue if the
\* row is a queued one.
LEMMA MemoryRow ==
  ASSUME TypeInv, CoreInv, NEW t \in Task, NEW row,
         tasks'[t] = row, db'[t] = row,
         \A u \in Task : u # t => Untouched(u) /\ db'[u] = db[u],
         UNCHANGED <<stopped, stopRows>>,
         SlotAccounting', UnregisteredFree',
         row.status # "ABSENT",
         row.recovery => row.status \in Active,
         row.status = "QUEUED" => BatchOf[t] \notin stopped,
         queue' = IF row.status = "QUEUED"
                  THEN queue \cup {[task |-> t, seq |-> row.seq]} ELSE queue,
         row.status \in Active \cup {"QUEUED"} =>
           tasks[t].status \in Active \/ db[t].status = "ABSENT"
  PROVE  MemoryInv'
<1>1. QueueSound /\ QueueComplete /\ RecoveryShape /\ StoreAgrees
      /\ StoppedBatchDrained
  BY Zenon DEF CoreInv, MemoryInv
<1>2. \A e \in queue : e.task \in Task /\ EntryFresh(e)
  BY Zenon, <1>1 DEF QueueSound, TypeInv, TypeOK, Entry
<1>3. AbsentTask.status = "ABSENT" /\ ~ AbsentTask.recovery
      /\ "ABSENT" \notin Active \cup {"QUEUED"} \cup Terminal
      /\ "QUEUED" \notin Terminal \cup Active
  BY Zenon DEF AbsentTask, Active, Terminal
<1>4. \A u \in Task : u # t /\ tasks'[u].status # "ABSENT" => tasks'[u] = tasks[u]
  BY Zenon, <1>3 DEF Untouched
<1>5. QueueSound'
  <2>1. SUFFICES ASSUME NEW e \in queue' PROVE EntryFresh(e)'
    BY Zenon DEF QueueSound
  <2>2. CASE e \in queue /\ e.task # t
    BY Zenon, <1>2, <1>3, <2>2 DEF EntryFresh, Untouched
  <2>3. CASE e \in queue /\ e.task = t
    BY Zenon, <1>2, <2>3 DEF EntryFresh
  <2>4. CASE e \notin queue
    <3>1. row.status = "QUEUED" /\ e = [task |-> t, seq |-> row.seq]
      BY Zenon, <2>4
    <3>2. e.task = t /\ e.seq = row.seq
      BY Zenon, <3>1
    <3> QED
      BY Zenon, <1>3, <3>1, <3>2 DEF EntryFresh
  <2> QED
    BY Zenon, <2>2, <2>3, <2>4
<1>6. QueueComplete'
  <2>1. SUFFICES ASSUME NEW u \in Task, tasks'[u].status = "QUEUED"
                 PROVE  [task |-> u, seq |-> tasks'[u].seq] \in queue'
    BY Zenon DEF QueueComplete
  <2>2. CASE u = t
    BY Zenon, <2>1, <2>2
  <2>3. CASE u # t
    BY Zenon, <1>1, <1>4, <2>1, <2>3 DEF QueueComplete
  <2> QED
    BY Zenon, <2>2, <2>3
<1>7. RecoveryShape'
  <2>1. SUFFICES ASSUME NEW u \in Task, tasks'[u].recovery
                 PROVE  tasks'[u].status \in Active
    BY Zenon DEF RecoveryShape
  <2>2. CASE u = t
    BY Zenon, <2>1, <2>2
  <2>3. CASE u # t
    BY Zenon, <1>1, <1>3, <2>1, <2>3 DEF RecoveryShape, Untouched
  <2> QED
    BY Zenon, <2>2, <2>3
<1>8. StoreAgrees'
  <2>1. ASSUME NEW u \in Task
        PROVE  /\ tasks'[u].status # "ABSENT" => tasks'[u] = db'[u]
               /\ tasks'[u].status = "ABSENT" =>
                    db'[u].status \in Terminal \cup {"ABSENT"}
    <3>1. CASE u = t
      BY Zenon, <3>1
    <3>2. CASE u # t
      BY Zenon, <1>1, <1>3, <3>2 DEF StoreAgrees, Untouched
    <3> QED
      BY Zenon, <3>1, <3>2
  <2> QED
    BY Zenon, <1>1, <2>1 DEF StoreAgrees
<1>9. StoppedBatchDrained'
  <2>1. SUFFICES ASSUME NEW u \in Task, BatchOf[u] \in stopped
                 PROVE  tasks'[u].status # "QUEUED" /\ db'[u].status # "QUEUED"
    BY Zenon, <1>1 DEF StoppedBatchDrained, StoreAgrees
  <2>2. CASE u = t
    BY Zenon, <2>1, <2>2
  <2>3. CASE u # t
    BY Zenon, <1>1, <1>3, <2>1, <2>3 DEF StoppedBatchDrained, Untouched
  <2> QED
    BY Zenon, <2>2, <2>3
<1> QED
  BY Zenon, <1>5, <1>6, <1>7, <1>8, <1>9 DEF MemoryInv
\* A handler that runs while no plan is open need only re-establish MemoryInv.
LEMMA CoreHandler ==
  ASSUME TypeInv, CoreInv, MemoryInv', pass \notin Planning,
         UNCHANGED passVars,
         \A u \in Task : tasks'[u].recovery => tasks[u].recovery
  PROVE  CoreInv'
BY Zenon, PassHandler DEF CoreInv

\* Eviction leaves a row as it is, or drops a terminal one.
LEMMA EvictedUntouched ==
  ASSUME TypeInv, NEW u \in Task
  PROVE  \/ evicted[u] = tasks[u]
         \/ tasks[u].status \in Terminal /\ evicted[u] = AbsentTask
BY Zenon DEF evicted

\* submitTask keeps CoreInv: the new row, its entry and its sequence agree.
LEMMA CoreSubmit ==
  ASSUME TypeInv, CoreInv, NEW t \in Task, NEW k \in Key \cup {NoKey},
         submitTask(t, k)
  PROVE  CoreInv'
<1> DEFINE row == [AbsentTask EXCEPT !.status = "QUEUED", !.seq = nextSeq]
<1>1. /\ MutexFree /\ acceptsSubmit(t, k) /\ saveOne(t, row, "")
      /\ tasks' = [evicted EXCEPT ![t] = row]
      /\ queue' = queue \cup {[task |-> t, seq |-> nextSeq]}
      /\ UNCHANGED <<workers, stopRows, stopped>> /\ UNCHANGED passVars
  BY Zenon DEF submitTask
<1>2. row.status = "QUEUED" /\ row.seq = nextSeq /\ row.recovery = FALSE
  BY DEF AbsentTask
<1> HIDE DEF row
<1>3. db' = [db EXCEPT ![t] = row]
  BY Zenon, <1>1, SaveOne DEF TypeInv, TypeOK, StoreType
<1>4. /\ pass \notin Planning
      /\ db[t].status = "ABSENT" /\ BatchOf[t] \notin stopped
  BY Zenon, <1>1 DEF MutexFree, acceptsSubmit, BatchStopped
<1>5. tasks[t].status = "ABSENT"
  BY Zenon, <1>4 DEF CoreInv, MemoryInv, StoreAgrees
<1>6. tasks'[t] = row /\ db'[t] = row
  BY Zenon, <1>1, <1>3, EvictedType DEF TypeInv, TypeOK, StoreType
<1>7. \A u \in Task : u # t => Untouched(u) /\ db'[u] = db[u]
  <2>1. \A u \in Task : u # t => tasks'[u] = evicted[u] /\ db'[u] = db[u]
    BY Zenon, <1>1, <1>3, EvictedType DEF TypeInv, TypeOK, StoreType
  <2> QED
    BY Zenon, <2>1, EvictedUntouched DEF Untouched
<1>8. SlotAccounting' /\ UnregisteredFree'
  <2>1. tasks[t].status \notin Active /\ tasks'[t].status \notin Active
    BY Zenon, <1>2, <1>5, <1>6 DEF Active
  <2> QED
    BY Zenon, <1>1, <1>4, <1>7, <2>1, HandlerSlotsSame DEF passVars
<1>9. MemoryInv'
  BY Zenon, <1>1, <1>2, <1>4, <1>6, <1>7, <1>8, MemoryRow
<1>10. \A u \in Task : tasks'[u].recovery => tasks[u].recovery
  BY <1>2, <1>6, <1>7 DEF Untouched, AbsentTask
<1> QED
  BY Zenon, <1>1, <1>4, <1>9, <1>10, CoreHandler

\* A submission that throws after evicting keeps CoreInv.
LEMMA CoreSubmitThrows ==
  ASSUME TypeInv, CoreInv, NEW t \in Task, NEW k \in Key \cup {NoKey},
         SubmitThrows(t, k)
  PROVE  CoreInv'
<1>1. /\ MutexFree /\ tasks' = evicted
      /\ UNCHANGED <<workers, db, queue, stopRows, stopped>>
      /\ UNCHANGED passVars
  BY Zenon DEF SubmitThrows, storeVars
<1>2. pass \notin Planning
  BY Zenon, <1>1 DEF MutexFree
<1>3. \A u \in Task : Untouched(u)
  BY Zenon, <1>1, EvictedUntouched DEF Untouched
<1>4. SlotAccounting' /\ UnregisteredFree'
  BY Zenon, <1>1, <1>2, <1>3, HandlerSlotsSame DEF passVars
<1>5. AbsentTask.status = "ABSENT" /\ ~ AbsentTask.recovery
      /\ "ABSENT" \notin Active \cup {"QUEUED"} \cup Terminal
      /\ "QUEUED" \notin Terminal \cup Active
  BY Zenon DEF AbsentTask, Active, Terminal
<1>6. QueueSound' /\ QueueComplete' /\ RecoveryShape'
  <2>1. \A e \in queue : e.task \in Task
    BY Zenon DEF TypeInv, TypeOK, Entry
  <2>2. QueueSound'
    BY <1>1, <1>3, <1>5, <2>1
       DEF CoreInv, MemoryInv, QueueSound, EntryFresh, Untouched
  <2>3. QueueComplete' /\ RecoveryShape'
    BY Zenon, <1>1, <1>3, <1>5
       DEF CoreInv, MemoryInv, QueueComplete, RecoveryShape, Untouched
  <2> QED
    BY Zenon, <2>2, <2>3
<1>7. StoreAgrees' /\ StoppedBatchDrained'
  BY Zenon, <1>1, <1>3, <1>5
     DEF CoreInv, MemoryInv, StoreAgrees, StoppedBatchDrained, Untouched
<1>8. MemoryInv'
  BY Zenon, <1>4, <1>6, <1>7 DEF MemoryInv
<1>9. \A u \in Task : tasks'[u].recovery => tasks[u].recovery
  BY Zenon, <1>3, <1>5 DEF Untouched
<1> QED
  BY Zenon, <1>1, <1>2, <1>8, <1>9, CoreHandler

\* cancelTask keeps CoreInv: the row leaves QUEUED, its entry goes stale.
LEMMA CoreCancelTask ==
  ASSUME TypeInv, CoreInv, NEW t \in Task, cancelTask(t)
  PROVE  CoreInv'
<1> DEFINE row == [tasks[t] EXCEPT !.status = "CANCELLED"]
<1>1. /\ MutexFree /\ tasks[t].status = "QUEUED" /\ saveOne(t, row, "")
      /\ tasks' = [tasks EXCEPT ![t] = row]
      /\ UNCHANGED <<workers, queue, stopRows, stopped>> /\ UNCHANGED passVars
  BY Zenon DEF cancelTask
<1>2. tasks[t] \in TaskRow /\ tasks \in [Task -> TaskRow] /\ db \in [Task -> TaskRow]
  BY Zenon DEF TypeInv, TypeOK, StoreType
<1>3. row.status = "CANCELLED" /\ row.recovery = tasks[t].recovery
  BY Zenon, <1>2 DEF TaskRow
<1> HIDE DEF row
<1>4. pass \notin Planning
  BY Zenon, <1>1 DEF MutexFree
<1>5. db' = [db EXCEPT ![t] = row]
  BY Zenon, <1>1, <1>2, SaveOne
<1>6. /\ tasks'[t] = row /\ db'[t] = row
      /\ \A u \in Task : u # t => Untouched(u) /\ db'[u] = db[u]
  BY Zenon, <1>1, <1>2, <1>5 DEF Untouched
<1>7. tasks[t].status \notin Active /\ row.status \notin Active \cup {"QUEUED"}
  BY Zenon, <1>1, <1>3 DEF Active
<1>8. ~ tasks[t].recovery
  BY Zenon, <1>7 DEF CoreInv, MemoryInv, RecoveryShape
<1>9. SlotAccounting' /\ UnregisteredFree'
  BY Zenon, <1>1, <1>4, <1>6, <1>7, HandlerSlotsSame DEF passVars
<1>10. MemoryInv'
  BY Zenon, <1>1, <1>3, <1>6, <1>7, <1>8, <1>9, MemoryRow
<1>11. \A u \in Task : tasks'[u].recovery => tasks[u].recovery
  BY Zenon, <1>1, <1>2, <1>3, <1>6
<1> QED
  BY Zenon, <1>1, <1>4, <1>10, <1>11, CoreHandler
\* cancelBatch keeps CoreInv and drains the batch it stops.
LEMMA CoreCancelBatch ==
  ASSUME TypeInv, CoreInv, NEW b \in Batch, cancelBatch(b)
  PROVE  CoreInv'
<1> DEFINE changed == {t \in Task : BatchOf[t] = b /\ tasks[t].status = "QUEUED"}
           row(t)  == [tasks[t] EXCEPT !.status = "CANCELLED"]
<1>1. /\ MutexFree /\ saveRows([t \in changed |-> row(t)], "")
      /\ tasks' = [t \in Task |-> IF t \in changed THEN row(t) ELSE tasks[t]]
      /\ stopRows' = stopRows \cup {b} /\ stopped' = stopped \cup {b}
      /\ UNCHANGED <<workers, queue>> /\ UNCHANGED passVars
  BY Zenon DEF cancelBatch
<1>2. tasks \in [Task -> TaskRow] /\ db \in [Task -> TaskRow] /\ queue \subseteq Entry
  BY Zenon DEF TypeInv, TypeOK, StoreType
<1>3. db' = [t \in Task |-> IF t \in changed THEN row(t) ELSE db[t]]
  BY Zenon, <1>1 DEF saveRows
<1>4. pass \notin Planning
  BY Zenon, <1>1 DEF MutexFree
<1>5. /\ QueueSound /\ QueueComplete /\ RecoveryShape /\ StoreAgrees
      /\ StoppedBatchDrained
  BY Zenon DEF CoreInv, MemoryInv
<1>6. ASSUME NEW t \in changed
      PROVE  /\ t \in Task /\ tasks[t].status = "QUEUED"
             /\ ~ tasks[t].recovery
             /\ tasks'[t] = db'[t] /\ tasks'[t].status = "CANCELLED"
             /\ ~ tasks'[t].recovery
  <2>1. t \in Task /\ tasks[t].status = "QUEUED" /\ tasks[t] \in TaskRow
    BY Zenon, <1>2
  <2>2. ~ tasks[t].recovery
    BY Zenon, <1>5, <2>1 DEF RecoveryShape, Active
  <2>3. row(t).status = "CANCELLED" /\ row(t).recovery = tasks[t].recovery
    BY Zenon, <2>1 DEF TaskRow
  <2>4. tasks'[t] = row(t) /\ db'[t] = row(t)
    BY Zenon, <1>1, <1>3, <2>1
  <2> QED
    BY Zenon, <2>1, <2>2, <2>3, <2>4
<1>7. ASSUME NEW t \in Task, t \notin changed
      PROVE  /\ tasks'[t] = tasks[t] /\ db'[t] = db[t]
             /\ BatchOf[t] = b => tasks[t].status # "QUEUED"
  BY Zenon, <1>1, <1>3, <1>7
<1> HIDE DEF changed, row
<1>8. SlotAccounting' /\ UnregisteredFree'
  <2>1. \A u \in Task :
          \/ Untouched(u)
          \/ tasks[u].status \notin Active /\ tasks'[u].status \notin Active
    BY Zenon, <1>6, <1>7 DEF Untouched, Active
  <2> QED
    BY Zenon, <1>1, <1>4, <2>1, HandlerSlotsSame DEF passVars
<1>9. QueueSound'
  <2>1. SUFFICES ASSUME NEW e \in queue PROVE EntryFresh(e)'
    BY Zenon, <1>1 DEF QueueSound
  <2>2. EntryFresh(e) /\ e.task \in Task
    BY Zenon, <1>2, <1>5 DEF QueueSound, Entry
  <2>3. CASE e.task \in changed
    BY Zenon, <1>6, <2>3 DEF EntryFresh, Active
  <2>4. CASE e.task \notin changed
    BY Zenon, <1>7, <2>2, <2>4 DEF EntryFresh
  <2> QED
    BY Zenon, <2>3, <2>4
<1>10. QueueComplete' /\ RecoveryShape'
  <2>1. QueueComplete'
    BY Zenon, <1>1, <1>5, <1>6, <1>7 DEF QueueComplete
  <2>2. RecoveryShape'
    BY Zenon, <1>5, <1>6, <1>7 DEF RecoveryShape
  <2> QED
    BY Zenon, <2>1, <2>2
<1>11. StoreAgrees' /\ StoppedBatchDrained'
  <2>1. ASSUME NEW t \in Task
        PROVE  /\ tasks'[t].status # "ABSENT" => tasks'[t] = db'[t]
               /\ tasks'[t].status = "ABSENT" =>
                    db'[t].status \in Terminal \cup {"ABSENT"}
               /\ BatchOf[t] \in stopRows \cup stopped \cup {b} =>
                    tasks'[t].status # "QUEUED" /\ db'[t].status # "QUEUED"
    <3>1. CASE t \in changed
      BY Zenon, <1>6, <3>1
    <3>2. CASE t \notin changed
      <4>1. /\ tasks[t].status # "ABSENT" => tasks[t] = db[t]
            /\ tasks[t].status = "ABSENT" => db[t].status # "QUEUED"
        BY Zenon, <1>5 DEF StoreAgrees, Terminal
      <4> QED
        BY Zenon, <1>5, <1>7, <3>2, <4>1 DEF StoreAgrees, StoppedBatchDrained
    <3> QED
      BY Zenon, <3>1, <3>2
  <2>2. stopped' = stopRows'
    BY Zenon, <1>1, <1>5 DEF StoreAgrees
  <2>3. stopRows' \cup stopped' = stopRows \cup stopped \cup {b}
    BY Zenon, <1>1
  <2> QED
    BY Zenon, <2>1, <2>2, <2>3 DEF StoreAgrees, StoppedBatchDrained
<1>12. MemoryInv'
  BY Zenon, <1>8, <1>9, <1>10, <1>11 DEF MemoryInv
<1>13. \A u \in Task : tasks'[u].recovery => tasks[u].recovery
  BY Zenon, <1>6, <1>7
<1> QED
  BY Zenon, <1>1, <1>4, <1>12, <1>13, CoreHandler

\* TASK_START keeps CoreInv: the slot of the run stays held.
LEMMA CoreTaskStart ==
  ASSUME TypeInv, CoreInv, NEW t \in Task, NEW w \in Worker, NEW r \in RunId,
         TaskStart(t, w, r)
  PROVE  CoreInv'
<1>1. MutexFree /\ UNCHANGED <<workers, queue, stopRows, stopped>>
      /\ UNCHANGED passVars
  BY Zenon DEF TaskStart
<1>2. pass \notin Planning
  BY Zenon, <1>1 DEF MutexFree
<1>3. CASE startable(t, w, r)
  <2> DEFINE row == [tasks[t] EXCEPT !.status = "RUNNING"]
  <2>1. /\ tasks[t].status = "ASSIGNED" /\ saveOne(t, row, "")
        /\ tasks' = [tasks EXCEPT ![t] = row]
    BY Zenon, <1>3 DEF TaskStart, startable
  <2>2. tasks[t] \in TaskRow /\ tasks \in [Task -> TaskRow] /\ db \in [Task -> TaskRow]
    BY Zenon DEF TypeInv, TypeOK, StoreType
  <2>3. /\ row.status = "RUNNING" /\ row.recovery = tasks[t].recovery
        /\ row.worker = tasks[t].worker
    BY Zenon, <2>2 DEF TaskRow
  <2> HIDE DEF row
  <2>4. db' = [db EXCEPT ![t] = row]
    BY Zenon, <2>1, <2>2, SaveOne
  <2>5. /\ tasks'[t] = row /\ db'[t] = row
        /\ \A u \in Task : u # t => Untouched(u) /\ db'[u] = db[u]
    BY Zenon, <2>1, <2>2, <2>4 DEF Untouched
  <2>6. tasks[t].status \in Active /\ row.status \in Active
        /\ row.status # "ABSENT" /\ row.status # "QUEUED"
    BY Zenon, <2>1, <2>3 DEF Active
  <2>7. SlotAccounting' /\ UnregisteredFree'
    BY Zenon, <1>1, <1>2, <2>3, <2>5, <2>6, HandlerSlotsSame DEF passVars
  <2>8. MemoryInv'
    BY Zenon, <1>1, <2>3, <2>5, <2>6, <2>7, MemoryRow
  <2>9. \A u \in Task : tasks'[u].recovery => tasks[u].recovery
    BY Zenon, <2>1, <2>2, <2>3, <2>5
  <2> QED
    BY Zenon, <1>1, <1>2, <2>8, <2>9, CoreHandler
<1>4. CASE ~ startable(t, w, r)
  <2>1. UNCHANGED <<tasks, db, queue, plan, stopped, stopRows>> /\ UNCHANGED workers
    BY Zenon, <1>1, <1>4 DEF TaskStart, passVars
  <2>2. MemoryInv'
    BY Zenon, <2>1, MemoryQuiet DEF SlotsKept, CoreInv
  <2> QED
    BY Zenon, <1>1, <1>2, <2>1, <2>2, CoreHandler
<1> QED
  BY Zenon, <1>3, <1>4
\* TASK_RESULT keeps CoreInv: the slot is released exactly once.
LEMMA CoreTaskResult ==
  ASSUME TypeInv, CoreInv, NEW t \in Task, NEW w \in Worker, NEW r \in RunId,
         NEW s \in {"SUCCEEDED", "FAILED", "TIMEOUT"}, TaskResult(t, w, r, s)
  PROVE  CoreInv'
<1>1. MutexFree /\ UNCHANGED <<queue, stopRows, stopped>> /\ UNCHANGED passVars
  BY Zenon DEF TaskResult
<1>2. pass \notin Planning
  BY Zenon, <1>1 DEF MutexFree
<1>3. CASE finishable(t, w, r)
  <2> DEFINE row == [tasks[t] EXCEPT !.status = s, !.recovery = FALSE]
  <2>1. /\ tasks[t].status = "RUNNING" /\ saveOne(t, row, "")
        /\ tasks' = [tasks EXCEPT ![t] = row]
        /\ IF tasks[t].recovery THEN UNCHANGED workers
           ELSE releaseSlot(tasks[t].worker)
    BY Zenon, <1>3 DEF TaskResult, finishable, completeTask
  <2>2. tasks[t] \in TaskRow /\ tasks \in [Task -> TaskRow] /\ db \in [Task -> TaskRow]
    BY Zenon DEF TypeInv, TypeOK, StoreType
  <2>3. row.status = s /\ row.recovery = FALSE
    BY <2>2 DEF TaskRow
  <2> HIDE DEF row
  <2>4. db' = [db EXCEPT ![t] = row]
    BY Zenon, <2>1, <2>2, SaveOne
  <2>5. /\ tasks'[t] = row /\ db'[t] = row
        /\ \A u \in Task : u # t => tasks'[u] = tasks[u] /\ db'[u] = db[u]
    BY Zenon, <2>1, <2>2, <2>4
  <2>6. /\ tasks[t].status \in Active /\ tasks'[t].status \notin Active
        /\ row.status \notin Active \cup {"QUEUED", "ABSENT"}
    BY Zenon, <2>1, <2>3, <2>5 DEF Active
  <2>7. SlotAccounting' /\ UnregisteredFree'
    BY Zenon, <1>1, <1>2, <2>1, <2>5, <2>6, HandlerSlotsSettled DEF passVars
  <2>8. MemoryInv'
    BY Zenon, <1>1, <2>3, <2>5, <2>6, <2>7, MemoryRow DEF Untouched
  <2>9. \A u \in Task : tasks'[u].recovery => tasks[u].recovery
    BY Zenon, <2>3, <2>5
  <2> QED
    BY Zenon, <1>1, <1>2, <2>8, <2>9, CoreHandler
<1>4. CASE ~ finishable(t, w, r)
  <2>1. UNCHANGED <<tasks, db, queue, plan, stopped, stopRows>> /\ UNCHANGED workers
    BY Zenon, <1>1, <1>4 DEF TaskResult, passVars
  <2>2. MemoryInv'
    BY Zenon, <2>1, MemoryQuiet DEF SlotsKept, CoreInv
  <2> QED
    BY Zenon, <1>1, <1>2, <2>1, <2>2, CoreHandler
<1> QED
  BY Zenon, <1>3, <1>4

\* recoverLost takes an active task from its worker; it is queued again,
\* failed or cancelled.
LEMMA CoreRecoverLost ==
  ASSUME TypeInv, CoreInv, NEW t \in Task, tasks[t].status \in Active,
         pass \notin Planning, recoverLost(t),
         UNCHANGED <<stopRows, stopped>>, UNCHANGED passVars
  PROVE  CoreInv'
<1> DEFINE row == lostRow(t)
<1>1. /\ saveOne(t, row, "FAILED") /\ tasks' = [tasks EXCEPT ![t] = row]
      /\ IF tasks[t].recovery THEN UNCHANGED workers
         ELSE releaseSlot(tasks[t].worker)
      /\ IF row.status = "QUEUED"
         THEN queue' = queue \cup {[task |-> t, seq |-> nextSeq]}
         ELSE queue' = queue
  BY Zenon DEF recoverLost
<1>2. /\ row.status \in {"QUEUED", "CANCELLED", "FAILED"}
      /\ row.status = "QUEUED" => BatchOf[t] \notin stopped /\ row.seq = nextSeq
      /\ row.recovery = FALSE
  BY Zenon DEF lostRow, BatchStopped
<1> HIDE DEF row
<1>3. tasks \in [Task -> TaskRow] /\ db \in [Task -> TaskRow]
  BY Zenon DEF TypeInv, TypeOK, StoreType
<1>4. db' = [db EXCEPT ![t] = row]
  BY Zenon, <1>1, <1>3, SaveOne
<1>5. /\ tasks'[t] = row /\ db'[t] = row
      /\ \A u \in Task : u # t => tasks'[u] = tasks[u] /\ db'[u] = db[u]
  BY Zenon, <1>1, <1>3, <1>4
<1>6. tasks'[t].status \notin Active /\ row.status # "ABSENT"
  BY Zenon, <1>2, <1>5 DEF Active
<1>7. SlotAccounting' /\ UnregisteredFree'
  BY Zenon, <1>1, <1>5, <1>6, HandlerSlotsSettled DEF passVars
<1>8. MemoryInv'
  BY Zenon, <1>1, <1>2, <1>5, <1>6, <1>7, MemoryRow DEF Untouched
<1>9. \A u \in Task : tasks'[u].recovery => tasks[u].recovery
  BY Zenon, <1>2, <1>5
<1> QED
  BY Zenon, <1>8, <1>9, CoreHandler

\* Settling a lost run keeps CoreInv, whether or not the run held a slot.
LEMMA CoreRecover ==
  ASSUME TypeInv, CoreInv, NEW t \in Task,
         \/ \E w \in Worker, r \in RunId : RecoverLost(t, w, r)
         \/ IdleRequeue(t)
  PROVE  CoreInv'
<1>1. /\ recoverLost(t) /\ UNCHANGED <<stopRows, stopped>> /\ UNCHANGED passVars
      /\ MutexFree \/ idler # NoWorker
  BY Zenon DEF RecoverLost, IdleRequeue
<1>2. tasks[t].status \in Active
  BY Zenon DEF RecoverLost, lostAccepted, claimsActive, IdleRequeue, Active
<1>3. pass \notin Planning
  BY Zenon, <1>1 DEF MutexFree, CoreInv, PassInv, PassMutex
<1> QED
  BY Zenon, <1>1, <1>2, <1>3, CoreRecoverLost

\* The task whose dispatch failed took its slot in this process, so the slot
\* is there to be released, and what was saved is also done in memory.
LEMMA CoreRollback ==
  ASSUME TypeInv, CoreInv, rollbackAssignment
  PROVE  CoreInv'
<1> DEFINE t   == current.task
           v   == tasks[t].worker
           row == rolledBackRow(t)
<1>1. /\ pass = "rollback" /\ canRollback(t) /\ saveOne(t, row, "DISPATCH_FAILED")
      /\ releaseSlot(v)
      /\ tasks' = IF canRelease(v) THEN [tasks EXCEPT ![t] = row] ELSE tasks
      /\ queue' = IF canRelease(v) /\ ~ BatchStopped(t)
                  THEN queue \cup {[task |-> t, seq |-> nextSeq]} ELSE queue
      /\ todo' = IF canRelease(v) THEN todo ELSE <<>>
      /\ pass' = IF canRelease(v) THEN "dispatch" ELSE "idle"
      /\ UNCHANGED <<stopRows, stopped, plan>>
  BY Zenon DEF rollbackAssignment
<1>2. /\ t \in Task /\ tasks[t] \in TaskRow
      /\ tasks \in [Task -> TaskRow] /\ db \in [Task -> TaskRow]
  BY Zenon, <1>1 DEF TypeInv, TypeOK, PassShape, StoreType
<1>3. tasks[t].status = "ASSIGNED" /\ tasks[t].status \in Active /\ v \in Worker
  BY Zenon, <1>1, <1>2 DEF canRollback, Active, TaskRow
<1>4. pass \notin Planning /\ ~ tasks[t].recovery
  BY Zenon, <1>1 DEF Planning, CoreInv, PassInv, PassUnrecovered
<1>5. canRelease(v)
  <2>1. t \in Holders(v)
    BY Zenon, <1>2, <1>3, <1>4 DEF Holders, HoldsSlot
  <2> QED
    BY Zenon, <1>3, <2>1, HolderReleases DEF CoreInv, MemoryInv
<1>6. /\ tasks' = [tasks EXCEPT ![t] = row] /\ todo' = todo /\ pass' = "dispatch"
  BY Zenon, <1>1, <1>5
<1>7. /\ row.status = IF BatchOf[t] \in stopped THEN "CANCELLED" ELSE "QUEUED"
      /\ BatchOf[t] \notin stopped => row.seq = nextSeq
      /\ row.recovery = tasks[t].recovery
  BY Zenon, <1>2 DEF rolledBackRow, TaskRow, BatchStopped
<1>8. queue' = IF row.status = "QUEUED"
               THEN queue \cup {[task |-> t, seq |-> row.seq]} ELSE queue
  BY Zenon, <1>1, <1>5, <1>7 DEF BatchStopped
<1> HIDE DEF row
<1>9. db' = [db EXCEPT ![t] = row]
  BY Zenon, <1>1, <1>2, SaveOne
<1>10. /\ tasks'[t] = row /\ db'[t] = row
       /\ \A u \in Task : u # t => tasks'[u] = tasks[u] /\ db'[u] = db[u]
  BY Zenon, <1>2, <1>6, <1>9
<1>11. tasks'[t].status \notin Active /\ row.status # "ABSENT"
  BY Zenon, <1>7, <1>10 DEF Active
<1> HIDE DEF t
<1>12. SlotAccounting' /\ UnregisteredFree'
  BY Zenon, <1>1, <1>2, <1>3, <1>4, <1>10, <1>11, HandlerSlotsSettled
<1>13. MemoryInv'
  BY Zenon, <1>1, <1>2, <1>3, <1>4, <1>7, <1>8, <1>10, <1>11, <1>12, MemoryRow
     DEF Untouched
<1>14. PassInv'
  <2>1. \A u \in Task : tasks'[u].recovery => tasks[u].recovery
    BY Zenon, <1>7, <1>10
  <2>2. /\ pass' \notin Planning /\ pass' \notin {"select", "acquire", "commit"}
        /\ pass' \notin {"idle", "begin"} /\ pass' \notin {"send", "sent", "rollback"}
    BY Zenon, <1>6 DEF Planning
  <2>3. \A u \in Task : plan'[u] = NoPlan
    BY Zenon, <1>1, <1>4 DEF CoreInv, PassInv, PlanExact
  <2>4. PassUnrecovered'
    BY Zenon, <1>6, <2>1, <2>2, TodoElements
       DEF TypeInv, CoreInv, PassInv, PassUnrecovered
  <2>5. PassMutex' /\ PlanExact' /\ PendingExact' /\ TopIsLive'
    BY Zenon, <2>2, <2>3 DEF PassMutex, PlanExact, PendingExact, TopIsLive
  <2> QED
    BY Zenon, <2>4, <2>5 DEF PassInv
<1> QED
  BY Zenon, <1>13, <1>14 DEF CoreInv
-----------------------------------------------------------------------------
(* A crash and the start of a new process: whatever was active waits for   *)
(* its worker and holds no slot.                                           *)

\* The scheduler rebuilt from the database satisfies CoreInv.
LEMMA CoreRestart ==
  ASSUME TypeInv, CoreInv, Restart
  PROVE  CoreInv'
<1>1. /\ markRecovery /\ WorkersRestart
      /\ tasks' = [t \in Task |-> restoredRow(t)]
      /\ queue' = {e \in [task : Task, seq : 0..MaxSeq] :
                     /\ restoredRow(e.task).status = "QUEUED"
                     /\ e.seq = restoredRow(e.task).seq}
      /\ stopped' = stopRows /\ stopRows' = stopRows
      /\ pass' = "idle" /\ todo' = <<>> /\ idler' = NoWorker
      /\ plan' = [t \in Task |-> NoPlan]
  BY Zenon DEF Restart
<1>2. PICK m \in 0..MaxSeq : highWaterMark(m)
  BY Zenon DEF Restart
<1>3. /\ QueueSound /\ QueueComplete /\ RecoveryShape /\ StoreAgrees
      /\ StoppedBatchDrained
  BY Zenon DEF CoreInv, MemoryInv
<1>4. ASSUME NEW t \in Task
      PROVE  /\ db'[t].status = db[t].status /\ db'[t].seq = db[t].seq
             /\ db'[t].status \in TaskStatus
             /\ db[t].status \in Active => db'[t].recovery
             /\ db[t].status \notin Active => db'[t] = db[t]
  <2>1. db[t] \in TaskRow
    BY Zenon DEF TypeInv, TypeOK, StoreType
  <2>2. db'[t] = IF db[t].status \in Active
                 THEN [db[t] EXCEPT !.recovery = TRUE] ELSE db[t]
    BY Zenon, <1>1 DEF markRecovery
  <2> QED
    BY Zenon, <2>1, <2>2 DEF TaskRow
<1>5. ASSUME NEW t \in Task
      PROVE  /\ db[t].status \in Active \cup {"QUEUED"} => tasks'[t] = db'[t]
             /\ db[t].status \notin Active \cup {"QUEUED"} =>
                  tasks'[t] = AbsentTask
             /\ tasks'[t] = restoredRow(t)
  BY Zenon, <1>1, <1>4 DEF restoredRow
<1>6. AbsentTask.status = "ABSENT" /\ ~ AbsentTask.recovery
      /\ "ABSENT" \notin Active \cup {"QUEUED"} /\ "QUEUED" \notin Active
  BY Zenon DEF AbsentTask, Active
<1>7. SlotAccounting' /\ UnregisteredFree'
  <2>1. ASSUME NEW w \in Worker
        PROVE  workers'[w].used = 0 /\ Holders(w)' = {}
    <3>1. workers'[w].used = 0
      BY Zenon, <1>1 DEF WorkersRestart, NewWorker
    <3>2. \A t \in Task : plan'[t].worker # w
      BY Zenon, <1>1, Constants DEF NoPlan
    <3>3. \A t \in Task : tasks'[t].status \in Active => tasks'[t].recovery
      BY <1>4, <1>5, <1>6
    <3>4. Holders(w)' = {}
      BY Zenon, <3>2, <3>3 DEF Holders, HoldsSlot
    <3> QED
      BY Zenon, <3>1, <3>4
  <2> QED
    BY Zenon, <2>1, FS_EmptySet DEF SlotAccounting, UnregisteredFree
<1>8. QueueSound'
  <2>1. SUFFICES ASSUME NEW e \in queue' PROVE EntryFresh(e)'
    BY Zenon DEF QueueSound
  <2>2. /\ e.task \in Task /\ tasks'[e.task].status = "QUEUED"
        /\ e.seq = tasks'[e.task].seq
    BY Zenon, <1>1
  <2>3. tasks'[e.task] = db'[e.task]
    BY Zenon, <1>5, <1>6, <2>2
  <2> QED
    BY Zenon, <1>6, <2>2, <2>3 DEF EntryFresh
<1>9. QueueComplete'
  <2>1. SUFFICES ASSUME NEW t \in Task, tasks'[t].status = "QUEUED"
                 PROVE  [task |-> t, seq |-> tasks'[t].seq] \in queue'
    BY Zenon DEF QueueComplete
  <2>2. db[t].status = "QUEUED" /\ tasks'[t].seq = db[t].seq
    BY Zenon, <1>4, <1>5, <1>6, <2>1
  <2>3. db[t].seq \in Nat /\ db[t].seq <= m
    BY Zenon, <1>2, <2>2 DEF highWaterMark, TypeInv, TypeOK, StoreType, TaskRow
  <2>4. db[t].seq \in 0..MaxSeq
    BY <2>3, SchedulerAssumption
  <2> QED
    BY Zenon, <1>1, <2>1, <2>2, <2>4
<1>10. RecoveryShape'
  <2>1. ASSUME NEW t \in Task, db[t].status = "QUEUED" PROVE ~ db[t].recovery
    BY Zenon, <1>3, <1>6, <2>1 DEF StoreAgrees, RecoveryShape, Terminal
  <2> QED
    BY Zenon, <1>4, <1>5, <1>6, <2>1 DEF RecoveryShape
<1>11. StoreAgrees'
  <2>1. stopped' = stopRows'
    BY Zenon, <1>1
  <2>2. ASSUME NEW t \in Task
        PROVE  \/ tasks'[t] = db'[t] /\ db'[t].status \in Active \cup {"QUEUED"}
               \/ /\ tasks'[t] = AbsentTask
                  /\ db'[t].status \notin Active \cup {"QUEUED"}
                  /\ db'[t].status \in TaskStatus
    BY Zenon, <1>4, <1>5
  <2> QED
    BY Zenon, <1>6, <2>1, <2>2 DEF StoreAgrees, TaskStatus
<1>12. StoppedBatchDrained'
  <2>1. SUFFICES ASSUME NEW t \in Task, BatchOf[t] \in stopRows
                 PROVE  tasks'[t].status # "QUEUED" /\ db'[t].status # "QUEUED"
    BY Zenon, <1>1 DEF StoppedBatchDrained
  <2>2. db[t].status # "QUEUED"
    BY Zenon, <1>3, <2>1 DEF StoppedBatchDrained
  <2>3. db'[t].status # "QUEUED"
    BY Zenon, <1>4, <2>2
  <2>4. tasks'[t] = db'[t] \/ tasks'[t] = AbsentTask
    BY Zenon, <1>5
  <2> QED
    BY Zenon, <1>6, <2>3, <2>4
<1>13. MemoryInv'
  BY Zenon, <1>7, <1>8, <1>9, <1>10, <1>11, <1>12 DEF MemoryInv
<1>14. PassInv'
  <2>1. pass' = "idle" /\ todo' = <<>> /\ \A u \in Task : plan'[u] = NoPlan
    BY Zenon, <1>1
  <2>2. /\ pass' \notin Planning /\ pass' \notin {"select", "acquire", "commit"}
        /\ pass' \notin {"send", "sent", "rollback"}
    BY Zenon, <2>1 DEF Planning
  <2>3. Len(todo') = 0
    BY Zenon, <2>1
  <2>4. PassMutex' /\ PlanExact'
    BY Zenon, <2>1, <2>2 DEF PassMutex, PlanExact
  <2>5. PendingExact' /\ TopIsLive'
    BY Zenon, <2>2 DEF PendingExact, TopIsLive
  <2>6. PassUnrecovered'
    BY <2>2, <2>3 DEF PassUnrecovered
  <2> QED
    BY Zenon, <2>4, <2>5, <2>6 DEF PassInv
<1> QED
  BY Zenon, <1>13, <1>14 DEF CoreInv

=============================================================================
