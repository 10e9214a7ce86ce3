--------------------------- MODULE SchedulerTypes ---------------------------
(***************************************************************************)
(* What the proofs about the scheduling core share: facts about the rows   *)
(* and about a save of them, the counting of slots, and the steps that     *)
(* leave most of the state alone; then type correctness of the core, for   *)
(* every set of workers, tasks, batches and keys and every value of the    *)
(* bounds.  TypeOK is not inductive: a step of schedule() relies on the    *)
(* worker it picked and the run it reserved, a step of the dispatch on the *)
(* claim it made.  PassShape says so, and TypeInv is the conjunction of    *)
(* the two.                                                                *)
(***************************************************************************)
EXTENDS SchedulerSafety, FiniteSetTheorems, TLAPS

\* What the coordinator's thread carries from one step to the next.
PassShape ==
  /\ pass = "acquire" => picked \in Worker /\ nextRun \in RunId
  /\ pass \in {"send", "sent", "rollback"} =>
       current \in [task : Task, worker : Worker, run : RunId]

TypeInv == TypeOK /\ PassShape

-----------------------------------------------------------------------------
(* Lemmas about the rows and the store.                                    *)

\* The constants and empty rows are of the right type: the workers of the
\* table, and NoWorker and NoRun are not ids.
LEMMA Constants ==
  /\ Worker \subseteq Nat /\ NoWorker \notin Worker
  /\ Task \subseteq Nat /\ NoTask \notin Task
  /\ RunId \subseteq Nat /\ NoRun \notin RunId
  /\ AbsentTask \in TaskRow /\ RowShape(AbsentTask)
  /\ AbsentRun \in RunRow /\ Undecided \in Decision
  BY WorkerAssumption, StoreAssumption
     DEF NoWorker, NoTask, NoRun, RunId, AbsentTask, TaskRow, RowShape,
         AbsentRun, RunRow, Undecided, Decision, TaskStatus, Active, RunStatus

\* What StateStore::save leaves in the tasks and task_runs tables is of their
\* type if the rows it is given are; without an override of the run status it
\* writes the status of the task, which a run may have when the task has a
\* worker.
LEMMA SaveRowsType ==
  ASSUME NEW rows, DOMAIN rows \subseteq Task,
         \A t \in DOMAIN rows : rows[t] \in TaskRow /\ RowShape(rows[t]),
         NEW override \in RunStatus \cup {""},
         db \in [Task -> TaskRow], \A t \in Task : RowShape(db[t]),
         runs \in [RunId -> RunRow],
         saveRows(rows, override)
  PROVE  /\ db' \in [Task -> TaskRow]
         /\ \A t \in Task : RowShape(db'[t])
         /\ runs' \in [RunId -> RunRow]
<1>1. db' = [t \in Task |-> IF t \in DOMAIN rows THEN rows[t] ELSE db[t]]
  BY DEF saveRows
<1>2. db' \in [Task -> TaskRow]
  BY <1>1
<1>3. \A t \in Task : RowShape(db'[t])
  BY <1>1
<1>4. ASSUME NEW r \in RunId, NEW t \in DOMAIN rows,
             writesRun(rows[t], override, r)
      PROVE  savedRun(t, rows[t], override) \in RunRow
  <2>1. rows[t] \in TaskRow /\ RowShape(rows[t]) /\ t \in Task
    OBVIOUS
  <2>2. rows[t].run = r /\ runs[rows[t].run] \in RunRow
    BY <1>4 DEF writesRun
  <2>3. (IF override # "" THEN override ELSE rows[t].status) \in RunStatus
    BY <1>4, <2>1 DEF writesRun, RowShape, TaskRow, TaskStatus, RunStatus,
                      Active, Terminal
  <2> QED
    BY <2>1, <2>2, <2>3 DEF savedRun, RunRow, TaskRow
<1>5. ASSUME NEW r \in RunId
      PROVE  runs'[r] \in RunRow
  <2> DEFINE P(t) == writesRun(rows[t], override, r)
  <2>1. CASE \E t \in DOMAIN rows : P(t)
    <3> DEFINE c == CHOOSE t \in DOMAIN rows : P(t)
    <3>1. c \in DOMAIN rows /\ P(c)
      BY <2>1
    <3>2. runs'[r] = savedRun(c, rows[c], override)
      BY <2>1 DEF saveRows
    <3> QED
      BY <3>1, <3>2, <1>4
  <2>2. CASE ~ \E t \in DOMAIN rows : P(t)
    BY <2>2 DEF saveRows
  <2> QED
    BY <2>1, <2>2
<1>6. runs' = [r \in RunId |-> runs'[r]]
  BY DEF saveRows
<1> QED
  BY <1>2, <1>3, <1>5, <1>6

\* save of a single row changes that row of the tasks table and no other.
LEMMA SaveOne ==
  ASSUME NEW t \in Task, NEW row, NEW override,
         db \in [Task -> TaskRow], saveOne(t, row, override)
  PROVE  db' = [db EXCEPT ![t] = row]
BY DEF saveOne, saveRows

\* Saving one well-shaped row keeps the store well typed.
LEMMA SaveOneType ==
  ASSUME NEW t \in Task, NEW row \in TaskRow, RowShape(row),
         NEW override \in RunStatus \cup {""},
         db \in [Task -> TaskRow], \A u \in Task : RowShape(db[u]),
         runs \in [RunId -> RunRow],
         saveOne(t, row, override)
  PROVE  /\ db' \in [Task -> TaskRow]
         /\ \A u \in Task : RowShape(db'[u])
         /\ runs' \in [RunId -> RunRow]
<1> DEFINE rows == [u \in {t} |-> row]
<1>1. DOMAIN rows \subseteq Task
  OBVIOUS
<1>2. \A u \in DOMAIN rows : rows[u] \in TaskRow /\ RowShape(rows[u])
  OBVIOUS
<1>3. saveRows(rows, override)
  BY DEF saveOne
<1> HIDE DEF rows
<1> QED
  BY <1>1, <1>2, <1>3, SaveRowsType

\* Evicting finished tasks from memory keeps the rows well formed.
LEMMA EvictedType ==
  ASSUME TypeOK
  PROVE  evicted \in [Task -> TaskRow] /\ \A u \in Task : RowShape(evicted[u])
BY Constants DEF TypeOK, evicted

-----------------------------------------------------------------------------
(* Counting slots.                                                         *)

\* Any set of tasks is finite, so its cardinality is a number.
LEMMA TaskSetsFinite ==
  ASSUME NEW S \in SUBSET Task
  PROVE  IsFiniteSet(S) /\ Cardinality(S) \in Nat
BY Zenon, StoreAssumption, FS_Subset, FS_CardinalityType

\* A step that leaves the holders and the used slots alone.
LEMMA SlotsSame ==
  ASSUME SlotAccounting,
         \A w \in Worker : workers'[w].used = workers[w].used,
         \A w \in Worker : Holders(w)' = Holders(w)
  PROVE  SlotAccounting'
BY Zenon DEF SlotAccounting

\* A task takes a slot.
LEMMA SlotTaken ==
  ASSUME WorkersType, SlotAccounting, NEW v \in Worker, NEW t \in Task,
         acquireSlot(v), t \notin Holders(v),
         \A w \in Worker : Holders(w)' = IF w = v THEN Holders(w) \cup {t}
                                         ELSE Holders(w)
  PROVE  SlotAccounting'
<1> SUFFICES ASSUME NEW w \in Worker
             PROVE  workers'[w].used = Cardinality(Holders(w)')
  BY Zenon DEF SlotAccounting
<1>1. workers' = [workers EXCEPT ![v].used = @ + 1]
  BY DEF acquireSlot
<1>2. workers[w].used = Cardinality(Holders(w))
  BY DEF SlotAccounting
<1>3. CASE w = v
  <2>1. IsFiniteSet(Holders(v))
    BY Zenon, TaskSetsFinite DEF Holders
  <2>2. Cardinality(Holders(v) \cup {t}) = Cardinality(Holders(v)) + 1
    BY Zenon, <2>1, FS_AddElement
  <2>3. workers'[v].used = workers[v].used + 1
    BY Zenon, <1>1 DEF WorkersType, WorkerRecord
  <2> QED
    BY Zenon, <1>2, <1>3, <2>2, <2>3
<1>4. CASE w # v
  <2>1. workers'[w] = workers[w]
    BY Zenon, <1>1, <1>4 DEF WorkersType
  <2> QED
    BY Zenon, <1>2, <1>4, <2>1
<1> QED
  BY <1>3, <1>4

\* A slot that a task holds can be released: it is counted, and a worker with
\* a used slot is registered.
LEMMA HolderReleases ==
  ASSUME SlotAccounting, UnregisteredFree, NEW v \in Worker, NEW t \in Holders(v)
  PROVE  canRelease(v)
<1>1. IsFiniteSet(Holders(v)) /\ Cardinality(Holders(v)) \in Nat
  BY Zenon, TaskSetsFinite DEF Holders
<1>2. Cardinality(Holders(v)) # 0
  BY <1>1, FS_EmptySet
<1>3. workers[v].used = Cardinality(Holders(v))
  BY Zenon DEF SlotAccounting
<1> QED
  BY <1>1, <1>2, <1>3 DEF canRelease, Registered, UnregisteredFree

\* A task gives its slot back.
LEMMA SlotGiven ==
  ASSUME WorkersType, SlotAccounting, UnregisteredFree,
         NEW v \in Worker, NEW t \in Task,
         releaseSlot(v), t \in Holders(v),
         \A w \in Worker : Holders(w)' = IF w = v THEN Holders(w) \ {t}
                                         ELSE Holders(w)
  PROVE  SlotAccounting' /\ UnregisteredFree'
<1>1. IsFiniteSet(Holders(v))
  BY Zenon, TaskSetsFinite DEF Holders
<1>4. canRelease(v)
  BY HolderReleases
<1>5. workers' = [workers EXCEPT ![v].used = @ - 1]
  BY <1>4 DEF releaseSlot
<1>6. /\ \A w \in Worker : workers'[w].status = workers[w].status
      /\ \A w \in Worker : w # v => workers'[w].used = workers[w].used
      /\ workers'[v].used = workers[v].used - 1
  BY <1>5 DEF WorkersType, WorkerRecord
<1>7. UnregisteredFree'
  BY Zenon, <1>4, <1>6 DEF UnregisteredFree, canRelease, Registered
<1>8. Cardinality(Holders(v) \ {t}) = Cardinality(Holders(v)) - 1
  BY Zenon, <1>1, FS_RemoveElement
<1>9. ASSUME NEW w \in Worker
      PROVE  workers'[w].used = Cardinality(Holders(w)')
  <2>1. workers[w].used = Cardinality(Holders(w))
    BY Zenon DEF SlotAccounting
  <2>2. CASE w = v
    BY Zenon, <1>6, <1>8, <2>1, <2>2
  <2>3. CASE w # v
    BY Zenon, <1>6, <2>1, <2>3
  <2> QED
    BY Zenon, <2>2, <2>3
<1> QED
  BY <1>7, <1>9 DEF SlotAccounting

-----------------------------------------------------------------------------
(* Steps that leave most of the state alone.                               *)

\* What a worker is may change, what it holds does not.
SlotsKept ==
  \A w \in Worker :
    /\ workers'[w].used = workers[w].used
    /\ workers'[w].status = "UNREGISTERED" => workers[w].status = "UNREGISTERED"

\* A step that leaves tasks, queue, store and slot counts alone keeps MemoryInv.
LEMMA MemoryQuiet ==
  ASSUME MemoryInv, SlotsKept,
         UNCHANGED <<tasks, db, queue, plan, stopped, stopRows>>
  PROVE  MemoryInv'
<1>1. \A w \in Worker : Holders(w)' = Holders(w)
  BY Zenon DEF Holders, HoldsSlot
<1>2. SlotAccounting'
  BY <1>1, SlotsSame DEF SlotsKept, MemoryInv
<1>3. UnregisteredFree'
  BY Zenon DEF MemoryInv, UnregisteredFree, SlotsKept
<1>4. QueueSound' /\ QueueComplete' /\ RecoveryShape'
  BY Zenon DEF MemoryInv, QueueSound, QueueComplete, RecoveryShape, EntryFresh
<1>5. StoreAgrees' /\ StoppedBatchDrained'
  BY Zenon DEF MemoryInv, StoreAgrees, StoppedBatchDrained
<1> QED
  BY Zenon, <1>2, <1>3, <1>4, <1>5 DEF MemoryInv

\* The methods of WorkerManager that keep the used slots.
LEMMA SlotsKeptBy ==
  ASSUME WorkersType, NEW w \in Worker
  PROVE  /\ UNCHANGED workers => SlotsKept
         /\ \A n \in Nat : registerWorker(w, n) => SlotsKept
         /\ markDraining(w) \/ markOffline(w) => SlotsKept
         /\ heartbeat(w) => SlotsKept
         /\ setAccepting(w) => SlotsKept
         /\ \A late \in SUBSET Worker : checkTimeouts(late) => SlotsKept
<1>1. UNCHANGED workers => SlotsKept
  BY Zenon DEF SlotsKept
<1> USE DEF WorkersType, WorkerRecord, WorkerStatus, SlotsKept, Registered
<1>2. \A n \in Nat : registerWorker(w, n) => SlotsKept
  BY DEF registerWorker
<1>3. markDraining(w) \/ markOffline(w) => SlotsKept
  BY DEF markDraining, markOffline
<1>4. heartbeat(w) => SlotsKept
  BY DEF heartbeat
<1>5. setAccepting(w) => SlotsKept
  BY DEF setAccepting
<1>6. \A late \in SUBSET Worker : checkTimeouts(late) => SlotsKept
  BY DEF checkTimeouts
<1> QED
  BY Zenon, <1>1, <1>2, <1>3, <1>4, <1>5, <1>6

\* The elements of the list of assignments.
LEMMA TodoElements ==
  ASSUME TypeOK
  PROVE  \A i \in 1..Len(todo) : /\ todo[i] \in Assignment
                                 /\ todo[i].task \in Task
                                 /\ todo[i].worker \in Worker
<1>1. todo \in Seq(Assignment)
  BY Zenon DEF TypeOK
<1>2. \A i \in 1..Len(todo) : todo[i] \in Assignment
  BY <1>1
<1> QED
  BY Zenon, <1>2 DEF Assignment

\* The pass stands still while a handler holds the mutex; what the handler
\* does to the tasks makes none of them a recovered one.
LEMMA PassHandler ==
  ASSUME PassInv, pass \notin Planning, UNCHANGED passVars,
         \A t \in Task : tasks'[t].recovery => tasks[t].recovery,
         TypeInv
  PROVE  PassInv'
<1>1. \A t \in Task : plan[t] = NoPlan
  BY Zenon DEF PassInv, PlanExact
<1>2. pass' \notin Planning /\ pass' \notin {"select", "acquire", "commit"}
  BY DEF passVars, Planning
<1>3. PassMutex'
  BY Zenon, <1>2 DEF PassInv, PassMutex, passVars
<1>4. PlanExact'
  BY Zenon, <1>1, <1>2 DEF PlanExact, passVars
<1>5. PendingExact' /\ TopIsLive'
  BY Zenon, <1>2 DEF PendingExact, TopIsLive
<1>6. \A i \in 1..Len(todo) : todo[i].task \in Task
  BY Zenon, TodoElements DEF TypeInv, Assignment
<1>7. pass \in {"send", "sent", "rollback"} => current.task \in Task
  BY Zenon DEF TypeInv, PassShape
<1>8. todo' = todo /\ current' = current /\ pass' = pass
  BY DEF passVars
<1>9. PassUnrecovered'
  BY Zenon, <1>6, <1>7, <1>8 DEF PassInv, PassUnrecovered
<1> QED
  BY Zenon, <1>3, <1>4, <1>5, <1>9 DEF PassInv

\* A step that does not concern the pass at all.
LEMMA PassQuiet ==
  ASSUME PassInv, UNCHANGED <<tasks, db, passVars, idler>>
  PROVE  PassInv'
BY DEF PassInv, PassMutex, PlanExact, PendingExact, TopIsLive,
       PassUnrecovered, EntryFresh, passVars

\* A step of the pass outside schedule().
LEMMA PassOutside ==
  ASSUME PassInv, pass \notin Planning, pass' \notin Planning,
         UNCHANGED <<tasks, plan>>,
         pass' \in {"idle", "begin"} => todo' = <<>>,
         \A i \in 1..Len(todo') : ~ tasks[todo'[i].task].recovery,
         pass' \in {"send", "sent", "rollback"} => ~ tasks[current'.task].recovery
  PROVE  PassInv'
<1>1. \A t \in Task : plan'[t] = NoPlan
  BY Zenon DEF PassInv, PlanExact
<1>2. pass' \notin {"select", "acquire", "commit"}
  BY DEF Planning
<1>3. PassMutex' /\ PlanExact'
  BY Zenon, <1>1 DEF PassMutex, PlanExact
<1>4. PendingExact' /\ TopIsLive'
  BY Zenon, <1>2 DEF PendingExact, TopIsLive
<1>5. PassUnrecovered'
  BY Zenon DEF PassUnrecovered
<1> QED
  BY Zenon, <1>3, <1>4, <1>5 DEF PassInv

-----------------------------------------------------------------------------
(* The initial states.                                                     *)

\* The empty server satisfies CoreInv.
LEMMA CoreInit == Init => CoreInv
<1> SUFFICES ASSUME Init PROVE CoreInv
  OBVIOUS
<1>1. /\ tasks = [t \in Task |-> AbsentTask] /\ db = [t \in Task |-> AbsentTask]
      /\ plan = [t \in Task |-> NoPlan] /\ queue = {} /\ stopped = {}
      /\ stopRows = {} /\ todo = <<>> /\ pass = "idle"
      /\ workers = [w \in Worker |-> NewWorker]
  BY Zenon DEF Init, StoreInit, WorkersInit
<1>2. \A t \in Task : /\ tasks[t].status = "ABSENT" /\ db[t].status = "ABSENT"
                      /\ ~ tasks[t].recovery
                      /\ plan[t] = NoPlan /\ plan[t].worker = NoWorker
  BY Zenon, <1>1 DEF AbsentTask, NoPlan
<1>3. SlotAccounting /\ UnregisteredFree
  <2>1. ASSUME NEW w \in Worker
        PROVE  workers[w].used = 0 /\ Holders(w) = {}
    <3>1. workers[w].used = 0
      BY Zenon, <1>1 DEF NewWorker
    <3>2. Holders(w) = {}
      BY Zenon, <1>2, Constants DEF Holders, HoldsSlot, Active
    <3> QED
      BY Zenon, <3>1, <3>2
  <2> QED
    BY Zenon, <2>1, FS_EmptySet DEF SlotAccounting, UnregisteredFree
<1>4. QueueSound /\ QueueComplete /\ RecoveryShape
  BY Zenon, <1>1, <1>2 DEF QueueSound, QueueComplete, RecoveryShape
<1>5. StoreAgrees /\ StoppedBatchDrained
  BY Zenon, <1>1, <1>2 DEF StoreAgrees, StoppedBatchDrained
<1>6. PassInv
  <2>1. pass \notin Planning /\ pass = "idle"
    BY Zenon, <1>1 DEF Planning
  <2>2. Len(todo) = 0
    BY Zenon, <1>1
  <2> QED
    BY <1>1, <1>2, <2>1, <2>2
       DEF PassInv, PassMutex, PlanExact, PendingExact, TopIsLive,
           PassUnrecovered
<1> QED
  BY <1>3, <1>4, <1>5, <1>6 DEF CoreInv, MemoryInv

-----------------------------------------------------------------------------
(* Steps that concern neither the tasks nor the pass.                      *)

\* A step that touches neither tasks nor pass keeps CoreInv.
LEMMA CoreQuiet ==
  ASSUME TypeInv, CoreInv, SlotsKept,
         UNCHANGED <<tasks, db, queue, plan, stopped, stopRows>>,
         UNCHANGED <<passVars, idler>>
  PROVE  CoreInv'
BY Zenon, MemoryQuiet, PassQuiet DEF CoreInv

\* Heartbeat, drain, close and policy changes keep CoreInv: no slot count moves.
LEMMA CoreWorkerTable ==
  ASSUME TypeInv, CoreInv, NEW w \in Worker,
         \/ \E n \in Nat, kind \in {"plain", "recovery"} : WorkerRegister(w, n, kind)
         \/ WorkerRegisterRefused(w) \/ WorkerHeartbeat(w) \/ WorkerDrain(w)
         \/ WorkerClose(w) \/ ChangePolicy(w)
         \/ \E late \in SUBSET Worker : LivenessCheck(late)
  PROVE  CoreInv'
<1>1. SlotsKept
  BY Zenon, SlotsKeptBy
     DEF TypeInv, TypeOK, WorkerRegister, WorkerRegisterRefused,
         WorkerHeartbeat, WorkerDrain, WorkerClose, ChangePolicy, LivenessCheck
<1>2. /\ UNCHANGED <<tasks, db, queue, plan, stopped, stopRows>>
      /\ UNCHANGED <<passVars, idler>>
  BY Zenon DEF WorkerRegister, WorkerRegisterRefused, WorkerHeartbeat,
     WorkerDrain,
         WorkerClose, ChangePolicy, LivenessCheck, storeVars, memVars, passVars
<1> QED
  BY Zenon, <1>1, <1>2, CoreQuiet

\* The recovery answers that change no task keep CoreInv.
LEMMA CoreRecoverQuiet ==
  ASSUME TypeInv, CoreInv, NEW t \in Task, NEW w \in Worker, NEW r \in RunId,
         RecoverLostThrows(t, w, r) \/ RecoverActive(t, w, r)
  PROVE  CoreInv'
<1>1. /\ UNCHANGED <<tasks, db, queue, plan, stopped, stopRows>>
      /\ UNCHANGED <<passVars, idler>> /\ UNCHANGED workers
  BY Zenon DEF RecoverLostThrows, RecoverActive, storeVars, passVars
<1> QED
  BY Zenon, <1>1, CoreQuiet DEF SlotsKept

\* The steps of an idle recovery that change no task keep CoreInv.
LEMMA CoreIdle ==
  ASSUME TypeInv, CoreInv,
         \/ \E w \in Worker : RecoverIdle(w)
         \/ IdleBlocked \/ IdleReady \/ IdleThrows
  PROVE  CoreInv'
<1>1. pass \notin Planning
  BY Zenon DEF RecoverIdle, IdleBlocked, IdleReady, IdleThrows, MutexFree,
     CoreInv,
         PassInv, PassMutex
<1>2. /\ UNCHANGED <<tasks, db, queue, plan, stopped, stopRows>>
      /\ UNCHANGED passVars /\ UNCHANGED workers
  BY Zenon DEF RecoverIdle, IdleBlocked, IdleReady, IdleThrows, storeVars,
     memVars,
         passVars
<1>3. MemoryInv'
  BY Zenon, <1>2, MemoryQuiet DEF SlotsKept, CoreInv
<1>4. PassInv'
  BY Zenon, <1>1, <1>2, PassHandler DEF CoreInv
<1> QED
  BY <1>3, <1>4 DEF CoreInv

-----------------------------------------------------------------------------
(* TypeInv by the owner of the variables: the worker table, the store, the *)
(* Scheduler's memory, the coordinator's pass and the rest.  An action     *)
(* changes a few of these parts and leaves the others alone.               *)

MemoryType ==
  /\ tasks \in [Task -> TaskRow]
  /\ \A t \in Task : RowShape(tasks[t])
  /\ queue \subseteq Entry
  /\ dispatching \subseteq Task
  /\ stopped \subseteq Batch
  /\ quarantined \subseteq Worker
  /\ reconciling \subseteq Worker
  /\ nextSeq \in Nat
  /\ lastSelected \in Worker \cup {NoWorker}

PassType ==
  /\ pass \in Phase
  /\ pending \subseteq Entry
  /\ plan \in [Task -> [worker : Worker, run : RunId] \cup {NoPlan}]
  /\ todo \in Seq(Assignment)
  /\ after \in Worker \cup {NoWorker}
  /\ picked \in Worker \cup {NoWorker}
  /\ current \in [task : Task \cup {NoTask}, worker : Worker \cup {NoWorker},
                  run : RunId \cup {NoRun}]
  /\ nextRun \in 1..(MaxRun + 1)
  /\ PassShape

OtherType ==
  /\ idler \in Worker \cup {NoWorker}
  /\ requested \in BOOLEAN
  /\ session \in [Worker -> SessionKind]
  /\ sent \subseteq RunId
  /\ asked \subseteq RunId
  /\ reported \subseteq RunId

\* TypeInv is the conjunction of its parts.
LEMMA TypeParts ==
  TypeInv <=> /\ WorkersType /\ StoreType
              /\ MemoryType /\ PassType /\ OtherType
BY DEF TypeInv, TypeOK, MemoryType, PassType, OtherType

\* In the next state too.
LEMMA TypePartsNext ==
  ASSUME WorkersType', StoreType', MemoryType', PassType', OtherType'
  PROVE  TypeInv'
BY DEF TypeInv, TypeOK, MemoryType, PassType, OtherType

\* A part keeps its type when its variables do not change.
LEMMA TypeFrame ==
  ASSUME TypeInv
  PROVE  /\ UNCHANGED workers => WorkersType'
         /\ UNCHANGED storeVars => StoreType'
         /\ UNCHANGED memVars => MemoryType'
         /\ UNCHANGED <<passVars, nextRun>> => PassType'
         /\ UNCHANGED <<idler, requested, session, sent, asked, reported>> =>
              OtherType'
<1>0. WorkersType /\ StoreType /\ MemoryType /\ PassType /\ OtherType
  BY TypeParts
<1>1. UNCHANGED workers => WorkersType'
  BY <1>0 DEF WorkersType
<1>2. UNCHANGED storeVars => StoreType'
  BY <1>0 DEF StoreType, storeVars
<1>3. UNCHANGED memVars => MemoryType'
  BY <1>0 DEF MemoryType, memVars
<1>4. UNCHANGED <<passVars, nextRun>> => PassType'
  BY <1>0 DEF PassType, PassShape, passVars
<1>5. UNCHANGED <<idler, requested, session, sent, asked, reported>> =>
        OtherType'
  BY <1>0 DEF OtherType
<1> QED
  BY <1>1, <1>2, <1>3, <1>4, <1>5

-----------------------------------------------------------------------------
(* The initial states and every action, in the order of the Scheduler      *)
(* module.                                                                 *)

\* The empty server is well typed.
LEMMA TypeInit == Init => TypeInv
<1> SUFFICES ASSUME Init PROVE TypeInv
  OBVIOUS
<1>1. WorkersType
  BY DEF Init, WorkersInit, WorkersType, NewWorker, WorkerRecord, WorkerStatus
<1>2. StoreType
  BY Constants DEF Init, StoreInit, StoreType
<1>3. tasks \in [Task -> TaskRow] /\ \A t \in Task : RowShape(tasks[t])
  BY Constants DEF Init
<1>4. current \in [task : Task \cup {NoTask}, worker : Worker \cup {NoWorker},
                  run : RunId \cup {NoRun}]
  BY DEF Init, NoClaim
<1>5. nextRun \in 1..(MaxRun + 1)
  BY StoreAssumption DEF Init
<1>6. /\ plan \in [Task -> [worker : Worker, run : RunId] \cup {NoPlan}]
      /\ todo \in Seq(Assignment)
      /\ session \in [Worker -> SessionKind]
  BY DEF Init, SessionKind
<1>7. PassShape /\ pass \in Phase
  BY DEF Init, PassShape, Phase
<1> QED
  BY Zenon, <1>1, <1>2, <1>3, <1>4, <1>5, <1>6, <1>7
     DEF Init, TypeInv, TypeOK, PassShape, Phase, Planning, SessionKind

\* Pushing a task on the queue.
LEMMA EnqueueType ==
  ASSUME NEW q \in SUBSET Entry, NEW t \in Task, NEW n \in Nat
  PROVE  q \cup {[task |-> t, seq |-> n]} \subseteq Entry
<1>1. [task |-> t, seq |-> n] \in Entry
  BY DEF Entry
<1> QED
  BY <1>1

\* Submitting a task, with the evictions it may cause, keeps the types.
LEMMA TypeSubmit ==
  ASSUME TypeInv, NEW t \in Task, NEW k \in Key \cup {NoKey}, submitTask(t, k)
  PROVE  TypeInv'
<1> DEFINE row == [AbsentTask EXCEPT !.status = "QUEUED", !.seq = nextSeq]
<1>0. nextSeq \in Nat
  BY DEF TypeInv, TypeOK
<1>1. row \in TaskRow /\ RowShape(row)
  BY Zenon, <1>0 DEF AbsentTask, TaskRow, TaskStatus, RowShape, Active
<1>2. saveOne(t, row, "")
  BY DEF submitTask
<1> HIDE DEF row
<1>3. /\ db' \in [Task -> TaskRow]
      /\ \A u \in Task : RowShape(db'[u])
      /\ runs' \in [RunId -> RunRow]
  BY Zenon, <1>1, <1>2, SaveOneType DEF TypeInv, TypeOK, StoreType
<1>4. tasks' = [evicted EXCEPT ![t] = row]
  BY Zenon DEF submitTask, row
<1>5. tasks' \in [Task -> TaskRow] /\ \A u \in Task : RowShape(tasks'[u])
  BY <1>1, <1>4, EvictedType DEF TypeInv
<1>6. keys' \in [Key -> Task \cup {NoTask}]
  BY Zenon DEF submitTask, TypeInv, TypeOK, StoreType
<1>7. queue' \subseteq Entry
  <2>1. queue \in SUBSET Entry /\ queue' = queue \cup {[task |-> t, seq |-> nextSeq]}
    BY Zenon DEF submitTask, TypeInv, TypeOK
  <2> QED
    BY <1>0, <2>1, EnqueueType
<1>8. nextSeq' \in Nat
  <2>1. nextSeq' = nextSeq + 1
    BY DEF submitTask
  <2> QED
    BY <1>0, <2>1
<1> QED
  <2>1. WorkersType /\ StoreType /\ MemoryType /\ PassType /\ OtherType
    BY TypeParts, Zenon
  <2>2. UNCHANGED <<workers, passVars, nextRun>>
    BY Zenon DEF submitTask, worldVars
  <2>3. WorkersType' /\ PassType'
    BY <2>2, TypeFrame, Zenon
  <2>4. StoreType'
    BY Zenon, <2>1, <1>3, <1>6
       DEF submitTask, StoreType
  <2>5. MemoryType'
    BY Zenon, <2>1, <1>5, <1>7, <1>8
       DEF submitTask, MemoryType
  <2>6. OtherType'
    BY Zenon, <2>1
       DEF submitTask, OtherType, worldVars
  <2> QED
    BY <2>3, <2>4, <2>5, <2>6, TypePartsNext, Zenon

\* A submission whose save throws keeps the types.
LEMMA TypeSubmitThrows ==
  ASSUME TypeInv, NEW t \in Task, NEW k \in Key \cup {NoKey},
         SubmitThrows(t, k)
  PROVE  TypeInv'
<1>1. tasks' \in [Task -> TaskRow] /\ \A u \in Task : RowShape(tasks'[u])
  BY EvictedType DEF TypeInv, SubmitThrows
<1> QED
  <2>1. WorkersType /\ StoreType /\ MemoryType /\ PassType /\ OtherType
    BY TypeParts, Zenon
  <2>2. UNCHANGED <<workers, storeVars, passVars, nextRun, idler, requested,
                    session, sent, asked, reported>>
    BY Zenon DEF SubmitThrows, worldVars
  <2>3. WorkersType' /\ StoreType' /\ PassType' /\ OtherType'
    BY <2>2, TypeFrame, Zenon
  <2>4. MemoryType'
    BY Zenon, <2>1, <1>1
       DEF SubmitThrows, MemoryType
  <2> QED
    BY <2>3, <2>4, TypePartsNext, Zenon

\* Cancelling one queued task keeps the types.
LEMMA TypeCancelTask ==
  ASSUME TypeInv, NEW t \in Task, cancelTask(t)
  PROVE  TypeInv'
<1> DEFINE row == [tasks[t] EXCEPT !.status = "CANCELLED"]
<1>0. tasks[t] \in TaskRow /\ RowShape(tasks[t]) /\ tasks[t].status = "QUEUED"
  BY DEF TypeInv, TypeOK, cancelTask
<1>1. row \in TaskRow /\ RowShape(row)
  BY <1>0 DEF TaskRow, TaskStatus, RowShape, Active, Terminal
<1>2. saveOne(t, row, "") /\ tasks' = [tasks EXCEPT ![t] = row]
  BY DEF cancelTask
<1> HIDE DEF row
<1>3. /\ db' \in [Task -> TaskRow]
      /\ \A u \in Task : RowShape(db'[u])
      /\ runs' \in [RunId -> RunRow]
  BY Zenon, <1>1, <1>2, SaveOneType DEF TypeInv, TypeOK, StoreType
<1>4. tasks' \in [Task -> TaskRow] /\ \A u \in Task : RowShape(tasks'[u])
  BY Zenon, <1>1, <1>2 DEF TypeInv, TypeOK
<1> QED
  <2>1. WorkersType /\ StoreType /\ MemoryType /\ PassType /\ OtherType
    BY TypeParts, Zenon
  <2>2. UNCHANGED <<workers, passVars, nextRun>>
    BY Zenon DEF cancelTask, worldVars
  <2>3. WorkersType' /\ PassType'
    BY <2>2, TypeFrame, Zenon
  <2>4. StoreType'
    BY Zenon, <2>1, <1>3
       DEF cancelTask, StoreType
  <2>5. MemoryType'
    BY Zenon, <2>1, <1>4
       DEF cancelTask, MemoryType
  <2>6. OtherType'
    BY <2>1
       DEF cancelTask, OtherType, worldVars
  <2> QED
    BY <2>3, <2>4, <2>5, <2>6, TypePartsNext, Zenon

\* Stopping a batch and cancelling its queued tasks keeps the types.
LEMMA TypeCancelBatch ==
  ASSUME TypeInv, NEW b \in Batch, cancelBatch(b)
  PROVE  TypeInv'
<1> DEFINE changed == {t \in Task : BatchOf[t] = b /\ tasks[t].status = "QUEUED"}
           row(t)  == [tasks[t] EXCEPT !.status = "CANCELLED"]
           rows    == [t \in changed |-> row(t)]
<1>1. ASSUME NEW t \in changed
      PROVE  row(t) \in TaskRow /\ RowShape(row(t))
  <2>1. tasks[t] \in TaskRow /\ RowShape(tasks[t]) /\ tasks[t].status = "QUEUED"
    BY Zenon DEF TypeInv, TypeOK
  <2> QED
    BY <2>1 DEF TaskRow, TaskStatus, RowShape, Active, Terminal
<1>2. /\ saveRows(rows, "")
      /\ tasks' = [t \in Task |-> IF t \in changed THEN row(t) ELSE tasks[t]]
  BY DEF cancelBatch
<1>3. /\ DOMAIN rows \subseteq Task
      /\ \A t \in DOMAIN rows : rows[t] \in TaskRow /\ RowShape(rows[t])
  BY Zenon, <1>1
<1>4. /\ db' \in [Task -> TaskRow]
      /\ \A u \in Task : RowShape(db'[u])
      /\ runs' \in [RunId -> RunRow]
  <2> HIDE DEF rows
  <2> QED
    BY Zenon, <1>2, <1>3, SaveRowsType DEF TypeInv, TypeOK, StoreType
<1>5. tasks' \in [Task -> TaskRow] /\ \A u \in Task : RowShape(tasks'[u])
  <2> HIDE DEF row
  <2> QED
    BY Zenon, <1>1, <1>2 DEF TypeInv, TypeOK
<1>6. stopRows' \subseteq Batch /\ stopped' \subseteq Batch
  BY Zenon DEF cancelBatch, TypeInv, TypeOK, StoreType
<1> QED
  <2>1. WorkersType /\ StoreType /\ MemoryType /\ PassType /\ OtherType
    BY TypeParts, Zenon
  <2>2. UNCHANGED <<workers, passVars, nextRun>>
    BY Zenon DEF cancelBatch, worldVars
  <2>3. WorkersType' /\ PassType'
    BY <2>2, TypeFrame, Zenon
  <2>4. StoreType'
    BY Zenon, <2>1, <1>4, <1>6
       DEF cancelBatch, StoreType
  <2>5. MemoryType'
    BY Zenon, <2>1, <1>5, <1>6
       DEF cancelBatch, MemoryType
  <2>6. OtherType'
    BY Zenon, <2>1
       DEF cancelBatch, OtherType, worldVars
  <2> QED
    BY <2>3, <2>4, <2>5, <2>6, TypePartsNext, Zenon

-----------------------------------------------------------------------------
(* The worker table keeps its type whatever method runs.                   *)

\* Every operation of the worker table keeps its type.
LEMMA WorkersTypes ==
  ASSUME WorkersType, NEW w \in Worker
  PROVE  /\ acquireSlot(w) => WorkersType'
         /\ releaseSlot(w) => WorkersType'
         /\ \A n \in Nat : registerWorker(w, n) => WorkersType'
         /\ markDraining(w) \/ markOffline(w) => WorkersType'
         /\ heartbeat(w) => WorkersType'
         /\ setAccepting(w) => WorkersType'
<1>1. workers[w] \in WorkerRecord
  BY Zenon DEF WorkersType
<1> USE DEF WorkersType
<1>2. ASSUME acquireSlot(w) PROVE WorkersType'
  <2>1. [workers[w] EXCEPT !.used = @ + 1] \in WorkerRecord
    BY <1>1 DEF WorkerRecord
  <2> QED
    BY <1>2, <2>1 DEF acquireSlot
<1>3. ASSUME releaseSlot(w) PROVE WorkersType'
  <2>1. CASE canRelease(w)
    <3>1. [workers[w] EXCEPT !.used = @ - 1] \in WorkerRecord
      BY <1>1, <2>1 DEF WorkerRecord, canRelease
    <3> QED
      BY <1>3, <2>1, <3>1 DEF releaseSlot
  <2>2. CASE ~ canRelease(w)
    BY <1>3, <2>2 DEF releaseSlot
  <2> QED
    BY <2>1, <2>2
<1>4. ASSUME NEW n \in Nat, registerWorker(w, n) PROVE WorkersType'
  <2>1. [workers[w] EXCEPT !.status = "ONLINE", !.total = n] \in WorkerRecord
    BY Zenon, <1>1 DEF WorkerRecord, WorkerStatus
  <2> QED
    BY <1>4, <2>1 DEF registerWorker
<1>5. ASSUME markDraining(w) \/ markOffline(w) PROVE WorkersType'
  <2>1. /\ [workers[w] EXCEPT !.status = "DRAINING"] \in WorkerRecord
        /\ [workers[w] EXCEPT !.status = "OFFLINE"] \in WorkerRecord
    BY <1>1 DEF WorkerRecord, WorkerStatus
  <2> QED
    BY <1>5, <2>1 DEF markDraining, markOffline
<1>6. ASSUME heartbeat(w) PROVE WorkersType'
  <2>1. [workers[w] EXCEPT !.status = IF @ = "DRAINING" THEN @ ELSE "ONLINE"]
          \in WorkerRecord
    BY <1>1 DEF WorkerRecord, WorkerStatus
  <2> QED
    BY <1>6, <2>1 DEF heartbeat
<1>7. ASSUME setAccepting(w) PROVE WorkersType'
  <2>1. [workers[w] EXCEPT !.accepting = ~ @] \in WorkerRecord
    BY Zenon, <1>1 DEF WorkerRecord
  <2> QED
    BY <1>7, <2>1 DEF setAccepting
<1> QED
  BY <1>2, <1>3, <1>4, <1>5, <1>6, <1>7

\* Marking the late workers OFFLINE keeps the type of the table.
LEMMA CheckTimeoutsType ==
  ASSUME WorkersType, NEW late \in SUBSET Worker, checkTimeouts(late)
  PROVE  WorkersType'
BY DEF checkTimeouts, WorkersType, WorkerRecord, WorkerStatus

\* The table of a new process is well typed.
LEMMA WorkersRestartType ==
  ASSUME WorkersType, WorkersRestart
  PROVE  WorkersType'
BY DEF WorkersRestart, WorkersType, WorkerRecord, WorkerStatus, NewWorker

-----------------------------------------------------------------------------
(* The coordinator's pass.                                                 *)

\* Starting a coordinator pass keeps the types.
LEMMA TypePassStart ==
  ASSUME TypeInv, PassStart
  PROVE  TypeInv'
<1>1. WorkersType /\ StoreType /\ MemoryType /\ PassType /\ OtherType
  BY TypeParts, Zenon
<1>2. UNCHANGED <<workers, storeVars, memVars>>
  BY Zenon DEF PassStart
<1>3. WorkersType' /\ StoreType' /\ MemoryType'
  BY <1>2, TypeFrame, Zenon
<1>4. PassType'
  BY Zenon, <1>1
     DEF PassStart, PassType, PassShape, Phase, worldVars
<1>5. OtherType'
  BY Zenon, <1>1
     DEF PassStart, OtherType, worldVars
<1> QED
  BY <1>3, <1>4, <1>5, TypePartsNext, Zenon

\* schedule() copying the queue keeps the types.
LEMMA TypeScheduleBegin ==
  ASSUME TypeInv, ScheduleBegin
  PROVE  TypeInv'
<1>1. WorkersType /\ StoreType /\ MemoryType /\ PassType /\ OtherType
  BY TypeParts, Zenon
<1>2. UNCHANGED <<workers, storeVars, memVars, idler, requested, session,
                  sent, asked, reported>>
  BY Zenon DEF ScheduleBegin, worldVars
<1>3. WorkersType' /\ StoreType' /\ MemoryType' /\ OtherType'
  BY <1>2, TypeFrame, Zenon
<1>4. PassType'
  BY Zenon, <1>1
     DEF ScheduleBegin, PassType, PassShape, Phase, Planning, MemoryType,
         worldVars
<1> QED
  BY <1>3, <1>4, TypePartsNext, Zenon

\* Dropping stale entries leaves a set of entries.
LEMMA SkipStaleType ==
  ASSUME NEW q \in SUBSET Entry
  PROVE  skipStale(q) \subseteq Entry
BY DEF skipStale

\* Selecting a worker for the top entry keeps the types.
LEMMA TypeScheduleSelect ==
  ASSUME TypeInv, NEW w \in Worker, ScheduleSelect(w)
  PROVE  TypeInv'
<1>1. pending' \subseteq Entry
  BY Zenon, SkipStaleType DEF ScheduleSelect, TypeInv, TypeOK
<1>2. nextRun' \in RunId
  <2>1. nextRun \in 1..(MaxRun + 1) /\ nextRun <= MaxRun /\ nextRun' = nextRun
    BY Zenon DEF ScheduleSelect, TypeInv, TypeOK, worldVars
  <2> QED
    BY <2>1, StoreAssumption DEF RunId
<1>3. picked' = w /\ pass' = "acquire"
  BY DEF ScheduleSelect
<1>4. pass' \in Phase
  BY <1>3 DEF Phase, Planning
<1> QED
  <2>1. WorkersType /\ StoreType /\ MemoryType /\ PassType /\ OtherType
    BY TypeParts, Zenon
  <2>2. UNCHANGED <<workers, storeVars, memVars, idler, requested, session,
                    sent, asked, reported>>
    BY Zenon DEF ScheduleSelect, worldVars
  <2>3. WorkersType' /\ StoreType' /\ MemoryType' /\ OtherType'
    BY <2>2, TypeFrame, Zenon
  <2>4. PassType'
    BY Zenon, <2>1, <1>1, <1>2, <1>3, <1>4
       DEF ScheduleSelect, PassType, PassShape, worldVars
  <2> QED
    BY <2>3, <2>4, TypePartsNext, Zenon

\* schedule() finding nothing to assign keeps the types.
LEMMA TypeScheduleStop ==
  ASSUME TypeInv, ScheduleStop
  PROVE  TypeInv'
<1>1. pending' \subseteq Entry
  BY Zenon, SkipStaleType DEF ScheduleStop, TypeInv, TypeOK
<1>2. pass' = "commit" /\ pass' \in Phase
  BY DEF ScheduleStop, Phase, Planning
<1> QED
  <2>1. WorkersType /\ StoreType /\ MemoryType /\ PassType /\ OtherType
    BY TypeParts, Zenon
  <2>2. UNCHANGED <<workers, storeVars, memVars, idler, requested, session,
                    sent, asked, reported>>
    BY Zenon DEF ScheduleStop, worldVars
  <2>3. WorkersType' /\ StoreType' /\ MemoryType' /\ OtherType'
    BY <2>2, TypeFrame, Zenon
  <2>4. PassType'
    BY Zenon, <2>1, <1>1, <1>2
       DEF ScheduleStop, PassType, PassShape, worldVars
  <2> QED
    BY <2>3, <2>4, TypePartsNext, Zenon

\* Taking a slot and preparing the assigned row keeps the types.
LEMMA TypeScheduleAcquire ==
  ASSUME TypeInv, ScheduleAcquire
  PROVE  TypeInv'
<1>1. picked \in Worker /\ nextRun \in RunId
  BY Zenon DEF ScheduleAcquire, TypeInv, PassShape
<1>2. WorkersType'
  BY Zenon, <1>1, WorkersTypes DEF ScheduleAcquire, TypeInv, TypeOK
<1>3. PICK e \in pending :
        /\ plan' = [plan EXCEPT ![e.task] = [worker |-> picked, run |-> nextRun]]
        /\ todo' = Append(todo, [task |-> e.task, worker |-> picked])
        /\ pending' = pending \ {e}
  BY Zenon DEF ScheduleAcquire
<1>4. e.task \in Task /\ pending' \subseteq Entry
  BY Zenon, <1>3 DEF TypeInv, TypeOK, Entry
<1>5. plan' \in [Task -> [worker : Worker, run : RunId] \cup {NoPlan}]
  BY Zenon, <1>1, <1>3, <1>4 DEF TypeInv, TypeOK
<1>6. todo' \in Seq(Assignment)
  <2>1. [task |-> e.task, worker |-> picked] \in Assignment
    BY Zenon, <1>1, <1>4 DEF Assignment
  <2>2. todo \in Seq(Assignment)
    BY Zenon DEF TypeInv, TypeOK
  <2> QED
    BY <1>3, <2>1, <2>2
<1>7. nextRun' \in 1..(MaxRun + 1)
  <2>1. nextRun' = nextRun + 1
    BY Zenon DEF ScheduleAcquire
  <2> QED
    BY <1>1, <2>1, StoreAssumption DEF RunId
<1>8. /\ pass' = "select" /\ pass' \in Phase
      /\ after' \in Worker \cup {NoWorker} /\ picked' \in Worker \cup {NoWorker}
  BY Zenon, <1>1 DEF ScheduleAcquire, Phase, Planning
<1> QED
  <2>1. WorkersType /\ StoreType /\ MemoryType /\ PassType /\ OtherType
    BY TypeParts, Zenon
  <2>2. UNCHANGED <<storeVars, memVars, idler, requested, session, sent,
                    asked, reported>>
    BY Zenon DEF ScheduleAcquire, worldVars
  <2>3. StoreType' /\ MemoryType' /\ OtherType'
    BY <2>2, TypeFrame, Zenon
  <2>4. PassType'
    BY Zenon, <2>1, <1>4, <1>5, <1>6, <1>7, <1>8
       DEF ScheduleAcquire, PassType, PassShape
  <2> QED
    BY <2>3, <1>2, <2>4, TypePartsNext, Zenon

\* Losing the slot to a concurrent change keeps the types.
LEMMA TypeScheduleAcquireFails ==
  ASSUME TypeInv, ScheduleAcquireFails
  PROVE  TypeInv'
<1>1. WorkersType /\ StoreType /\ MemoryType /\ PassType /\ OtherType
  BY TypeParts, Zenon
<1>2. UNCHANGED <<workers, storeVars, memVars, idler, requested, session,
                  sent, asked, reported>>
  BY Zenon DEF ScheduleAcquireFails, worldVars
<1>3. WorkersType' /\ StoreType' /\ MemoryType' /\ OtherType'
  BY <1>2, TypeFrame, Zenon
<1>4. PassType'
  BY Zenon, <1>1
     DEF ScheduleAcquireFails, PassType, PassShape, Phase, Planning, worldVars
<1> QED
  BY <1>3, <1>4, TypePartsNext, Zenon

\* Saving and publishing the whole plan keeps the types.
LEMMA TypeScheduleCommit ==
  ASSUME TypeInv, ScheduleCommit
  PROVE  TypeInv'
<1> DEFINE rows == [t \in planned |-> assignedRow(t)]
<1>1. ASSUME NEW t \in planned
      PROVE  assignedRow(t) \in TaskRow /\ RowShape(assignedRow(t))
  <2>1. /\ t \in Task /\ tasks[t] \in TaskRow
        /\ plan[t] \in [worker : Worker, run : RunId]
    BY Zenon DEF TypeInv, TypeOK, planned
  <2> QED
    BY Zenon, <2>1, Constants
       DEF assignedRow, TaskRow, TaskStatus, RowShape, Active
<1>2. /\ saveRows(rows, "")
      /\ tasks' = [t \in Task |-> IF t \in planned THEN assignedRow(t)
                                  ELSE tasks[t]]
  BY Zenon DEF ScheduleCommit
<1>3. /\ DOMAIN rows \subseteq Task
      /\ \A t \in DOMAIN rows : rows[t] \in TaskRow /\ RowShape(rows[t])
  BY Zenon, <1>1 DEF planned
<1>4. /\ db' \in [Task -> TaskRow]
      /\ \A u \in Task : RowShape(db'[u])
      /\ runs' \in [RunId -> RunRow]
  <2> HIDE DEF rows
  <2> QED
    BY Zenon, <1>2, <1>3, SaveRowsType DEF TypeInv, TypeOK, StoreType
<1>5. tasks' \in [Task -> TaskRow] /\ \A u \in Task : RowShape(tasks'[u])
  BY Zenon, <1>1, <1>2 DEF TypeInv, TypeOK
<1>6. pass' = "dispatch" /\ pass' \in Phase
  BY Zenon DEF ScheduleCommit, Phase
<1> QED
  <2>1. WorkersType /\ StoreType /\ MemoryType /\ PassType /\ OtherType
    BY TypeParts, Zenon
  <2>2. UNCHANGED <<workers, idler, requested, session, sent, asked, reported>>
    BY Zenon DEF ScheduleCommit, worldVars
  <2>3. WorkersType' /\ OtherType'
    BY <2>2, TypeFrame, Zenon
  <2>4. StoreType'
    BY Zenon, <2>1, <1>4
       DEF ScheduleCommit, StoreType
  <2>5. MemoryType'
    BY Zenon, <2>1, <1>5
       DEF ScheduleCommit, MemoryType, PassType
  <2>6. PassType'
    BY Zenon, <2>1, <1>6
       DEF ScheduleCommit, PassType, PassShape, worldVars
  <2> QED
    BY <2>3, <2>4, <2>5, <2>6, TypePartsNext, Zenon

\* An exception inside schedule() keeps the types.
LEMMA TypeScheduleThrows ==
  ASSUME TypeInv, ScheduleThrows
  PROVE  TypeInv'
<1>1. WorkersType /\ StoreType /\ MemoryType /\ PassType /\ OtherType
  BY TypeParts, Zenon
<1>2. UNCHANGED <<workers, storeVars, memVars, idler, requested, session,
                  sent, asked, reported>>
  BY Zenon DEF ScheduleThrows, worldVars
<1>3. WorkersType' /\ StoreType' /\ MemoryType' /\ OtherType'
  BY <1>2, TypeFrame, Zenon
<1>4. PassType'
  BY Zenon, <1>1
     DEF ScheduleThrows, PassType, PassShape, Phase, Planning, worldVars
<1> QED
  BY <1>3, <1>4, TypePartsNext, Zenon

\* The head and the tail of the assignments that are still to be handled.
LEMMA TodoType ==
  ASSUME TypeOK, todo # <<>>
  PROVE  Head(todo) \in Assignment /\ Tail(todo) \in Seq(Assignment)
BY DEF TypeOK

\* Giving back one slot of a failed plan keeps the types.
LEMMA TypeScheduleUndo ==
  ASSUME TypeInv, ScheduleUndo
  PROVE  TypeInv'
<1>1. Head(todo) \in Assignment /\ todo' \in Seq(Assignment)
  BY Zenon, TodoType DEF TypeInv, ScheduleUndo
<1>2. Head(todo).task \in Task /\ Head(todo).worker \in Worker
  BY <1>1 DEF Assignment
<1>3. WorkersType'
  BY Zenon, <1>2, WorkersTypes DEF ScheduleUndo, TypeInv, TypeOK
<1>4. plan' \in [Task -> [worker : Worker, run : RunId] \cup {NoPlan}]
  BY Zenon, <1>2 DEF ScheduleUndo, TypeInv, TypeOK
<1> QED
  <2>1. WorkersType /\ StoreType /\ MemoryType /\ PassType /\ OtherType
    BY TypeParts, Zenon
  <2>2. UNCHANGED <<storeVars, memVars, idler, requested, session, sent,
                    asked, reported>>
    BY Zenon DEF ScheduleUndo, worldVars
  <2>3. StoreType' /\ MemoryType' /\ OtherType'
    BY <2>2, TypeFrame, Zenon
  <2>4. PassType'
    BY Zenon, <2>1, <1>1, <1>4
       DEF ScheduleUndo, PassType, PassShape, worldVars
  <2> QED
    BY <2>3, <1>3, <2>4, TypePartsNext, Zenon

\* Leaving schedule() with the exception keeps the types.
LEMMA TypeScheduleRethrow ==
  ASSUME TypeInv, ScheduleRethrow
  PROVE  TypeInv'
<1>1. WorkersType /\ StoreType /\ MemoryType /\ PassType /\ OtherType
  BY TypeParts, Zenon
<1>2. UNCHANGED <<workers, storeVars, memVars, idler, requested, session,
                  sent, asked, reported>>
  BY Zenon DEF ScheduleRethrow, worldVars
<1>3. WorkersType' /\ StoreType' /\ MemoryType' /\ OtherType'
  BY <1>2, TypeFrame, Zenon
<1>4. PassType'
  BY Zenon, <1>1
     DEF ScheduleRethrow, PassType, PassShape, Phase, worldVars
<1> QED
  BY <1>3, <1>4, TypePartsNext, Zenon

\* The claim of an assignment that is still in place is complete.
LEMMA ClaimType ==
  ASSUME TypeOK, todo # <<>>, claimable(Head(todo))
  PROVE  [task |-> Head(todo).task, worker |-> Head(todo).worker,
          run |-> tasks[Head(todo).task].run]
            \in [task : Task, worker : Worker, run : RunId]
<1>1. Head(todo).task \in Task /\ Head(todo).worker \in Worker
  BY TodoType DEF Assignment
<1>2. /\ tasks[Head(todo).task] \in TaskRow
      /\ RowShape(tasks[Head(todo).task])
      /\ tasks[Head(todo).task].status = "ASSIGNED"
  BY Zenon, <1>1 DEF TypeOK, claimable
<1>3. tasks[Head(todo).task].run \in RunId
  BY Zenon, <1>2 DEF TaskRow, RowShape, Active
<1> QED
  BY Zenon, <1>1, <1>3

\* Claiming an assignment for dispatch keeps the types.
LEMMA TypeDispatchClaim ==
  ASSUME TypeInv, DispatchClaim \/ DispatchClaimThrows
  PROVE  TypeInv'
<1>1. todo # <<>> /\ claimable(Head(todo)) /\ todo' = Tail(todo)
  BY Zenon DEF DispatchClaim, DispatchClaimThrows
<1>2. current' \in [task : Task, worker : Worker, run : RunId]
  BY Zenon, <1>1, ClaimType DEF DispatchClaim, DispatchClaimThrows, TypeInv
<1>3. todo' \in Seq(Assignment) /\ Head(todo).task \in Task
  BY Zenon, <1>1, TodoType DEF TypeInv, Assignment
<1>4. dispatching' \subseteq Task
  BY Zenon, <1>3
     DEF DispatchClaim, DispatchClaimThrows, TypeInv, TypeOK, memVars
<1>5. pass' \in {"send", "rollback"} /\ pass' \in Phase
  BY Zenon DEF DispatchClaim, DispatchClaimThrows, Phase
<1>6. current' \in [task : Task \cup {NoTask}, worker : Worker \cup {NoWorker},
                   run : RunId \cup {NoRun}]
  BY <1>2
<1>7. PassShape'
  BY Zenon, <1>2, <1>5 DEF PassShape
<1>8. UNCHANGED <<workers, storeVars, tasks, queue, stopped, quarantined,
                  reconciling, nextSeq, lastSelected, idler, pending, plan,
                  after, picked, requested, session, worldVars>>
  BY Zenon DEF DispatchClaim, DispatchClaimThrows, memVars
<1> QED
  <2>1. WorkersType /\ StoreType /\ MemoryType /\ PassType /\ OtherType
    BY TypeParts, Zenon
  <2>2. UNCHANGED <<workers, storeVars, idler, requested, session, sent,
                    asked, reported>>
    BY Zenon DEF DispatchClaim, DispatchClaimThrows, worldVars
  <2>3. WorkersType' /\ StoreType' /\ OtherType'
    BY <2>2, TypeFrame, Zenon
  <2>4. MemoryType'
    BY Zenon, <2>1, <1>4, <1>8
       DEF DispatchClaim, DispatchClaimThrows, MemoryType
  <2>5. PassType'
    BY Zenon, <2>1, <1>3, <1>5, <1>6, <1>7, <1>8
       DEF DispatchClaim, DispatchClaimThrows, PassType, worldVars
  <2> QED
    BY <2>3, <2>4, <2>5, TypePartsNext, Zenon

\* Skipping an assignment that is no longer owned keeps the types.
LEMMA TypeDispatchSkip ==
  ASSUME TypeInv, DispatchSkip
  PROVE  TypeInv'
<1>1. todo' \in Seq(Assignment)
  BY Zenon, TodoType DEF TypeInv, DispatchSkip
<1> QED
  <2>1. WorkersType /\ StoreType /\ MemoryType /\ PassType /\ OtherType
    BY TypeParts, Zenon
  <2>2. UNCHANGED <<workers, storeVars, memVars, idler, requested, session,
                    sent, asked, reported>>
    BY Zenon DEF DispatchSkip, worldVars
  <2>3. WorkersType' /\ StoreType' /\ MemoryType' /\ OtherType'
    BY <2>2, TypeFrame, Zenon
  <2>4. PassType'
    BY Zenon, <2>1, <1>1
       DEF DispatchSkip, PassType, PassShape, worldVars
  <2> QED
    BY <2>3, <2>4, TypePartsNext, Zenon

\* Queueing TASK_ASSIGN on the connection keeps the types.
LEMMA TypeDispatchSend ==
  ASSUME TypeInv, DispatchSend
  PROVE  TypeInv'
<1>1. current.run \in RunId
  BY Zenon DEF DispatchSend, TypeInv, PassShape
<1>2. sent' \subseteq RunId
  BY Zenon, <1>1 DEF DispatchSend, TypeInv, TypeOK
<1> QED
  <2>1. WorkersType /\ StoreType /\ MemoryType /\ PassType /\ OtherType
    BY TypeParts, Zenon
  <2>2. UNCHANGED <<workers, storeVars, memVars>>
    BY Zenon DEF DispatchSend
  <2>3. WorkersType' /\ StoreType' /\ MemoryType'
    BY <2>2, TypeFrame, Zenon
  <2>4. PassType'
    BY Zenon, <2>1
       DEF DispatchSend, PassType, PassShape, Phase
  <2>5. OtherType'
    BY Zenon, <2>1, <1>2
       DEF DispatchSend, OtherType
  <2> QED
    BY <2>3, <2>4, <2>5, TypePartsNext, Zenon

\* The claim that stands for none.
LEMMA NoClaimType ==
  NoClaim \in [task : Task \cup {NoTask}, worker : Worker \cup {NoWorker},
              run : RunId \cup {NoRun}]
BY Zenon DEF NoClaim

\* Releasing the claim after an accepted send keeps the types.
LEMMA TypeDispatchReturn ==
  ASSUME TypeInv, DispatchReturn
  PROVE  TypeInv'
<1>1. WorkersType /\ StoreType /\ MemoryType /\ PassType /\ OtherType
  BY TypeParts, Zenon
<1>2. UNCHANGED <<workers, storeVars, idler, requested, session, sent, asked,
                  reported>>
  BY Zenon DEF DispatchReturn, worldVars
<1>3. WorkersType' /\ StoreType' /\ OtherType'
  BY <1>2, TypeFrame, Zenon
<1>4. MemoryType'
  BY Zenon, <1>1
     DEF DispatchReturn, MemoryType
<1>5. PassType'
  BY Zenon, <1>1, NoClaimType
     DEF DispatchReturn, PassType, PassShape, Phase, worldVars
<1> QED
  BY <1>3, <1>4, <1>5, TypePartsNext, Zenon

\* Releasing the claim after a failed send keeps the types.
LEMMA TypeDispatchFail ==
  ASSUME TypeInv, DispatchFail
  PROVE  TypeInv'
<1>1. WorkersType /\ StoreType /\ MemoryType /\ PassType /\ OtherType
  BY TypeParts, Zenon
<1>2. UNCHANGED <<workers, storeVars, idler, requested, session, sent, asked,
                  reported>>
  BY Zenon DEF DispatchFail, worldVars
<1>3. WorkersType' /\ StoreType' /\ OtherType'
  BY <1>2, TypeFrame, Zenon
<1>4. MemoryType'
  BY Zenon, <1>1
     DEF DispatchFail, MemoryType
<1>5. PassType'
  BY Zenon, <1>1
     DEF DispatchFail, PassType, PassShape, Phase, worldVars
<1> QED
  BY <1>3, <1>4, <1>5, TypePartsNext, Zenon

\* A failed dispatch leaves a queued or cancelled row without a worker.
LEMMA RolledBackRowType ==
  ASSUME TypeOK, NEW t \in Task
  PROVE  rolledBackRow(t) \in TaskRow /\ RowShape(rolledBackRow(t))
<1>1. tasks[t] \in TaskRow /\ nextSeq \in Nat
  BY Zenon DEF TypeOK
<1> QED
  BY Zenon, <1>1
     DEF rolledBackRow, TaskRow, TaskStatus, RowShape, Active, Terminal

\* Rolling an unsent assignment back keeps the types.
LEMMA TypeRollback ==
  ASSUME TypeInv, rollbackAssignment
  PROVE  TypeInv'
<1> DEFINE t == current.task
<1>1. t \in Task
  BY Zenon DEF rollbackAssignment, TypeInv, PassShape
<1>2. rolledBackRow(t) \in TaskRow /\ RowShape(rolledBackRow(t))
  BY <1>1, RolledBackRowType DEF TypeInv
<1>3. tasks[t].worker \in Worker
  <2>1. tasks[t] \in TaskRow /\ canRollback(t)
    BY Zenon, <1>1 DEF TypeInv, TypeOK, rollbackAssignment
  <2> QED
    BY Zenon, <2>1 DEF TaskRow, canRollback
<1>4. WorkersType'
  BY Zenon, <1>3, WorkersTypes DEF rollbackAssignment, TypeInv, TypeOK
<1>5. /\ db' \in [Task -> TaskRow]
      /\ \A u \in Task : RowShape(db'[u])
      /\ runs' \in [RunId -> RunRow]
  <2>1. saveOne(t, rolledBackRow(t), "DISPATCH_FAILED")
    BY Zenon DEF rollbackAssignment
  <2>2. "DISPATCH_FAILED" \in RunStatus \cup {""}
    BY Zenon DEF RunStatus
  <2>3. /\ db \in [Task -> TaskRow] /\ \A u \in Task : RowShape(db[u])
        /\ runs \in [RunId -> RunRow]
    BY Zenon DEF TypeInv, TypeOK, StoreType
  <2> QED
    BY Zenon, <1>1, <1>2, <2>1, <2>2, <2>3, SaveOneType
<1>6. tasks' \in [Task -> TaskRow] /\ \A u \in Task : RowShape(tasks'[u])
  <2>1. tasks' = [tasks EXCEPT ![t] = rolledBackRow(t)] \/ tasks' = tasks
    BY Zenon DEF rollbackAssignment
  <2> QED
    BY Zenon, <1>1, <1>2, <2>1 DEF TypeInv, TypeOK
<1>7. queue' \subseteq Entry
  <2>1. \/ queue' = queue \cup {[task |-> t, seq |-> nextSeq]}
        \/ queue' = queue
    BY Zenon DEF rollbackAssignment
  <2>2. queue \in SUBSET Entry /\ nextSeq \in Nat
    BY Zenon DEF TypeInv, TypeOK
  <2> QED
    BY Zenon, <1>1, <2>1, <2>2, EnqueueType
<1>8. nextSeq' \in Nat
  <2>1. nextSeq' = nextSeq + 1 \/ nextSeq' = nextSeq
    BY Zenon DEF rollbackAssignment
  <2>2. nextSeq \in Nat
    BY Zenon DEF TypeInv, TypeOK
  <2> QED
    BY <2>1, <2>2
<1>9. todo' \in Seq(Assignment)
  <2>1. todo' = todo \/ todo' = <<>>
    BY Zenon DEF rollbackAssignment
  <2>2. <<>> \in Seq(Assignment)
    OBVIOUS
  <2> QED
    BY Zenon, <2>1, <2>2 DEF TypeInv, TypeOK
<1>10. current' = NoClaim /\ pass' \in {"dispatch", "idle"} /\ pass' \in Phase
  BY Zenon DEF rollbackAssignment, Phase
<1>11. UNCHANGED <<decisions, stopRows, keys, dispatching, stopped,
                   quarantined, reconciling, lastSelected, idler, pending,
                   plan, after, picked, requested, session, worldVars>>
  BY Zenon DEF rollbackAssignment
<1> QED
  <2>1. WorkersType /\ StoreType /\ MemoryType /\ PassType /\ OtherType
    BY TypeParts, Zenon
  <2>2. UNCHANGED <<idler, requested, session, sent, asked, reported>>
    BY Zenon DEF rollbackAssignment, worldVars
  <2>3. OtherType'
    BY <2>2, TypeFrame, Zenon
  <2>4. StoreType'
    BY Zenon, <2>1, <1>5, <1>11
       DEF rollbackAssignment, StoreType
  <2>5. MemoryType'
    BY Zenon, <2>1, <1>6, <1>7, <1>8, <1>11
       DEF rollbackAssignment, MemoryType
  <2>6. PassType'
    BY Zenon, <2>1, <1>9, <1>10, <1>11, NoClaimType
       DEF rollbackAssignment, PassType, PassShape, worldVars
  <2> QED
    BY <2>3, <1>4, <2>4, <2>5, <2>6, TypePartsNext, Zenon

\* A rollback that is refused, or throws, keeps the types.
LEMMA TypeRollbackRefused ==
  ASSUME TypeInv, RollbackRefused \/ RollbackThrows
  PROVE  TypeInv'
<1>0. <<>> \in Seq(Assignment)
  OBVIOUS
<1>1. todo' \in Seq(Assignment) /\ current' = NoClaim
  BY Zenon, <1>0 DEF RollbackRefused, RollbackThrows, TypeInv, TypeOK
<1>2. pass' \in {"dispatch", "idle"} /\ pass' \in Phase
  BY Zenon DEF RollbackRefused, RollbackThrows, Phase
<1>3. UNCHANGED <<workers, storeVars, memVars, idler, pending, plan, after,
                  picked, requested, session, worldVars>>
  BY Zenon DEF RollbackRefused, RollbackThrows
<1> QED
  <2>1. WorkersType /\ StoreType /\ MemoryType /\ PassType /\ OtherType
    BY TypeParts, Zenon
  <2>2. UNCHANGED <<workers, storeVars, memVars, idler, requested, session,
                    sent, asked, reported>>
    BY Zenon DEF RollbackRefused, RollbackThrows, worldVars
  <2>3. WorkersType' /\ StoreType' /\ MemoryType' /\ OtherType'
    BY <2>2, TypeFrame, Zenon
  <2>4. PassType'
    BY Zenon, <2>1, <1>1, <1>2, <1>3, NoClaimType
       DEF RollbackRefused, RollbackThrows, PassType, PassShape, worldVars
  <2> QED
    BY <2>3, <2>4, TypePartsNext, Zenon

\* The end of a coordinator pass keeps the types.
LEMMA TypePassEnd ==
  ASSUME TypeInv, PassEnd
  PROVE  TypeInv'
<1>1. WorkersType /\ StoreType /\ MemoryType /\ PassType /\ OtherType
  BY TypeParts, Zenon
<1>2. UNCHANGED <<workers, storeVars, memVars, idler, requested, session,
                  sent, asked, reported>>
  BY Zenon DEF PassEnd, worldVars
<1>3. WorkersType' /\ StoreType' /\ MemoryType' /\ OtherType'
  BY <1>2, TypeFrame, Zenon
<1>4. PassType'
  BY Zenon, <1>1
     DEF PassEnd, PassType, PassShape, Phase, worldVars
<1> QED
  BY <1>3, <1>4, TypePartsNext, Zenon

-----------------------------------------------------------------------------
(* Messages of the workers.                                                *)

\* TASK_START, accepted or refused, keeps the types.
LEMMA TypeTaskStart ==
  ASSUME TypeInv, NEW t \in Task, NEW w \in Worker, NEW r \in RunId,
         TaskStart(t, w, r)
  PROVE  TypeInv'
<1>1. asked' \subseteq RunId
  BY Zenon DEF TaskStart, TypeInv, TypeOK
<1>2. /\ tasks' \in [Task -> TaskRow] /\ \A u \in Task : RowShape(tasks'[u])
      /\ db' \in [Task -> TaskRow] /\ \A u \in Task : RowShape(db'[u])
      /\ runs' \in [RunId -> RunRow]
  <2>1. CASE startable(t, w, r)
    <3> DEFINE row == [tasks[t] EXCEPT !.status = "RUNNING"]
    <3>1. /\ tasks[t] \in TaskRow /\ RowShape(tasks[t])
          /\ tasks[t].status = "ASSIGNED"
      BY Zenon, <2>1 DEF TypeInv, TypeOK, startable
    <3>2. row \in TaskRow /\ RowShape(row)
      BY <3>1 DEF TaskRow, TaskStatus, RowShape, Active
    <3>3. saveOne(t, row, "") /\ tasks' = [tasks EXCEPT ![t] = row]
      BY <2>1 DEF TaskStart
    <3> HIDE DEF row
    <3>4. tasks' \in [Task -> TaskRow] /\ \A u \in Task : RowShape(tasks'[u])
      BY Zenon, <3>2, <3>3 DEF TypeInv, TypeOK
    <3> QED
      BY Zenon, <3>2, <3>3, <3>4, SaveOneType DEF TypeInv, TypeOK, StoreType
  <2>2. CASE ~ startable(t, w, r)
    BY Zenon, <2>2 DEF TaskStart, TypeInv, TypeOK, StoreType
  <2> QED
    BY Zenon, <2>1, <2>2
<1> QED
  <2>1. WorkersType /\ StoreType /\ MemoryType /\ PassType /\ OtherType
    BY TypeParts, Zenon
  <2>2. UNCHANGED <<workers, passVars, nextRun>>
    BY Zenon DEF TaskStart, worldVars
  <2>3. WorkersType' /\ PassType'
    BY <2>2, TypeFrame, Zenon
  <2>4. StoreType'
    BY Zenon, <2>1, <1>2
       DEF TaskStart, StoreType
  <2>5. MemoryType'
    BY Zenon, <2>1, <1>2
       DEF TaskStart, MemoryType
  <2>6. OtherType'
    BY Zenon, <2>1, <1>1
       DEF TaskStart, OtherType
  <2> QED
    BY <2>3, <2>4, <2>5, <2>6, TypePartsNext, Zenon

\* completeTask keeps the types.
LEMMA CompleteType ==
  ASSUME TypeInv, NEW t \in Task,
         NEW result \in {"SUCCEEDED", "FAILED", "TIMEOUT"},
         tasks[t].status = "RUNNING", completeTask(t, result)
  PROVE  /\ WorkersType'
         /\ tasks' \in [Task -> TaskRow] /\ \A u \in Task : RowShape(tasks'[u])
         /\ db' \in [Task -> TaskRow] /\ \A u \in Task : RowShape(db'[u])
         /\ runs' \in [RunId -> RunRow]
         /\ quarantined' \subseteq Worker
         /\ requested' \in BOOLEAN
<1> DEFINE row == [tasks[t] EXCEPT !.status = result, !.recovery = FALSE]
<1>1. /\ tasks[t] \in TaskRow /\ RowShape(tasks[t])
      /\ tasks[t].status = "RUNNING"
  BY Zenon DEF TypeInv, TypeOK
<1>2. row \in TaskRow /\ RowShape(row) /\ tasks[t].worker \in Worker
  BY Zenon, <1>1 DEF TaskRow, TaskStatus, RowShape, Active, Terminal
<1>3. saveOne(t, row, "") /\ tasks' = [tasks EXCEPT ![t] = row]
  BY DEF completeTask
<1> HIDE DEF row
<1>4. tasks' \in [Task -> TaskRow] /\ \A u \in Task : RowShape(tasks'[u])
  BY Zenon, <1>2, <1>3 DEF TypeInv, TypeOK
<1>5. WorkersType'
  <2>1. UNCHANGED workers \/ releaseSlot(tasks[t].worker)
    BY Zenon DEF completeTask
  <2> QED
    BY Zenon, <1>2, <2>1, WorkersTypes DEF TypeInv, TypeOK, WorkersType
<1>6. quarantined' \subseteq Worker
  BY Zenon DEF completeTask, releaseRecoveryHold, TypeInv, TypeOK
<1>7. requested' \in BOOLEAN
  BY DEF completeTask
<1> QED
  BY Zenon, <1>2, <1>3, <1>4, <1>5, <1>6, <1>7, SaveOneType
     DEF TypeInv, TypeOK, StoreType

\* TASK_RESULT, accepted or refused, keeps the types.
LEMMA TypeTaskResult ==
  ASSUME TypeInv, NEW t \in Task, NEW w \in Worker, NEW r \in RunId,
         NEW result \in {"SUCCEEDED", "FAILED", "TIMEOUT"},
         TaskResult(t, w, r, result)
  PROVE  TypeInv'
<1>1. reported' \subseteq RunId
  BY Zenon DEF TaskResult, TypeInv, TypeOK
<1>2. /\ WorkersType'
      /\ tasks' \in [Task -> TaskRow] /\ \A u \in Task : RowShape(tasks'[u])
      /\ db' \in [Task -> TaskRow] /\ \A u \in Task : RowShape(db'[u])
      /\ runs' \in [RunId -> RunRow]
      /\ quarantined' \subseteq Worker
      /\ requested' \in BOOLEAN
  <2>1. CASE finishable(t, w, r)
    <3>1. tasks[t].status = "RUNNING" /\ completeTask(t, result)
      BY Zenon, <2>1 DEF TaskResult, finishable
    <3> QED
      BY Zenon, <3>1, CompleteType
  <2>2. CASE ~ finishable(t, w, r)
    BY Zenon, <2>2 DEF TaskResult, TypeInv, TypeOK, StoreType, WorkersType
  <2> QED
    BY Zenon, <2>1, <2>2
<1> QED
  <2>1. WorkersType /\ StoreType /\ MemoryType /\ PassType /\ OtherType
    BY TypeParts, Zenon
  <2>2. UNCHANGED <<passVars, nextRun>>
    BY Zenon DEF TaskResult, worldVars
  <2>3. PassType'
    BY <2>2, TypeFrame, Zenon
  <2>4. StoreType'
    BY Zenon, <2>1, <1>2
       DEF TaskResult, StoreType
  <2>5. MemoryType'
    BY Zenon, <2>1, <1>2
       DEF TaskResult, MemoryType
  <2>6. OtherType'
    BY Zenon, <2>1, <1>1, <1>2
       DEF TaskResult, OtherType
  <2> QED
    BY <2>3, <1>2, <2>4, <2>5, <2>6, TypePartsNext, Zenon

\* What recoverLost makes of an active task is a well formed row, and names
\* one of the three decisions.
LEMMA LostRowType ==
  ASSUME TypeOK, NEW t \in Task, tasks[t].status \in Active
  PROVE  /\ lostRow(t) \in TaskRow /\ RowShape(lostRow(t))
         /\ lostAction(lostRow(t)) \in {"requeued", "failed", "cancelled"}
<1>1. tasks[t] \in TaskRow /\ RowShape(tasks[t]) /\ nextSeq \in Nat
  BY Zenon DEF TypeOK
<1>2. lostRow(t) \in TaskRow
  <2>1. /\ lostRow(t).status \in TaskStatus
        /\ lostRow(t).worker \in Worker \cup {NoWorker}
    BY <1>1 DEF lostRow, TaskRow, TaskStatus, Active, Terminal
  <2>2. lostRow(t).retry \in Nat /\ lostRow(t).seq \in Nat
    BY <1>1 DEF lostRow, TaskRow
  <2>3. lostRow(t).run \in RunId \cup {NoRun} /\ lostRow(t).recovery = FALSE
    BY <1>1 DEF lostRow, TaskRow
  <2>4. lostRow(t) = [status |-> lostRow(t).status, worker |-> lostRow(t).worker,
                     retry |-> lostRow(t).retry, seq |-> lostRow(t).seq,
                     run |-> lostRow(t).run, recovery |-> lostRow(t).recovery]
    BY DEF lostRow
  <2> HIDE DEF lostRow
  <2> QED
    BY Zenon, <2>1, <2>2, <2>3, <2>4 DEF TaskRow
<1>3. lostRow(t).status \in {"QUEUED", "CANCELLED", "FAILED"}
  BY Zenon DEF lostRow
<1>4. RowShape(lostRow(t))
  BY Zenon DEF lostRow, RowShape, Active
<1>5. lostAction(lostRow(t)) \in {"requeued", "failed", "cancelled"}
  BY <1>3 DEF lostAction
<1> QED
  BY Zenon, <1>2, <1>4, <1>5

\* Settling a lost run (requeue, fail or cancel) keeps the types.
LEMMA RecoverLostType ==
  ASSUME TypeInv, NEW t \in Task, tasks[t].status \in Active, recoverLost(t)
  PROVE  /\ WorkersType'
         /\ tasks' \in [Task -> TaskRow] /\ \A u \in Task : RowShape(tasks'[u])
         /\ db' \in [Task -> TaskRow] /\ \A u \in Task : RowShape(db'[u])
         /\ runs' \in [RunId -> RunRow]
         /\ decisions' \in [RunId -> Decision]
         /\ queue' \subseteq Entry
         /\ nextSeq' \in Nat
<1> DEFINE row == lostRow(t)
           w   == tasks[t].worker
           r   == tasks[t].run
<1>1. /\ row \in TaskRow /\ RowShape(row)
      /\ lostAction(row) \in {"requeued", "failed", "cancelled"}
  BY Zenon, LostRowType DEF TypeInv
<1>2. w \in Worker /\ r \in RunId
  <2>1. tasks[t] \in TaskRow /\ RowShape(tasks[t])
    BY Zenon DEF TypeInv, TypeOK
  <2> QED
    BY Zenon, <2>1 DEF TaskRow, RowShape
<1>3. saveOne(t, row, "FAILED") /\ tasks' = [tasks EXCEPT ![t] = row]
  BY Zenon DEF recoverLost
<1>4. decisions' \in [RunId -> Decision]
  <2>1. [task |-> t, worker |-> w, action |-> lostAction(row)] \in Decision
    BY Zenon, <1>1, <1>2 DEF Decision
  <2>2. decisions' = [decisions EXCEPT ![r] =
                        [task |-> t, worker |-> w, action |-> lostAction(row)]]
    BY Zenon DEF recoverLost
  <2> QED
    BY Zenon, <1>2, <2>1, <2>2 DEF TypeInv, TypeOK, StoreType
<1>5. WorkersType'
  <2>1. UNCHANGED workers \/ releaseSlot(w)
    BY Zenon DEF recoverLost
  <2> QED
    BY Zenon, <1>2, <2>1, WorkersTypes DEF TypeInv, TypeOK, WorkersType
<1>6. /\ queue' \subseteq Entry
      /\ nextSeq' \in Nat
  <2>1. \/ queue' = queue \cup {[task |-> t, seq |-> nextSeq]}
           /\ nextSeq' = nextSeq + 1
        \/ queue' = queue /\ nextSeq' = nextSeq
    BY Zenon DEF recoverLost
  <2>2. queue \in SUBSET Entry /\ nextSeq \in Nat
    BY Zenon DEF TypeInv, TypeOK
  <2> QED
    BY <2>1, <2>2, EnqueueType
<1> HIDE DEF row
<1>7. tasks' \in [Task -> TaskRow] /\ \A u \in Task : RowShape(tasks'[u])
  BY Zenon, <1>1, <1>3 DEF TypeInv, TypeOK
<1>8. /\ db' \in [Task -> TaskRow] /\ \A u \in Task : RowShape(db'[u])
      /\ runs' \in [RunId -> RunRow]
  <2>1. "FAILED" \in RunStatus \cup {""}
    BY Zenon DEF RunStatus
  <2> QED
    BY Zenon, <1>1, <1>3, <2>1, SaveOneType DEF TypeInv, TypeOK, StoreType
<1> QED
  BY Zenon, <1>4, <1>5, <1>6, <1>7, <1>8

\* WORKER_RECOVER "lost" keeps the types.
LEMMA TypeRecoverLost ==
  ASSUME TypeInv, NEW t \in Task, NEW w \in Worker, NEW r \in RunId,
         RecoverLost(t, w, r)
  PROVE  TypeInv'
<1>1. tasks[t].status \in Active /\ recoverLost(t)
  BY Zenon DEF RecoverLost, lostAccepted, claimsActive
<1>2. reconciling' \subseteq Worker
  BY Zenon DEF RecoverLost, TypeInv, TypeOK
<1>3. UNCHANGED <<stopRows, keys, dispatching, stopped, quarantined,
                  lastSelected, idler, passVars, requested, session,
                  worldVars>>
  BY Zenon DEF RecoverLost
<1>4. /\ WorkersType'
      /\ tasks' \in [Task -> TaskRow] /\ \A u \in Task : RowShape(tasks'[u])
      /\ queue' \subseteq Entry /\ nextSeq' \in Nat
  BY Zenon, <1>1, RecoverLostType
<1>5. StoreType'
  BY Zenon, <1>1, <1>3, RecoverLostType DEF TypeInv, TypeOK, StoreType
<1> QED
  <2>1. WorkersType /\ StoreType /\ MemoryType /\ PassType /\ OtherType
    BY TypeParts, Zenon
  <2>2. UNCHANGED <<passVars, nextRun, idler, requested, session, sent, asked,
                    reported>>
    BY Zenon DEF RecoverLost, worldVars
  <2>3. PassType' /\ OtherType'
    BY <2>2, TypeFrame, Zenon
  <2>4. MemoryType'
    BY Zenon, <2>1, <1>2, <1>3, <1>4
       DEF RecoverLost, MemoryType
  <2> QED
    BY <2>3, <1>4, <1>5, <2>4, TypePartsNext, Zenon

\* WORKER_RECOVER "lost" whose save throws keeps the types.
LEMMA TypeRecoverLostThrows ==
  ASSUME TypeInv, NEW t \in Task, NEW w \in Worker, NEW r \in RunId,
         RecoverLostThrows(t, w, r)
  PROVE  TypeInv'
<1>1. WorkersType /\ StoreType /\ MemoryType /\ PassType /\ OtherType
  BY TypeParts, Zenon
<1>2. UNCHANGED <<workers, storeVars, passVars, nextRun, idler, requested,
                  session, sent, asked, reported>>
  BY Zenon DEF RecoverLostThrows, worldVars
<1>3. WorkersType' /\ StoreType' /\ PassType' /\ OtherType'
  BY <1>2, TypeFrame, Zenon
<1>4. MemoryType'
  BY Zenon, <1>1
     DEF RecoverLostThrows, MemoryType
<1> QED
  BY <1>3, <1>4, TypePartsNext, Zenon

\* WORKER_RECOVER "active" keeps the types.
LEMMA TypeRecoverActive ==
  ASSUME TypeInv, NEW t \in Task, NEW w \in Worker, NEW r \in RunId,
         RecoverActive(t, w, r)
  PROVE  TypeInv'
<1>1. WorkersType /\ StoreType /\ MemoryType /\ PassType /\ OtherType
  BY TypeParts, Zenon
<1>2. UNCHANGED <<workers, storeVars, passVars, nextRun, idler, requested,
                  session, sent, asked, reported>>
  BY Zenon DEF RecoverActive, worldVars
<1>3. WorkersType' /\ StoreType' /\ PassType' /\ OtherType'
  BY <1>2, TypeFrame, Zenon
<1>4. MemoryType'
  BY Zenon, <1>1
     DEF RecoverActive, MemoryType
<1> QED
  BY <1>3, <1>4, TypePartsNext, Zenon

\* The start of WORKER_RECOVER "idle" keeps the types.
LEMMA TypeRecoverIdle ==
  ASSUME TypeInv, NEW w \in Worker, RecoverIdle(w)
  PROVE  TypeInv'
<1>1. WorkersType /\ StoreType /\ MemoryType /\ PassType /\ OtherType
  BY TypeParts, Zenon
<1>2. UNCHANGED <<workers, storeVars, memVars, passVars, nextRun>>
  BY Zenon DEF RecoverIdle, worldVars
<1>3. WorkersType' /\ StoreType' /\ MemoryType' /\ PassType'
  BY <1>2, TypeFrame, Zenon
<1>4. OtherType'
  BY Zenon, <1>1
     DEF RecoverIdle, OtherType, worldVars
<1> QED
  BY <1>3, <1>4, TypePartsNext, Zenon

\* Settling one assigned task of an idle worker keeps the types.
LEMMA TypeIdleRequeue ==
  ASSUME TypeInv, NEW t \in Task, IdleRequeue(t)
  PROVE  TypeInv'
<1>1. tasks[t].status \in Active /\ recoverLost(t)
  BY Zenon DEF IdleRequeue, Active
<1>2. UNCHANGED <<stopRows, keys, dispatching, stopped, quarantined,
                  reconciling, lastSelected, idler, passVars, requested, session,
                  worldVars>>
  BY Zenon DEF IdleRequeue
<1>3. /\ WorkersType'
      /\ tasks' \in [Task -> TaskRow] /\ \A u \in Task : RowShape(tasks'[u])
      /\ queue' \subseteq Entry /\ nextSeq' \in Nat
  BY Zenon, <1>1, RecoverLostType
<1>4. StoreType'
  BY Zenon, <1>1, <1>2, RecoverLostType DEF TypeInv, TypeOK, StoreType
<1> QED
  <2>1. WorkersType /\ StoreType /\ MemoryType /\ PassType /\ OtherType
    BY TypeParts, Zenon
  <2>2. UNCHANGED <<passVars, nextRun, idler, requested, session, sent, asked,
                    reported>>
    BY Zenon DEF IdleRequeue, worldVars
  <2>3. PassType' /\ OtherType'
    BY <2>2, TypeFrame, Zenon
  <2>4. MemoryType'
    BY Zenon, <2>1, <1>2, <1>3
       DEF IdleRequeue, MemoryType
  <2> QED
    BY <2>3, <1>3, <1>4, <2>4, TypePartsNext, Zenon

\* An idle recovery that stays quarantined keeps the types.
LEMMA TypeIdleBlocked ==
  ASSUME TypeInv, IdleBlocked
  PROVE  TypeInv'
<1>1. WorkersType /\ StoreType /\ MemoryType /\ PassType /\ OtherType
  BY TypeParts, Zenon
<1>2. UNCHANGED <<workers, storeVars, memVars, passVars, nextRun>>
  BY Zenon DEF IdleBlocked, worldVars
<1>3. WorkersType' /\ StoreType' /\ MemoryType' /\ PassType'
  BY <1>2, TypeFrame, Zenon
<1>4. OtherType'
  BY Zenon, <1>1
     DEF IdleBlocked, OtherType, worldVars
<1> QED
  BY <1>3, <1>4, TypePartsNext, Zenon

\* The end of an idle recovery keeps the types.
LEMMA TypeIdleReady ==
  ASSUME TypeInv, IdleReady
  PROVE  TypeInv'
<1>1. WorkersType /\ StoreType /\ MemoryType /\ PassType /\ OtherType
  BY TypeParts, Zenon
<1>2. UNCHANGED <<workers, storeVars, passVars, nextRun>>
  BY Zenon DEF IdleReady, worldVars
<1>3. WorkersType' /\ StoreType' /\ PassType'
  BY <1>2, TypeFrame, Zenon
<1>4. MemoryType'
  BY Zenon, <1>1
     DEF IdleReady, MemoryType
<1>5. OtherType'
  BY Zenon, <1>1
     DEF IdleReady, OtherType, worldVars
<1> QED
  BY <1>3, <1>4, <1>5, TypePartsNext, Zenon

\* An idle recovery that throws midway keeps the types.
LEMMA TypeIdleThrows ==
  ASSUME TypeInv, IdleThrows
  PROVE  TypeInv'
<1>1. WorkersType /\ StoreType /\ MemoryType /\ PassType /\ OtherType
  BY TypeParts, Zenon
<1>2. UNCHANGED <<workers, storeVars, memVars, passVars, nextRun>>
  BY Zenon DEF IdleThrows, worldVars
<1>3. WorkersType' /\ StoreType' /\ MemoryType' /\ PassType'
  BY <1>2, TypeFrame, Zenon
<1>4. OtherType'
  BY Zenon, <1>1
     DEF IdleThrows, OtherType, worldVars
<1> QED
  BY <1>3, <1>4, TypePartsNext, Zenon

-----------------------------------------------------------------------------
(* Worker connections, the liveness thread and the policy.                 *)

\* WORKER_REGISTER keeps the types.
LEMMA TypeWorkerRegister ==
  ASSUME TypeInv, NEW w \in Worker, NEW slots \in Nat,
         NEW kind \in {"plain", "recovery"}, WorkerRegister(w, slots, kind)
  PROVE  TypeInv'
<1>1. WorkersType'
  BY Zenon, WorkersTypes DEF WorkerRegister, TypeInv, TypeOK
<1>2. session' \in [Worker -> SessionKind]
  BY Zenon DEF WorkerRegister, TypeInv, TypeOK, SessionKind
<1>3. reconciling' \subseteq Worker /\ requested' \in BOOLEAN
  BY Zenon DEF WorkerRegister, TypeInv, TypeOK
<1> QED
  <2>1. WorkersType /\ StoreType /\ MemoryType /\ PassType /\ OtherType
    BY TypeParts, Zenon
  <2>2. UNCHANGED <<storeVars, passVars, nextRun>>
    BY Zenon DEF WorkerRegister, worldVars
  <2>3. StoreType' /\ PassType'
    BY <2>2, TypeFrame, Zenon
  <2>4. MemoryType'
    BY Zenon, <2>1, <1>3
       DEF WorkerRegister, MemoryType
  <2>5. OtherType'
    BY Zenon, <2>1, <1>2, <1>3
       DEF WorkerRegister, OtherType, worldVars
  <2> QED
    BY <2>3, <1>1, <2>4, <2>5, TypePartsNext, Zenon

\* A refused registration, which may leave a hold, keeps the types.
LEMMA TypeWorkerRegisterRefused ==
  ASSUME TypeInv, NEW w \in Worker, WorkerRegisterRefused(w)
  PROVE  TypeInv'
<1>1. WorkersType /\ StoreType /\ MemoryType /\ PassType /\ OtherType
  BY TypeParts, Zenon
<1>2. UNCHANGED <<workers, storeVars, passVars, nextRun, idler, requested,
                  session, sent, asked, reported>>
  BY Zenon DEF WorkerRegisterRefused, worldVars
<1>3. WorkersType' /\ StoreType' /\ PassType' /\ OtherType'
  BY <1>2, TypeFrame, Zenon
<1>4. MemoryType'
  BY Zenon, <1>1
     DEF WorkerRegisterRefused, MemoryType
<1> QED
  BY <1>3, <1>4, TypePartsNext, Zenon

\* WORKER_HEARTBEAT keeps the types.
LEMMA TypeWorkerHeartbeat ==
  ASSUME TypeInv, NEW w \in Worker, WorkerHeartbeat(w)
  PROVE  TypeInv'
<1>1. WorkersType'
  BY Zenon, WorkersTypes DEF WorkerHeartbeat, TypeInv, TypeOK
<1> QED
  <2>1. WorkersType /\ StoreType /\ MemoryType /\ PassType /\ OtherType
    BY TypeParts, Zenon
  <2>2. UNCHANGED <<storeVars, memVars, passVars, nextRun>>
    BY Zenon DEF WorkerHeartbeat, worldVars
  <2>3. StoreType' /\ MemoryType' /\ PassType'
    BY <2>2, TypeFrame, Zenon
  <2>4. OtherType'
    BY Zenon, <2>1
       DEF WorkerHeartbeat, OtherType, worldVars
  <2> QED
    BY <2>3, <1>1, <2>4, TypePartsNext, Zenon

\* WORKER_DRAIN keeps the types.
LEMMA TypeWorkerDrain ==
  ASSUME TypeInv, NEW w \in Worker, WorkerDrain(w)
  PROVE  TypeInv'
<1>1. WorkersType'
  BY Zenon, WorkersTypes DEF WorkerDrain, TypeInv, TypeOK
<1> QED
  <2>1. UNCHANGED <<storeVars, memVars, passVars, nextRun, idler, requested,
                    session, sent, asked, reported>>
    BY Zenon DEF WorkerDrain, worldVars
  <2>2. StoreType' /\ MemoryType' /\ PassType' /\ OtherType'
    BY <2>1, TypeFrame, Zenon
  <2> QED
    BY <2>2, <1>1, TypePartsNext, Zenon

\* The liveness thread keeps the types.
LEMMA TypeLivenessCheck ==
  ASSUME TypeInv, NEW late \in SUBSET Worker, LivenessCheck(late)
  PROVE  TypeInv'
<1>1. WorkersType'
  BY Zenon, CheckTimeoutsType DEF LivenessCheck, TypeInv, TypeOK
<1> QED
  <2>1. UNCHANGED <<storeVars, memVars, passVars, nextRun, idler, requested,
                    session, sent, asked, reported>>
    BY Zenon DEF LivenessCheck, worldVars
  <2>2. StoreType' /\ MemoryType' /\ PassType' /\ OtherType'
    BY <2>1, TypeFrame, Zenon
  <2> QED
    BY <2>2, <1>1, TypePartsNext, Zenon

\* A change of the accepting policy keeps the types.
LEMMA TypeChangePolicy ==
  ASSUME TypeInv, NEW w \in Worker, ChangePolicy(w)
  PROVE  TypeInv'
<1>1. WorkersType'
  BY Zenon, WorkersTypes DEF ChangePolicy, TypeInv, TypeOK
<1> QED
  <2>1. UNCHANGED <<storeVars, memVars, passVars, nextRun, idler, requested,
                    session, sent, asked, reported>>
    BY Zenon DEF ChangePolicy, worldVars
  <2>2. StoreType' /\ MemoryType' /\ PassType' /\ OtherType'
    BY <2>1, TypeFrame, Zenon
  <2> QED
    BY <2>2, <1>1, TypePartsNext, Zenon

\* The close of a worker connection keeps the types.
LEMMA TypeWorkerClose ==
  ASSUME TypeInv, NEW w \in Worker, WorkerClose(w)
  PROVE  TypeInv'
<1>1. WorkersType'
  BY Zenon, WorkersTypes DEF WorkerClose, TypeInv, TypeOK
<1>2. session' \in [Worker -> SessionKind]
  BY Zenon DEF WorkerClose, TypeInv, TypeOK, SessionKind
<1> QED
  <2>1. WorkersType /\ StoreType /\ MemoryType /\ PassType /\ OtherType
    BY TypeParts, Zenon
  <2>2. UNCHANGED <<storeVars, memVars, passVars, nextRun>>
    BY Zenon DEF WorkerClose, worldVars
  <2>3. StoreType' /\ MemoryType' /\ PassType'
    BY <2>2, TypeFrame, Zenon
  <2>4. OtherType'
    BY Zenon, <2>1, <1>2
       DEF WorkerClose, OtherType, worldVars
  <2> QED
    BY <2>3, <1>1, <2>4, TypePartsNext, Zenon

-----------------------------------------------------------------------------
\* A crash and the rebuild from the database keep the types.
LEMMA TypeRestart ==
  ASSUME TypeInv, Restart
  PROVE  TypeInv'
<1>1. db' \in [Task -> TaskRow] /\ \A t \in Task : RowShape(db'[t])
  <2>1. ASSUME NEW t \in Task
        PROVE  /\ [db[t] EXCEPT !.recovery = TRUE] \in TaskRow
               /\ RowShape([db[t] EXCEPT !.recovery = TRUE])
    <3>1. db[t] \in TaskRow /\ RowShape(db[t])
      BY Zenon DEF TypeInv, TypeOK, StoreType
    <3> QED
      BY Zenon, <3>1 DEF TaskRow, RowShape
  <2>2. db' = [t \in Task |-> IF db[t].status \in Active
                             THEN [db[t] EXCEPT !.recovery = TRUE] ELSE db[t]]
    BY DEF Restart, markRecovery
  <2> QED
    BY Zenon, <2>1, <2>2 DEF TypeInv, TypeOK, StoreType
<1>2. tasks' \in [Task -> TaskRow] /\ \A t \in Task : RowShape(tasks'[t])
  BY Zenon, <1>1, Constants DEF Restart, restoredRow
<1>3. queue' \subseteq Entry
  <2>1. queue' \subseteq [task : Task, seq : 0..MaxSeq]
    BY Zenon DEF Restart
  <2>2. [task : Task, seq : 0..MaxSeq] \subseteq Entry
    BY SchedulerAssumption DEF Entry
  <2> QED
    BY Zenon, <2>1, <2>2
<1>4. nextSeq' \in Nat
  <2>1. PICK m \in 0..MaxSeq : nextSeq' = m + 1
    BY Zenon DEF Restart
  <2> QED
    BY <2>1, SchedulerAssumption
<1>5. WorkersType'
  BY Zenon, WorkersRestartType DEF Restart, TypeInv, TypeOK
<1>6. <<>> \in Seq(Assignment)
  OBVIOUS
<1>7. /\ todo' \in Seq(Assignment)
      /\ plan' \in [Task -> [worker : Worker, run : RunId] \cup {NoPlan}]
      /\ session' \in [Worker -> SessionKind]
  BY Zenon, <1>6 DEF Restart, SessionKind
<1>8. PassShape' /\ pass' \in Phase
  BY Zenon DEF Restart, PassShape, Phase
<1>9. StoreType'
  BY Zenon, <1>1 DEF Restart, TypeInv, TypeOK, StoreType
<1>10. quarantined' \subseteq Worker /\ stopped' \subseteq Batch
  BY Zenon DEF Restart, TypeInv, TypeOK, StoreType
<1> QED
  <2>1. WorkersType /\ StoreType /\ MemoryType /\ PassType /\ OtherType
    BY TypeParts, Zenon
  <2>2. MemoryType'
    BY Zenon, <2>1, <1>2, <1>3, <1>4, <1>10
       DEF Restart, MemoryType
  <2>3. PassType'
    BY Zenon, <2>1, <1>7, <1>8, NoClaimType
       DEF Restart, PassType, worldVars
  <2>4. OtherType'
    BY Zenon, <2>1, <1>7
       DEF Restart, OtherType, worldVars
  <2> QED
    BY <1>5, <1>9, <2>2, <2>3, <2>4, TypePartsNext, Zenon

\* A step that changes nothing keeps the types.
LEMMA TypeStutter ==
  ASSUME TypeInv, UNCHANGED vars
  PROVE  TypeInv'
<1>1. UNCHANGED <<workers, storeVars, memVars, passVars, nextRun, idler,
                  requested, session, sent, asked, reported>>
  BY Zenon DEF vars, worldVars
<1>2. WorkersType' /\ StoreType' /\ MemoryType' /\ PassType' /\ OtherType'
  BY <1>1, TypeFrame, Zenon
<1> QED
  BY <1>2, TypePartsNext, Zenon

\* Every step of the scheduling core keeps TypeInv.
LEMMA TypeNext == TypeInv /\ [Next]_vars => TypeInv'
<1> SUFFICES ASSUME TypeInv, [Next]_vars
             PROVE  TypeInv'
  OBVIOUS
<1>1. CASE Coordinate
  <2>1. CASE PassStart
    BY Zenon, <2>1, TypePassStart
  <2>2. CASE ScheduleBegin
    BY <2>2, TypeScheduleBegin
  <2>3. CASE ScheduleStop
    BY <2>3, TypeScheduleStop
  <2>4. CASE \E w \in Worker : ScheduleSelect(w)
    BY Zenon, <2>4, TypeScheduleSelect
  <2>5. CASE ScheduleAcquire
    BY <2>5, TypeScheduleAcquire
  <2>6. CASE ScheduleAcquireFails
    BY <2>6, TypeScheduleAcquireFails
  <2>7. CASE ScheduleCommit
    BY <2>7, TypeScheduleCommit
  <2>8. CASE DispatchClaim
    BY Zenon, <2>8, TypeDispatchClaim
  <2>9. CASE DispatchSkip
    BY <2>9, TypeDispatchSkip
  <2>10. CASE DispatchSend
    BY <2>10, TypeDispatchSend
  <2>11. CASE DispatchReturn
    BY <2>11, TypeDispatchReturn
  <2>12. CASE DispatchFail
    BY <2>12, TypeDispatchFail
  <2>13. CASE rollbackAssignment
    BY <2>13, TypeRollback
  <2>14. CASE RollbackRefused
    BY <2>14, TypeRollbackRefused
  <2>15. CASE PassEnd
    BY <2>15, TypePassEnd
  <2> QED
    BY Zenon, <1>1, <2>1, <2>2, <2>3, <2>4, <2>5, <2>6, <2>7, <2>8, <2>9,
       <2>10,
       <2>11, <2>12, <2>13, <2>14, <2>15 DEF Coordinate
<1>2. CASE Client
  BY Zenon, <1>2, TypeSubmit, TypeCancelTask, TypeCancelBatch DEF Client
<1>3. CASE Execution
  BY Zenon, <1>3, TypeTaskStart, TypeTaskResult DEF Execution
<1>4. CASE Recovery
  BY Zenon, <1>4, TypeRecoverLost, TypeRecoverActive, TypeRecoverIdle,
     TypeIdleRequeue, TypeIdleBlocked, TypeIdleReady
     DEF Recovery
<1>5. CASE RecoveryRegister
  <2>1. 1 \in Nat
    OBVIOUS
  <2> QED
    BY Zenon, <1>5, <2>1, TypeWorkerRegister, TypeWorkerRegisterRefused
       DEF RecoveryRegister
<1>6. CASE PlainRegister
  <2>1. PICK w \in Worker : \E n \in 1..Slots[w] : WorkerRegister(w, n, "plain")
    BY Zenon, <1>6 DEF PlainRegister
  <2>2. PICK n \in 1..Slots[w] : WorkerRegister(w, n, "plain")
    BY Zenon, <2>1
  <2>3. n \in Nat
    BY <2>2, WorkerAssumption
  <2> QED
    BY Zenon, <2>2, <2>3, TypeWorkerRegister
<1>7. CASE Heartbeat
  BY Zenon, <1>7, TypeWorkerHeartbeat DEF Heartbeat
<1>8. CASE Close
  BY <1>8, TypeWorkerClose DEF Close
<1>9. CASE Unavailability
  BY Zenon, <1>9, TypeWorkerDrain, TypeChangePolicy, TypeLivenessCheck
     DEF Unavailability
<1>10. CASE Exception
  BY Zenon, <1>10, TypeScheduleThrows, TypeScheduleUndo, TypeScheduleRethrow,
     TypeDispatchClaim, TypeRollbackRefused, TypeIdleThrows,
     TypeRecoverLostThrows, TypeSubmitThrows
     DEF Exception
<1>11. CASE Restart
  BY Zenon, <1>11, TypeRestart
<1>12. CASE UNCHANGED vars
  BY Zenon, <1>12, TypeStutter
<1> QED
  BY Zenon, <1>1, <1>2, <1>3, <1>4, <1>5, <1>6, <1>7, <1>8, <1>9, <1>10, <1>11,
     <1>12 DEF Next

\* TypeInv is an invariant of the core.
THEOREM TypeInvariant == Spec => []TypeInv
BY TypeInit, TypeNext, PTL DEF Spec

\* Type correctness: in every reachable state of the scheduling core, for all
\* workers, tasks, batches, keys and limits, the rows in memory and in the
\* tables satisfy the constraints of the schema (TypeOK).
THEOREM TypeCorrect == Spec => []TypeOK
<1>1. TypeInv => TypeOK
  BY Zenon DEF TypeInv
<1> QED
  BY <1>1, TypeInvariant, PTL

=============================================================================
