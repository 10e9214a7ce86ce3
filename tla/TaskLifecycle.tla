--------------------------- MODULE TaskLifecycle ---------------------------
(***************************************************************************)
(* What a client of the server may rely on about its tasks, without queue, *)
(* slots, memory, connections or restarts: the life of each task as the    *)
(* database shows it (Task::canTransitionTo, and recoverLost, which alone  *)
(* takes a running task back), the run that each attempt is given, the     *)
(* retry limit, and the promise of a batch stop.  The Scheduler module     *)
(* implements this specification (SchedulerSafety!LifecycleSpec).          *)
(***************************************************************************)
EXTENDS Naturals

CONSTANTS Task, Batch, BatchOf, RunId, NoRun, MaxRetries

VARIABLES life,    \* the status, current run and retry count of each task
          drawn,   \* the run ids that were ever given to an attempt
          halted   \* the batches that were stopped

lifeVars == <<life, drawn, halted>>

Init ==
  /\ life = [t \in Task |-> [status |-> "ABSENT", run |-> NoRun, retry |-> 0]]
  /\ drawn = {}
  /\ halted = {}

In(status) == {t \in Task : life[t].status = status}

\* A task of a stopped batch is refused.
Submit(t) ==
  /\ t \in In("ABSENT") /\ BatchOf[t] \notin halted
  /\ life' = [life EXCEPT ![t].status = "QUEUED"]
  /\ UNCHANGED <<drawn, halted>>

\* One pass assigns a set of queued tasks, each with a run of its own that
\* no attempt ever had before.
Assign(S, run) ==
  /\ S # {} /\ S \subseteq In("QUEUED")
  /\ \A t \in S : run[t] \in RunId \ drawn
  /\ \A t, u \in S : t # u => run[t] # run[u]
  /\ life' = [t \in Task |->
       IF t \in S
       THEN [status |-> "ASSIGNED", run |-> run[t], retry |-> life[t].retry]
       ELSE life[t]]
  /\ drawn' = drawn \cup {run[t] : t \in S}
  /\ UNCHANGED halted

Start(t) ==
  /\ t \in In("ASSIGNED")
  /\ life' = [life EXCEPT ![t].status = "RUNNING"]
  /\ UNCHANGED <<drawn, halted>>

Finish(t, result) ==
  /\ t \in In("RUNNING")
  /\ result \in {"SUCCEEDED", "FAILED", "TIMEOUT"}
  /\ life' = [life EXCEPT ![t].status = result]
  /\ UNCHANGED <<drawn, halted>>

\* An attempt that never started goes back to the queue free of charge, one
\* that started only while there are retries left.
Return(t) ==
  /\ BatchOf[t] \notin halted
  /\ \/ /\ t \in In("ASSIGNED")
        /\ life' = [life EXCEPT ![t].status = "QUEUED"]
     \/ /\ t \in In("RUNNING") /\ life[t].retry < MaxRetries
        /\ life' = [life EXCEPT ![t] = [status |-> "QUEUED", run |-> life[t].run,
                                       retry |-> life[t].retry + 1]]
  /\ UNCHANGED <<drawn, halted>>

\* A client cancels queued tasks; an attempt that comes to nothing in a
\* stopped batch is cancelled instead of returned.
Cancel(t) ==
  /\ \/ t \in In("QUEUED")
     \/ t \in In("ASSIGNED") \cup In("RUNNING") /\ BatchOf[t] \in halted
  /\ life' = [life EXCEPT ![t].status = "CANCELLED"]
  /\ UNCHANGED <<drawn, halted>>

\* A stop cancels everything of the batch that is queued, at once.
StopBatch(b) ==
  /\ life' = [t \in Task |->
       IF BatchOf[t] = b /\ t \in In("QUEUED")
       THEN [life[t] EXCEPT !.status = "CANCELLED"] ELSE life[t]]
  /\ halted' = halted \cup {b}
  /\ UNCHANGED drawn

Next ==
  \/ \E t \in Task : \/ Submit(t) \/ Start(t) \/ Return(t) \/ Cancel(t)
                     \/ \E result \in {"SUCCEEDED", "FAILED", "TIMEOUT"} :
                          Finish(t, result)
  \/ \E S \in SUBSET Task : \E run \in [S -> RunId] : Assign(S, run)
  \/ \E b \in Batch : StopBatch(b)

Spec == Init /\ [][Next]_lifeVars
=============================================================================
