----------------------------- MODULE SlotServer -----------------------------
(***************************************************************************)
(* The server as the worker of one slot meets it: the connection between   *)
(* them, the runs the server gives to this worker, and the answers of      *)
(* WorkerSession, ProtocolRouter and Scheduler::recoverWorker to its       *)
(* requests.  What the server does with tasks, queues and slots behind     *)
(* these answers is the subject of the Scheduler module; here a run is     *)
(* what the row of its task says about it.                                 *)
(*                                                                         *)
(* A request is handled and its reply is read in two steps, so that the    *)
(* connection may break, or either side die, in between.  A server that    *)
(* is restarted keeps the runs (they are in the database) and loses the    *)
(* connection, and a run it recovered keeps the worker from getting        *)
(* another one as an open run does: a restart looks like a break.          *)
(***************************************************************************)
EXTENDS Naturals, FiniteSets

CONSTANT MaxRun   \* bound on the runs that are given to the worker

ASSUME RunAssumption == MaxRun \in Nat \ {0}

VARIABLES srv,     \* what the server's row says of each run
          held,    \* the worker is in reconciling_workers_
          bound,   \* the registry leads to a session of the worker
          shut,    \* the worker is DRAINING, or was when it timed out
          link,    \* the connection: none, up, or broken and not noticed yet
          joined,  \* the session of this connection has registered
          wire,    \* the TASK_ASSIGN on its way to the worker
          reply    \* the answer on its way to the worker

serverVars == <<srv, held, bound, shut>>
linkVars   == <<link, joined, wire, reply>>

Run      == 1..MaxRun
NoRun    == 0
NoReply  == "none"
Verdict  == {"SUCCEEDED", "FAILED"}
Open     == {"ASSIGNED", "RUNNING"}
Answer   == {"ok", "rejected", "ready", "resume", "quarantined", "decided"}

ServerInit ==
  /\ srv = [r \in Run |-> "NONE"]
  /\ held = FALSE /\ bound = FALSE /\ shut = FALSE
  /\ link = "none" /\ joined = FALSE /\ wire = NoRun /\ reply = NoReply

OpenRuns == {r \in Run : srv[r] \in Open}

-----------------------------------------------------------------------------
(* The answers.  Each is the whole handling of one request.                *)

\* WORKER_REGISTER with recovery_version 1: the worker is held first.
registerReply ==
  /\ held' = TRUE /\ bound' = TRUE /\ shut' = FALSE
  /\ joined' = TRUE /\ reply' = "ok"
  /\ UNCHANGED srv

\* WORKER_DRAIN.
drainReply ==
  /\ shut' = TRUE /\ reply' = "ok"
  /\ UNCHANGED <<srv, held, bound>>

\* Mutant: a repeated start is not granted.
startOnce(r) ==
  /\ UNCHANGED <<held, bound, shut>>
  /\ \/ /\ srv[r] = "ASSIGNED"
        /\ srv' = [srv EXCEPT ![r] = "RUNNING"]
        /\ reply' = "ok"
     \/ srv[r] # "ASSIGNED" /\ reply' = "rejected" /\ UNCHANGED srv

\* TASK_START of run r; a repeated one is granted again.
startReply(r) ==
  /\ UNCHANGED <<held, bound, shut>>
  /\ \/ /\ srv[r] \in Open
        /\ srv' = [srv EXCEPT ![r] = "RUNNING"]
        /\ reply' = "ok"
     \/ srv[r] \notin Open /\ reply' = "rejected" /\ UNCHANGED srv

\* Mutant: a result is confirmed although it may not have been saved.
resultUnsaved(r, v) ==
  /\ UNCHANGED <<held, bound, shut>>
  /\ srv' \in {srv, [srv EXCEPT ![r] = v]}
  /\ reply' = "ok"

\* TASK_RESULT of run r; a repeated one with the same result is accepted.
resultReply(r, v) ==
  /\ UNCHANGED <<held, bound, shut>>
  /\ \/ /\ srv[r] \in {"RUNNING", v}
        /\ srv' = [srv EXCEPT ![r] = v]
        /\ reply' = "ok"
     \/ srv[r] \notin {"RUNNING", v} /\ reply' = "rejected" /\ UNCHANGED srv

\* WORKER_RECOVER "idle": a run that never started is given up, one that did
\* is not.
idleReply ==
  /\ UNCHANGED <<bound, shut>>
  /\ \/ /\ \E r \in Run : srv[r] = "RUNNING"
        /\ reply' = "quarantined" /\ UNCHANGED <<srv, held>>
     \/ /\ \A r \in Run : srv[r] # "RUNNING"
        /\ srv' = [r \in Run |-> IF srv[r] = "ASSIGNED" THEN "LOST" ELSE srv[r]]
        /\ held' = FALSE
        /\ reply' = "ready"

\* WORKER_RECOVER "active".
activeReply(r) ==
  /\ UNCHANGED <<srv, bound, shut>>
  /\ \/ srv[r] \in Open /\ held' = FALSE /\ reply' = "resume"
     \/ srv[r] \notin Open /\ reply' = "rejected" /\ UNCHANGED held

\* WORKER_RECOVER "lost": the saved decision is repeated, an open run is
\* given up (requeued, failed or cancelled: the worker makes no difference).
lostReply(r) ==
  /\ UNCHANGED <<bound, shut>>
  /\ \/ srv[r] = "LOST" /\ reply' = "decided" /\ UNCHANGED <<srv, held>>
     \/ /\ srv[r] \in Open
        /\ srv' = [srv EXCEPT ![r] = "LOST"]
        /\ held' = TRUE
        /\ reply' = "decided"
     \/ /\ srv[r] \notin Open \cup {"LOST"}
        /\ reply' = "rejected" /\ UNCHANGED <<srv, held>>

\* WORKER_HEARTBEAT.  A worker that is DRAINING stays so, unless its liveness
\* timeout has made it OFFLINE since its last heartbeat: then it is ONLINE
\* again.  OFFLINE and DRAINING alike keep it from being given a run.
beatReply ==
  /\ reply' = "ok"
  /\ shut' \in {shut, FALSE}
  /\ UNCHANGED <<srv, held, bound>>

-----------------------------------------------------------------------------
\* A pass assigns the next run to the worker's only slot and hands it to the
\* connection that registered last, which may be gone without the server
\* knowing it.
Dispatch(r) ==
  /\ bound /\ ~ held /\ ~ shut /\ OpenRuns = {}
  /\ srv[r] = "NONE" /\ \A q \in Run : q < r => srv[q] # "NONE"
  /\ srv' = [srv EXCEPT ![r] = "ASSIGNED"]
  /\ wire' = IF joined THEN r ELSE NoRun
  /\ UNCHANGED <<held, bound, shut, link, joined, reply>>

\* The close callback of the registered connection: the worker is OFFLINE.
ServerCloses ==
  /\ bound /\ ~ joined
  /\ bound' = FALSE
  /\ UNCHANGED <<srv, held, shut, linkVars>>

\* What is on the connection is lost with it.
Unlink(state) ==
  link' = state /\ joined' = FALSE /\ wire' = NoRun /\ reply' = NoReply
=============================================================================
