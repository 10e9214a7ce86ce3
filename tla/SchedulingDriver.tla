-------------------------- MODULE SchedulingDriver --------------------------
(***************************************************************************)
(* SchedulingDriver::requestSchedule, called by any thread after it has    *)
(* changed something that may allow an assignment (a task was submitted, a *)
(* worker registered, a slot became free).  The thread that finds nobody   *)
(* running becomes the runner and repeats coordinator passes while         *)
(* pending_ is set; the others only set pending_ and return.               *)
(*                                                                         *)
(* The locked parts of the method are atomic; a pass runs unlocked and is  *)
(* two steps, because what matters is whether a change was made before or  *)
(* after schedule() looked at the queue and the workers.                   *)
(***************************************************************************)
CONSTANT Caller

VARIABLES pending,   \* pending_
          running,   \* running_
          at,        \* where each thread is
          failed,    \* whether a pass of the thread's loop threw
          unseen     \* there is a change that no pass has looked at yet

driverVars == <<pending, running, at, failed, unseen>>

DriverType ==
  /\ pending \in BOOLEAN /\ running \in BOOLEAN /\ unseen \in BOOLEAN
  /\ at \in [Caller -> {"idle", "request", "pass", "passing", "check"}]
  /\ failed \in [Caller -> BOOLEAN]

DriverInit ==
  /\ pending = FALSE /\ running = FALSE /\ unseen = FALSE
  /\ at = [th \in Caller |-> "idle"]
  /\ failed = [th \in Caller |-> FALSE]

\* A handler changes the state of the server and then calls the driver.
Changed(th) ==
  /\ at[th] = "idle"
  /\ unseen' = TRUE
  /\ at' = [at EXCEPT ![th] = "request"]
  /\ UNCHANGED <<pending, running, failed>>

\* Mutant: a request that finds a runner is dropped.
JoinDropped(th) ==
  /\ at[th] = "request" /\ running
  /\ at' = [at EXCEPT ![th] = "idle"]
  /\ UNCHANGED <<pending, running, failed, unseen>>

\* pending_ = true; if (running_) return;
Join(th) ==
  /\ at[th] = "request" /\ running
  /\ pending' = TRUE
  /\ at' = [at EXCEPT ![th] = "idle"]
  /\ UNCHANGED <<running, failed, unseen>>

\* Mutant: the runner does not announce itself.
BecomeRunnerUnmarked(th) ==
  /\ at[th] = "request" /\ ~ running
  /\ pending' = FALSE
  /\ at' = [at EXCEPT ![th] = "pass"]
  /\ failed' = [failed EXCEPT ![th] = FALSE]
  /\ UNCHANGED <<running, unseen>>

\* running_ = true; the loop starts with pending_ = false.
BecomeRunner(th) ==
  /\ at[th] = "request" /\ ~ running
  /\ running' = TRUE
  /\ pending' = FALSE
  /\ at' = [at EXCEPT ![th] = "pass"]
  /\ failed' = [failed EXCEPT ![th] = FALSE]
  /\ UNCHANGED unseen

\* schedule() looks at the queue and the workers ...
PassLooks(th) ==
  /\ at[th] = "pass"
  /\ unseen' = FALSE
  /\ at' = [at EXCEPT ![th] = "passing"]
  /\ UNCHANGED <<pending, running, failed>>

\* ... and runOnce returns, or throws: the loop remembers the first failure.
PassReturns(th, throws) ==
  /\ at[th] = "passing"
  /\ at' = [at EXCEPT ![th] = "check"]
  /\ failed' = [failed EXCEPT ![th] = @ \/ throws]
  /\ UNCHANGED <<pending, running, unseen>>

\* while (pending_)
Again(th) ==
  /\ at[th] = "check" /\ pending
  /\ pending' = FALSE
  /\ at' = [at EXCEPT ![th] = "pass"]
  /\ UNCHANGED <<running, failed, unseen>>

\* Mutant: a failed loop leaves without giving up the role.
FinishFailedKeepsRole(th) ==
  /\ at[th] = "check" /\ ~ pending
  /\ running' = failed[th]
  /\ failed' = [failed EXCEPT ![th] = FALSE]
  /\ at' = [at EXCEPT ![th] = "idle"]
  /\ UNCHANGED <<pending, unseen>>

\* running_ = false; the failure, if any, is rethrown to the caller.
Finish(th) ==
  /\ at[th] = "check" /\ ~ pending
  /\ running' = FALSE
  /\ failed' = [failed EXCEPT ![th] = FALSE]
  /\ at' = [at EXCEPT ![th] = "idle"]
  /\ UNCHANGED <<pending, unseen>>

requestSchedule(th) ==
  \/ Join(th) \/ BecomeRunner(th) \/ PassLooks(th)
  \/ \E throws \in BOOLEAN : PassReturns(th, throws)
  \/ Again(th) \/ Finish(th)

DriverNext == \E th \in Caller : Changed(th) \/ requestSchedule(th)

\* A thread inside the method keeps running; it may call it or not.
DriverSpec == /\ DriverInit /\ [][DriverNext]_driverVars
              /\ \A th \in Caller : WF_driverVars(requestSchedule(th))

-----------------------------------------------------------------------------
Runners == {th \in Caller : at[th] \in {"pass", "passing", "check"}}

\* At most one thread runs passes, so at most one coordinator holds
\* assignments that are not dispatched yet (the Scheduler module's rollback
\* by task id relies on it), and running_ says whether there is one.
SingleRunner ==
  /\ \A th1, th2 \in Runners : th1 = th2
  /\ running <=> Runners # {}

\* No request is lost: a change that no pass has seen is announced by
\* pending_ to a runner that will check it, or about to be requested, or the
\* runner is about to look.
NoLostRequest ==
  unseen => \/ pending /\ Runners # {}
            \/ \E th \in Caller : at[th] \in {"request", "pass"}

\* Every change is looked at by some pass, also when earlier passes throw.
ChangeIsSeen == unseen ~> ~ unseen
=============================================================================
