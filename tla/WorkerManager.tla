--------------------------- MODULE WorkerManager ---------------------------
(***************************************************************************)
(* The worker table (server/src/WorkerManager.cpp, common/src/Worker.cpp): *)
(* what the server believes about every worker, and the slot accounting    *)
(* the scheduler relies on.  Every method of WorkerManager holds its       *)
(* mutex_, so every method is one atomic action.                           *)
(*                                                                         *)
(* A worker id is a positive integer: ids are strings in the code, and the *)
(* only thing the scheduler does with them is compare them with < and =.   *)
(* 0 stands for the empty string.  The hostname, machine and slot names    *)
(* and the time stamps are abstracted; a registration that the identity    *)
(* checks of registerWorker refuse changes nothing in this table.          *)
(***************************************************************************)
EXTENDS Integers

CONSTANTS Worker,   \* the worker ids that may register
          Slots     \* Slots[w]: the largest slot count w registers with

NoWorker == 0

ASSUME WorkerAssumption ==
  /\ Worker \subseteq Nat \ {0}
  /\ Slots \in [Worker -> Nat \ {0}]

VARIABLE workers    \* workers_: what is known about each worker

\* A worker that has not registered in this server process is not in workers_.
WorkerStatus == {"UNREGISTERED", "ONLINE", "OFFLINE", "DRAINING"}

WorkerRecord ==
  [status : WorkerStatus, total : Nat, used : Nat, accepting : BOOLEAN]

WorkersType == workers \in [Worker -> WorkerRecord]

\* worker.acceptsTasks() starts TRUE; it is policy, restored with the process.
NewWorker == [status |-> "UNREGISTERED", total |-> 0, used |-> 0,
              accepting |-> TRUE]

WorkersInit == workers = [w \in Worker |-> NewWorker]

\* A new server process: the table is empty, the persisted policy is not.
WorkersRestart ==
  workers' = [w \in Worker |->
                [NewWorker EXCEPT !.accepting = workers[w].accepting]]

Registered(w) == workers[w].status # "UNREGISTERED"

-----------------------------------------------------------------------------
\* Worker::freeSlots; a re-registration may have shrunk total below used.
freeSlots(w) == IF workers[w].used >= workers[w].total
                THEN 0 ELSE workers[w].total - workers[w].used

getAvailableWorkers ==
  {w \in Worker : /\ workers[w].status = "ONLINE"
                  /\ workers[w].accepting
                  /\ freeSlots(w) > 0}

\* acquireSlot(w) would return true.
canAcquire(w) == w \in getAvailableWorkers

acquireSlot(w) == workers' = [workers EXCEPT ![w].used = @ + 1]

\* releaseSlot(w) would return true; otherwise it changes nothing.
canRelease(w) == Registered(w) /\ workers[w].used > 0

releaseSlot(w) == workers' = IF canRelease(w)
                             THEN [workers EXCEPT ![w].used = @ - 1]
                             ELSE workers

-----------------------------------------------------------------------------
\* registerWorker: a new worker starts with no used slot, a known one keeps
\* its used slots; both become ONLINE, which also ends a drain.
registerWorker(w, slots) ==
  workers' = [workers EXCEPT ![w].status = "ONLINE", ![w].total = slots]

markDraining(w) ==
  /\ Registered(w)
  /\ workers' = [workers EXCEPT ![w].status = "DRAINING"]

markOffline(w) ==
  /\ Registered(w)
  /\ workers' = [workers EXCEPT ![w].status = "OFFLINE"]

\* Worker::updateHeartbeat: any worker that is not draining becomes ONLINE.
heartbeat(w) ==
  /\ Registered(w)
  /\ workers' = [workers EXCEPT ![w].status =
                   IF @ = "DRAINING" THEN @ ELSE "ONLINE"]

\* checkTimeouts: the workers whose last heartbeat is too old are a subset
\* of those that are not OFFLINE; how old it is, is not modelled.
checkTimeouts(late) ==
  /\ late # {}
  /\ \A w \in late : workers[w].status \in {"ONLINE", "DRAINING"}
  /\ workers' = [w \in Worker |->
                   IF w \in late THEN [workers[w] EXCEPT !.status = "OFFLINE"]
                                 ELSE workers[w]]

\* control and managementHeartbeat change whether w accepts tasks.
setAccepting(w) ==
  workers' = [workers EXCEPT ![w].accepting = ~ @]
=============================================================================
