--------------------------- MODULE DailyRegression ---------------------------
(***************************************************************************)
(* The Server's task table between its clients: the daily submitter,       *)
(* consoles and command line clients that read lists page by page, and     *)
(* operators who stop a batch.                                             *)
(* The tasks themselves are taken up and finished meanwhile.               *)
(***************************************************************************)
EXTENDS DailySubmitter, TaskConsole

CONSTANTS MaxEvent,  \* bound: faults, requests of users, and days that begin
          Scenario   \* which of them happen together in a behaviour: sets of
                     \* "fault", "day", "stop", "restart", "expiry", "console", "list"

ASSUME EventAssumption == MaxEvent \in Nat

VARIABLES events,    \* how many of them have happened
          scenario   \* which may happen in this behaviour

vars == <<tableVars, clockVars, consoleVars, events, scenario>>

Event(kind) ==
    /\ kind \in scenario
    /\ events < MaxEvent
    /\ events' = events + 1
    /\ UNCHANGED scenario

Quiet == UNCHANGED <<events, scenario>>

Init ==
    /\ TableInit
    /\ ClockInit
    /\ ConsoleInit
    /\ events = 0
    /\ scenario \in Scenario

AllGroups == UNION {{b} \X Groups(b) : b \in DOMAIN batches}

Invoked == Invoke /\ Quiet /\ UNCHANGED <<tableVars, consoleVars>>

ClockMoves == ClockStep /\ Quiet /\ UNCHANGED <<tableVars, consoleVars>>

Delivered == \E r \in inflight : Deliver(r) /\ Quiet /\ UNCHANGED consoleVars

Scheduled ==
    /\ Assign \/ Finish \/ TakeBack
    /\ Quiet
    /\ UNCHANGED <<clockVars, consoleVars>>

Paged == (NextPage \/ ListNext) /\ Quiet /\ UNCHANGED clockVars

UserActs ==
    /\ \/ Event("console") /\ Refresh("groups")
       \/ Event("console") /\ \E v \in Views : OtherRefresh(v)
       \/ Event("list") /\ (ListFirst \/ OtherRefresh("tasks"))
       \/ Event("stop") /\ (\E g \in AllGroups : cancelBatch(g)) /\ UNCHANGED consoleVars
    /\ UNCHANGED clockVars

Faults ==
    /\ \/ Event("fault") /\ Fail /\ UNCHANGED tableVars
       \/ Event("restart") /\ ServerGone /\ RestartServer
       \/ Event("day") /\ NewDay /\ UNCHANGED tableVars
       \/ Event("expiry") /\ Expire /\ UNCHANGED clockVars
    /\ UNCHANGED consoleVars

Next ==
    \/ Invoked
    \/ ClockMoves
    \/ Delivered
    \/ Scheduled
    \/ Paged
    \/ UserActs
    \/ Faults

(***************************************************************************)
(* cron keeps calling the submitter, a process that runs takes its next    *)
(* step, and the Server answers what reaches it.  Nothing is assumed of    *)
(* the tasks, the console or the users.                                    *)
(***************************************************************************)
Fairness == WF_vars(Invoked) /\ WF_vars(ClockMoves) /\ WF_vars(Delivered)

Spec == Init /\ [][Next]_vars /\ Fairness

-----------------------------------------------------------------------------
(***************************************************************************)
(* Whatever fails and is repeated, late or stopped, each entry of a plan   *)
(* has at most one task, no two batches with tasks belong to one day, and  *)
(* a batch the state file calls complete has a task for every entry of a   *)
(* group that was not stopped.  clock.py's state file and plan, and the    *)
(* Server's submission keys.                                               *)
(***************************************************************************)
SubmittedExactly ==
    /\ \A i, j \in TaskIds : tasks[i].key = tasks[j].key => i = j
    /\ \A i, j \in TaskIds :
         LET a == tasks[i].group[1]
             b == tasks[j].group[1]
         IN  a # b => batches[a] # batches[b]
    /\ stateFile.phase = "complete" =>
         \A e \in Entries(stateFile.batch) :
           \/ \E i \in TaskIds : tasks[i].key = <<stateFile.batch, e>>
           \/ <<stateFile.batch, PlanOf(stateFile.batch)[e]>> \in stopped

(***************************************************************************)
(* The revision of a daily task that is not finished is the one the build  *)
(* cleanup is told to keep, and a batch the state file says is being       *)
(* submitted has its plan on disk.  clock.py writes three files, in this   *)
(* order, and may die between any two.                                     *)
(***************************************************************************)
OpenWorkProtected ==
    /\ \A i \in TaskIds : tasks[i].status \in Unfinished => tasks[i].group[1] = protect
    /\ stateFile.phase = "submitting" => planFile = stateFile.batch

(***************************************************************************)
(* A list that is read page by page is never wrong.  A first page shows    *)
(* the tasks as they are, and no more snapshots are kept than the limit.   *)
(* The rows a console has taken, with those it can still take, make the    *)
(* whole list as it stood at its first page; otherwise its reading fails.  *)
(* A command line client, which continues by the last id it printed, is    *)
(* given every task below that id, and none twice, by whatever snapshots   *)
(* it meets.  All this whatever changes, expires, is captured by others or *)
(* is restarted between the pages.  TaskListQuery::query as fetchList of   *)
(* MainWindow uses it, and as `gcrp_client tasks --before' does, without a *)
(* snapshot_generation and without a status filter.                        *)
(***************************************************************************)
PagedListsTrue ==
    /\ Len(snaps) <= SnapshotLimit
    /\ \A v \in Views : firstSnapshot(v).rows = captured(v)
    /\ loading => \A s \in snapshotOf(token, fetch.view) :
                    sameServer => fetch.rows \o after(s.rows, fetch.before) = truth
    /\ listing # 0 => \A s \in snapshotOf(0, "tasks") :
                        LET rest == after(s.rows, listing)
                        IN  [k \in DOMAIN rest |-> rest[k].id] =
                              [k \in 1..(listing - 1) |-> listing - k]

(***************************************************************************)
(* A batch whose submission has begun is submitted to its end, although    *)
(* processes die, replies are lost and the Server restarts: cron starts    *)
(* the next process and that one resumes the saved plan.  clock.py's       *)
(* resume branch.                                                          *)
(***************************************************************************)
BatchCompletes == stateFile.phase = "submitting" ~> stateFile.phase = "complete"
=============================================================================
