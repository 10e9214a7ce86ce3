--------------------------- MODULE WorkerProcess ----------------------------
(***************************************************************************)
(* The Python worker of one slot: gcrp_worker.py, with the parts of        *)
(* pjtest_adapter.py, process_executor.py, execution_guard.py,             *)
(* recovery_journal.py and log_retention.py it runs, and the supervision   *)
(* of the slot by slot_manager.py.                                         *)
(*                                                                         *)
(* The process has one thread.  pc is where it is, ctx the procedure whose *)
(* steps it takes: the main loop, heartbeat, connect, or the end of        *)
(* execute.  A heartbeat is called from the loop or, while a case runs,    *)
(* from the executor; connect is called from the loop or from such a       *)
(* heartbeat.  stage says how far execute has come, so it tells the        *)
(* callers apart.  What is on disk outlives the process, and every write   *)
(* is a step of its own, so that a crash may fall between any two.         *)
(*                                                                         *)
(* A run is executed as up to three process trees (the clean before, the   *)
(* case, the clean after), each under a guard that kills the tree when the *)
(* worker is gone and writes the receipt when nothing of it is left.  The  *)
(* slot has a clean.sh and its use is configured.                          *)
(***************************************************************************)
EXTENDS LogArchive, FiniteSetsExt

CONSTANTS MaxEvent,    \* bound on disturbances: broken connections, killed
                       \* processes, logs pruned by the server,
          FailLimit    \* exits after which the manager gives the slot up

ASSUME WorkerAssumption ==
  MaxEvent \in Nat /\ FailLimit \in Nat \ {0}

VARIABLES pc, ctx, stage,
          assigned,        \* self.assigned
          draining,        \* self.draining
          verdict,         \* the status of the adapter's result
          dying,           \* an exception unwinds execute
          offset           \* of the log block being uploaded

VARIABLES drainFile,       \* .drain exists
          journal,         \* active-*.json: run, and the receipt it names
          receipts,        \* clean-*.json that the journal may name
          outbox,          \* pending-report-*.json
          manifests,       \* pending-logs-*.json, by run
          logs             \* runs whose output directory exists

VARIABLES guards, trees    \* execution guards, and trees not yet reaped

VARIABLES child, desired, fails   \* the slot manager's view of the slot

VARIABLE events            \* disturbances so far

VARIABLES executed,        \* history: the run whose case was launched last, how
                           \* often, and whether a result of it was forgotten
          saved,           \* history: the report that was saved last
          stored           \* history: runs whose upload was acknowledged

procVars  == <<pc, ctx, stage, assigned, draining, verdict, dying, offset>>
diskVars  == <<drainFile, journal, receipts, outbox, manifests, logs>>
treeVars  == <<guards, trees>>
hostVars  == <<child, desired, fails>>
histVars  == <<executed, saved, stored>>
vars == <<serverVars, linkVars, logVars, procVars, diskVars, treeVars,
          hostVars, events, histVars>>

Live      == {"pre", "main", "post"}
Launch    == Run \X Live
NoLaunch  == <<NoRun, "none">>
NoJournal == [run |-> NoRun, receipt |-> NoLaunch]
NoReport  == [run |-> NoRun, status |-> "none"]
Asking    == {"register", "drain", "flush", "active", "lost", "idle",
              "upload", "beat", "start"}

\* The launch execute is at, and the log block flush_logs is at.
thisLaunch == <<assigned, stage>>
thisBlock  == [run |-> Min(manifests), offset |-> offset]

Init ==
  /\ ServerInit /\ ArchiveInit
  /\ pc = "down" /\ ctx = "loop" /\ stage = "none" /\ assigned = NoRun
  /\ draining = FALSE /\ verdict = "none" /\ dying = FALSE /\ offset = 0
  /\ drainFile = FALSE /\ journal = NoJournal /\ receipts = {}
  /\ outbox = NoReport /\ manifests = {} /\ logs = {}
  /\ guards = {} /\ trees = {}
  /\ child = FALSE /\ desired = TRUE /\ fails = 0
  /\ events = 0
  /\ executed = [run |-> NoRun, times |-> 0, dropped |-> FALSE]
  /\ saved = NoReport /\ stored = {}

-----------------------------------------------------------------------------
(* The server's end of the connection.                                     *)

\* The server handles the request the worker waits on.
ServerHandles ==
  /\ link = "up" /\ reply = NoReply
  /\ \/ /\ \/ pc = "register" /\ registerReply
           \/ /\ UNCHANGED joined
              /\ \/ pc = "drain" /\ drainReply
                 \/ pc = "flush" /\ resultReply(outbox.run, outbox.status)
                 \/ pc = "active" /\ activeReply(assigned)
                 \/ pc = "lost" /\ lostReply(journal.run)
                 \/ pc = "idle" /\ idleReply
                 \/ pc = "beat" /\ beatReply
                 \/ pc = "start" /\ startReply(assigned)
        /\ UNCHANGED logVars
     \/ pc = "upload" /\ appendReply(thisBlock) /\ UNCHANGED joined
  /\ UNCHANGED <<link, wire, procVars, diskVars, treeVars, hostVars,
                 events, histVars>>

\* One more of the bounded disturbances.
Event == events < MaxEvent /\ events' = events + 1

\* The connection breaks, or the server goes down.
Break ==
  /\ link = "up" /\ Event
  /\ Unlink("broken")
  /\ told' = NoFile
  /\ \/ UNCHANGED <<archive, late>>
     \/ pc = "upload" /\ reply = NoReply /\ appendCut(thisBlock)
  /\ UNCHANGED <<serverVars, procVars, diskVars, treeVars, hostVars,
                 histVars>>

\* What the server does on its own.
ServerMoves ==
  /\ \/ (\E r \in Run : Dispatch(r)) /\ UNCHANGED <<logVars, events>>
     \/ ServerCloses /\ UNCHANGED <<logVars, events>>
     \/ (\E a \in late : LateAppend(a)) /\ UNCHANGED events
     \/ (\E r \in Run : PruneArchive(r)) /\ Event
  /\ UNCHANGED <<procVars, diskVars, treeVars, hostVars, histVars>>

-----------------------------------------------------------------------------
(* How the steps of the process end and where it goes next.                *)

\* The process ends: memory and connection are gone, the disk stays.
Exit ==
  /\ pc' = "down" /\ ctx' = "loop" /\ stage' = "none" /\ assigned' = NoRun
  /\ draining' = FALSE /\ verdict' = "none" /\ dying' = FALSE /\ offset' = 0
  /\ Unlink("none") /\ told' = NoFile

\* An exception nobody handles.  While a tree runs, the executor closes the
\* lease and waits for the guard first.
Raise ==
  IF stage \in Live
  THEN /\ pc' = "stop" /\ dying' = TRUE /\ reply' = NoReply /\ told' = NoFile
       /\ UNCHANGED <<link, joined, wire, ctx, stage, assigned, draining, verdict, offset>>
  ELSE Exit

\* acknowledge_drain has something to send.
mustAck == drainFile /\ ~ draining /\ link # "none"

\* Where the process goes after acknowledge_drain, after flush_report and
\* after try_flush_logs, by the procedure that called it.
afterAck(c) == CASE c = "connect" -> IF outbox # NoReport THEN "report" ELSE "claim"
                 [] c = "loop" -> IF outbox # NoReport THEN "report" ELSE "work"
                 [] c = "beat" -> "beat"
                 [] c = "end" -> "save"
afterFlush(c) == CASE c = "connect" -> "claim" [] c = "end" -> "logs" [] OTHER -> "work"
afterLogs(c)  == CASE c = "connect" -> "connected" [] c = "beat" -> "prune" [] OTHER -> "loop"

ackOr(c) == IF mustAck THEN "drain" ELSE afterAck(c)

\* The process goes to p in procedure c; the rest of its memory stays.
Goto(p, c) ==
  /\ pc' = p /\ ctx' = c
  /\ UNCHANGED <<stage, assigned, draining, verdict, dying, offset>>

\* It reads the answer a of the request it waits on at p.
Reads(p, a) ==
  /\ pc = p /\ reply = a /\ reply' = NoReply
  /\ UNCHANGED <<link, joined, wire>>

\* Nothing changes but the process itself.
Quiet == UNCHANGED <<diskVars, histVars, told>>

-----------------------------------------------------------------------------
(* connect, heartbeat, flush_report, try_flush_logs and the main loop.     *)

\* An answer the code does not accept.
Refused ==
  /\ \/ reply \in {"rejected", "quarantined"} /\ pc # "upload"
     \/ pc = "idle" /\ reply \in Answer \ {"ready"}
  /\ Raise
  /\ UNCHANGED <<diskVars, histVars>>

\* Mutant: a lost connection unwinds the execution.
LostUnwinds ==
  /\ pc \in Asking \ {"upload"} /\ link = "broken"
  /\ Unlink("none") /\ told' = NoFile
  /\ pc' = "loop" /\ ctx' = "loop" /\ stage' = "none" /\ verdict' = "none"
  /\ UNCHANGED <<assigned, draining, dying, offset, diskVars, histVars>>

\* TransportError of a request other than log_append.  heartbeat and the main
\* loop disconnect and go on; at the end of execute the result that was about
\* to be saved is forgotten.
Lost ==
  /\ pc \in Asking \ {"upload"} /\ link = "broken"
  /\ Unlink("none") /\ told' = NoFile
  /\ pc' = IF stage \in Live THEN "exec" ELSE "loop"
  /\ ctx' = "loop"
  /\ stage' = IF stage = "over" THEN "none" ELSE stage
  /\ verdict' = IF stage = "over" THEN "none" ELSE verdict
  /\ executed' = [executed EXCEPT !.dropped =
                                 @ \/ (stage = "over" /\ executed.run = assigned)]
  /\ UNCHANGED <<assigned, draining, dying, offset, diskVars, saved, stored>>

\* A task_assign arrives while an answer is awaited, or in the idle loop.
TakeAssignment ==
  /\ wire # NoRun /\ link = "up" /\ pc \in Asking \cup {"work"}
  /\ pc = "work" => assigned = NoRun /\ ~ draining
  /\ IF assigned # NoRun
     THEN Raise
     ELSE /\ assigned' = wire /\ wire' = NoRun
          /\ pc' = IF pc = "work" THEN "loop" ELSE pc
          /\ UNCHANGED <<link, joined, reply, told, ctx, stage, draining, verdict,
                         dying, offset>>
  /\ UNCHANGED <<diskVars, histVars>>

\* The main loop starts over: a drained idle slot leaves, a disconnected one
\* connects, a connected one looks at .drain and at the outbox.
LoopTop ==
  /\ pc = "loop"
  /\ \/ /\ link = "none" /\ drainFile /\ assigned = NoRun /\ outbox = NoReport
        /\ Exit
     \/ /\ link = "none"
        /\ ~ (drainFile /\ assigned = NoRun /\ outbox = NoReport)
        /\ link' = "up" /\ Goto("register", "connect")
        /\ UNCHANGED <<joined, wire, reply, told>>
     \/ /\ link # "none" /\ Goto(ackOr("loop"), "loop")
        /\ UNCHANGED <<linkVars, told>>
  /\ UNCHANGED <<diskVars, histVars>>

\* The rest of the loop: leave, execute, or wait for a message.  Without a
\* connection (try_flush_logs lost it inside connect) both end the process.
LoopWork ==
  /\ pc = "work" /\ UNCHANGED histVars
  /\ \/ draining /\ assigned = NoRun /\ Exit /\ UNCHANGED diskVars
     \/ /\ assigned # NoRun
        /\ journal' = [run |-> assigned, receipt |-> NoLaunch]
        /\ UNCHANGED <<drainFile, receipts, outbox, manifests, logs>>
        /\ IF link = "none"
           THEN Exit
           ELSE Goto("start", "loop") /\ UNCHANGED <<linkVars, told>>
     \/ /\ assigned = NoRun /\ ~ draining /\ UNCHANGED diskVars
        /\ \/ link = "none" /\ Exit
           \/ link = "broken" /\ Goto("loop", "loop") /\ Unlink("none") /\ UNCHANGED told
           \/ link = "up" /\ Goto(ackOr("beat"), "beat") /\ UNCHANGED <<linkVars, told>>

\* connect: registered.
Registered ==
  /\ Reads("register", "ok") /\ Quiet
  /\ draining' = FALSE
  /\ pc' = IF drainFile THEN "drain" ELSE afterAck("connect")
  /\ UNCHANGED <<ctx, stage, assigned, verdict, dying, offset>>

\* acknowledge_drain: the server has the worker DRAINING.
DrainAcked ==
  /\ Reads("drain", "ok") /\ Quiet
  /\ draining' = TRUE /\ pc' = afterAck(ctx)
  /\ UNCHANGED <<ctx, stage, assigned, verdict, dying, offset>>

\* flush_report: the upload intent is written before the result is sent.
ReportSent ==
  /\ pc = "report" /\ UNCHANGED histVars
  /\ \/ /\ outbox.run \in logs
        /\ manifests' = manifests \cup {outbox.run}
        /\ Goto("flush", ctx)
        /\ UNCHANGED <<linkVars, told, drainFile, journal, receipts, outbox, logs>>
     \/ outbox.run \notin logs /\ Raise /\ UNCHANGED diskVars

\* flush_report: acknowledged, the journal is removed first, then the outbox.
ReportAcked ==
  /\ UNCHANGED histVars
  /\ \/ /\ Reads("flush", "ok") /\ UNCHANGED told
        /\ journal' = NoJournal /\ Goto("unlink", ctx)
        /\ UNCHANGED <<drainFile, receipts, outbox, manifests, logs>>
     \/ /\ pc = "unlink" /\ UNCHANGED <<linkVars, told>>
        /\ outbox' = NoReport /\ Goto(afterFlush(ctx), ctx)
        /\ UNCHANGED <<drainFile, journal, receipts, manifests, logs>>

\* Mutant: a journal is always taken for the trace of a finished tree.
exitAssumed == TRUE

\* The tree the journal names is known to be gone.
exitProven == journal.receipt = NoLaunch \/ journal.receipt \in receipts

\* run: without a report to send, a new process needs the receipt its journal
\* names before it touches the slot.
Boot ==
  /\ pc = "boot" /\ UNCHANGED <<linkVars, diskVars, histVars, told>>
  /\ Goto(IF outbox # NoReport \/ exitProven THEN "loop" ELSE "down", "loop")

\* Mutant: a worker without an assignment always declares itself idle.
ClaimIdle ==
  /\ pc = "claim" /\ UNCHANGED <<linkVars, diskVars, histVars, told>>
  /\ \/ assigned # NoRun /\ Goto("active", ctx)
     \/ assigned = NoRun /\ Goto("idle", ctx)

\* connect: the state of the slot the worker declares.
Claim ==
  /\ pc = "claim" /\ UNCHANGED <<diskVars, histVars>>
  /\ \/ /\ \/ assigned # NoRun /\ Goto("active", ctx)
           \/ assigned = NoRun /\ journal # NoJournal /\ exitProven /\ Goto("lost", ctx)
           \/ assigned = NoRun /\ journal = NoJournal /\ Goto("idle", ctx)
        /\ UNCHANGED <<linkVars, told>>
     \/ assigned = NoRun /\ journal # NoJournal /\ ~ exitProven /\ Raise

\* connect: the answer to the claim.  After a decision on a lost run the
\* journal goes and the worker declares itself idle.
Recovered ==
  /\ UNCHANGED <<histVars, told>>
  /\ \/ /\ Reads("active", "resume") \/ Reads("idle", "ready")
        /\ Goto("logs", ctx) /\ UNCHANGED diskVars
     \/ /\ Reads("lost", "decided")
        /\ journal' = NoJournal /\ Goto("idle", ctx)
        /\ UNCHANGED <<drainFile, receipts, outbox, manifests, logs>>

\* connect returns: to the loop, or to the heartbeat of a running case, which
\* sends its request whether or not a connection is left.
Connected ==
  /\ pc = "connected" /\ UNCHANGED <<diskVars, histVars>>
  /\ \/ stage = "none" /\ Goto(ackOr("loop"), "loop") /\ UNCHANGED <<linkVars, told>>
     \/ /\ stage # "none" /\ link # "none"
        /\ Goto(ackOr("beat"), "beat") /\ UNCHANGED <<linkVars, told>>
     \/ stage # "none" /\ link = "none" /\ Raise

\* heartbeat: answered.  An idle worker may find that log upload is due.
Beaten ==
  /\ Reads("beat", "ok") /\ Quiet
  /\ \/ stage \in Live /\ Goto("exec", "loop")
     \/ stage = "none" /\ Goto("loop", "loop")
     \/ stage = "none" /\ assigned = NoRun /\ Goto("logs", "beat")

\* Mutant: only the run in the journal is kept from retention.
journalProtected == {journal.run}

\* _protected: the runs whose files are still needed.
protected == {journal.run, outbox.run} \cup manifests

\* heartbeat: retention removes old output directories of an idle worker.
PruneLogs ==
  /\ pc = "prune" /\ UNCHANGED <<linkVars, histVars, told>>
  /\ \E newest \in 0..MaxRun :
       logs' = {r \in logs : r > newest \/ r \in protected}
  /\ Goto("loop", "loop")
  /\ UNCHANGED <<drainFile, journal, receipts, outbox, manifests>>

\* flush_logs: the next manifest, from its first block, unless its files
\* cannot be read.
NextLog ==
  /\ pc = "logs" /\ UNCHANGED <<linkVars, diskVars, histVars, told>>
  /\ offset' = 0
  /\ \/ /\ link # "none" /\ manifests # {} /\ thisBlock.run \in logs
        /\ pc' = "upload"
     \/ pc' = afterLogs(ctx)
  /\ UNCHANGED <<ctx, stage, assigned, draining, verdict, dying>>

\* flush_logs: the answer to one block.  The next one starts where the server
\* says; the manifest goes when the server has the whole log.
BlockAnswered ==
  /\ pc = "upload" /\ reply # NoReply
  /\ reply' = NoReply /\ told' = NoFile /\ UNCHANGED <<link, joined, wire>>
  /\ UNCHANGED <<ctx, stage, assigned, draining, verdict, dying>>
  /\ UNCHANGED <<drainFile, journal, receipts, outbox, logs, executed, saved>>
  /\ \/ /\ reply = "ok" /\ told = [size |-> Chunks, done |-> TRUE]
        /\ manifests' = manifests \ {thisBlock.run}
        /\ stored' = stored \cup {thisBlock.run}
        /\ pc' = "logs" /\ offset' = 0
     \/ /\ reply = "ok" /\ ~ told.done
        /\ told.size # offset \/ blocks(thisBlock) # 0
        /\ offset' = told.size
        /\ UNCHANGED <<pc, manifests, stored>>
     \/ /\ \/ reply = "rejected"
           \/ told.done /\ told.size # Chunks
           \/ ~ told.done /\ told.size = offset /\ blocks(thisBlock) = 0
        /\ pc' = afterLogs(ctx) /\ offset' = 0
        /\ UNCHANGED <<manifests, stored>>

\* try_flush_logs: TransportError, the worker disconnects and goes on.
UploadLost ==
  /\ pc = "upload" /\ link = "broken"
  /\ Unlink("none") /\ told' = NoFile
  /\ pc' = afterLogs(ctx) /\ offset' = 0
  /\ UNCHANGED <<ctx, stage, assigned, draining, verdict, dying, diskVars,
                 histVars>>

Conversation ==
  /\ \/ Boot \/ Refused \/ Lost \/ TakeAssignment \/ LoopTop \/ LoopWork
     \/ Registered \/ DrainAcked \/ ReportSent \/ ReportAcked
     \/ Claim \/ Recovered \/ Connected \/ Beaten \/ PruneLogs
     \/ NextLog \/ BlockAnswered \/ UploadLost
  /\ UNCHANGED <<serverVars, archive, late, treeVars, hostVars, events>>

-----------------------------------------------------------------------------
(* execute, the adapter, the executor and the guard.                       *)

\* The next tree of the run, with what is known of its result.
LaunchNext(s, v) ==
  /\ pc' = "launch" /\ stage' = s /\ verdict' = v
  /\ UNCHANGED <<ctx, assigned, draining, dying, offset>>

\* The adapter returns: acknowledge_drain, then save_report.
Return(v) ==
  /\ stage' = "over" /\ verdict' = v
  /\ pc' = ackOr("end") /\ ctx' = "end"
  /\ UNCHANGED <<assigned, draining, dying, offset>>

\* execute: the start is granted; the adapter makes the output directory and
\* prepares the slot, or fails before it has touched it.
Prepare ==
  /\ \/ Reads("start", "ok") /\ Goto("prepare", ctx) /\ UNCHANGED logs
     \/ /\ pc = "prepare" /\ UNCHANGED linkVars
        /\ logs' = logs \cup {assigned}
        /\ LaunchNext("pre", "none") \/ Return("FAILED")
  /\ UNCHANGED <<told, drainFile, journal, receipts, outbox, manifests, treeVars,
                 histVars>>

\* before_launch: the journal names the receipt of the tree to come, a file
\* of a new name.  The ones it named before are never looked at again.
NameReceipt ==
  /\ pc = "launch" /\ Goto("spawn", ctx)
  /\ journal' = [journal EXCEPT !.receipt = thisLaunch]
  /\ receipts' = {}
  /\ UNCHANGED <<linkVars, told, drainFile, outbox, manifests, logs, treeVars,
                 histVars>>

\* The guard is started, or cannot be: then the run has failed, and after a
\* failed clean the slot is not fit for another one.
StartGuard ==
  /\ pc = "spawn" /\ UNCHANGED <<diskVars, saved, stored>>
  /\ \/ /\ guards' = guards \cup {thisLaunch} /\ trees' = trees \cup {thisLaunch}
        /\ executed' =
             IF stage # "main" THEN executed
             ELSE IF executed.run = assigned THEN [executed EXCEPT !.times = @ + 1]
             ELSE [run |-> assigned, times |-> 1, dropped |-> FALSE]
        /\ Goto("exec", "loop") /\ UNCHANGED <<linkVars, told>>
     \/ /\ UNCHANGED <<treeVars, executed>>
        /\ \/ stage # "post" /\ LaunchNext("post", "FAILED") /\ UNCHANGED <<linkVars, told>>
           \/ stage = "post" /\ Exit

\* executor.run calls heartbeat while the guard lives.
ExecBeat ==
  /\ pc = "exec" /\ thisLaunch \in guards
  /\ \/ link # "none" /\ Goto(ackOr("beat"), "beat") /\ UNCHANGED linkVars
     \/ /\ link = "none" /\ link' = "up" /\ Goto("register", "connect")
        /\ UNCHANGED <<joined, wire, reply>>
  /\ UNCHANGED <<told, diskVars, treeVars, histVars>>

\* The guard is gone.  With its completion mark the outcome of the tree leads
\* to the next one; a failed clean after the case, an exception on its way
\* out, or a missing mark end the process without a report.
ExecReturns ==
  /\ pc = "exec" /\ thisLaunch \notin guards
  /\ \/ /\ thisLaunch \in receipts /\ UNCHANGED <<linkVars, told>>
        /\ \/ stage = "pre" /\ LaunchNext("main", "none")
           \/ stage = "pre" /\ LaunchNext("post", "FAILED")
           \/ stage = "main" /\ \E v \in Verdict : LaunchNext("post", v)
           \/ stage = "post" /\ ~ dying /\ Return(verdict)
     \/ stage = "post" /\ Exit
     \/ thisLaunch \notin receipts /\ Exit
  /\ UNCHANGED <<diskVars, treeVars, histVars>>

\* executor.stop during an exception: the guard is waited for, then the
\* adapter cleans the slot if that is safe.
ExecStops ==
  /\ pc = "stop" /\ thisLaunch \notin guards
  /\ \/ /\ stage # "post" /\ thisLaunch \in receipts
        /\ LaunchNext("post", "none") /\ UNCHANGED <<linkVars, told>>
     \/ stage = "post" /\ Exit
     \/ thisLaunch \notin receipts /\ Exit
  /\ UNCHANGED <<diskVars, treeVars, histVars>>

\* save_report, then the slot is free for the next assignment.
SaveReport ==
  /\ pc = "save"
  /\ outbox' = [run |-> assigned, status |-> verdict]
  /\ saved' = outbox'
  /\ assigned' = NoRun /\ stage' = "none" /\ verdict' = "none"
  /\ pc' = IF link # "none" THEN "report" ELSE "loop"
  /\ UNCHANGED <<ctx, draining, dying, offset, linkVars, told, drainFile, journal,
                 receipts, manifests, logs, treeVars, executed, stored>>

Execution ==
  /\ \/ Prepare \/ NameReceipt \/ StartGuard \/ ExecBeat \/ ExecReturns
     \/ ExecStops \/ SaveReport
  /\ UNCHANGED <<serverVars, archive, late, hostVars, events>>

\* The guard: the command has ended, ran out of time, or the lease is lost;
\* when no descendant is left the receipt is written.
GuardEnds(l) ==
  /\ l \in guards
  /\ guards' = guards \ {l} /\ trees' = trees \ {l}
  /\ receipts' = receipts \cup {l}
  /\ UNCHANGED <<serverVars, linkVars, logVars, procVars, drainFile, journal,
                 outbox, manifests, logs, hostVars, events, histVars>>

\* The guard is killed: its tree may live on, and nobody writes the receipt.
GuardKilled(l) ==
  /\ l \in guards /\ Event
  /\ guards' = guards \ {l}
  /\ UNCHANGED <<serverVars, linkVars, logVars, procVars, diskVars, trees,
                 hostVars, histVars>>

\* The worker process is killed.
WorkerKilled ==
  /\ pc # "down" /\ Event /\ Exit
  /\ UNCHANGED <<serverVars, archive, late, diskVars, treeVars, hostVars,
                 histVars>>

-----------------------------------------------------------------------------
(* The slot manager.                                                       *)

\* A child has exited: of a slot that is still wanted the exits are counted,
\* from one again after thirty seconds of life.
Reap ==
  /\ child /\ pc = "down"
  /\ child' = FALSE
  /\ fails' \in IF desired THEN {1, fails + 1} ELSE {fails}
  /\ UNCHANGED <<desired, procVars, diskVars, events>>

\* A slot that failed too often stays down as long as the manager lives.
restarts == fails < FailLimit

\* start: never beside a process that holds the slot's lock.
StartChild ==
  /\ desired /\ ~ child /\ restarts /\ pc = "down"
  /\ child' = TRUE /\ drainFile' = FALSE
  /\ Goto("boot", "loop")
  /\ UNCHANGED <<desired, fails, journal, receipts, outbox, manifests, logs,
                 events>>

\* reload_config: a slot that is no longer listed is drained, one that is
\* listed again is started when its old process has left.
Reload ==
  /\ Event
  /\ desired' = ~ desired
  /\ drainFile' = (drainFile \/ (desired /\ child))
  /\ UNCHANGED <<child, fails, procVars, journal, receipts, outbox, manifests,
                 logs>>

Supervise(A) ==
  A /\ UNCHANGED <<serverVars, linkVars, logVars, treeVars, histVars>>

-----------------------------------------------------------------------------
Next ==
  \/ ServerHandles \/ ServerMoves \/ Break
  \/ Conversation \/ Execution
  \/ \E l \in Launch : GuardEnds(l) \/ GuardKilled(l)
  \/ WorkerKilled
  \/ Supervise(Reap \/ StartChild) \/ Supervise(Reload)

\* The server answers what reaches it, the process and its guards run on, and
\* the manager polls its children.  Connections need not break, processes
\* need not be killed and nobody needs to reload.
Fairness ==
  /\ WF_vars(ServerHandles)
  /\ WF_vars(Conversation \/ Execution)
  /\ WF_vars(\E l \in Launch : GuardEnds(l))
  /\ WF_vars(Supervise(Reap \/ StartChild))

Spec == Init /\ [][Next]_vars /\ Fairness

-----------------------------------------------------------------------------
(* Properties.                                                             *)

\* Two execution trees of a slot never live at the same time: whatever dies
\* or is restarted, nothing is launched until every earlier tree is known to
\* be gone (before_launch, exit receipts, the quarantine of connect and run).
NoOverlap == Cardinality(trees) <= 1

\* A result that was saved stays in the outbox until the server has exactly
\* this result, over lost replies, crashes in flush_report and restarts.
ReportKept ==
  saved # NoReport => outbox = saved \/ srv[saved.run] = saved.status

\* The server never refuses what the worker tells it about itself: journal,
\* outbox and memory never drift from the server's rows so far that a start,
\* a result or a recovery claim is rejected or quarantined.
NeverBlocked == reply \in {"rejected", "quarantined"} => pc = "upload"

\* The logs of a reported run are not lost: the upload intent and the files
\* stay until the server acknowledged the whole log, and a completed log of
\* the archive has exactly its blocks (_protected, queue_logs, append).
LogsKept ==
  /\ \A r \in Run : srv[r] \in Verdict => r \in stored \/ r \in manifests \cap logs
  /\ ArchiveExact

\* A case is launched again under the same run only when its first result was
\* forgotten at the drain request that precedes save_report.
RerunOnlyAfterDrop == executed.times > 1 => executed.dropped

\* The slot is given up: not wanted any more, failed too often, or waiting
\* for an inspection because the exit of a tree is unproven.
GivenUp ==
  \/ ~ desired
  \/ fails = FailLimit
  \/ journal.receipt # NoLaunch /\ journal.receipt \notin receipts \cup guards

\* Every run the server has RUNNING is settled, by a result or by a recovery
\* decision, unless the slot is given up.
RunSettles ==
  \A r \in Run : srv[r] = "RUNNING" ~> (srv[r] # "RUNNING" \/ GivenUp)

\* TCP loss is not execution failure: no case is executed twice under one
\* run, because the result of the first execution is kept until it is sent.
RunsOnce == executed.times <= 1
=============================================================================
