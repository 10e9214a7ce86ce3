----------------------------- MODULE WorkerProof -----------------------------
(***************************************************************************)
(* Proofs about the worker of one slot, for any number of runs, blocks and *)
(* disturbances.                                                           *)
(***************************************************************************)
EXTENDS WorkerProcess, FiniteSetTheorems, TLAPS

RunOrNone == Run \cup {NoRun}

\* The places of the thread.
Place == {"down", "boot", "loop", "work", "connected", "claim", "report",
          "unlink", "logs", "prune", "prepare", "launch", "spawn", "exec",
          "stop", "save"} \cup Asking

RunState == {"NONE", "ASSIGNED", "RUNNING", "LOST"} \cup Verdict

TypeInv ==
  /\ srv \in [Run -> RunState]
  /\ link \in {"none", "up", "broken"}
  /\ wire \in RunOrNone
  /\ reply \in Answer \cup {NoReply}
  /\ archive \in [Run -> [size : Nat, done : BOOLEAN]]
  /\ pc \in Place
  /\ ctx \in {"loop", "connect", "beat", "end"}
  /\ stage \in {"none", "over"} \cup Live
  /\ assigned \in RunOrNone
  /\ verdict \in {"none"} \cup Verdict
  /\ journal \in [run : RunOrNone, receipt : Launch \cup {NoLaunch}]
  /\ outbox \in [run : RunOrNone, status : {"none"} \cup Verdict]
  /\ manifests \subseteq Run
  /\ trees \subseteq Launch
  /\ executed \in [run : RunOrNone, times : Nat, dropped : BOOLEAN]
  /\ saved \in [run : RunOrNone, status : {"none"} \cup Verdict]

\* Where the thread can be while a tree of the run is to be launched or runs,
\* when execute is over, and what that says about the outbox.
Launching == {"launch", "spawn", "exec", "stop"}

PlaceInv ==
  /\ stage \in Live =>
       /\ assigned # NoRun /\ outbox = NoReport
       /\ \/ pc \in Launching
          \/ /\ ctx = "connect"
             /\ pc \in {"register", "drain", "claim", "active", "logs", "upload",
                        "connected"}
          \/ ctx = "beat" /\ pc \in {"drain", "beat"}
  /\ stage = "over" =>
       /\ assigned # NoRun /\ outbox = NoReport
       /\ ctx = "end" /\ pc \in {"drain", "save"}
       /\ verdict # "none"
  /\ pc \in Launching => stage \in Live
  /\ pc = "save" => stage = "over"
  /\ pc = "drain" /\ ctx = "end" => stage = "over"
  /\ pc \in {"start", "prepare", "active"} => assigned # NoRun
  /\ pc \in {"work", "start", "prepare", "claim", "lost", "idle", "active"} =>
       outbox = NoReport
  /\ pc \in {"report", "flush", "unlink"} => outbox # NoReport
  /\ pc \in {"register", "claim", "lost", "idle", "active", "connected"} =>
       ctx = "connect"
  /\ pc = "beat" => ctx = "beat"
  /\ pc \in {"down", "boot"} => assigned = NoRun /\ link = "none"
  /\ pc = "stop" => dying
  /\ stage = "post" /\ verdict = "none" => dying
  /\ outbox # NoReport => outbox.run \in Run /\ outbox.status \in Verdict

\* A tree is the one the journal names, and its receipt is not written.
TreeInv ==
  /\ guards \subseteq trees
  /\ \A l \in trees : l = journal.receipt /\ l \notin receipts
  /\ trees # {} => \/ pc \in {"down", "boot"}
                   \/ stage \in Live /\ pc \notin {"launch", "spawn"}
  /\ outbox # NoReport => trees = {}
  /\ stage \in Live /\ pc # "launch" => journal.receipt = thisLaunch
  /\ pc = "spawn" => receipts = {}

\* The connection, and the answer on it: it is the one the worker expects.
ReplyInv ==
  /\ joined => link = "up"
  /\ pc = "register" /\ reply = NoReply => ~ joined
  /\ reply # NoReply =>
       /\ link = "up"
       /\ \/ pc \in {"register", "drain", "flush", "beat", "start"} /\ reply = "ok"
          \/ pc = "active" /\ reply = "resume"
          \/ pc = "lost" /\ reply = "decided"
          \/ pc = "idle" /\ reply = "ready"
          \/ pc = "upload" /\ reply \in {"ok", "rejected"}

\* Until its claim is answered the worker is held, and it gets nothing.
HeldInv ==
  /\ joined /\ ctx = "connect" /\ pc \notin {"logs", "upload", "connected"}
       /\ reply \notin {"ready", "resume"} => held
  /\ wire # NoRun =>
       joined /\ ~ held /\ srv[wire] = "ASSIGNED" /\ assigned = NoRun

\* The run in memory is open, and the only one; it is not the reported one.
AssignedInv ==
  /\ \A q, r \in Run : srv[q] \in Open /\ srv[r] \in Open => q = r
  /\ assigned # NoRun =>
       /\ srv[assigned] \in Open
       /\ stage # "none" \/ pc = "prepare" \/ (pc = "start" /\ reply # NoReply) =>
            srv[assigned] = "RUNNING"
       /\ outbox.run # assigned
       /\ pc # "lost"
       /\ pc = "idle" => link # "up" \/ reply = "ready"

\* The saved report is one the server has or will accept.
OutboxInv ==
  /\ outbox # NoReport =>
       /\ srv[outbox.run] \in {"RUNNING", outbox.status}
       /\ journal.run \in {NoRun, outbox.run}
  /\ pc = "unlink" => journal = NoJournal
  /\ pc = "unlink" \/ (pc = "flush" /\ reply # NoReply) =>
       srv[outbox.run] = outbox.status

\* The journal names the run that was started and is not settled.
JournalInv ==
  /\ journal.run = NoRun => journal = NoJournal
  /\ journal.run # NoRun /\ outbox = NoReport => srv[journal.run] \in Open \cup {"LOST"}
  /\ \A r \in Run : srv[r] = "RUNNING" => journal.run = r
  /\ pc \in {"start", "prepare"} => journal.run = assigned
  /\ pc = "lost" => journal.run # NoRun
  /\ pc = "lost" /\ reply # NoReply => srv[journal.run] = "LOST"
  /\ pc = "idle" => journal = NoJournal

\* What the server's rows say fits the worker's memory and disk.
AgreeInv == ReplyInv /\ HeldInv /\ AssignedInv /\ OutboxInv /\ JournalInv

\* The outbox holds the report that was saved last.
SavedInv ==
  /\ outbox # NoReport => saved = outbox
  /\ saved # NoReport => saved.run \in Run /\ saved.status \in Verdict
  /\ ReportKept

\* The case of the run in memory was launched in this execution, or a result
\* of it was forgotten.
ExecutedInv ==
  /\ executed.run # NoRun => srv[executed.run] \notin {"NONE", "ASSIGNED"}
  /\ assigned # NoRun /\ executed.run = assigned /\ ~ executed.dropped =>
       \/ stage \in {"post", "over"}
       \/ stage = "main" /\ pc \notin {"launch", "spawn"}
  /\ RerunOnlyAfterDrop

\* A result is sent when the files and the upload intent are there.
LogInv ==
  /\ pc = "flush" => outbox.run \in manifests \cap logs
  /\ LogsKept

WorkerInv ==
  TypeInv /\ PlaceInv /\ TreeInv /\ AgreeInv /\ SavedInv /\ ExecutedInv /\ LogInv

-----------------------------------------------------------------------------
\* Where the procedures return to.
LEMMA Returns ==
  /\ afterAck("connect") = IF outbox # NoReport THEN "report" ELSE "claim"
  /\ afterAck("loop") = IF outbox # NoReport THEN "report" ELSE "work"
  /\ afterAck("beat") = "beat"
  /\ afterAck("end") = "save"
  /\ afterFlush("connect") = "claim"
  /\ afterFlush("end") = "logs"
  /\ afterFlush("loop") = "work"
  /\ afterFlush("beat") = "work"
  /\ afterLogs("connect") = "connected"
  /\ afterLogs("beat") = "prune"
  /\ afterLogs("loop") = "loop"
  /\ afterLogs("end") = "loop"
BY Zenon DEF afterAck, afterFlush, afterLogs

\* No run is number zero.
LEMMA RunsArePositive == NoRun \notin Run
BY RunAssumption DEF Run, NoRun

\* The place holder of the journal is no launch.
LEMMA NoLaunchIsNone == NoLaunch \notin Launch
BY RunsArePositive, Zenon DEF NoLaunch, Launch

\* The server never refuses the worker.
LEMMA AgreedNeverBlocked == AgreeInv => NeverBlocked
BY Zenon DEF AgreeInv, ReplyInv, NeverBlocked, NoReply

\* So an answer that the code does not accept never arrives.
LEMMA NeverRefused == ASSUME AgreeInv PROVE ~ Refused
BY Zenon DEF AgreeInv, ReplyInv, Refused, Answer, NoReply

\* An assignment never arrives while there is one.
LEMMA AssignedOnce ==
  ASSUME AgreeInv, TakeAssignment
  PROVE  /\ assigned = NoRun
         /\ assigned' = wire /\ wire' = NoRun
         /\ pc' = IF pc = "work" THEN "loop" ELSE pc
         /\ UNCHANGED <<link, joined, reply, told, ctx, stage, draining, verdict,
                        dying, offset>>
BY Zenon DEF AgreeInv, HeldInv, TakeAssignment

-----------------------------------------------------------------------------
(* Places.                                                                 *)

\* A process that has ended is at no place of the run.
LEMMA ExitPlace == ASSUME PlaceInv, Exit, outbox' = outbox PROVE PlaceInv'
BY Zenon DEF PlaceInv, Exit, Unlink, Live, Launching, NoReport

\* The conversation with the server keeps the places.
LEMMA ConversationPlace ==
  ASSUME TypeInv, PlaceInv, AgreeInv, Conversation PROVE PlaceInv'
<1> USE DEF PlaceInv, Goto, Reads, Quiet, Unlink, linkVars, diskVars, histVars, Live,
            Launching, Asking
<1>1. ASSUME Boot PROVE PlaceInv'
  BY <1>1, Zenon DEF Boot
<1>2. ASSUME Lost PROVE PlaceInv'
  BY <1>2, Zenon DEF Lost
<1>3. ASSUME TakeAssignment PROVE PlaceInv'
  BY <1>3, AssignedOnce, Zenon DEF TakeAssignment, TypeInv
<1>4. ASSUME LoopTop PROVE PlaceInv'
  BY <1>4, ExitPlace, Returns, Zenon DEF LoopTop, ackOr
<1>5. ASSUME LoopWork PROVE PlaceInv'
  BY <1>5, ExitPlace, Returns, Zenon DEF LoopWork, ackOr
<1>6. ASSUME Registered PROVE PlaceInv'
  BY <1>6, Returns, Zenon DEF Registered
<1>7. ASSUME DrainAcked PROVE PlaceInv'
  BY <1>7, Returns DEF DrainAcked, TypeInv
<1>8. ASSUME ReportSent PROVE PlaceInv'
  BY <1>8, ExitPlace, Zenon DEF ReportSent, Raise
<1>9. ASSUME ReportAcked PROVE PlaceInv'
  BY <1>9, Returns, Zenon DEF ReportAcked, TypeInv
<1>10. ASSUME Claim PROVE PlaceInv'
  BY <1>10, ExitPlace, Zenon DEF Claim, Raise
<1>11. ASSUME Recovered PROVE PlaceInv'
  BY <1>11, Zenon DEF Recovered
<1>12. ASSUME Connected PROVE PlaceInv'
  BY <1>12, Returns, Zenon DEF Connected, ackOr, Raise, TypeInv
<1>13. ASSUME Beaten PROVE PlaceInv'
  BY <1>13, Zenon DEF Beaten
<1>14. ASSUME PruneLogs PROVE PlaceInv'
  BY <1>14, Zenon DEF PruneLogs
<1>15. ASSUME NextLog PROVE PlaceInv'
  BY <1>15, Returns, Zenon DEF NextLog, TypeInv
<1>16. ASSUME BlockAnswered PROVE PlaceInv'
  BY <1>16, Returns DEF BlockAnswered, TypeInv
<1>17. ASSUME UploadLost PROVE PlaceInv'
  BY <1>17, Returns, Zenon DEF UploadLost, TypeInv
<1>. QED
  BY <1>1, <1>2, <1>3, <1>4, <1>5, <1>6, <1>7, <1>8, <1>9, <1>10, <1>11, <1>12, <1>13,
     <1>14, <1>15, <1>16, <1>17, NeverRefused, Zenon DEF Conversation

\* The execution of a run keeps the places.
LEMMA ExecutionPlace ==
  ASSUME TypeInv, PlaceInv, Execution PROVE PlaceInv'
<1> USE DEF PlaceInv, Goto, Reads, LaunchNext, Return, linkVars, diskVars, histVars, Live,
            Launching, Asking
<1>1. ASSUME Prepare PROVE PlaceInv'
  BY <1>1, Returns, Zenon DEF Prepare, ackOr
<1>2. ASSUME NameReceipt PROVE PlaceInv'
  BY <1>2, Zenon DEF NameReceipt
<1>3. ASSUME StartGuard PROVE PlaceInv'
  BY <1>3, ExitPlace, Zenon DEF StartGuard
<1>4. ASSUME ExecBeat PROVE PlaceInv'
  BY <1>4, Returns DEF ExecBeat, ackOr
<1>5. ASSUME ExecReturns PROVE PlaceInv'
  BY <1>5, ExitPlace, Returns, Zenon DEF ExecReturns, ackOr, Verdict
<1>6. ASSUME ExecStops PROVE PlaceInv'
  <2>1. CASE Exit
    BY <1>6, <2>1, ExitPlace, Zenon DEF ExecStops
  <2>2. CASE LaunchNext("post", "none")
    BY <1>6, <2>2, Zenon DEF ExecStops
  <2>. QED BY <1>6, <2>1, <2>2, Zenon DEF ExecStops
<1>7. ASSUME SaveReport PROVE PlaceInv'
  BY <1>7, RunsArePositive, Zenon DEF SaveReport, TypeInv, RunOrNone, NoReport
<1>. QED
  BY <1>1, <1>2, <1>3, <1>4, <1>5, <1>6, <1>7, Zenon DEF Execution

\* No step moves the process to a place its state does not fit.
LEMMA PlaceKept ==
  ASSUME TypeInv, PlaceInv, AgreeInv, [Next]_vars PROVE PlaceInv'
<1> USE DEF vars, procVars, diskVars, linkVars
<1>1. ASSUME ServerHandles \/ ServerMoves \/ Break \/ UNCHANGED vars PROVE PlaceInv'
  <2>1. UNCHANGED <<procVars, outbox>> /\ (pc \in {"down", "boot"} => link' = link)
    BY <1>1, Zenon DEF ServerHandles, ServerMoves, Break, PlaceInv, Dispatch, ServerCloses,
                LateAppend, PruneArchive
  <2>. QED BY <2>1, Zenon DEF PlaceInv
<1>2. ASSUME NEW l \in Launch, GuardEnds(l) \/ GuardKilled(l) PROVE PlaceInv'
  BY <1>2 DEF GuardEnds, GuardKilled, PlaceInv
<1>3. ASSUME WorkerKilled PROVE PlaceInv'
  BY <1>3, ExitPlace, Zenon DEF WorkerKilled
<1>4. ASSUME Supervise(Reap \/ StartChild) \/ Supervise(Reload) PROVE PlaceInv'
  BY <1>4, Zenon DEF Supervise, Reap, StartChild, Reload, PlaceInv, Goto, Live, Launching
<1>. QED
  BY <1>1, <1>2, <1>3, <1>4, ConversationPlace, ExecutionPlace, Zenon DEF Next

-----------------------------------------------------------------------------
(* Trees.                                                                  *)

\* A process that has ended leaves the trees as they are.
LEMMA ExitTrees ==
  ASSUME TreeInv, Exit, UNCHANGED <<treeVars, receipts, journal, outbox>> PROVE TreeInv'
BY Zenon DEF TreeInv, Exit, treeVars, Live

\* Nothing of a tree changes in the conversation: at the places where the
\* journal is written or the slot is left, no tree is left.
LEMMA ConversationTrees ==
  ASSUME TypeInv, PlaceInv, TreeInv, AgreeInv, Conversation PROVE TreeInv'
<1>0. UNCHANGED treeVars
  BY Zenon DEF Conversation
<1> USE <1>0 DEF TreeInv, Goto, Reads, Quiet, Unlink, linkVars, diskVars, treeVars, Live,
            Launching, Asking, thisLaunch
<1>1. ASSUME Boot PROVE TreeInv'
  BY <1>1, NoLaunchIsNone DEF Boot, TypeInv, PlaceInv, exitProven
<1>2. ASSUME Lost PROVE TreeInv'
  BY <1>2, Zenon DEF Lost, PlaceInv
<1>3. ASSUME TakeAssignment PROVE TreeInv'
  BY <1>3, AssignedOnce, Zenon DEF TakeAssignment, PlaceInv
<1>4. ASSUME LoopTop PROVE TreeInv'
  BY <1>4, ExitTrees, Returns, Zenon DEF LoopTop, ackOr, PlaceInv
<1>5. ASSUME LoopWork PROVE TreeInv'
  <2>1. CASE Exit /\ UNCHANGED diskVars
    BY <1>5, <2>1, ExitTrees, Zenon
  <2>2. trees = {} /\ stage \notin Live
    BY <1>5, Zenon DEF LoopWork, PlaceInv
  <2>3. CASE journal' = [run |-> assigned, receipt |-> NoLaunch] /\ UNCHANGED outbox /\ Exit
    BY <2>2, <2>3, Zenon DEF Exit
  <2>4. CASE /\ \E p \in {"start", "loop", "drain", "beat"}, c \in {"loop", "beat"} : Goto(p, c)
             /\ UNCHANGED <<outbox, receipts>>
    BY <2>2, <2>4, Zenon
  <2>. QED BY <1>5, <2>1, <2>3, <2>4, Returns, Zenon DEF LoopWork, ackOr
<1>6. ASSUME Registered PROVE TreeInv'
  BY <1>6, Returns, Zenon DEF Registered, PlaceInv
<1>7. ASSUME DrainAcked PROVE TreeInv'
  BY <1>7, Returns, Zenon DEF DrainAcked, TypeInv, PlaceInv
<1>8. ASSUME ReportSent PROVE TreeInv'
  BY <1>8, ExitTrees, Zenon DEF ReportSent, Raise, PlaceInv
<1>9. ASSUME ReportAcked PROVE TreeInv'
  BY <1>9, Returns, Zenon DEF ReportAcked, TypeInv, PlaceInv
<1>10. ASSUME Claim PROVE TreeInv'
  BY <1>10, ExitTrees, Zenon DEF Claim, Raise, PlaceInv
<1>11. ASSUME Recovered PROVE TreeInv'
  BY <1>11, Zenon DEF Recovered, PlaceInv
<1>12. ASSUME Connected PROVE TreeInv'
  BY <1>12, Returns, Zenon DEF Connected, ackOr, Raise, TypeInv, PlaceInv
<1>13. ASSUME Beaten PROVE TreeInv'
  BY <1>13, Zenon DEF Beaten, PlaceInv
<1>14. ASSUME PruneLogs PROVE TreeInv'
  BY <1>14, Zenon DEF PruneLogs, PlaceInv
<1>15. ASSUME NextLog PROVE TreeInv'
  BY <1>15, Returns, Zenon DEF NextLog, TypeInv, PlaceInv
<1>16. ASSUME BlockAnswered PROVE TreeInv'
  BY <1>16, Returns, Zenon DEF BlockAnswered, TypeInv, PlaceInv
<1>17. ASSUME UploadLost PROVE TreeInv'
  BY <1>17, Returns, Zenon DEF UploadLost, TypeInv, PlaceInv
<1>. QED
  BY <1>1, <1>2, <1>3, <1>4, <1>5, <1>6, <1>7, <1>8, <1>9, <1>10, <1>11, <1>12, <1>13,
     <1>14, <1>15, <1>16, <1>17, NeverRefused, Zenon DEF Conversation

\* A tree is launched after the receipt of the one before it was seen.
LEMMA ExecutionTrees ==
  ASSUME TypeInv, PlaceInv, TreeInv, Execution PROVE TreeInv'
<1> USE DEF TreeInv, Goto, Reads, LaunchNext, Return, linkVars, diskVars, treeVars, Live,
            Launching, Asking, thisLaunch
<1>1. ASSUME Prepare PROVE TreeInv'
  BY <1>1, Returns, Zenon DEF Prepare, ackOr, PlaceInv
<1>2. ASSUME NameReceipt PROVE TreeInv'
  <2>1. trees = {} /\ outbox = NoReport /\ journal'.receipt = thisLaunch
    BY <1>2, Zenon DEF NameReceipt, PlaceInv, TypeInv
  <2>. QED BY <1>2, <2>1, Zenon DEF NameReceipt
<1>3. ASSUME StartGuard PROVE TreeInv'
  <2>1. /\ trees = {} /\ guards = {} /\ receipts = {} /\ journal.receipt = thisLaunch
        /\ outbox = NoReport /\ stage \in Live
    BY <1>3, Zenon DEF StartGuard, PlaceInv
  <2>2. CASE Exit
    BY <1>3, <2>1, <2>2, Zenon DEF StartGuard, Exit
  <2>3. CASE UNCHANGED treeVars /\ LaunchNext("post", "FAILED")
    BY <1>3, <2>1, <2>3, Zenon DEF StartGuard
  <2>4. CASE /\ guards' = guards \cup {thisLaunch} /\ trees' = trees \cup {thisLaunch}
             /\ Goto("exec", "loop")
    BY <1>3, <2>1, <2>4, Zenon DEF StartGuard
  <2>. QED BY <1>3, <2>2, <2>3, <2>4, Zenon DEF StartGuard
<1>4. ASSUME ExecBeat PROVE TreeInv'
  BY <1>4, Returns, Zenon DEF ExecBeat, ackOr, PlaceInv
<1>5. ASSUME ExecReturns PROVE TreeInv'
  <2>1. CASE Exit
    BY <1>5, <2>1, ExitTrees, Zenon DEF ExecReturns
  <2>2. CASE thisLaunch \in receipts
    <3>1. trees = {} /\ outbox = NoReport
      BY <1>5, <2>2, Zenon DEF ExecReturns, PlaceInv
    <3>. QED BY <1>5, <2>1, <2>2, <3>1, Returns, Zenon DEF ExecReturns, ackOr
  <2>. QED BY <1>5, <2>1, <2>2, Zenon DEF ExecReturns
<1>6. ASSUME ExecStops PROVE TreeInv'
  <2>1. CASE Exit
    BY <1>6, <2>1, ExitTrees, Zenon DEF ExecStops
  <2>2. CASE thisLaunch \in receipts /\ LaunchNext("post", "none")
    <3>1. trees = {} /\ outbox = NoReport
      BY <1>6, <2>2, Zenon DEF ExecStops, PlaceInv
    <3>. QED BY <1>6, <2>2, <3>1, Zenon DEF ExecStops
  <2>. QED BY <1>6, <2>1, <2>2, Zenon DEF ExecStops
<1>7. ASSUME SaveReport PROVE TreeInv'
  BY <1>7, Zenon DEF SaveReport, PlaceInv
<1>. QED
  BY <1>1, <1>2, <1>3, <1>4, <1>5, <1>6, <1>7, Zenon DEF Execution

\* No step leaves two trees, or a tree behind the worker's back.
LEMMA TreeKept ==
  ASSUME TypeInv, PlaceInv, TreeInv, AgreeInv, [Next]_vars PROVE TreeInv'
<1> USE DEF vars, procVars, diskVars, treeVars
<1>1. ASSUME ServerHandles \/ ServerMoves \/ Break \/ UNCHANGED vars PROVE TreeInv'
  <2>1. UNCHANGED <<procVars, diskVars, treeVars>>
    BY <1>1, Zenon DEF ServerHandles, ServerMoves, Break
  <2>. QED BY <2>1, Zenon DEF TreeInv, thisLaunch
<1>2. ASSUME NEW l \in Launch, GuardEnds(l) \/ GuardKilled(l) PROVE TreeInv'
  <2>1. l \in trees /\ l = journal.receipt
    BY <1>2, Zenon DEF GuardEnds, GuardKilled, TreeInv
  <2>2. CASE GuardEnds(l)
    <3>1. trees' = {} /\ pc # "spawn"
      BY <2>1, <2>2, Zenon DEF GuardEnds, TreeInv, Live, PlaceInv
    <3>. QED BY <2>1, <2>2, <3>1, Zenon DEF GuardEnds, TreeInv, thisLaunch
  <2>3. CASE GuardKilled(l)
    BY <2>3, Zenon DEF GuardKilled, TreeInv, thisLaunch
  <2>. QED BY <1>2, <2>2, <2>3, Zenon
<1>3. ASSUME WorkerKilled PROVE TreeInv'
  BY <1>3, ExitTrees, Zenon DEF WorkerKilled
<1>4. ASSUME Supervise(Reap \/ StartChild) \/ Supervise(Reload) PROVE TreeInv'
  BY <1>4, Zenon DEF Supervise, Reap, StartChild, Reload, PlaceInv, TreeInv, Goto, Live, Launching,
              thisLaunch
<1>. QED
  BY <1>1, <1>2, <1>3, <1>4, ConversationTrees, ExecutionTrees, Zenon DEF Next

\* With one journal there is at most one tree.
LEMMA OneTree == TreeInv => NoOverlap
<1> SUFFICES ASSUME TreeInv PROVE Cardinality(trees) <= 1
  BY Zenon DEF NoOverlap
<1>1. trees = {} \/ trees = {journal.receipt}
  BY Zenon DEF TreeInv
<1>2. CASE trees = {}
  BY <1>2, FS_EmptySet
<1>3. CASE trees = {journal.receipt}
  <2>1. Cardinality({journal.receipt}) = 1
    BY FS_Singleton, Zenon
  <2>. QED BY <1>3, <2>1
<1>. QED BY <1>1, <1>2, <1>3, Zenon

-----------------------------------------------------------------------------
(* The worker and the server's rows.                                       *)

\* A process that has ended agrees with the server as its disk does.
LEMMA ExitAgrees ==
  ASSUME PlaceInv, AgreeInv, Exit, UNCHANGED <<srv, journal, outbox>>
  PROVE  AgreeInv'
<1> USE DEF AgreeInv, Exit, Unlink, NoReply
<1>1. ReplyInv'
  BY Zenon DEF ReplyInv
<1>2. HeldInv'
  BY Zenon DEF HeldInv
<1>3. AssignedInv'
  BY Zenon DEF AssignedInv
<1>4. OutboxInv'
  BY Zenon DEF OutboxInv
<1>5. JournalInv'
  BY Zenon DEF JournalInv
<1>. QED BY <1>1, <1>2, <1>3, <1>4, <1>5, Zenon

\* What the worker waits for is what it asked for.
LEMMA ConversationReply ==
  ASSUME TypeInv, PlaceInv, AgreeInv, Conversation PROVE ReplyInv'
<1> USE DEF AgreeInv, ReplyInv, Goto, Reads, Quiet, Unlink, linkVars, NoReply
<1>0. CASE Exit
  BY <1>0, Zenon DEF Exit
<1>1. CASE Boot
  BY <1>1, Zenon DEF Boot
<1>2. CASE Lost
  BY <1>2, Zenon DEF Lost
<1>3. CASE TakeAssignment
  BY <1>3, AssignedOnce
<1>4. CASE LoopTop
  BY <1>0, <1>4, Returns DEF LoopTop, ackOr
<1>5. CASE LoopWork
  BY <1>0, <1>5, Returns, Zenon DEF LoopWork, ackOr
<1>6. CASE Registered
  BY <1>6, Returns, Zenon DEF Registered
<1>7. CASE DrainAcked
  BY <1>7, Returns, Zenon DEF DrainAcked, TypeInv
<1>8. CASE ReportSent
  BY <1>0, <1>8 DEF ReportSent, Raise, PlaceInv, Live, Launching
<1>9. CASE ReportAcked
  BY <1>9, Returns DEF ReportAcked, TypeInv
<1>10. CASE Claim
  BY <1>0, <1>10 DEF Claim, Raise, PlaceInv
<1>11. CASE Recovered
  BY <1>11, Zenon DEF Recovered
<1>12. CASE Connected
  BY <1>0, <1>12, Returns, Zenon DEF Connected, ackOr, Raise
<1>13. CASE Beaten
  BY <1>13, Zenon DEF Beaten
<1>14. CASE PruneLogs
  BY <1>14, Zenon DEF PruneLogs
<1>15. CASE NextLog
  BY <1>15, Returns, Zenon DEF NextLog, TypeInv
<1>16. CASE BlockAnswered
  BY <1>16, Returns, Zenon DEF BlockAnswered, TypeInv
<1>17. CASE UploadLost
  BY <1>17, Zenon DEF UploadLost
<1>. QED
  BY <1>1, <1>2, <1>3, <1>4, <1>5, <1>6, <1>7, <1>8, <1>9, <1>10, <1>11, <1>12, <1>13,
     <1>14, <1>15, <1>16, <1>17, NeverRefused, Zenon DEF Conversation

\* Until its claim is answered the worker stays held.
LEMMA ConversationHeld ==
  ASSUME TypeInv, PlaceInv, AgreeInv, Conversation PROVE HeldInv'
<1> USE DEF AgreeInv, ReplyInv, HeldInv, Goto, Reads, Quiet, Unlink, linkVars, NoReply
<1>r. UNCHANGED <<srv, held>>
  BY Zenon DEF Conversation, serverVars
<1>0. CASE Exit
  BY <1>0, Zenon DEF Exit
<1>1. CASE Boot
  BY <1>1, <1>r, Zenon DEF Boot
<1>2. CASE Lost
  BY <1>2, <1>r, Zenon DEF Lost
<1>3. CASE TakeAssignment
  BY <1>3, <1>r, AssignedOnce, Zenon DEF TakeAssignment, Asking
<1>4. CASE LoopTop
  BY <1>0, <1>4, <1>r DEF LoopTop
<1>5. CASE LoopWork
  BY <1>0, <1>5, <1>r, Zenon DEF LoopWork
<1>6. CASE Registered
  BY <1>6, <1>r, Returns, Zenon DEF Registered, PlaceInv
<1>7. CASE DrainAcked
  BY <1>7, <1>r, Returns, Zenon DEF DrainAcked, TypeInv
<1>8. CASE ReportSent
  BY <1>0, <1>8, <1>r DEF ReportSent, Raise, PlaceInv, Live, Launching
<1>9. CASE ReportAcked
  BY <1>9, <1>r, Returns DEF ReportAcked, TypeInv
<1>10. CASE Claim
  BY <1>0, <1>10, <1>r DEF Claim, Raise, PlaceInv
<1>11. CASE Recovered
  BY <1>11, <1>r DEF Recovered
<1>12. CASE Connected
  BY <1>0, <1>12, <1>r, Zenon DEF Connected, Raise
<1>13. CASE Beaten
  BY <1>13, <1>r, Zenon DEF Beaten
<1>14. CASE PruneLogs
  BY <1>14, <1>r, Zenon DEF PruneLogs
<1>15. CASE NextLog
  BY <1>15, <1>r, Returns DEF NextLog, TypeInv
<1>16. CASE BlockAnswered
  BY <1>16, <1>r, Returns, Zenon DEF BlockAnswered, TypeInv
<1>17. CASE UploadLost
  BY <1>17, <1>r DEF UploadLost
<1>. QED
  BY <1>1, <1>2, <1>3, <1>4, <1>5, <1>6, <1>7, <1>8, <1>9, <1>10, <1>11, <1>12, <1>13,
     <1>14, <1>15, <1>16, <1>17, NeverRefused, Zenon DEF Conversation

\* The run in memory stays open and the only one.
LEMMA ConversationAssigned ==
  ASSUME TypeInv, PlaceInv, AgreeInv, Conversation PROVE AssignedInv'
<1> USE DEF AgreeInv, AssignedInv, Goto, Reads, Quiet, Unlink, linkVars, diskVars, NoReply
<1>r. UNCHANGED srv
  BY Zenon DEF Conversation, serverVars
<1>0. CASE Exit
  BY <1>0, <1>r, Zenon DEF Exit
<1>1. CASE Boot
  BY <1>1, <1>r, Zenon DEF Boot, PlaceInv
<1>2. CASE Lost
  BY <1>2, <1>r, Zenon DEF Lost, PlaceInv
<1>3. CASE TakeAssignment
  <2>1. /\ wire \in Run /\ wire # NoRun /\ joined /\ ~ held /\ srv[wire] = "ASSIGNED"
        /\ assigned = NoRun /\ pc \in Asking \cup {"work"}
    BY <1>3, RunsArePositive, Zenon DEF TakeAssignment, TypeInv, RunOrNone, HeldInv
  <2>2. stage = "none" /\ pc \notin {"start", "lost"} /\ (pc = "idle" => reply = "ready")
    BY <2>1, Zenon DEF PlaceInv, TypeInv, ReplyInv, HeldInv
  <2>3. outbox.run # wire
    <3>1. CASE outbox = NoReport
      BY <2>1, <3>1, Zenon DEF NoReport
    <3>2. CASE outbox # NoReport
      BY <2>1, <3>2, Zenon DEF PlaceInv, Verdict, OutboxInv
    <3>. QED BY <3>1, <3>2, Zenon
  <2>. QED
    BY <1>3, <1>r, <2>1, <2>2, <2>3, AssignedOnce, Zenon DEF TakeAssignment, Open, Asking
<1>4. CASE LoopTop
  BY <1>0, <1>4, <1>r, Returns, Zenon DEF LoopTop, ackOr, PlaceInv
<1>5. CASE LoopWork
  BY <1>0, <1>5, <1>r, Returns, Zenon DEF LoopWork, ackOr, PlaceInv, ReplyInv
<1>6. CASE Registered
  BY <1>6, <1>r, Returns, Zenon DEF Registered
<1>7. CASE DrainAcked
  BY <1>7, <1>r, Returns, Zenon DEF DrainAcked, TypeInv
<1>8. CASE ReportSent
  BY <1>0, <1>8, <1>r, Zenon DEF ReportSent, Raise, PlaceInv, Live, Launching
<1>9. CASE ReportAcked
  <2>1. CASE pc = "flush"
    <3>1. /\ UNCHANGED <<stage, assigned, outbox, link>> /\ pc' = "unlink"
      BY <1>9, <2>1, Zenon DEF ReportAcked
    <3>. QED BY <1>r, <2>1, <3>1, Zenon
  <2>2. CASE pc = "unlink"
    <3>1. /\ UNCHANGED <<stage, assigned, link, reply>> /\ outbox' = NoReport
          /\ pc' = afterFlush(ctx)
      BY <1>9, <2>2, Zenon DEF ReportAcked
    <3>2. afterFlush(ctx) \notin {"prepare", "start", "lost", "idle"}
      BY Returns, Zenon DEF TypeInv
    <3>3. NoReport.run = NoRun
      BY DEF NoReport
    <3>. QED BY <1>r, <3>1, <3>2, <3>3, Zenon
  <2>. QED BY <1>9, <2>1, <2>2, Zenon DEF ReportAcked
<1>10. CASE Claim
  BY <1>0, <1>10, <1>r, Zenon DEF Claim, Raise, PlaceInv
<1>11. CASE Recovered
  BY <1>11, <1>r, Zenon DEF Recovered
<1>12. CASE Connected
  BY <1>0, <1>12, <1>r, Returns, Zenon DEF Connected, Raise, ackOr
<1>13. CASE Beaten
  BY <1>13, <1>r, Zenon DEF Beaten
<1>14. CASE PruneLogs
  BY <1>14, <1>r, Zenon DEF PruneLogs
<1>15. CASE NextLog
  BY <1>15, <1>r, Returns, Zenon DEF NextLog, TypeInv
<1>16. CASE BlockAnswered
  BY <1>16, <1>r, Returns, Zenon DEF BlockAnswered, TypeInv
<1>17. CASE UploadLost
  BY <1>17, <1>r, Returns, Zenon DEF UploadLost, TypeInv
<1>. QED
  BY <1>1, <1>2, <1>3, <1>4, <1>5, <1>6, <1>7, <1>8, <1>9, <1>10, <1>11, <1>12, <1>13,
     <1>14, <1>15, <1>16, <1>17, NeverRefused, Zenon DEF Conversation

\* The outbox goes when the server has the result.
LEMMA ConversationOutbox ==
  ASSUME TypeInv, PlaceInv, AgreeInv, Conversation PROVE OutboxInv'
<1> USE DEF AgreeInv, OutboxInv, ReplyInv, Goto, Reads, Quiet, Unlink, linkVars, diskVars, NoReply
<1>r. UNCHANGED srv
  BY Zenon DEF Conversation, serverVars
<1>0. CASE Exit /\ UNCHANGED diskVars
  BY <1>0, <1>r, Zenon DEF Exit
<1>1. CASE Boot
  BY <1>1, <1>r, Zenon DEF Boot
<1>2. CASE Lost
  BY <1>2, <1>r, Zenon DEF Lost
<1>3. CASE TakeAssignment
  BY <1>3, <1>r, AssignedOnce, Zenon DEF TakeAssignment
<1>4. CASE LoopTop
  BY <1>0, <1>4, <1>r, Returns, Zenon DEF LoopTop, ackOr
<1>5. CASE LoopWork
  <2>1. outbox = NoReport /\ UNCHANGED outbox
    BY <1>5, Zenon DEF LoopWork, PlaceInv
  <2>. QED BY <1>5, <1>r, <2>1, Returns, Zenon DEF LoopWork, Exit, ackOr
<1>6. CASE Registered
  BY <1>6, <1>r, Returns, Zenon DEF Registered
<1>7. CASE DrainAcked
  BY <1>7, <1>r, Returns, Zenon DEF DrainAcked, TypeInv
<1>8. CASE ReportSent
  BY <1>0, <1>8, <1>r, Zenon DEF ReportSent, Raise, PlaceInv, Live, Launching
<1>9. CASE ReportAcked
  <2>1. CASE Reads("flush", "ok") /\ Goto("unlink", ctx)
    <3>1. /\ pc = "flush" /\ reply # NoReply /\ outbox' = outbox
          /\ journal' = NoJournal /\ pc' = "unlink"
      BY <1>9, <2>1, Zenon DEF ReportAcked
    <3>2. NoJournal.run = NoRun
      BY Zenon DEF NoJournal
    <3>. QED BY <1>r, <3>1, <3>2, Zenon
  <2>2. CASE pc = "unlink"
    BY <1>9, <1>r, <2>2, Returns, Zenon DEF ReportAcked, TypeInv
  <2>. QED BY <1>9, <2>1, <2>2, Zenon DEF ReportAcked
<1>10. CASE Claim
  BY <1>0, <1>10, <1>r, Zenon DEF Claim, Raise, PlaceInv
<1>11. CASE Recovered
  BY <1>11, <1>r, Zenon DEF Recovered, PlaceInv
<1>12. CASE Connected
  BY <1>0, <1>12, <1>r, Returns, Zenon DEF Connected, Raise, ackOr
<1>13. CASE Beaten
  BY <1>13, <1>r, Zenon DEF Beaten
<1>14. CASE PruneLogs
  BY <1>14, <1>r, Zenon DEF PruneLogs
<1>15. CASE NextLog
  BY <1>15, <1>r, Returns, Zenon DEF NextLog, TypeInv
<1>16. CASE BlockAnswered
  BY <1>16, <1>r, Returns, Zenon DEF BlockAnswered, TypeInv
<1>17. CASE UploadLost
  BY <1>17, <1>r, Returns, Zenon DEF UploadLost, TypeInv
<1>. QED
  BY <1>1, <1>2, <1>3, <1>4, <1>5, <1>6, <1>7, <1>8, <1>9, <1>10, <1>11, <1>12, <1>13,
     <1>14, <1>15, <1>16, <1>17, NeverRefused, Zenon DEF Conversation

\* The journal is written for the run in memory and goes when it is settled.
LEMMA ConversationJournal ==
  ASSUME TypeInv, PlaceInv, AgreeInv, Conversation PROVE JournalInv'
<1> USE DEF AgreeInv, JournalInv, ReplyInv, Goto, Reads, Quiet, Unlink, linkVars, diskVars, NoReply
<1>r. UNCHANGED srv
  BY Zenon DEF Conversation, serverVars
<1>0. CASE Exit /\ UNCHANGED diskVars
  BY <1>0, <1>r, Zenon DEF Exit
<1>1. CASE Boot
  BY <1>1, <1>r, Zenon DEF Boot
<1>2. CASE Lost
  BY <1>2, <1>r, Zenon DEF Lost
<1>3. CASE TakeAssignment
  BY <1>3, <1>r, AssignedOnce, Zenon DEF TakeAssignment, PlaceInv, Asking
<1>4. CASE LoopTop
  BY <1>0, <1>4, <1>r, Returns, Zenon DEF LoopTop, ackOr
<1>5. CASE LoopWork
  <2>1. CASE assigned # NoRun
    <3>1. /\ journal' = [run |-> assigned, receipt |-> NoLaunch]
          /\ pc' \in {"down", "start"} /\ reply' = NoReply
      BY <1>5, <2>1, Zenon DEF LoopWork, Exit
    <3>2. assigned' = assigned \/ pc' = "down"
      BY <1>5, <2>1, Zenon DEF LoopWork, Exit
    <3>3. /\ srv[assigned] \in Open /\ \A r \in Run : srv[r] = "RUNNING" => r = assigned
      BY <2>1, Zenon DEF AssignedInv, TypeInv, RunOrNone, Open
    <3>. QED BY <1>r, <2>1, <3>1, <3>2, <3>3, Zenon
  <2>2. CASE assigned = NoRun
    BY <1>0, <1>5, <1>r, <2>2, Returns, Zenon DEF LoopWork, ackOr
  <2>. QED BY <2>1, <2>2, Zenon
<1>6. CASE Registered
  BY <1>6, <1>r, Returns, Zenon DEF Registered
<1>7. CASE DrainAcked
  BY <1>7, <1>r, Returns, Zenon DEF DrainAcked, TypeInv
<1>8. CASE ReportSent
  BY <1>0, <1>8, <1>r, Zenon DEF ReportSent, Raise, PlaceInv, Live, Launching
<1>9. CASE ReportAcked
  <2>1. CASE Reads("flush", "ok") /\ Goto("unlink", ctx)
    BY <1>9, <1>r, <2>1, Zenon DEF ReportAcked, NoJournal, OutboxInv, PlaceInv, Verdict, Open
  <2>2. CASE pc = "unlink"
    <3>1. pc' \in {"claim", "logs", "work"} /\ UNCHANGED journal
      <4>1. ctx \in {"loop", "connect", "beat", "end"}
        BY Zenon DEF TypeInv
      <4>2. pc' = afterFlush(ctx) /\ UNCHANGED journal
        BY <1>9, <2>2, Zenon DEF ReportAcked
      <4>. QED BY <4>1, <4>2, Returns, Zenon
    <3>2. journal = NoJournal /\ NoJournal.run = NoRun
      BY <2>2, Zenon DEF OutboxInv, NoJournal
    <3>. QED BY <1>r, <3>1, <3>2, Zenon
  <2>. QED BY <1>9, <2>1, <2>2, Zenon DEF ReportAcked
<1>10. CASE Claim
  BY <1>0, <1>10, <1>r, Zenon DEF Claim, Raise, PlaceInv
<1>11. CASE Recovered
  <2>1. CASE Goto("logs", ctx) /\ UNCHANGED diskVars
    BY <1>11, <1>r, <2>1, Zenon DEF Recovered
  <2>2. CASE Reads("lost", "decided")
    <3>1. pc = "lost" /\ reply # NoReply /\ journal' = NoJournal /\ pc' = "idle"
      BY <1>11, <2>2, Zenon DEF Recovered
    <3>2. NoJournal.run = NoRun /\ srv[journal.run] # "RUNNING"
      BY <3>1, Zenon DEF NoJournal
    <3>. QED BY <1>r, <3>1, <3>2, Zenon
  <2>. QED BY <1>11, <2>1, <2>2, Zenon DEF Recovered
<1>12. CASE Connected
  BY <1>0, <1>12, <1>r, Returns, Zenon DEF Connected, Raise, ackOr
<1>13. CASE Beaten
  BY <1>13, <1>r, Zenon DEF Beaten
<1>14. CASE PruneLogs
  BY <1>14, <1>r, Zenon DEF PruneLogs
<1>15. CASE NextLog
  BY <1>15, <1>r, Returns, Zenon DEF NextLog, TypeInv
<1>16. CASE BlockAnswered
  BY <1>16, <1>r, Returns, Zenon DEF BlockAnswered, TypeInv
<1>17. CASE UploadLost
  BY <1>17, <1>r, Returns, Zenon DEF UploadLost, TypeInv
<1>. QED
  BY <1>1, <1>2, <1>3, <1>4, <1>5, <1>6, <1>7, <1>8, <1>9, <1>10, <1>11, <1>12, <1>13,
     <1>14, <1>15, <1>16, <1>17, NeverRefused, Zenon DEF Conversation

\* The execution of a run is nothing the rows know about.
LEMMA ExecutionAgrees ==
  ASSUME TypeInv, PlaceInv, AgreeInv, Execution PROVE AgreeInv'
<1>r. UNCHANGED <<srv, held>>
  BY Zenon DEF Execution, serverVars
<1> USE DEF AgreeInv, Goto, Reads, LaunchNext, Return, linkVars, diskVars, NoReply
<1>1. CASE Prepare
  <2>1. CASE Reads("start", "ok") /\ Goto("prepare", ctx)
    BY <1>1, <1>r, <2>1, Zenon DEF Prepare, PlaceInv, ReplyInv, HeldInv, AssignedInv, OutboxInv, JournalInv
  <2>2. CASE pc = "prepare"
    <3>1. /\ reply = NoReply /\ assigned # NoRun /\ assigned' = assigned
          /\ pc' \in {"launch", "save", "drain"} /\ (ctx' = ctx \/ ctx' = "end")
          /\ UNCHANGED <<linkVars, journal, outbox>>
      BY <1>1, <2>2, Returns, Zenon DEF Prepare, PlaceInv, ackOr, ReplyInv
    <3>. QED BY <1>r, <2>2, <3>1, Zenon DEF ReplyInv, HeldInv, AssignedInv, OutboxInv, JournalInv
  <2>. QED BY <1>1, <2>1, <2>2, Zenon DEF Prepare
<1>2. CASE NameReceipt
  <2>1. journal.run # NoRun /\ stage \in Live
    BY <1>2, RunsArePositive, Zenon DEF NameReceipt, PlaceInv, TypeInv, RunOrNone, Launching, AssignedInv,
                                 JournalInv, Live
  <2>2. /\ journal'.run = journal.run /\ reply = NoReply /\ pc' = "spawn"
        /\ UNCHANGED <<linkVars, outbox, ctx, assigned, stage>>
    BY <1>2, Zenon DEF NameReceipt, TypeInv, ReplyInv
  <2>. QED BY <1>2, <1>r, <2>1, <2>2 DEF NameReceipt, PlaceInv, ReplyInv, HeldInv, AssignedInv,
                                         OutboxInv, JournalInv, Live
<1>3. CASE (StartGuard \/ ExecReturns \/ ExecStops) /\ Exit
  BY <1>3, <1>r, ExitAgrees, Zenon DEF StartGuard, ExecReturns, ExecStops
<1>4. CASE (StartGuard \/ ExecReturns \/ ExecStops) /\ ~ Exit
  <2>1. /\ reply = NoReply /\ pc' \in {"exec", "launch", "drain", "save"}
        /\ (ctx' = ctx \/ ctx' \in {"end", "loop"})
        /\ stage \in Live /\ stage' # "none" /\ UNCHANGED <<linkVars, journal, outbox, assigned>>
    BY <1>4, Returns, Zenon DEF StartGuard, ExecReturns, ExecStops, PlaceInv, Launching, Live, ackOr,
                         ReplyInv
  <2>2. pc \in Launching
    BY <1>4, Zenon DEF StartGuard, ExecReturns, ExecStops, Launching
  <2>3. ReplyInv' /\ HeldInv'
    BY <1>r, <2>1, <2>2, Zenon DEF ReplyInv, HeldInv, Launching
  <2>4. AssignedInv'
    BY <1>r, <2>1, <2>2, Zenon DEF AssignedInv, Launching, Live
  <2>5. OutboxInv' /\ JournalInv'
    BY <1>r, <2>1, <2>2, Zenon DEF OutboxInv, JournalInv, Launching
  <2>. QED BY <2>3, <2>4, <2>5, Zenon
<1>5. CASE ExecBeat
  <2>1. /\ reply = NoReply /\ pc = "exec" /\ stage \in Live
        /\ UNCHANGED <<journal, outbox, assigned, stage, joined, wire, reply>>
    BY <1>5, Zenon DEF ExecBeat, PlaceInv, Launching, ReplyInv
  <2>2. CASE Goto(ackOr("beat"), "beat") /\ UNCHANGED linkVars
    <3>1. pc' \in {"drain", "beat"} /\ ctx' = "beat" /\ UNCHANGED link
      BY <2>2, Returns, Zenon DEF ackOr
    <3>2. ReplyInv' /\ HeldInv'
      BY <1>r, <2>1, <3>1, Zenon DEF ReplyInv, HeldInv
    <3>3. AssignedInv'
      BY <1>r, <2>1, <3>1, Zenon DEF AssignedInv, Live
    <3>4. OutboxInv' /\ JournalInv'
      BY <1>r, <2>1, <3>1, Zenon DEF OutboxInv, JournalInv
    <3>. QED BY <3>2, <3>3, <3>4, Zenon
  <2>3. CASE link = "none" /\ link' = "up" /\ Goto("register", "connect")
    BY <1>r, <2>1, <2>3, Zenon DEF ReplyInv, HeldInv, AssignedInv, OutboxInv, JournalInv, Live
  <2>. QED BY <1>5, <2>2, <2>3, Zenon DEF ExecBeat
<1>6. CASE SaveReport
  <2>1. /\ assigned \in Run /\ srv[assigned] = "RUNNING" /\ journal.run = assigned
        /\ reply = NoReply /\ wire = NoRun
    BY <1>6, Zenon DEF SaveReport, PlaceInv, TypeInv, RunOrNone, ReplyInv, HeldInv, AssignedInv, JournalInv
  <2>2. outbox'.run = assigned /\ assigned' = NoRun /\ pc' \in {"report", "loop"}
    BY <1>6, Zenon DEF SaveReport
  <2>. QED BY <1>6, <1>r, <2>1, <2>2, RunsArePositive, Zenon
           DEF SaveReport, PlaceInv, ReplyInv, HeldInv, AssignedInv, OutboxInv, JournalInv, Open
<1>. QED
  BY <1>1, <1>2, <1>3, <1>4, <1>5, <1>6, Zenon DEF Execution

\* The server handles a request of the worker.
LEMMA HandledAgrees ==
  ASSUME TypeInv, PlaceInv, AgreeInv, ServerHandles PROVE AgreeInv'
<1>0. /\ link = "up" /\ reply = NoReply
      /\ UNCHANGED <<link, wire, pc, ctx, stage, assigned, journal, outbox>>
  BY Zenon DEF ServerHandles, procVars, diskVars
<1> USE <1>0 DEF AgreeInv, NoReply, Open
<1>1. CASE pc = "register" /\ registerReply
  BY <1>1, Zenon DEF registerReply, PlaceInv, ReplyInv, HeldInv, AssignedInv, OutboxInv, JournalInv
<1>2. CASE pc = "drain" /\ drainReply /\ UNCHANGED joined
  BY <1>2, Zenon DEF drainReply, PlaceInv, ReplyInv, HeldInv, AssignedInv, OutboxInv, JournalInv
<1>3. CASE pc = "flush" /\ resultReply(outbox.run, outbox.status) /\ UNCHANGED joined
  <2>1. /\ outbox.run \in Run /\ outbox.status \in Verdict /\ outbox # NoReport
        /\ srv[outbox.run] \in {"RUNNING", outbox.status}
    BY <1>3, Zenon DEF PlaceInv, OutboxInv
  <2>2. /\ reply' = "ok" /\ srv' = [srv EXCEPT ![outbox.run] = outbox.status]
        /\ UNCHANGED held
    BY <1>3, <2>1, Zenon DEF resultReply
  <2>3. /\ srv'[outbox.run] = outbox.status
        /\ \A r \in Run \ {outbox.run} : srv'[r] = srv[r]
    BY <2>1, <2>2, Zenon DEF TypeInv
  <2>4. outbox.status \notin {"ASSIGNED", "RUNNING"}
    BY <2>1, Zenon DEF Verdict
  <2>5. ReplyInv' /\ HeldInv'
    BY <1>3, <2>1, <2>2, <2>3, <2>4, Zenon DEF TypeInv, RunOrNone, ReplyInv, HeldInv, Verdict
  <2>6. AssignedInv'
    BY <1>3, <2>1, <2>2, <2>3, <2>4, RunsArePositive, Zenon DEF TypeInv, RunOrNone, AssignedInv, PlaceInv,
       Live, Launching
  <2>7. OutboxInv' /\ JournalInv'
    BY <1>3, <2>1, <2>2, <2>3, <2>4, Zenon DEF OutboxInv, JournalInv
  <2>. QED BY <2>5, <2>6, <2>7, Zenon
<1>4. CASE pc = "active" /\ activeReply(assigned) /\ UNCHANGED joined
  <2>1. srv[assigned] \in Open /\ UNCHANGED srv /\ held' = FALSE /\ reply' = "resume"
    BY <1>4, Zenon DEF activeReply, PlaceInv, AssignedInv
  <2>. QED BY <1>4, <2>1, Zenon DEF PlaceInv, ReplyInv, HeldInv, AssignedInv, OutboxInv, JournalInv
<1>5. CASE pc = "lost" /\ lostReply(journal.run) /\ UNCHANGED joined
  <2>1. /\ journal.run \in Run /\ srv[journal.run] \in Open \cup {"LOST"}
        /\ outbox = NoReport /\ assigned = NoRun /\ (joined => held)
    BY <1>5, Zenon DEF PlaceInv, TypeInv, RunOrNone, HeldInv, AssignedInv, JournalInv
  <2>2. wire = NoRun
    BY <2>1, Zenon DEF HeldInv
  <2>3. /\ srv'[journal.run] = "LOST" /\ \A r \in Run \ {journal.run} : srv'[r] = srv[r]
        /\ reply' = "decided"
    BY <1>5, <2>1 DEF lostReply, TypeInv
  <2>h. held => held'
    BY ONLY <1>5, Zenon DEF lostReply
  <2>4. ReplyInv' /\ HeldInv'
    BY <1>5, <2>1, <2>2, <2>3, <2>h, Zenon DEF ReplyInv, HeldInv
  <2>5. AssignedInv'
    BY <2>1, <2>3, Zenon DEF AssignedInv
  <2>6. OutboxInv'
    BY <1>5, <2>1, Zenon DEF OutboxInv
  <2>7. JournalInv'
    BY <1>5, <2>1, <2>3, Zenon DEF JournalInv
  <2>. QED BY <2>4, <2>5, <2>6, <2>7, Zenon
<1>6. CASE pc = "idle" /\ idleReply /\ UNCHANGED joined
  <2>1. /\ journal = NoJournal /\ outbox = NoReport /\ assigned = NoRun /\ wire = NoRun
        /\ \A r \in Run : srv[r] # "RUNNING"
    <3>1. journal = NoJournal /\ outbox = NoReport
      BY <1>6, Zenon DEF PlaceInv, JournalInv
    <3>2. journal.run = NoRun
      BY <3>1, Zenon DEF NoJournal
    <3>3. \A r \in Run : srv[r] # "RUNNING"
      BY <3>2, RunsArePositive, Zenon DEF JournalInv
    <3>4. assigned = NoRun /\ wire = NoRun
      BY <1>6, Zenon DEF PlaceInv, HeldInv, AssignedInv
    <3>. QED BY <3>1, <3>3, <3>4, Zenon
  <2>2. /\ srv' = [r \in Run |-> IF srv[r] = "ASSIGNED" THEN "LOST" ELSE srv[r]]
        /\ reply' = "ready"
    BY <1>6, <2>1, Zenon DEF idleReply
  <2>. QED BY <1>6, <2>1, <2>2, Zenon DEF ReplyInv, HeldInv, AssignedInv, OutboxInv, JournalInv, NoJournal
<1>7. CASE pc = "beat" /\ beatReply /\ UNCHANGED joined
  BY <1>7, Zenon DEF beatReply, PlaceInv, ReplyInv, HeldInv, AssignedInv, OutboxInv, JournalInv
<1>8. CASE pc = "start" /\ startReply(assigned) /\ UNCHANGED joined
  <2>1. assigned \in Run /\ outbox = NoReport /\ srv[assigned] \in Open /\ journal.run = assigned
    BY <1>8, Zenon DEF PlaceInv, TypeInv, RunOrNone, AssignedInv, JournalInv
  <2>2. /\ srv'[assigned] = "RUNNING" /\ \A r \in Run \ {assigned} : srv'[r] = srv[r]
        /\ reply' = "ok" /\ UNCHANGED held
    BY <1>8, <2>1, Zenon DEF startReply, TypeInv
  <2>. QED BY <1>8, <2>1, <2>2, RunsArePositive, Zenon DEF ReplyInv, HeldInv, AssignedInv, OutboxInv, JournalInv
<1>9. CASE pc = "upload" /\ appendReply(thisBlock) /\ UNCHANGED joined
  BY <1>9, Zenon DEF appendReply, serverVars, PlaceInv, ReplyInv, HeldInv, AssignedInv, OutboxInv, JournalInv
<1>. QED
  BY <1>1, <1>2, <1>3, <1>4, <1>5, <1>6, <1>7, <1>8, <1>9, Zenon DEF ServerHandles

\* A pass gives a run only to a worker that has none and owes none.
LEMMA DispatchAgrees ==
  ASSUME TypeInv, PlaceInv, AgreeInv, NEW r \in Run, Dispatch(r),
         UNCHANGED <<procVars, diskVars>>
  PROVE  AgreeInv'
<1>1. \A q \in Run : srv[q] \notin Open
  BY Zenon DEF Dispatch, OpenRuns
<1>2. /\ ~ held /\ srv[r] = "NONE" /\ srv'[r] = "ASSIGNED"
      /\ \A q \in Run \ {r} : srv'[q] = srv[q]
  BY Zenon DEF Dispatch, TypeInv
<1>3. UNCHANGED <<held, link, joined, reply, pc, ctx, stage, assigned, journal, outbox>>
  BY Zenon DEF Dispatch, procVars, diskVars
<1>4. assigned = NoRun
  BY <1>1, Zenon DEF AgreeInv, AssignedInv, TypeInv, RunOrNone
<1>5. wire' = NoRun \/ (joined /\ wire' = r)
  BY Zenon DEF Dispatch
<1>6. ReplyInv' /\ HeldInv'
  BY <1>2, <1>3, <1>4, <1>5, Zenon DEF AgreeInv, ReplyInv, HeldInv
<1>7. AssignedInv'
  BY <1>1, <1>2, <1>3, <1>4, Zenon DEF AssignedInv, Open
<1>8. OutboxInv'
  BY <1>2, <1>3, Zenon DEF AgreeInv, OutboxInv, PlaceInv, Verdict
<1>9. JournalInv'
  BY <1>2, <1>3, RunsArePositive, Zenon DEF AgreeInv, JournalInv, TypeInv, RunOrNone, Open
<1>. QED BY <1>6, <1>7, <1>8, <1>9, Zenon DEF AgreeInv

\* No step makes the worker and the rows drift apart.
LEMMA AgreeKept ==
  ASSUME TypeInv, PlaceInv, AgreeInv, [Next]_vars PROVE AgreeInv'
<1>1. CASE UNCHANGED <<srv, held, linkVars, procVars, journal, outbox>>
  <2>1. UNCHANGED <<srv, held, link, joined, wire, reply, pc, ctx, stage, assigned, journal, outbox>>
    BY <1>1, Zenon DEF linkVars, procVars
  <2>2. ReplyInv' /\ HeldInv'
    BY <2>1, Zenon DEF AgreeInv, ReplyInv, HeldInv
  <2>3. AssignedInv'
    BY <2>1, Zenon DEF AgreeInv, AssignedInv
  <2>4. OutboxInv' /\ JournalInv'
    BY <2>1, Zenon DEF AgreeInv, OutboxInv, JournalInv
  <2>. QED BY <2>2, <2>3, <2>4, Zenon DEF AgreeInv
<1>2. CASE UNCHANGED vars
  BY <1>1, <1>2, Zenon DEF vars, serverVars, diskVars
<1>3. CASE ServerMoves
  <2>1. CASE \E r \in Run : Dispatch(r)
    BY <1>3, <2>1, DispatchAgrees, Zenon DEF ServerMoves
  <2>2. CASE ServerCloses
    BY <1>1, <1>3, <2>2, Zenon DEF ServerMoves, ServerCloses, diskVars
  <2>3. CASE (\E a \in late : LateAppend(a)) \/ (\E r \in Run : PruneArchive(r))
    BY <1>1, <1>3, <2>3, Zenon DEF ServerMoves, LateAppend, PruneArchive, serverVars, diskVars
  <2>. QED BY <1>3, <2>1, <2>2, <2>3, Zenon DEF ServerMoves
<1>4. CASE Break
  <2>1. /\ UNCHANGED <<srv, held, pc, ctx, stage, assigned, journal, outbox>>
        /\ link' = "broken" /\ joined' = FALSE /\ wire' = NoRun /\ reply' = NoReply
    BY <1>4, Zenon DEF Break, serverVars, procVars, diskVars, Unlink
  <2>. QED BY <2>1, Zenon DEF AgreeInv, ReplyInv, HeldInv, AssignedInv, OutboxInv, JournalInv
<1>5. CASE Conversation
  BY <1>5, ConversationReply, ConversationHeld, ConversationAssigned, ConversationOutbox,
     ConversationJournal DEF AgreeInv
<1>6. ASSUME NEW l \in Launch, GuardEnds(l) \/ GuardKilled(l) PROVE AgreeInv'
  BY <1>1, <1>6, Zenon DEF GuardEnds, GuardKilled, serverVars, diskVars
<1>7. CASE WorkerKilled
  BY <1>7, ExitAgrees, Zenon DEF WorkerKilled, serverVars, diskVars
<1>8. CASE Supervise(Reap)
  BY <1>1, <1>8, Zenon DEF Supervise, Reap, serverVars, diskVars
<1>9. CASE Supervise(StartChild)
  BY <1>9, Zenon DEF Supervise, StartChild, Goto, serverVars, linkVars, PlaceInv, AgreeInv, ReplyInv, HeldInv,
              AssignedInv, OutboxInv, JournalInv
<1>10. CASE Supervise(Reload)
  BY <1>1, <1>10, Zenon DEF Supervise, Reload, serverVars, diskVars
<1>11. CASE Supervise(Reap \/ StartChild)
  BY <1>8, <1>9, <1>11, Zenon DEF Supervise
<1>. QED
  BY <1>2, <1>3, <1>4, <1>5, <1>6, <1>7, <1>10, <1>11, HandledAgrees, ExecutionAgrees, Zenon DEF Next

-----------------------------------------------------------------------------
(* Rows and histories.                                                     *)

\* A row never forgets a result, or that the run was started, and a result
\* comes from the report in the outbox.
RowsOnward ==
  \A r \in Run :
    /\ srv[r] \in Verdict => srv'[r] = srv[r]
    /\ srv[r] \notin {"NONE", "ASSIGNED"} => srv'[r] \notin {"NONE", "ASSIGNED"}
    /\ srv'[r] \in Verdict => srv[r] \in Verdict \/ (pc = "flush" /\ r = outbox.run)

\* Every step moves the rows onward.
LEMMA RowsMoveOnward ==
  ASSUME TypeInv, PlaceInv, AgreeInv, [Next]_vars PROVE RowsOnward
<1>1. CASE UNCHANGED srv
  BY <1>1, Zenon DEF RowsOnward
<1>2. ASSUME NEW q \in RunOrNone, NEW v, srv[q] \notin Verdict \/ q \notin Run \/ v = srv[q],
             v \notin {"NONE", "ASSIGNED"} \/ srv[q] = "NONE",
             v \in Verdict => pc = "flush" /\ q = outbox.run,
             srv' = [srv EXCEPT ![q] = v]
      PROVE  RowsOnward
  BY <1>2, Zenon DEF RowsOnward, TypeInv, Verdict
<1>3. CASE ServerHandles
  <2>1. CASE pc = "flush" /\ resultReply(outbox.run, outbox.status)
    BY <1>1, <1>2, <2>1, Zenon DEF resultReply, PlaceInv, TypeInv, AgreeInv, OutboxInv, Verdict
  <2>2. CASE pc = "lost" /\ lostReply(journal.run)
    BY <1>1, <1>2, <2>2, Zenon DEF lostReply, TypeInv, Verdict, Open
  <2>3. CASE pc = "idle" /\ idleReply
    BY <1>1, <2>3, Zenon DEF idleReply, RowsOnward, Verdict
  <2>4. CASE pc = "start" /\ startReply(assigned)
    BY <1>1, <1>2, <2>4, Zenon DEF startReply, TypeInv, Verdict, Open
  <2>. QED BY <1>1, <1>3, <2>1, <2>2, <2>3, <2>4, Zenon DEF ServerHandles, registerReply, drainReply,
              activeReply, beatReply, appendReply, serverVars
<1>4. CASE ServerMoves
  <2>1. ASSUME NEW r \in Run, Dispatch(r) PROVE RowsOnward
    BY <1>2, <2>1, Zenon DEF Dispatch, RunOrNone, Verdict
  <2>. QED BY <1>1, <1>4, <2>1, Zenon DEF ServerMoves, ServerCloses, LateAppend, PruneArchive, serverVars
<1>. QED
  BY <1>1, <1>3, <1>4, Zenon DEF Next, vars, serverVars, Break, Conversation, Execution, GuardEnds,
     GuardKilled, WorkerKilled, Supervise

\* What the conversation leaves alone, and which of its steps do not.
LEMMA ConversationFrame ==
  ASSUME TypeInv, PlaceInv, AgreeInv, Conversation
  PROVE  /\ UNCHANGED <<srv, archive, saved>>
         /\ UNCHANGED outbox \/ (ReportAcked /\ pc = "unlink")
         /\ UNCHANGED executed \/ Lost
         /\ UNCHANGED manifests \/ ReportSent \/ BlockAnswered
         /\ UNCHANGED stored \/ BlockAnswered
         /\ UNCHANGED logs \/ PruneLogs
         /\ Exit \/ Lost \/ TakeAssignment \/ UNCHANGED <<stage, assigned>>
         /\ pc' \notin {"launch", "spawn"}
         /\ pc' = "flush" => ReportSent \/ pc = "flush"
<1> USE DEF Conversation, serverVars, diskVars, histVars, Boot, LoopTop, LoopWork, Registered,
        DrainAcked, ReportSent, ReportAcked, Claim, Recovered, Connected, Beaten, PruneLogs, NextLog,
        BlockAnswered, UploadLost, Goto, Quiet
<1>0. Conversation /\ ~ Refused
  BY NeverRefused, Zenon
<1>1. UNCHANGED <<srv, archive>>
  BY <1>0, Zenon
<1>2. UNCHANGED saved
  BY <1>0, Zenon DEF TakeAssignment, Lost
<1>3. UNCHANGED outbox \/ (ReportAcked /\ pc = "unlink")
  BY <1>0, Zenon DEF TakeAssignment, Lost
<1>4. UNCHANGED executed \/ Lost
  BY <1>0, Zenon DEF TakeAssignment
<1>5. UNCHANGED manifests \/ ReportSent \/ BlockAnswered
  BY <1>0, Zenon DEF TakeAssignment, Lost
<1>6. UNCHANGED stored \/ BlockAnswered
  BY <1>0, Zenon DEF TakeAssignment, Lost
<1>7. UNCHANGED logs \/ PruneLogs
  BY <1>0, Zenon DEF TakeAssignment, Lost
<1>8. Exit \/ Lost \/ TakeAssignment \/ UNCHANGED <<stage, assigned>>
  BY <1>0, Zenon DEF Raise
<1>9. afterAck(ctx) \notin {"launch", "spawn", "flush"} /\ afterLogs(ctx) \notin {"launch", "spawn", "flush"}
      /\ afterFlush(ctx) \notin {"launch", "spawn", "flush"}
  BY Returns, Zenon DEF TypeInv
<1>10. ackOr("loop") \notin {"launch", "spawn", "flush"} /\ ackOr("beat") \notin {"launch", "spawn", "flush"}
      /\ afterAck("connect") \notin {"launch", "spawn", "flush"}
  BY Returns, Zenon DEF ackOr
<1>11. /\ pc' \notin {"launch", "spawn"}
       /\ pc' = "flush" => ReportSent \/ pc = "flush"
  BY <1>0, <1>9, <1>10, AssignedOnce, Zenon DEF Exit, Raise, Lost, TakeAssignment, PlaceInv, Launching, Asking
<1>. QED BY <1>1, <1>2, <1>3, <1>4, <1>5, <1>6, <1>7, <1>8, <1>11, Zenon

\* What the execution of a run leaves alone.
LEMMA ExecutionFrame ==
  ASSUME PlaceInv, Execution
  PROVE  /\ UNCHANGED <<srv, archive, manifests, stored>>
         /\ UNCHANGED <<outbox, saved>> \/ SaveReport
         /\ UNCHANGED executed \/ StartGuard
         /\ UNCHANGED logs \/ Prepare
         /\ pc' # "flush"
<1> USE DEF Execution, serverVars, diskVars, histVars, Prepare, NameReceipt, StartGuard, ExecBeat,
        ExecReturns, ExecStops, SaveReport
<1>1. UNCHANGED <<srv, archive, manifests, stored>>
  BY Zenon
<1>2. UNCHANGED <<outbox, saved>> \/ SaveReport
  BY Zenon
<1>3. UNCHANGED executed \/ StartGuard
  BY Zenon
<1>4. UNCHANGED logs \/ Prepare
  BY Zenon
<1>5. pc' # "flush"
  <2>1. ackOr("end") # "flush" /\ ackOr("beat") # "flush"
    BY Returns, Zenon DEF ackOr
  <2>. QED BY <2>1, Zenon DEF Goto, LaunchNext, Return, Exit
<1>. QED BY <1>1, <1>2, <1>3, <1>4, <1>5, Zenon

\* What all the other steps leave alone.
LEMMA OtherFrame ==
  ASSUME [Next]_vars, ~ Conversation, ~ Execution
  PROVE  /\ UNCHANGED <<outbox, saved, executed, manifests, stored, logs>>
         /\ Exit \/ (UNCHANGED <<stage, assigned>> /\ (pc' = pc \/ pc' = "boot"))
BY Zenon DEF Next, vars, procVars, diskVars, histVars, ServerHandles, ServerMoves, Break, GuardEnds,
             GuardKilled, WorkerKilled, Supervise, Reap, StartChild, Reload, Goto

\* A saved report stays until the server has it.
LEMMA SavedKept ==
  ASSUME TypeInv, PlaceInv, AgreeInv, SavedInv, [Next]_vars PROVE SavedInv'
<1>1. CASE UNCHANGED <<outbox, saved>>
  BY <1>1, RowsMoveOnward, Zenon DEF SavedInv, ReportKept, RowsOnward
<1>2. CASE Conversation /\ ReportAcked /\ pc = "unlink"
  <2>1. saved' = saved /\ srv' = srv /\ outbox' = NoReport
    BY <1>2, ConversationFrame, Zenon DEF ReportAcked, Reads
  <2>2. saved = outbox /\ srv[outbox.run] = outbox.status
    BY <1>2, Zenon DEF SavedInv, PlaceInv, AgreeInv, OutboxInv
  <2>. QED BY <2>1, <2>2, Zenon DEF SavedInv, ReportKept
<1>3. CASE SaveReport
  BY <1>3, Zenon DEF SaveReport, SavedInv, ReportKept, PlaceInv, TypeInv, RunOrNone
<1>. QED
  BY <1>1, <1>2, <1>3, ConversationFrame, ExecutionFrame, OtherFrame, Zenon

\* A case is launched again only after its result was forgotten.
LEMMA ExecutedKept ==
  ASSUME TypeInv, PlaceInv, AgreeInv, ExecutedInv, [Next]_vars PROVE ExecutedInv'
<1>0. executed.run # NoRun => srv'[executed.run] \notin {"NONE", "ASSIGNED"}
  BY RowsMoveOnward, Zenon DEF RowsOnward, ExecutedInv, TypeInv, RunOrNone
<1>1. CASE executed' = executed /\ Exit
  BY <1>0, <1>1, Zenon DEF ExecutedInv, RerunOnlyAfterDrop, Exit
<1>2. CASE executed' = executed /\ UNCHANGED <<stage, assigned>> /\ pc' \notin {"launch", "spawn"}
  BY <1>0, <1>2, Zenon DEF ExecutedInv, RerunOnlyAfterDrop
<1>3. CASE Conversation /\ Lost
  <2>1. /\ executed'.run = executed.run /\ executed'.times = executed.times
        /\ executed.dropped => executed'.dropped
        /\ stage = "over" /\ executed.run = assigned => executed'.dropped
    BY <1>3, Zenon DEF Lost, TypeInv
  <2>2. assigned' = assigned /\ pc' \in {"exec", "loop"} /\ (stage = "over" \/ stage' = stage)
    BY <1>3, Zenon DEF Lost
  <2>. QED BY <1>0, <2>1, <2>2, Zenon DEF ExecutedInv, RerunOnlyAfterDrop
<1>4. CASE Conversation /\ TakeAssignment
  <2>1. srv[wire] = "ASSIGNED" /\ wire # NoRun /\ executed' = executed /\ assigned' = wire
    BY <1>4, AssignedOnce, Zenon DEF TakeAssignment, AgreeInv, HeldInv, histVars
  <2>. QED BY <1>0, <2>1, Zenon DEF ExecutedInv, RerunOnlyAfterDrop
<1>5. CASE Conversation
  <2>1. CASE Lost \/ TakeAssignment
    BY <1>3, <1>4, <1>5, <2>1, Zenon
  <2>2. CASE ~ Lost /\ ~ TakeAssignment
    BY <1>1, <1>2, <1>5, <2>2, ConversationFrame, Zenon
  <2>. QED BY <2>1, <2>2, Zenon
<1>6. CASE Execution
  <2>1. CASE StartGuard /\ ~ UNCHANGED executed
    <3>1. /\ stage = "main" /\ assigned \in Run /\ srv[assigned] = "RUNNING" /\ srv' = srv
          /\ UNCHANGED <<stage, assigned>> /\ pc = "spawn" /\ pc' = "exec"
          /\ executed' = IF executed.run = assigned THEN [executed EXCEPT !.times = @ + 1]
                         ELSE [run |-> assigned, times |-> 1, dropped |-> FALSE]
      BY <1>6, <2>1, ExecutionFrame, Zenon DEF StartGuard, Goto, PlaceInv, Live, TypeInv, RunOrNone, AgreeInv,
                                        AssignedInv
    <3>2. CASE executed.run = assigned
      <4>1. executed.dropped
        BY <3>1, <3>2, RunsArePositive, Zenon DEF ExecutedInv
      <4>. QED BY <3>1, <3>2, <4>1, Zenon DEF ExecutedInv, RerunOnlyAfterDrop, TypeInv
    <3>3. CASE executed.run # assigned
      BY <3>1, <3>3 DEF ExecutedInv, RerunOnlyAfterDrop
    <3>. QED BY <3>2, <3>3, Zenon
  <2>2. CASE UNCHANGED executed
    <3>1. CASE Exit
      BY <1>1, <2>2, <3>1, Zenon
    <3>2. CASE Prepare \/ NameReceipt \/ ExecBeat
      BY <1>0, <2>2, <3>2, Returns, Zenon DEF Prepare, NameReceipt, ExecBeat, Goto, Reads, LaunchNext, Return,
         ackOr, ExecutedInv, RerunOnlyAfterDrop, PlaceInv, Live, Launching
    <3>3. CASE (StartGuard \/ ExecReturns \/ ExecStops) /\ ~ Exit
      BY <1>0, <2>2, <3>3, Zenon DEF StartGuard, ExecReturns, ExecStops, Goto, LaunchNext, Return,
         ExecutedInv, RerunOnlyAfterDrop
    <3>4. CASE SaveReport
      BY <1>0, <2>2, <3>4, Zenon DEF SaveReport, ExecutedInv, RerunOnlyAfterDrop
    <3>. QED BY <1>6, <3>1, <3>2, <3>3, <3>4, Zenon DEF Execution
  <2>. QED BY <1>6, <2>1, <2>2, ExecutionFrame, Zenon
<1>7. CASE ~ Conversation /\ ~ Execution
  <2>1. CASE pc' = "boot" /\ UNCHANGED <<executed, stage, assigned>>
    BY <1>2, <2>1, Zenon
  <2>2. CASE UNCHANGED <<executed, stage, assigned, pc>>
    BY <1>0, <2>2, Zenon DEF ExecutedInv, RerunOnlyAfterDrop
  <2>. QED BY <1>1, <1>7, <2>1, <2>2, OtherFrame, Zenon
<1>. QED BY <1>5, <1>6, <1>7, Zenon

-----------------------------------------------------------------------------
(* Logs.                                                                   *)

\* What the archive holds of each run.
ArchiveShape == archive \in [Run -> [size : Nat, done : BOOLEAN]]

\* An append, late or repeated, sets the marker only behind the last block.
LEMMA AppendExact ==
  ASSUME ArchiveShape, ArchiveExact, NEW a,
         append(a) \/ archive' = [archive EXCEPT ![a.run] = appendedOnly(a)]
  PROVE  ArchiveShape' /\ ArchiveExact'
<1>1. CASE a.run \notin Run
  <2>1. archive' = archive
    BY <1>1 DEF append, ArchiveShape
  <2>. QED BY <2>1, Zenon DEF ArchiveShape, ArchiveExact
<1>2. CASE a.run \in Run
  <2>1. archive[a.run] \in [size : Nat, done : BOOLEAN]
    BY <1>2, Zenon DEF ArchiveShape
  <2>2. blocks(a) \in Nat /\ isLast(a) \in BOOLEAN
    BY Zenon DEF blocks, isLast
  <2>3. /\ appended(a) \in [size : Nat, done : BOOLEAN]
        /\ appended(a).done => appended(a).size = Chunks
    <3>1. CASE fits(a)
      <4>1. appended(a) = [size |-> archive[a.run].size + blocks(a), done |-> isLast(a)]
        BY <3>1, Zenon DEF appended
      <4>2. isLast(a) => archive[a.run].size + blocks(a) = Chunks
        BY <3>1, Zenon DEF fits, isLast
      <4>. QED BY <2>1, <2>2, <4>1, <4>2
    <3>2. CASE ~ fits(a)
      BY <1>2, <2>1, <3>2, Zenon DEF appended, ArchiveExact
    <3>. QED BY <3>1, <3>2, Zenon
  <2>4. /\ appendedOnly(a) \in [size : Nat, done : BOOLEAN]
        /\ appendedOnly(a).done => appendedOnly(a).size = Chunks
    <3>1. CASE fits(a)
      <4>1. ~ archive[a.run].done
        BY <3>1, Zenon DEF fits
      <4>. QED BY <2>1, <2>3, <4>1, Zenon DEF appendedOnly
    <3>2. CASE ~ fits(a)
      <4>1. appended(a) = archive[a.run]
        BY <3>2, Zenon DEF appended
      <4>2. appendedOnly(a) = archive[a.run]
        BY <2>1, <4>1, Zenon DEF appendedOnly
      <4>. QED BY <1>2, <2>1, <4>2, Zenon DEF ArchiveExact
    <3>. QED BY <3>1, <3>2, Zenon
  <2>5. ASSUME NEW x \in [size : Nat, done : BOOLEAN], x.done => x.size = Chunks,
               archive' = [archive EXCEPT ![a.run] = x]
        PROVE  ArchiveShape' /\ ArchiveExact'
    BY <1>2, <2>5, Zenon DEF ArchiveShape, ArchiveExact
  <2>. QED BY <2>3, <2>4, <2>5, Zenon DEF append
<1>. QED BY <1>1, <1>2, Zenon

\* The archive changes by appends and by pruning.
LEMMA ArchiveKept ==
  ASSUME ArchiveShape, ArchiveExact, [Next]_vars PROVE ArchiveShape' /\ ArchiveExact'
<1>1. CASE UNCHANGED archive
  BY <1>1, Zenon DEF ArchiveShape, ArchiveExact
<1>2. ASSUME NEW a, append(a) \/ archive' = [archive EXCEPT ![a.run] = appendedOnly(a)]
      PROVE  ArchiveShape' /\ ArchiveExact'
  BY <1>2, AppendExact, Zenon
<1>3. ASSUME NEW r \in Run, PruneArchive(r) PROVE ArchiveShape' /\ ArchiveExact'
  BY <1>3, Zenon DEF PruneArchive, ArchiveShape, ArchiveExact, NoFile
<1>4. CASE ServerHandles
  BY <1>1, <1>2, <1>4, Zenon DEF ServerHandles, appendReply, logVars
<1>5. CASE ServerMoves
  BY <1>1, <1>2, <1>3, <1>5, Zenon DEF ServerMoves, LateAppend, logVars
<1>6. CASE Break
  BY <1>1, <1>2, <1>6, Zenon DEF Break, appendCut
<1>. QED
  BY <1>1, <1>4, <1>5, <1>6, Zenon DEF Next, vars, logVars, Conversation, Execution, GuardEnds,
     GuardKilled, WorkerKilled, Supervise

\* The logs of a reported run stay until they are stored.
LEMMA LogKept ==
  ASSUME TypeInv, PlaceInv, AgreeInv, LogInv, [Next]_vars PROVE LogInv'
<1>0. ArchiveExact'
  BY ArchiveKept, Zenon DEF LogInv, LogsKept, TypeInv, ArchiveShape
<1>1. \A r \in Run : srv'[r] \in Verdict => r \in stored \/ r \in manifests \cap logs
  BY RowsMoveOnward, Zenon DEF RowsOnward, LogInv, LogsKept
<1>2. CASE UNCHANGED <<outbox, manifests, stored, logs>> /\ (pc' = "flush" => pc = "flush")
  BY <1>0, <1>1, <1>2, Zenon DEF LogInv, LogsKept
<1>3. CASE Conversation /\ ReportSent
  <2>1. /\ UNCHANGED <<outbox, logs, stored>> /\ manifests \subseteq manifests'
        /\ pc' = "flush" => outbox.run \in manifests' \cap logs
    BY <1>3, ConversationFrame, Zenon DEF ReportSent, diskVars, histVars, Raise, Exit
  <2>. QED BY <1>0, <1>1, <2>1, Zenon DEF LogInv, LogsKept
<1>4. CASE Conversation /\ BlockAnswered
  <2>1. /\ logs' = logs /\ pc' # "flush"
        /\ \A r \in manifests : r \in manifests' \/ r \in stored'
        /\ stored \subseteq stored'
    <3>1. pc' # "flush"
      BY <1>4, ConversationFrame, Zenon DEF BlockAnswered, ReportSent
    <3>. QED BY <1>4, <3>1, Zenon DEF BlockAnswered
  <2>. QED BY <1>0, <1>1, <2>1, Zenon DEF LogInv, LogsKept
<1>5. CASE Conversation /\ PruneLogs
  <2>1. /\ UNCHANGED <<manifests, stored>> /\ pc' # "flush"
        /\ \A r \in manifests \cap logs : r \in logs'
    BY <1>5, Zenon DEF PruneLogs, protected, Goto, histVars
  <2>. QED BY <1>0, <1>1, <2>1, Zenon DEF LogInv, LogsKept
<1>6. CASE Conversation /\ ReportAcked /\ pc = "unlink"
  <2>1. UNCHANGED <<manifests, stored, logs>> /\ pc' # "flush"
    BY <1>6, Returns, Zenon DEF ReportAcked, histVars, Goto, TypeInv, Reads
  <2>. QED BY <1>0, <1>1, <2>1, Zenon DEF LogInv, LogsKept
<1>7. CASE Conversation
  <2>1. CASE ReportSent \/ BlockAnswered \/ PruneLogs \/ (ReportAcked /\ pc = "unlink")
    BY <1>3, <1>4, <1>5, <1>6, <1>7, <2>1, Zenon
  <2>2. CASE ~ (ReportSent \/ BlockAnswered \/ PruneLogs \/ (ReportAcked /\ pc = "unlink"))
    BY <1>2, <1>7, <2>2, ConversationFrame, Zenon
  <2>. QED BY <2>1, <2>2, Zenon
<1>8. CASE Execution
  <2>1. UNCHANGED <<manifests, stored>> /\ logs \subseteq logs' /\ pc' # "flush"
    BY <1>8, ExecutionFrame, Zenon DEF Prepare
  <2>. QED BY <1>0, <1>1, <2>1, Zenon DEF LogInv, LogsKept
<1>9. CASE ~ Conversation /\ ~ Execution
  BY <1>2, <1>9, OtherFrame, Zenon DEF Exit
<1>. QED BY <1>7, <1>8, <1>9, Zenon

-----------------------------------------------------------------------------
(* Types.                                                                  *)

\* The connection: its state, the assignment on the wire and the answer.
LinkType ==
  /\ link \in {"none", "up", "broken"}
  /\ wire \in RunOrNone
  /\ reply \in Answer \cup {NoReply}

\* The memory of the process.
ProcType ==
  /\ pc \in Place
  /\ ctx \in {"loop", "connect", "beat", "end"}
  /\ stage \in {"none", "over"} \cup Live
  /\ assigned \in RunOrNone
  /\ verdict \in {"none"} \cup Verdict

\* The files of the slot that name runs.
DiskType ==
  /\ journal \in [run : RunOrNone, receipt : Launch \cup {NoLaunch}]
  /\ outbox \in [run : RunOrNone, status : {"none"} \cup Verdict]
  /\ manifests \subseteq Run

\* What the conversation can write.
LEMMA ConversationWrites ==
  ASSUME TypeInv, PlaceInv, AgreeInv, Conversation
  PROVE  /\ link' \in {link, "none", "up"} /\ wire' \in {wire, NoRun} /\ reply' \in {reply, NoReply}
         /\ pc' = pc \/ pc' \in Place
         /\ ctx' \in {ctx, "loop", "connect", "beat"} /\ stage' \in {stage, "none"}
         /\ assigned' \in {assigned, wire, NoRun} /\ verdict' \in {verdict, "none"}
         /\ journal' \in {journal, NoJournal, [run |-> assigned, receipt |-> NoLaunch]}
         /\ outbox' \in {outbox, NoReport}
         /\ manifests' \subseteq manifests \cup (Run \cap {outbox.run})
<1>1. afterAck(ctx) \in Place /\ afterLogs(ctx) \in Place /\ afterFlush(ctx) \in Place
  BY Returns DEF TypeInv, Place, Asking
<1>2. ackOr("loop") \in Place /\ ackOr("beat") \in Place /\ afterAck("connect") \in Place
  BY Returns, Zenon DEF ackOr, Place, Asking
<1>3. ReportSent => outbox.run \in Run
  BY Zenon DEF PlaceInv, ReportSent
<1> USE DEF Conversation, Boot, LoopTop, LoopWork, Registered, DrainAcked, ReportSent, ReportAcked,
        Claim, Recovered, Connected, Beaten, PruneLogs, NextLog, BlockAnswered, UploadLost, Goto, Quiet
<1>4. Conversation /\ ~ Refused
  BY NeverRefused, Zenon
<1>5. /\ link' \in {link, "none", "up"} /\ wire' \in {wire, NoRun} /\ reply' \in {reply, NoReply}
  BY <1>4, AssignedOnce, Zenon DEF Exit, Raise, Lost, Unlink, linkVars, Reads
<1>6. pc' = pc \/ pc' \in Place
  BY <1>1, <1>2, <1>4, AssignedOnce, Zenon DEF Exit, Raise, Lost, Place, Asking
<1>7. /\ ctx' \in {ctx, "loop", "connect", "beat"} /\ stage' \in {stage, "none"}
      /\ assigned' \in {assigned, wire, NoRun} /\ verdict' \in {verdict, "none"}
  BY <1>4, AssignedOnce, Zenon DEF Exit, Raise, Lost
<1>8. /\ journal' \in {journal, NoJournal, [run |-> assigned, receipt |-> NoLaunch]}
      /\ outbox' \in {outbox, NoReport}
  BY <1>4, Zenon DEF TakeAssignment, Lost, diskVars
<1>9. manifests' \subseteq manifests \cup (Run \cap {outbox.run})
  BY <1>3, <1>4, Zenon DEF TakeAssignment, Lost, diskVars
<1>. QED BY <1>5, <1>6, <1>7, <1>8, <1>9, Zenon

\* The conversation keeps the types of the connection, the process and the disk.
LEMMA ConversationTypes ==
  ASSUME TypeInv, PlaceInv, AgreeInv, Conversation PROVE LinkType' /\ ProcType' /\ DiskType'
<1>1. LinkType'
  BY ConversationWrites, Zenon DEF LinkType, TypeInv, RunOrNone
<1>2. ProcType'
  BY ConversationWrites, Zenon DEF ProcType, TypeInv, RunOrNone
<1>3. DiskType'
  BY ConversationWrites DEF DiskType, TypeInv, RunOrNone, NoJournal, NoReport
<1>. QED BY <1>1, <1>2, <1>3, Zenon

\* So does the execution.
LEMMA ExecutionTypes ==
  ASSUME TypeInv, PlaceInv, Execution
  PROVE  /\ LinkType' /\ ProcType' /\ DiskType' /\ (trees \subseteq Launch)'
         /\ executed' \in [run : RunOrNone, times : Nat, dropped : BOOLEAN]
         /\ saved' \in [run : RunOrNone, status : {"none"} \cup Verdict]
<1>0. ackOr("end") \in Place /\ ackOr("beat") \in Place
  BY Returns, Zenon DEF ackOr, Place, Asking
<1>1. LinkType /\ ProcType /\ DiskType
  BY Zenon DEF TypeInv, LinkType, ProcType, DiskType
<1>2. ASSUME UNCHANGED linkVars PROVE LinkType'
  BY <1>1, <1>2, Zenon DEF LinkType, linkVars
<1>3. ASSUME UNCHANGED diskVars PROVE DiskType'
  BY <1>1, <1>3, Zenon DEF DiskType, diskVars
<1>4. ASSUME NEW s \in Live, NEW v \in {"none"} \cup Verdict, LaunchNext(s, v)
      PROVE  ProcType'
  <2>1. /\ pc' = "launch" /\ stage' = s /\ verdict' = v
        /\ ctx' = ctx /\ assigned' = assigned
    BY <1>4, Zenon DEF LaunchNext
  <2>2. "launch" \in Place
    BY Zenon DEF Place
  <2>. QED BY <1>1, <2>1, <2>2, Zenon DEF ProcType
<1>5. ASSUME NEW c \in {"loop", "connect", "beat", "end"}, NEW p \in Place, Goto(p, c)
      PROVE  ProcType'
  BY <1>1, <1>5, Zenon DEF ProcType, Goto
<1>6. ASSUME NEW v \in {"none"} \cup Verdict, Return(v) PROVE ProcType'
  BY <1>0, <1>1, <1>6, Zenon DEF ProcType, Return
<1>7. ASSUME Exit PROVE LinkType' /\ ProcType'
  <2>1. "down" \in Place
    BY Zenon DEF Place
  <2>2. ProcType'
    BY <1>7, <2>1, Zenon DEF Exit, ProcType, RunOrNone
  <2>3. LinkType'
    BY <1>1, <1>7, Zenon DEF Exit, Unlink, LinkType, RunOrNone
  <2>. QED BY <2>2, <2>3, Zenon
<1>8. executed \in [run : RunOrNone, times : Nat, dropped : BOOLEAN]
      /\ saved \in [run : RunOrNone, status : {"none"} \cup Verdict] /\ trees \subseteq Launch
  BY Zenon DEF TypeInv
<1>9. {"prepare", "spawn", "exec", "register", "report", "loop"} \subseteq Place
  BY Zenon DEF Place, Asking
<1>10. CASE Prepare
  <2>1. /\ UNCHANGED <<link, wire, journal, outbox, manifests, trees, executed, saved>>
        /\ reply' \in {reply, NoReply}
    BY <1>10, Zenon DEF Prepare, Reads, linkVars, treeVars, histVars
  <2>2. \/ Goto("prepare", ctx)
        \/ LaunchNext("pre", "none")
        \/ Return("FAILED")
    BY <1>10, Zenon DEF Prepare
  <2>3. LinkType' /\ DiskType'
    BY <1>1, <2>1, Zenon DEF LinkType, DiskType
  <2>4. ProcType'
    BY <1>1, <1>4, <1>5, <1>6, <1>9, <2>2, Zenon DEF ProcType, Live, Verdict
  <2>. QED BY <1>8, <2>1, <2>3, <2>4, Zenon
<1>11. CASE NameReceipt
  <2>1. thisLaunch \in Launch
    BY <1>11, Zenon DEF TypeInv, RunOrNone, NameReceipt, PlaceInv, Launching, thisLaunch, Launch, Live
  <2>2. /\ UNCHANGED <<linkVars, outbox, manifests, trees, executed, saved>>
        /\ journal' = [journal EXCEPT !.receipt = thisLaunch]
        /\ Goto("spawn", ctx)
    BY <1>11, Zenon DEF NameReceipt, treeVars, histVars
  <2>3. journal' \in [run : RunOrNone, receipt : Launch \cup {NoLaunch}]
    BY <1>1, <2>1, <2>2, Zenon DEF DiskType
  <2>4. DiskType' /\ LinkType'
    BY <1>1, <1>2, <2>2, <2>3, Zenon DEF DiskType
  <2>5. ProcType'
    BY <1>1, <1>5, <1>9, <2>2, Zenon DEF ProcType
  <2>. QED BY <1>8, <2>2, <2>4, <2>5, Zenon
<1>12. CASE StartGuard
  <2>1. thisLaunch \in Launch
    BY <1>12, Zenon DEF TypeInv, RunOrNone, StartGuard, PlaceInv, Launching, thisLaunch, Launch, Live
  <2>2. executed' \in [run : RunOrNone, times : Nat, dropped : BOOLEAN]
    <3>1. CASE executed' = executed
      BY <1>8, <3>1, Zenon
    <3>2. CASE executed' = [executed EXCEPT !.times = @ + 1]
      BY <1>8, <3>2
    <3>3. CASE executed' = [run |-> assigned, times |-> 1, dropped |-> FALSE]
      BY <1>1, <3>3, Zenon DEF ProcType
    <3>. QED BY <1>12, <3>1, <3>2, <3>3, Zenon DEF StartGuard
  <2>3. DiskType' /\ saved' = saved
    BY <1>3, <1>12, Zenon DEF StartGuard
  <2>4. CASE Exit /\ UNCHANGED treeVars
    BY <1>7, <1>8, <2>2, <2>3, <2>4, Zenon DEF treeVars
  <2>5. CASE LaunchNext("post", "FAILED") /\ UNCHANGED <<treeVars, linkVars>>
    <3>1. ProcType'
      BY <1>4, <2>5, Zenon DEF Live, Verdict
    <3>. QED BY <1>2, <1>8, <2>2, <2>3, <2>5, <3>1, Zenon DEF treeVars
  <2>6. CASE trees' = trees \cup {thisLaunch} /\ Goto("exec", "loop") /\ UNCHANGED linkVars
    <3>1. ProcType'
      BY <1>5, <1>9, <2>6, Zenon
    <3>. QED BY <1>2, <1>8, <2>1, <2>2, <2>3, <2>6, <3>1, Zenon
  <2>. QED BY <1>12, <2>4, <2>5, <2>6, Zenon DEF StartGuard
<1>13. CASE ExecBeat
  <2>1. /\ UNCHANGED <<wire, reply, diskVars, trees, executed, saved>>
        /\ link' \in {link, "up"}
        /\ \E c \in {"beat", "connect"}, p \in {"register", ackOr("beat")} : Goto(p, c)
    BY <1>13, Zenon DEF ExecBeat, linkVars, treeVars, histVars
  <2>2. LinkType' /\ DiskType'
    BY <1>1, <1>3, <2>1, Zenon DEF LinkType
  <2>3. ProcType'
    BY <1>0, <1>5, <1>9, <2>1, Zenon
  <2>. QED BY <1>8, <2>1, <2>2, <2>3, Zenon
<1>14. CASE ExecReturns
  <2>1. DiskType' /\ UNCHANGED <<trees, executed, saved>>
    BY <1>3, <1>14, Zenon DEF ExecReturns, treeVars, histVars
  <2>2. CASE Exit
    BY <1>7, <1>8, <2>1, <2>2, Zenon
  <2>3. CASE UNCHANGED linkVars /\ \/ LaunchNext("main", "none")
                                   \/ LaunchNext("post", "FAILED")
                                   \/ \E v \in Verdict : LaunchNext("post", v)
                                   \/ Return(verdict)
    <3>1. ProcType'
      BY <1>1, <1>4, <1>6, <2>3, Zenon DEF ProcType, Live, Verdict
    <3>. QED BY <1>2, <1>8, <2>1, <2>3, <3>1, Zenon
  <2>. QED BY <1>14, <2>2, <2>3, Zenon DEF ExecReturns
<1>15. CASE ExecStops
  <2>1. DiskType' /\ UNCHANGED <<trees, executed, saved>>
    BY <1>3, <1>15, Zenon DEF ExecStops, treeVars, histVars
  <2>2. CASE Exit
    BY <1>7, <1>8, <2>1, <2>2, Zenon
  <2>3. CASE LaunchNext("post", "none") /\ UNCHANGED linkVars
    <3>1. ProcType'
      BY <1>4, <2>3, Zenon DEF Live
    <3>. QED BY <1>2, <1>8, <2>1, <2>3, <3>1, Zenon
  <2>. QED BY <1>15, <2>2, <2>3, Zenon DEF ExecStops
<1>16. CASE SaveReport
  <2>1. /\ outbox' = [run |-> assigned, status |-> verdict] /\ saved' = outbox'
        /\ assigned' = NoRun /\ stage' = "none" /\ verdict' = "none"
        /\ pc' \in {"report", "loop"}
        /\ UNCHANGED <<ctx, linkVars, journal, manifests, trees, executed>>
    BY <1>16, Zenon DEF SaveReport, treeVars
  <2>2. outbox' \in [run : RunOrNone, status : {"none"} \cup Verdict]
    BY ONLY <1>1, <2>1, Zenon DEF ProcType
  <2>3. ProcType'
    BY <1>1, <1>9, <2>1, Zenon DEF ProcType, RunOrNone
  <2>4. LinkType' /\ DiskType'
    BY <1>1, <1>2, <2>1, <2>2, Zenon DEF DiskType
  <2>. QED BY <1>8, <2>1, <2>2, <2>3, <2>4, Zenon
<1>. QED
  BY <1>10, <1>11, <1>12, <1>13, <1>14, <1>15, <1>16, Zenon DEF Execution

\* The server's steps keep its rows and the connection in shape.
LEMMA ServerTypes ==
  ASSUME TypeInv, PlaceInv, [Next]_vars
  PROVE  /\ srv' \in [Run -> RunState]
         /\ ServerHandles \/ ServerMoves \/ Break => LinkType'
<1>1. ASSUME UNCHANGED srv PROVE srv' \in [Run -> RunState]
  BY <1>1, Zenon DEF TypeInv
<1>2. ASSUME NEW q, NEW v \in RunState, srv' = [srv EXCEPT ![q] = v]
      PROVE  srv' \in [Run -> RunState]
  BY <1>2, Zenon DEF TypeInv
<1>3. {"ASSIGNED", "RUNNING", "LOST"} \subseteq RunState /\ Verdict \subseteq RunState
  BY Zenon DEF RunState
<1>4. CASE ServerHandles
  <2>1. LinkType'
    BY <1>4, Zenon DEF ServerHandles, registerReply, drainReply, resultReply, activeReply, lostReply, idleReply,
                beatReply, startReply, appendReply, LinkType, TypeInv, Answer
  <2>2. ASSUME pc = "flush" /\ resultReply(outbox.run, outbox.status) PROVE srv' \in [Run -> RunState]
    BY <1>1, <1>2, <1>3, <2>2, Zenon DEF resultReply, PlaceInv
  <2>3. ASSUME lostReply(journal.run) \/ startReply(assigned) PROVE srv' \in [Run -> RunState]
    BY <1>1, <1>2, <1>3, <2>3, Zenon DEF lostReply, startReply
  <2>4. ASSUME idleReply PROVE srv' \in [Run -> RunState]
    BY <1>1, <1>3, <2>4, Zenon DEF idleReply, TypeInv
  <2>. QED BY <1>1, <1>4, <2>1, <2>2, <2>3, <2>4, Zenon DEF ServerHandles, registerReply, drainReply,
              activeReply, beatReply, appendReply, serverVars
<1>5. CASE ServerMoves
  <2>1. ASSUME NEW r \in Run, Dispatch(r) PROVE srv' \in [Run -> RunState] /\ LinkType'
    BY <1>2, <1>3, <2>1, Zenon DEF Dispatch, LinkType, TypeInv, RunOrNone
  <2>2. CASE UNCHANGED <<srv, linkVars>>
    BY <1>1, <2>2, Zenon DEF linkVars, LinkType, TypeInv
  <2>. QED BY <1>5, <2>1, <2>2, Zenon DEF ServerMoves, ServerCloses, LateAppend, PruneArchive, serverVars
<1>6. CASE Break
  BY <1>1, <1>6, Zenon DEF Break, Unlink, LinkType, serverVars, RunOrNone
<1>. QED
  BY <1>1, <1>4, <1>5, <1>6, Zenon DEF Next, vars, serverVars, Conversation, Execution, GuardEnds,
     GuardKilled, WorkerKilled, Supervise

\* Every step keeps the types.
LEMMA TypeKept ==
  ASSUME TypeInv, PlaceInv, AgreeInv, LogInv, [Next]_vars PROVE TypeInv'
<1>1. srv' \in [Run -> RunState] /\ ArchiveShape'
  BY ServerTypes, ArchiveKept, Zenon DEF LogInv, LogsKept, TypeInv, ArchiveShape
<1>2. SUFFICES /\ LinkType' /\ ProcType' /\ DiskType' /\ (trees \subseteq Launch)'
               /\ executed' \in [run : RunOrNone, times : Nat, dropped : BOOLEAN]
               /\ saved' \in [run : RunOrNone, status : {"none"} \cup Verdict]
  BY <1>1, Zenon DEF TypeInv, ArchiveShape, LinkType, ProcType, DiskType
<1>3. CASE Conversation
  <2>1. UNCHANGED <<treeVars, saved>>
    BY <1>3, ConversationFrame, Zenon DEF Conversation
  <2>2. executed' \in [run : RunOrNone, times : Nat, dropped : BOOLEAN]
    BY <1>3, ConversationFrame, Zenon DEF Lost, TypeInv
  <2>. QED BY <1>3, <2>1, <2>2, ConversationTypes, Zenon DEF treeVars, TypeInv
<1>4. CASE Execution
  BY <1>4, ExecutionTypes, Zenon
<1>5. CASE ~ Conversation /\ ~ Execution
  <2>1. UNCHANGED <<outbox, saved, executed, manifests>>
    BY <1>5, OtherFrame, Zenon
  <2>2. journal' = journal /\ trees' \subseteq trees
    BY <1>5, Zenon DEF Next, vars, diskVars, treeVars, ServerHandles, ServerMoves, Break, GuardEnds,
                   GuardKilled, WorkerKilled, Supervise, Reap, StartChild, Reload
  <2>3. LinkType'
    <3>1. ServerHandles \/ ServerMoves \/ Break \/ Exit \/ UNCHANGED linkVars
      BY <1>5, Zenon DEF Next, vars, GuardEnds, GuardKilled, WorkerKilled, Supervise
    <3>. QED BY <3>1, ServerTypes, Zenon DEF Exit, Unlink, linkVars, LinkType, TypeInv, RunOrNone
  <2>4. ProcType'
    <3>1. /\ ctx' \in {ctx, "loop"} /\ verdict' \in {verdict, "none"}
      BY <1>5, Zenon DEF Next, vars, procVars, ServerHandles, ServerMoves, Break, GuardEnds,
                     GuardKilled, WorkerKilled, Supervise, Reap, StartChild, Reload, Exit, Goto
    <3>. QED BY <1>5, <3>1, OtherFrame, Zenon DEF Exit, ProcType, TypeInv, RunOrNone, Place
  <2>. QED BY <2>1, <2>2, <2>3, <2>4, Zenon DEF DiskType, TypeInv
<1>. QED BY <1>3, <1>4, <1>5, Zenon

-----------------------------------------------------------------------------
(* The theorems.                                                           *)

\* In the beginning nothing is running, assigned or saved.
LEMMA WorkerInitially == Init => WorkerInv
<1> SUFFICES ASSUME Init PROVE WorkerInv
  BY Zenon
<1> USE DEF Init, ServerInit, ArchiveInit, NoFile, NoJournal, NoReport
<1>1. TypeInv
  BY Zenon DEF TypeInv, RunOrNone, RunState, Place
<1>2. PlaceInv /\ TreeInv
  BY Zenon DEF PlaceInv, TreeInv, Live, Launching
<1>3. AgreeInv
  BY Zenon DEF AgreeInv, ReplyInv, HeldInv, AssignedInv, OutboxInv, JournalInv, Open
<1>4. SavedInv /\ ExecutedInv
  <2>1. SavedInv
    BY Zenon DEF SavedInv, ReportKept
  <2>2. ExecutedInv
    <3>1. executed.run = NoRun /\ executed.times = 0 /\ assigned = NoRun
      BY Zenon
    <3>. QED BY ONLY <3>1 DEF ExecutedInv, RerunOnlyAfterDrop
  <2>. QED BY <2>1, <2>2, Zenon
<1>5. LogInv
  BY Zenon DEF LogInv, LogsKept, ArchiveExact, Verdict
<1>. QED BY <1>1, <1>2, <1>3, <1>4, <1>5, Zenon DEF WorkerInv

\* The invariant of the slot: where the process is, which trees live, and
\* what journal, outbox, memory and the server's rows say of the runs fit
\* together in every reachable state.
THEOREM WorkerInvariant == Spec => []WorkerInv
<1>1. WorkerInv /\ [Next]_vars => WorkerInv'
  BY TypeKept, PlaceKept, TreeKept, AgreeKept, SavedKept, ExecutedKept, LogKept, Zenon DEF WorkerInv
<1>. QED BY <1>1, WorkerInitially, PTL DEF Spec

\* Whatever dies or is restarted, two execution trees of a slot never live
\* at the same time.
THEOREM TreesNeverOverlap == Spec => []NoOverlap
<1>1. WorkerInv => NoOverlap
  BY OneTree, Zenon DEF WorkerInv
<1>. QED BY <1>1, WorkerInvariant, PTL

\* A saved result stays in the outbox until the server has exactly it.
THEOREM ReportIsKept == Spec => []ReportKept
<1>1. WorkerInv => ReportKept
  BY Zenon DEF WorkerInv, SavedInv
<1>. QED BY <1>1, WorkerInvariant, PTL

\* A start, a result or a recovery claim of the worker is never refused.
THEOREM WorkerIsNeverBlocked == Spec => []NeverBlocked
<1>1. WorkerInv => NeverBlocked
  BY AgreedNeverBlocked, Zenon DEF WorkerInv
<1>. QED BY <1>1, WorkerInvariant, PTL

\* The logs of a reported run stay until they are stored, and a completed log
\* of the archive has exactly its blocks.
THEOREM LogsAreKept == Spec => []LogsKept
<1>1. WorkerInv => LogsKept
  BY Zenon DEF WorkerInv, LogInv
<1>. QED BY <1>1, WorkerInvariant, PTL

\* A case is launched again under the same run only when its first result
\* was forgotten before save_report.
THEOREM RerunsFollowADrop == Spec => []RerunOnlyAfterDrop
<1>1. WorkerInv => RerunOnlyAfterDrop
  BY Zenon DEF WorkerInv, ExecutedInv
<1>. QED BY <1>1, WorkerInvariant, PTL
=============================================================================
