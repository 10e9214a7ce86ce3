----------------------------- MODULE DailyProof -----------------------------
(***************************************************************************)
(* Proof that the daily submitter and the Server's submission keys submit  *)
(* each plan exactly, and that the revision of unfinished work stays       *)
(* protected: for any plans of any number of days, whenever processes die, *)
(* requests arrive late, batches are stopped or the Server restarts.       *)
(*                                                                         *)
(* The argument is about three files and the requests under way.  A        *)
(* request either can no longer create a task, because its key is known or *)
(* its batch is stopped, or it is for the very entry at which the saved    *)
(* state stands; so once a batch is complete nothing of it can appear, and *)
(* only then is another one planned and protected.                         *)
(***************************************************************************)
EXTENDS DailyRegression, FiniteSetTheorems, TLAPS

-----------------------------------------------------------------------------
(* The inductive invariant.                                                *)

\* The saved state of the submitter, a row of the Server, a request under way.
StateRecord ==
  [batch : Nat, day : Nat, phase : {"none", "submitting", "complete"},
   next : Nat \ {0}, uncertain : BOOLEAN, stoppedGroups : SUBSET Nat]

TaskRow == [key : Nat \X Nat, group : Nat \X Nat, status : Statuses]

Request == [batch : Nat, entry : Nat, waits : BOOLEAN]

Places == {"off", "status", "groups", "plan", "protect", "save", "loop", "wait", "reply"}

\* The types of the Server's rows and of the submitter's files.
TableType == tasks \in Seq(TaskRow)

ClockType ==
  /\ batches \in Seq(DOMAIN DayPlan)
  /\ day \in DOMAIN DayPlan
  /\ \A b \in DOMAIN batches : batches[b] <= day
  /\ stateFile \in StateRecord
  /\ state \in StateRecord
  /\ inflight \subseteq Request
  /\ planFile \in Nat
  /\ protect \in Nat
  /\ pc \in Places
  /\ answer \in {"none", "ok", "stopped"}

\* Tasks and requests are entries of batches that were planned.
Planned ==
  /\ \A i \in TaskIds : /\ tasks[i].group[1] = tasks[i].key[1]
                        /\ tasks[i].group[1] \in DOMAIN batches
  /\ \A r \in inflight : r.batch \in DOMAIN batches /\ r.entry \in Entries(r.batch)

\* A saved or loaded state is none, or stands at an entry of its batch's plan
\* or behind the last, and the groups it passes over are stopped ones.
WellFormed(s) ==
  \/ s = NoState
  \/ /\ s.phase # "none"
     /\ s.batch \in DOMAIN batches
     /\ s.day = batches[s.batch]
     /\ s.next \in 1..(Len(PlanOf(s.batch)) + 1)
     /\ \A g \in s.stoppedGroups : <<s.batch, g>> \in stopped

\* A batch that is planned and not saved yet: it stands at its first entry, and
\* the batch before it is of an earlier day and complete.
Fresh ==
  /\ state.next = 1
  /\ state.stoppedGroups = {}
  /\ stateFile.phase # "submitting"
  /\ stateFile.day < state.day

\* What the process knows is what is on disk, except while it replaces it.
FilesInv ==
  /\ WellFormed(stateFile)
  /\ WellFormed(state)
  /\ pc \in {"status", "groups", "plan"} => state = stateFile
  /\ pc \in {"groups", "plan"} => state.phase # "submitting"
  /\ pc = "plan" => state.day < day
  /\ pc \in {"protect", "save"} =>
       /\ state.phase = "submitting"
       /\ planFile = state.batch
       /\ state = stateFile \/ Fresh
  /\ pc = "save" => protect = state.batch
  /\ pc \in {"loop", "wait", "reply"} => state = stateFile /\ state.phase = "submitting"
  /\ stateFile.phase = "submitting" =>
       planFile = stateFile.batch /\ protect = stateFile.batch

\* The entry has its task, or its group was stopped: no request for it can
\* create a task any more.
Settled(b, e) ==
  \/ \E i \in TaskIds : tasks[i].key = <<b, e>>
  \/ <<b, PlanOf(b)[e]>> \in stopped

\* A request can create a task only for the entry the saved state stands at.
RequestInv ==
  \A r \in inflight :
    \/ Settled(r.batch, r.entry)
    \/ /\ stateFile.phase = "submitting"
       /\ r.batch = stateFile.batch
       /\ r.entry = stateFile.next

\* The request a process waits for, and the answer it gets, are for its entry.
AwaitedInv ==
  /\ \A r \in inflight : r.waits =>
       pc = "wait" /\ r.batch = state.batch /\ r.entry = state.next
  /\ pc \in {"wait", "reply"} => state.next \in Entries(state.batch)
  /\ pc = "reply" => Settled(state.batch, state.next)
  /\ pc = "reply" /\ answer = "stopped" => <<state.batch, entryGroup>> \in stopped

\* Everything before the entry the saved state stands at is settled.
ProgressInv ==
  stateFile.phase # "none" =>
    /\ \A e \in Entries(stateFile.batch) :
         e < stateFile.next => Settled(stateFile.batch, e)
    /\ stateFile.phase = "complete" => stateFile.next \notin Entries(stateFile.batch)

\* A submission key names one task (submitTask looks it up first).
KeysUnique == \A i, j \in TaskIds : tasks[i].key = tasks[j].key => i = j

\* The batch has a task or a request, or is the saved one.
Begun(b) ==
  \/ \E i \in TaskIds : tasks[i].group[1] = b
  \/ \E r \in inflight : r.batch = b
  \/ stateFile.phase # "none" /\ stateFile.batch = b

\* The batches that have begun are of different days, the saved one of the last.
DaysInv ==
  /\ \A a, b \in DOMAIN batches : Begun(a) /\ Begun(b) /\ a # b => batches[a] # batches[b]
  /\ \A b \in DOMAIN batches : Begun(b) => b = stateFile.batch \/ batches[b] < stateFile.day

\* Unfinished work is the protected batch's, and while another is being planned
\* there is none.
OpenInv ==
  /\ \A i \in TaskIds : tasks[i].status \in Unfinished => tasks[i].group[1] = protect
  /\ pc \in {"groups", "plan", "protect", "save"} /\ stateFile.phase # "submitting" =>
       \A i \in TaskIds : tasks[i].status \notin Unfinished

\* The inductive invariant.
DailyInv ==
  /\ TableType /\ ClockType /\ Planned
  /\ FilesInv /\ RequestInv /\ AwaitedInv /\ ProgressInv
  /\ KeysUnique /\ DaysInv /\ OpenInv

-----------------------------------------------------------------------------
(* The steps, as far as the invariant tells them apart.                    *)

\* Only statuses change, never back to unfinished, and only more is stopped.
RowsKept ==
  /\ TableType'
  /\ Len(tasks') = Len(tasks)
  /\ \A i \in TaskIds :
       /\ tasks'[i].key = tasks[i].key
       /\ tasks'[i].group = tasks[i].group
       /\ tasks'[i].status \in Unfinished => tasks[i].status \in Unfinished
  /\ stopped \subseteq stopped'

TableSame == UNCHANGED <<tasks, stopped>>

\* Whatever rewrites the status of one row keeps the rest of the table.
LEMMA StatusKeepsRows ==
  ASSUME TableType, NEW i \in TaskIds, NEW s \in Statuses, SetStatus(i, s),
         s \in Unfinished => tasks[i].status \in Unfinished
  PROVE  RowsKept
<1>1. /\ tasks' = [tasks EXCEPT ![i].status = s]
      /\ stopped' = stopped
  BY DEF SetStatus, Rewrite
<1>2. DOMAIN tasks = 1..Len(tasks) /\ Len(tasks) \in Nat
  BY DEF TableType
<1>3. \A k \in 1..Len(tasks) : tasks[k] \in TaskRow
  BY DEF TableType
<1>4. [tasks[i] EXCEPT !.status = s] \in TaskRow
  BY <1>2, <1>3 DEF TaskRow, TaskIds
<1>5. /\ DOMAIN tasks' = 1..Len(tasks)
      /\ \A k \in 1..Len(tasks) :
           tasks'[k] = IF k = i THEN [tasks[i] EXCEPT !.status = s] ELSE tasks[k]
  BY <1>1, <1>2
<1>6. tasks' \in [1..Len(tasks) -> TaskRow]
  <2>1. tasks' = [k \in 1..Len(tasks) |-> tasks'[k]]
    BY <1>1, <1>2, Zenon
  <2> QED
    BY <2>1, <1>3, <1>4, <1>5
<1>7. tasks' \in Seq(TaskRow) /\ Len(tasks') = Len(tasks)
  BY <1>2, <1>5, <1>6
<1>8. \A k \in 1..Len(tasks) :
        /\ tasks'[k].key = tasks[k].key
        /\ tasks'[k].group = tasks[k].group
        /\ tasks'[k].status \in Unfinished => tasks[k].status \in Unfinished
  BY <1>3, <1>5 DEF TaskRow
<1> QED
  BY <1>1, <1>7, <1>8 DEF RowsKept, TableType, TaskIds

\* Assigned, finished or taken back: a row that was unfinished before.
LEMMA SchedulingKeepsRows ==
  ASSUME TableType, Assign \/ Finish \/ TakeBack
  PROVE  RowsKept
<1>1. CASE Assign
  BY <1>1, StatusKeepsRows DEF Assign, InStatus, Statuses, Unfinished
<1>2. CASE Finish
  BY <1>2, StatusKeepsRows DEF Finish, InStatus, Statuses, Unfinished
<1>3. CASE TakeBack
  BY <1>3, StatusKeepsRows DEF TakeBack, InStatus, Statuses, Unfinished
<1> QED
  BY <1>1, <1>2, <1>3

\* A batch is stopped: its queued rows are cancelled.
LEMMA CancelKeepsRows ==
  ASSUME TableType, NEW g, cancelBatch(g)
  PROVE  RowsKept
<1> DEFINE now == {i \in MembersOf(g) : tasks[i].status = "QUEUED"}
           new(i) == IF i \in now THEN [tasks[i] EXCEPT !.status = "CANCELLED"] ELSE tasks[i]
<1>1. /\ stopped' = stopped \cup {g}
      /\ tasks' = tasks \/ tasks' = [i \in TaskIds |-> new(i)]
  BY DEF cancelBatch, Rewrite
<1>2. CASE tasks' = tasks
  BY <1>1, <1>2 DEF RowsKept, TableType
<1>3. CASE tasks' = [i \in TaskIds |-> new(i)]
  <2>1. Len(tasks) \in Nat /\ \A k \in 1..Len(tasks) : tasks[k] \in TaskRow
    BY DEF TableType
  <2>2. \A k \in 1..Len(tasks) :
          /\ new(k) \in TaskRow
          /\ new(k).key = tasks[k].key
          /\ new(k).group = tasks[k].group
          /\ new(k).status \in Unfinished => tasks[k].status \in Unfinished
    BY <2>1 DEF TaskRow, Statuses, Unfinished
  <2> HIDE DEF new
  <2>3. tasks' \in Seq(TaskRow) /\ Len(tasks') = Len(tasks)
    BY <1>3, <2>1, <2>2 DEF TaskIds
  <2> QED
    BY <1>1, <1>3, <2>2, <2>3 DEF RowsKept, TableType, TaskIds
<1> QED
  BY <1>1, <1>2, <1>3

\* Every step is one of three kinds: the table moves and the submitter does not,
\* the submitter moves and the table does not, or a request reaches the Server.
\* The kinds of steps: of the Server alone, and of the submitter alone.
ServerStep == RowsKept /\ UNCHANGED clockVars

SubmitterStep == TableSame /\ (Invoke \/ ClockStep \/ Fail \/ ServerGone \/ NewDay)

\* A step of the Server on its own table, of the submitter on its files, or the
\* delivery of a request: only the last touches both.
LEMMA StepKinds ==
  ASSUME TableType, [Next]_vars
  PROVE  ServerStep \/ SubmitterStep \/ \E r \in inflight : Deliver(r)
<1>1. TableSame => RowsKept
  BY DEF TableSame, RowsKept, TableType
<1>2. CASE UNCHANGED vars
  BY <1>1, <1>2 DEF vars, tableVars, clockVars, TableSame, ServerStep
<1>3. CASE Invoked \/ ClockMoves
  BY <1>3, Zenon DEF Invoked, ClockMoves, tableVars, TableSame, SubmitterStep
<1>4. CASE Delivered
  BY <1>4, Zenon DEF Delivered
<1>5. CASE Scheduled
  BY <1>5, SchedulingKeepsRows, Zenon DEF Scheduled, ServerStep
<1>6. CASE Paged
  BY <1>1, <1>6, Zenon DEF Paged, NextPage, ListNext, tableVars, TableSame, ServerStep
<1>7. CASE UserActs
  <2>1. CASE Refresh("groups")
    BY <1>1, <1>7, <2>1, Zenon DEF UserActs, Refresh, QueryFirst, TableSame, ServerStep
  <2>2. CASE \E v \in Views : OtherRefresh(v)
    BY <1>1, <1>7, <2>2, Zenon DEF UserActs, OtherRefresh, QueryFirst, TableSame, ServerStep
  <2>3. CASE \E g \in AllGroups : cancelBatch(g)
    BY <1>7, <2>3, CancelKeepsRows, Zenon DEF UserActs, ServerStep
  <2>4. CASE ListFirst
    BY <1>1, <1>7, <2>4, Zenon DEF UserActs, ListFirst, QueryFirst, TableSame, ServerStep
  <2> QED
    BY <1>7, <2>1, <2>2, <2>3, <2>4, Zenon DEF UserActs, Views
<1>8. CASE Faults
  <2>1. CASE (Fail \/ NewDay) /\ UNCHANGED tableVars
    BY <2>1, Zenon DEF tableVars, TableSame, SubmitterStep
  <2>2. CASE ServerGone /\ RestartServer
    BY <2>2, Zenon DEF RestartServer, TableSame, SubmitterStep
  <2>3. CASE Expire /\ UNCHANGED clockVars
    BY <1>1, <2>3, Zenon DEF Expire, TableSame, ServerStep
  <2> QED
    BY <1>8, <2>1, <2>2, <2>3, Zenon DEF Faults
<1> QED
  BY <1>2, <1>3, <1>4, <1>5, <1>6, <1>7, <1>8, Zenon DEF Next

-----------------------------------------------------------------------------
(* The table moves.                                                        *)

\* What is settled stays settled while keys are kept and more is stopped.
LEMMA SettledStays ==
  ASSUME NEW b, NEW e, Settled(b, e), batches' = batches, stopped \subseteq stopped',
         TaskIds \subseteq TaskIds', \A i \in TaskIds : tasks'[i].key = tasks[i].key
  PROVE  Settled(b, e)'
BY Zenon DEF Settled, PlanOf

\* What the Server does by itself only settles and finishes, so all parts stay.
LEMMA ServerStepKept ==
  ASSUME DailyInv, ServerStep
  PROVE  DailyInv'
<1> USE DEF DailyInv
<1>1. /\ UNCHANGED <<stateFile, planFile, protect, pc, state, group, inflight, answer, day, batches>>
      /\ TaskIds' = TaskIds
      /\ stopped \subseteq stopped'
      /\ TableType'
  BY DEF ServerStep, RowsKept, clockVars, TaskIds
<1>2. \A i \in TaskIds :
        /\ tasks'[i].key = tasks[i].key
        /\ tasks'[i].group = tasks[i].group
        /\ tasks'[i].status \in Unfinished => tasks[i].status \in Unfinished
  BY DEF ServerStep, RowsKept
<1>3. \A b, e : Settled(b, e) => Settled(b, e)'
  BY <1>1, <1>2, SettledStays, Zenon
<1>4. ClockType'
  BY <1>1 DEF ClockType
<1>5. Planned'
  BY <1>1, <1>2, Zenon DEF Planned, Entries, PlanOf
<1>6. FilesInv'
  <2>1. WellFormed(stateFile)' /\ WellFormed(state)'
    BY <1>1, Zenon DEF FilesInv, WellFormed, PlanOf
  <2> QED
    BY <1>1, <2>1, Zenon DEF FilesInv, Fresh
<1>7. RequestInv' /\ AwaitedInv'
  BY <1>1, <1>3, Zenon DEF RequestInv, AwaitedInv, entryGroup, Entries, PlanOf
<1>8. ProgressInv'
  BY <1>1, <1>3, Zenon DEF ProgressInv, Entries, PlanOf
<1>9. KeysUnique' /\ DaysInv' /\ OpenInv'
  BY <1>1, <1>2 DEF KeysUnique, DaysInv, Begun, OpenInv
<1> QED
  BY <1>1, <1>4, <1>5, <1>6, <1>7, <1>8, <1>9

-----------------------------------------------------------------------------
(* The submitter moves.                                                    *)

\* Plans are sequences of groups.
LEMMA PlanShape ==
  ASSUME ClockType, NEW b \in DOMAIN batches
  PROVE  /\ batches[b] \in DOMAIN DayPlan
         /\ PlanOf(b) \in Seq(Nat \ {0})
         /\ Len(PlanOf(b)) \in Nat
         /\ Entries(b) = 1..Len(PlanOf(b))
         /\ \A e \in Entries(b) : PlanOf(b)[e] \in Nat \ {0}
<1>1. batches[b] \in DOMAIN DayPlan
  BY DEF ClockType
<1>2. DayPlan[batches[b]] \in Seq(Nat \ {0})
  BY <1>1, PlanAssumption
<1> QED
  BY <1>1, <1>2 DEF PlanOf, Entries

\* The first of the planned days has begun.
LEMMA DayOne == 1 \in DOMAIN DayPlan /\ Len(DayPlan) \in Nat /\ DOMAIN DayPlan = 1..Len(DayPlan)
BY PlanAssumption

\* Steps that write neither the saved state nor a new plan, and send nothing:
\* requests may be given up or lost.
Reading ==
  /\ TableSame
  /\ UNCHANGED <<stateFile, batches>>
  /\ \A r \in inflight' : \E q \in inflight :
       q.batch = r.batch /\ q.entry = r.entry /\ (r.waits => q = r)

\* A step that writes no state and sends nothing keeps what is about the disk.
LEMMA ReadingKeeps ==
  ASSUME DailyInv, Reading
  PROVE  /\ TableType' /\ Planned' /\ RequestInv' /\ ProgressInv' /\ KeysUnique' /\ DaysInv'
         /\ WellFormed(stateFile)'
         /\ \A s : WellFormed(s) => WellFormed(s)'
         /\ \A b, e : Settled(b, e) => Settled(b, e)'
<1>1. /\ UNCHANGED <<tasks, stopped, stateFile, batches>>
      /\ \A r \in inflight' : \E q \in inflight : q.batch = r.batch /\ q.entry = r.entry
  BY DEF Reading, TableSame
<1>2. TaskIds' = TaskIds /\ TableType'
  BY <1>1 DEF TaskIds, TableType, DailyInv
<1>3. \A b, e : Settled(b, e) => Settled(b, e)'
  BY <1>1, <1>2, Zenon DEF Settled, PlanOf
<1>4. \A s : WellFormed(s) => WellFormed(s)'
  BY <1>1, Zenon DEF WellFormed, PlanOf
<1>5. WellFormed(stateFile)'
  BY <1>1, Zenon DEF DailyInv, FilesInv, WellFormed, PlanOf
<1>6. Planned'
  BY <1>1, <1>2, Zenon DEF DailyInv, Planned, Entries, PlanOf
<1>7. RequestInv'
  BY <1>1, <1>3, Zenon DEF DailyInv, RequestInv
<1>8. ProgressInv'
  BY <1>1, <1>3, Zenon DEF DailyInv, ProgressInv, Entries, PlanOf
<1>9. KeysUnique'
  BY <1>1, <1>2, Zenon DEF DailyInv, KeysUnique
<1>10. DaysInv'
  <2>1. \A b : Begun(b)' => Begun(b)
    BY <1>1, <1>2, Zenon DEF Begun
  <2> QED
    BY <1>1, <2>1, Zenon DEF DailyInv, DaysInv
<1> QED
  BY <1>2, <1>3, <1>4, <1>5, <1>6, <1>7, <1>8, <1>9, <1>10, Zenon

\* A process that ends leaves nothing behind but the files and its request.
LEMMA ExitKeeps ==
  ASSUME DailyInv, Reading, Exit, UNCHANGED <<planFile, protect, day>>,
         inflight' \subseteq Request, \A r \in inflight' : ~ r.waits
  PROVE  DailyInv'
<1>1. NoState \in StateRecord
  BY DEF NoState, StateRecord
<1>2. ClockType'
  BY <1>1, Zenon DEF DailyInv, ClockType, Exit, Reading, Places
<1>3. FilesInv'
  <2>1. WellFormed(state)'
    BY Zenon DEF Exit, WellFormed
  <2> QED
    BY <2>1, ReadingKeeps, Zenon DEF DailyInv, FilesInv, Exit, Reading
<1>4. AwaitedInv'
  BY Zenon DEF AwaitedInv, Exit
<1>5. OpenInv'
  <2>1. UNCHANGED <<tasks, protect, stateFile>> /\ TaskIds' = TaskIds
    BY DEF Reading, TableSame, TaskIds
  <2> QED
    BY <2>1, Zenon DEF DailyInv, OpenInv, Exit
<1> QED
  BY <1>2, <1>3, <1>4, <1>5, ReadingKeeps, Zenon DEF DailyInv

\* A process starts from the saved state.
LEMMA InvokeKept ==
  ASSUME DailyInv, TableSame, Invoke
  PROVE  DailyInv'
<1>1. Reading
  BY Zenon DEF Invoke, Reading
<1>2. ClockType'
  BY DEF DailyInv, ClockType, Invoke, Places
<1>3. FilesInv'
  <2>1. WellFormed(state)'
    BY <1>1, ReadingKeeps, Zenon DEF Invoke
  <2> QED
    BY <1>1, <2>1, ReadingKeeps, Zenon DEF DailyInv, FilesInv, Invoke
<1>4. AwaitedInv'
  BY Zenon DEF DailyInv, AwaitedInv, Invoke
<1>5. OpenInv'
  BY Zenon DEF DailyInv, OpenInv, Invoke, TableSame, TaskIds
<1> QED
  BY <1>1, <1>2, <1>3, <1>4, <1>5, ReadingKeeps, Zenon DEF DailyInv

\* Nobody's task is unfinished when the Server counts none.
LEMMA NoneCounted ==
  ASSUME TableType, ~ (unfinishedCount > 0)
  PROVE  \A i \in TaskIds : tasks[i].status \notin Unfinished
<1> DEFINE open == {i \in TaskIds : tasks[i].status \in Unfinished}
<1>1. Len(tasks) \in Nat
  BY DEF TableType
<1>2. IsFiniteSet(TaskIds)
  BY <1>1, FS_Interval DEF TaskIds
<1>3. IsFiniteSet(open)
  BY <1>2, FS_Subset
<1>4. Cardinality(open) \in Nat /\ (Cardinality(open) = 0 <=> open = {})
  BY <1>3, FS_CardinalityType, FS_EmptySet
<1>5. open = {}
  BY <1>4 DEF unfinishedCount
<1> QED
  BY <1>5, Zenon

\* An unfinished batch is resumed with its own plan; unfinished tasks end the
\* process; only then is the previous batch looked at, or the first one planned.
LEMMA StatusKept ==
  ASSUME DailyInv, TableSame, Status
  PROVE  DailyInv'
<1>1. Reading
  BY Zenon DEF Status, Reading
<1>2. CASE Exit
  <2>1. \A r \in inflight' : ~ r.waits
    BY Zenon DEF DailyInv, AwaitedInv, Status
  <2> QED
    BY <1>1, <1>2, <2>1, ExitKeeps, Zenon DEF DailyInv, ClockType, Status
<1>3. ASSUME ~ Exit
      PROVE  /\ UNCHANGED <<stateFile, planFile, protect, state, inflight, answer, day, batches>>
             /\ pc = "status"
             /\ \/ resumes /\ planFile = state.batch /\ pc' = "protect"
                \/ /\ ~ resumes /\ ~ (unfinishedCount > 0)
                   /\ pc' = IF state = NoState THEN "plan" ELSE "groups"
  BY <1>3, Zenon DEF Status
<1>4. CASE ~ Exit
  <2>1. ClockType'
    BY <1>3, <1>4 DEF DailyInv, ClockType, Places
  <2>2. FilesInv'
    <3>1. state = stateFile
      BY <1>3, <1>4, Zenon DEF DailyInv, FilesInv
    <3>2. WellFormed(state)'
      BY <1>1, <1>3, <1>4, ReadingKeeps, Zenon DEF DailyInv, FilesInv
    <3>3. state = NoState => state.day < day
      BY DayOne DEF NoState, DailyInv, ClockType
    <3> QED
      BY <1>1, <1>3, <1>4, <3>1, <3>2, <3>3, ReadingKeeps DEF DailyInv, FilesInv, resumes
  <2>3. AwaitedInv'
    BY <1>3, <1>4 DEF DailyInv, AwaitedInv
  <2>4. OpenInv'
    <3>1. UNCHANGED <<tasks, protect, stateFile>> /\ TaskIds' = TaskIds
      BY <1>3, <1>4 DEF TableSame, TaskIds
    <3>2. state = stateFile
      BY <1>3, <1>4, Zenon DEF DailyInv, FilesInv
    <3>3. CASE resumes
      BY <1>3, <1>4, <3>1, <3>2, <3>3, Zenon DEF DailyInv, OpenInv, resumes
    <3>4. CASE ~ resumes
      BY <1>3, <1>4, <3>1, <3>4, NoneCounted, Zenon DEF DailyInv, OpenInv
    <3> QED
      BY <3>3, <3>4
  <2> QED
    BY <1>1, <2>1, <2>2, <2>3, <2>4, ReadingKeeps, Zenon DEF DailyInv
<1> QED
  BY <1>2, <1>4

\* Each group of the previous batch that is not complete ends the process, and
\* so does a state of the same day.
LEMMA PreviousGroupKept ==
  ASSUME DailyInv, TableSame, PreviousGroup
  PROVE  DailyInv'
<1>1. Reading
  BY Zenon DEF PreviousGroup, Reading
<1>2. CASE Exit
  <2>1. \A r \in inflight' : ~ r.waits
    BY Zenon DEF DailyInv, AwaitedInv, PreviousGroup
  <2> QED
    BY <1>1, <1>2, <2>1, ExitKeeps, Zenon DEF DailyInv, ClockType, PreviousGroup
<1>3. ASSUME ~ Exit
      PROVE  /\ UNCHANGED <<stateFile, planFile, protect, state, inflight, answer, day, batches>>
             /\ pc = "groups"
             /\ \/ pc' = pc
                \/ state.day # day /\ pc' = "plan"
  BY <1>3, Zenon DEF PreviousGroup
<1>4. CASE ~ Exit
  <2>1. ClockType'
    BY <1>3, <1>4 DEF DailyInv, ClockType, Places
  <2>2. FilesInv'
    <3>1. state.day <= day
      BY DayOne DEF DailyInv, ClockType, FilesInv, WellFormed, NoState
    <3>2. state.day # day => state.day < day
      BY <3>1, DayOne DEF DailyInv, ClockType, StateRecord
    <3>3. WellFormed(state)'
      BY <1>1, <1>3, <1>4, ReadingKeeps, Zenon DEF DailyInv, FilesInv
    <3> QED
      BY <1>1, <1>3, <1>4, <3>2, <3>3, ReadingKeeps, Zenon DEF DailyInv, FilesInv
  <2>3. AwaitedInv'
    BY <1>3, <1>4 DEF DailyInv, AwaitedInv
  <2>4. OpenInv'
    BY <1>3, <1>4, Zenon DEF DailyInv, OpenInv, TableSame, TaskIds
  <2> QED
    BY <1>1, <2>1, <2>2, <2>3, <2>4, ReadingKeeps, Zenon DEF DailyInv
<1> QED
  BY <1>2, <1>4

\* protect_versions_file names the new batch while no task is unfinished.
LEMMA ProtectKept ==
  ASSUME DailyInv, TableSame, Protect
  PROVE  DailyInv'
<1>1. Reading
  BY Zenon DEF Protect, Reading
<1>2. ClockType'
  BY DEF DailyInv, ClockType, Protect, Places, StateRecord
<1>3. FilesInv'
  <2>1. WellFormed(state)'
    BY <1>1, ReadingKeeps, Zenon DEF Protect, DailyInv, FilesInv
  <2> QED
    BY <1>1, <2>1, ReadingKeeps, Zenon DEF DailyInv, FilesInv, Fresh, Protect
<1>4. AwaitedInv'
  BY Zenon DEF DailyInv, AwaitedInv, Protect
<1>5. OpenInv'
  <2>1. UNCHANGED <<tasks, stateFile>> /\ TaskIds' = TaskIds
    BY DEF Protect, TableSame, TaskIds
  <2>2. CASE stateFile.phase = "submitting"
    <3>1. protect' = protect
      BY <2>2, Zenon DEF DailyInv, FilesInv, Fresh, Protect
    <3> QED
      BY <2>1, <2>2, <3>1, Zenon DEF DailyInv, OpenInv, Protect
  <2>3. CASE stateFile.phase # "submitting"
    BY <2>1, <2>3, Zenon DEF DailyInv, OpenInv, Protect
  <2> QED
    BY <2>2, <2>3
<1> QED
  BY <1>1, <1>2, <1>3, <1>4, <1>5, ReadingKeeps, Zenon DEF DailyInv

\* A process that dies leaves its request under way, where nobody waits for it.
LEMMA FailKept ==
  ASSUME DailyInv, TableSame, Fail
  PROVE  DailyInv'
<1>1. inflight' = abandoned \/ inflight' = {r \in inflight : ~ r.waits}
  BY Zenon DEF Fail
<1>2. \A r \in abandoned : r \in Request /\ ~ r.waits
        /\ \E q \in inflight : q.batch = r.batch /\ q.entry = r.entry
  <2>1. \A q \in inflight : q \in Request
    BY Zenon DEF DailyInv, ClockType
  <2> QED
    BY <2>1, Zenon DEF abandoned, Request
<1>3. \A r \in inflight' : r \in Request /\ ~ r.waits
        /\ \E q \in inflight : q.batch = r.batch /\ q.entry = r.entry
  BY <1>1, <1>2, Zenon DEF DailyInv, ClockType
<1>4. Reading
  BY <1>3, Zenon DEF Fail, Reading
<1> QED
  BY <1>3, <1>4, ExitKeeps, Zenon DEF Fail

\* A request lost with the Server ends the process that waits for it.
LEMMA ServerGoneKept ==
  ASSUME DailyInv, TableSame, ServerGone
  PROVE  DailyInv'
<1>1. Reading
  BY Zenon DEF ServerGone, Reading
<1>2. CASE pc = "wait"
  BY <1>1, <1>2, ExitKeeps, Zenon DEF ServerGone
<1>3. CASE pc # "wait"
  <2>1. ClockType'
    BY <1>3, Zenon DEF DailyInv, ClockType, ServerGone
  <2>2. FilesInv'
    <3>1. WellFormed(state)'
      BY <1>1, <1>3, ReadingKeeps, Zenon DEF ServerGone, DailyInv, FilesInv
    <3> QED
      BY <1>1, <1>3, <3>1, ReadingKeeps, Zenon DEF DailyInv, FilesInv, Fresh, ServerGone
  <2>3. AwaitedInv'
    <3>1. Settled(state.batch, state.next) => Settled(state.batch, state.next)'
      BY <1>3, Zenon DEF ServerGone, TableSame, Settled, PlanOf, TaskIds
    <3> QED
      BY <1>3, <3>1, Zenon DEF DailyInv, AwaitedInv, ServerGone, TableSame, entryGroup, Entries, PlanOf
  <2>4. OpenInv'
    BY <1>3, Zenon DEF DailyInv, OpenInv, ServerGone, TableSame, TaskIds
  <2> QED
    BY <1>1, <2>1, <2>2, <2>3, <2>4, ReadingKeeps, Zenon DEF DailyInv
<1> QED
  BY <1>2, <1>3

\* Later days leave the files as they are.
LEMMA NewDayKept ==
  ASSUME DailyInv, TableSame, NewDay
  PROVE  DailyInv'
<1>1. Reading
  BY Zenon DEF NewDay, Reading
<1>2. ClockType'
  BY DayOne DEF DailyInv, ClockType, NewDay
<1>3. FilesInv'
  <2>1. WellFormed(state)'
    BY <1>1, ReadingKeeps, Zenon DEF NewDay, DailyInv, FilesInv
  <2>2. pc = "plan" => state.day < day'
    BY DayOne DEF DailyInv, ClockType, FilesInv, NewDay, StateRecord
  <2> QED
    BY <1>1, <2>1, <2>2, ReadingKeeps, Zenon DEF DailyInv, FilesInv, Fresh, NewDay
<1>4. AwaitedInv'
  <2>1. Settled(state.batch, state.next) => Settled(state.batch, state.next)'
    BY Zenon DEF NewDay, TableSame, Settled, PlanOf, TaskIds
  <2> QED
    BY <2>1, Zenon DEF DailyInv, AwaitedInv, NewDay, TableSame, entryGroup, Entries, PlanOf
<1>5. OpenInv'
  BY Zenon DEF DailyInv, OpenInv, NewDay, TableSame, TaskIds
<1> QED
  BY <1>1, <1>2, <1>3, <1>4, <1>5, ReadingKeeps, Zenon DEF DailyInv

\* A new batch is the last of the history; the plans of the others stay.
LEMMA BatchAdded ==
  ASSUME ClockType, batches' = Append(batches, day)
  PROVE  /\ batches' \in Seq(DOMAIN DayPlan)
         /\ Len(batches') = Len(batches) + 1
         /\ Len(batches') \in DOMAIN batches'
         /\ batches'[Len(batches')] = day
         /\ \A b \in DOMAIN batches' : b \in DOMAIN batches \/ b = Len(batches')
         /\ \A b \in DOMAIN batches :
              /\ b \in DOMAIN batches'
              /\ batches'[b] = batches[b]
              /\ PlanOf(b)' = PlanOf(b)
              /\ Entries(b)' = Entries(b)
<1>1. /\ batches' \in Seq(DOMAIN DayPlan)
      /\ Len(batches') = Len(batches) + 1
      /\ Len(batches') \in DOMAIN batches'
      /\ batches'[Len(batches')] = day
      /\ \A b \in DOMAIN batches' : b \in DOMAIN batches \/ b = Len(batches')
      /\ \A b \in DOMAIN batches : b \in DOMAIN batches' /\ batches'[b] = batches[b]
  BY DEF ClockType
<1>2. \A b \in DOMAIN batches : PlanOf(b)' = PlanOf(b) /\ Entries(b)' = Entries(b)
  BY <1>1, Zenon DEF PlanOf, Entries
<1> QED
  BY <1>1, <1>2, Zenon

\* The state of a new batch.
newState(n, d) == [NoState EXCEPT !.batch = n, !.day = d, !.phase = "submitting"]

\* What a new batch starts from.
LEMMA NewState ==
  ASSUME NEW n \in Nat, NEW d \in Nat, NEW s, s = newState(n, d)
  PROVE  /\ s \in StateRecord
         /\ s.batch = n /\ s.day = d /\ s.phase = "submitting"
         /\ s.next = 1 /\ s.stoppedGroups = {}
<1>1. s = [batch |-> n, day |-> d, phase |-> "submitting", next |-> 1,
           uncertain |-> FALSE, stoppedGroups |-> {}]
  BY Zenon DEF newState, NoState
<1>2. s \in StateRecord
  BY ONLY <1>1, n \in Nat, d \in Nat DEF StateRecord
<1>3. /\ s.batch = n /\ s.day = d /\ s.phase = "submitting"
      /\ s.next = 1 /\ s.stoppedGroups = {}
  BY ONLY <1>1
<1> QED
  BY <1>2, <1>3

\* A new batch gets a number that no task, request or file names.
LEMMA PlanKept ==
  ASSUME DailyInv, TableSame, Plan
  PROVE  DailyInv'
<1>1. PICK n \in Nat : n = Len(batches')
  BY BatchAdded DEF Plan, DailyInv, ClockType
<1>2. /\ UNCHANGED <<tasks, stopped, stateFile, protect, inflight, answer, day>>
      /\ pc = "plan" /\ pc' = "protect"
      /\ batches' = Append(batches, day)
      /\ planFile' = n
      /\ state' = newState(n, day)
      /\ TaskIds' = TaskIds
  BY <1>1, Zenon DEF Plan, TableSame, TaskIds, newState
<1>0. /\ n \in DOMAIN batches' /\ batches'[n] = day
      /\ \A b \in DOMAIN batches' : b \in DOMAIN batches \/ b = n
  BY <1>1, <1>2, BatchAdded, Zenon DEF DailyInv
<1>3. /\ state' \in StateRecord
      /\ state'.batch = n /\ state'.day = day /\ state'.phase = "submitting"
      /\ state'.next = 1 /\ state'.stoppedGroups = {}
  <2>1. day \in Nat
    BY DayOne DEF DailyInv, ClockType
  <2>2. state' = newState(n, day)
    BY <1>2, Zenon
  <2> QED
    BY <1>1, <2>1, <2>2, NewState
<1>4. state = stateFile /\ stateFile.phase # "submitting" /\ stateFile.day < day
  BY <1>2 DEF DailyInv, FilesInv
<1>5. TableType'
  BY <1>2, Zenon DEF DailyInv, TableType
<1>6. ClockType'
  <2>1. \A b \in DOMAIN batches' : batches'[b] <= day'
    BY <1>2, BatchAdded, DayOne DEF DailyInv, ClockType
  <2> QED
    BY <1>1, <1>2, <1>3, <2>1, BatchAdded, Zenon DEF DailyInv, ClockType, Places
<1>7. \A b \in DOMAIN batches : \A e : Settled(b, e) => Settled(b, e)'
  <2>1. \A b \in DOMAIN batches : PlanOf(b)' = PlanOf(b)
    BY <1>2, BatchAdded, Zenon DEF DailyInv
  <2> QED
    BY <1>2, <2>1, Zenon DEF Settled
<1>8. Planned'
  BY <1>2, BatchAdded, Zenon DEF DailyInv, Planned
<1>9. FilesInv'
  <2>1. WellFormed(stateFile)'
    BY <1>2, BatchAdded, Zenon DEF DailyInv, FilesInv, WellFormed
  <2>2. WellFormed(state)'
    <3>1. PlanOf(n)' = DayPlan[day] /\ n \in DOMAIN batches' /\ batches'[n] = day
      BY <1>0 DEF PlanOf
    <3>2. Len(DayPlan[day]) \in Nat
      BY PlanAssumption DEF DailyInv, ClockType
    <3>3. 1 \in 1..(Len(PlanOf(n)') + 1)
      BY <3>1, <3>2
    <3> QED
      BY <1>2, <1>3, <3>1, <3>3, Zenon DEF WellFormed, PlanOf
  <2>3. Fresh'
    BY <1>2, <1>3, <1>4, Zenon DEF Fresh
  <2> QED
    BY <1>2, <1>3, <1>4, <2>1, <2>2, <2>3 DEF FilesInv
<1>10. RequestInv'
  BY <1>2, <1>4, <1>7, Zenon DEF DailyInv, RequestInv, Planned
<1>11. AwaitedInv'
  BY <1>2, Zenon DEF DailyInv, AwaitedInv
<1>12. ProgressInv'
  <2>1. stateFile.phase # "none" => stateFile.batch \in DOMAIN batches
    BY DEF DailyInv, FilesInv, WellFormed, NoState
  <2> QED
    BY <1>2, <1>7, <2>1, BatchAdded, Zenon DEF DailyInv, ProgressInv
<1>13. KeysUnique' /\ OpenInv'
  BY <1>2, <1>4, Zenon DEF DailyInv, KeysUnique, OpenInv
<1>14. DaysInv'
  <2>1. \A b : Begun(b)' => Begun(b)
    BY <1>2, Zenon DEF Begun
  <2>2. \A b : Begun(b) => b \in DOMAIN batches
    BY DEF Begun, DailyInv, Planned, FilesInv, WellFormed, NoState
  <2>3. \A b : Begun(b)' => Begun(b) /\ b \in DOMAIN batches /\ batches'[b] = batches[b]
    BY <1>2, <2>1, <2>2, BatchAdded, Zenon DEF DailyInv
  <2> QED
    BY <1>2, <2>3 DEF DailyInv, DaysInv
<1> QED
  BY <1>5, <1>6, <1>8, <1>9, <1>10, <1>11, <1>12, <1>13, <1>14, Zenon DEF DailyInv

\* The first save makes the new batch the saved one: the one before it is
\* complete, so that no request can create a task of it any more.
LEMMA FirstSaveKept ==
  ASSUME DailyInv, TableSame, FirstSave
  PROVE  DailyInv'
<1>1. /\ UNCHANGED <<tasks, stopped, state, planFile, protect, inflight, answer, day, batches>>
      /\ pc = "save" /\ pc' = "loop"
      /\ stateFile' = state
      /\ TaskIds' = TaskIds
  BY DEF FirstSave, Save, TableSame, TaskIds
<1>2. /\ state.phase = "submitting" /\ planFile = state.batch /\ protect = state.batch
      /\ state = stateFile \/ Fresh
  BY <1>1, Zenon DEF DailyInv, FilesInv
<1>3. TableType' /\ ClockType'
  BY <1>1, Zenon DEF DailyInv, TableType, ClockType, Places
<1>4. Planned'
  BY <1>1, Zenon DEF DailyInv, Planned, Entries, PlanOf
<1>5. FilesInv'
  <2>1. WellFormed(stateFile)' /\ WellFormed(state)'
    BY <1>1, Zenon DEF DailyInv, FilesInv, WellFormed, PlanOf
  <2> QED
    BY <1>1, <1>2, <2>1 DEF FilesInv
<1>6. \A b, e : Settled(b, e) => Settled(b, e)'
  BY <1>1, Zenon DEF Settled, PlanOf
<1>7. RequestInv'
  BY <1>1, <1>2, <1>6, Zenon DEF DailyInv, RequestInv, Fresh
<1>8. AwaitedInv'
  BY <1>1 DEF DailyInv, AwaitedInv
<1>9. ProgressInv'
  <2>1. CASE state = stateFile
    BY <1>1, <1>6, <2>1, Zenon DEF DailyInv, ProgressInv, Entries, PlanOf
  <2>2. CASE Fresh
    <3>1. state.batch \in DOMAIN batches
      BY <1>2 DEF DailyInv, FilesInv, WellFormed, NoState
    <3>2. \A e \in Entries(state.batch) : ~ (e < state.next)
      BY <2>2, <3>1, PlanShape DEF Fresh, DailyInv
    <3> QED
      BY <1>1, <1>2, <3>2 DEF ProgressInv, Entries, PlanOf
  <2> QED
    BY <1>2, <2>1, <2>2
<1>10. KeysUnique' /\ OpenInv'
  BY <1>1 DEF DailyInv, KeysUnique, OpenInv
<1>11. DaysInv'
  <2>1. CASE state = stateFile
    <3>1. \A b : Begun(b)' => Begun(b)
      BY <1>1, <2>1, Zenon DEF Begun
    <3> QED
      BY <1>1, <2>1, <3>1 DEF DailyInv, DaysInv
  <2>2. CASE Fresh
    <3>1. state.batch \in DOMAIN batches /\ batches[state.batch] = state.day
      BY <1>2 DEF DailyInv, FilesInv, WellFormed, NoState
    <3>2. \A b : Begun(b)' => Begun(b) \/ b = state.batch
      BY <1>1, Zenon DEF Begun
    <3>3. \A b \in DOMAIN batches : Begun(b) => batches[b] < state.day
      <4>1. stateFile.phase # "none" => batches[stateFile.batch] = stateFile.day
        BY DEF DailyInv, FilesInv, WellFormed, NoState
      <4>2. stateFile.phase = "none" => stateFile.batch \notin DOMAIN batches
        BY DEF DailyInv, ClockType, FilesInv, WellFormed, NoState
      <4>3. stateFile.day \in Nat /\ state.day \in Nat /\ stateFile.day < state.day
        BY <2>2 DEF Fresh, DailyInv, ClockType, StateRecord
      <4>4. \A b \in DOMAIN batches : batches[b] \in Nat
        BY DayOne DEF DailyInv, ClockType
      <4> QED
        BY <4>1, <4>2, <4>3, <4>4 DEF DailyInv, DaysInv
    <3>4. state.day \in Nat /\ \A b \in DOMAIN batches : batches[b] \in Nat
      BY DayOne DEF DailyInv, ClockType, StateRecord
    <3> QED
      BY <1>1, <3>1, <3>2, <3>3, <3>4 DEF DailyInv, DaysInv
  <2> QED
    BY <1>2, <2>1, <2>2
<1> QED
  BY <1>3, <1>4, <1>5, <1>7, <1>8, <1>9, <1>10, <1>11, Zenon DEF DailyInv

\* A step in the loop that saves how far it has come: at the same entry, or
\* behind an entry that is settled.
Saving ==
  /\ TableSame
  /\ UNCHANGED <<planFile, protect, day, batches>>
  /\ stateFile.phase = "submitting"
  /\ stateFile' \in StateRecord
  /\ stateFile'.batch = stateFile.batch
  /\ stateFile'.day = stateFile.day
  /\ stateFile'.phase # "none"
  /\ \A g \in stateFile'.stoppedGroups : <<stateFile.batch, g>> \in stopped
  /\ \/ stateFile'.next = stateFile.next
     \/ /\ stateFile'.next = stateFile.next + 1
        /\ stateFile.next \in Entries(stateFile.batch)
        /\ Settled(stateFile.batch, stateFile.next)
  /\ stateFile'.phase = "complete" => stateFile'.next \notin Entries(stateFile.batch)
  /\ \A r \in inflight' :
       \/ r \in inflight
       \/ /\ r \in Request
          /\ stateFile'.phase = "submitting"
          /\ r.batch = stateFile.batch
          /\ r.entry = stateFile'.next
          /\ r.entry \in Entries(stateFile.batch)

\* A save that keeps the batch keeps what is about the disk, if the entries it
\* passes are settled.
LEMMA SavingKeeps ==
  ASSUME DailyInv, Saving
  PROVE  /\ TableType' /\ Planned' /\ RequestInv' /\ ProgressInv' /\ KeysUnique' /\ DaysInv'
         /\ WellFormed(stateFile)'
         /\ inflight' \subseteq Request
         /\ OpenInv' \/ pc' \in {"groups", "plan", "protect", "save"}
         /\ stateFile'.phase = "submitting" =>
              planFile' = stateFile'.batch /\ protect' = stateFile'.batch
<1>1. /\ UNCHANGED <<tasks, stopped, planFile, protect, day, batches>>
      /\ TaskIds' = TaskIds
      /\ \A b : PlanOf(b)' = PlanOf(b) /\ Entries(b)' = Entries(b)
  BY DEF Saving, TableSame, TaskIds, PlanOf, Entries
<1>2. /\ stateFile.batch \in DOMAIN batches
      /\ stateFile.day = batches[stateFile.batch]
      /\ stateFile.next \in 1..(Len(PlanOf(stateFile.batch)) + 1)
  BY DEF Saving, DailyInv, FilesInv, WellFormed, NoState
<1>3. /\ Entries(stateFile.batch) = 1..Len(PlanOf(stateFile.batch))
      /\ Len(PlanOf(stateFile.batch)) \in Nat
  BY <1>2, PlanShape DEF DailyInv
<1>4. \A b, e : Settled(b, e) => Settled(b, e)'
  BY <1>1, Zenon DEF Settled
<1>5. stateFile'.next \in 1..(Len(PlanOf(stateFile.batch)) + 1)
  BY <1>2, <1>3 DEF Saving
<1>6. WellFormed(stateFile)'
  BY <1>1, <1>2, <1>5, Zenon DEF WellFormed, Saving
<1>7. TableType' /\ KeysUnique'
  BY <1>1, Zenon DEF DailyInv, TableType, KeysUnique
<1>8. Planned' /\ inflight' \subseteq Request
  BY <1>1, <1>2, Zenon DEF DailyInv, ClockType, Planned, Saving
<1>9. RequestInv'
  <2> SUFFICES ASSUME NEW r \in inflight'
               PROVE  \/ Settled(r.batch, r.entry)
                      \/ /\ stateFile'.phase = "submitting"
                         /\ r.batch = stateFile'.batch
                         /\ r.entry = stateFile'.next
    BY <1>4, Zenon DEF RequestInv
  <2>1. CASE r \in inflight
    <3>1. CASE ~ Settled(r.batch, r.entry)
      <4>1. r.batch = stateFile.batch /\ r.entry = stateFile.next
        BY <2>1, <3>1, Zenon DEF DailyInv, RequestInv
      <4>2. r.entry \in Entries(stateFile.batch)
        BY <2>1, <4>1, Zenon DEF DailyInv, Planned
      <4>3. stateFile'.next = stateFile.next
        BY <3>1, <4>1, Zenon DEF Saving
      <4>4. stateFile'.phase = "submitting"
        BY <4>1, <4>2, <4>3 DEF Saving, StateRecord
      <4> QED
        BY <4>1, <4>3, <4>4, Zenon DEF Saving
    <3> QED
      BY <3>1
  <2>2. CASE r \notin inflight
    BY <2>2, Zenon DEF Saving
  <2> QED
    BY <2>1, <2>2
<1>10. ProgressInv'
  <2>1. \A e \in Entries(stateFile.batch) :
          e < stateFile'.next => e < stateFile.next \/ e = stateFile.next
    BY <1>2, <1>3 DEF Saving
  <2>2. \A e \in Entries(stateFile.batch) : e < stateFile'.next => Settled(stateFile.batch, e)
    <3>1. \A e \in Entries(stateFile.batch) : e < stateFile.next => Settled(stateFile.batch, e)
      BY DEF DailyInv, ProgressInv, Saving
    <3>2. CASE stateFile'.next = stateFile.next
      BY <3>1, <3>2, Zenon
    <3>3. CASE Settled(stateFile.batch, stateFile.next)
      BY <2>1, <3>1, <3>3, Zenon
    <3> QED
      BY <3>2, <3>3, Zenon DEF Saving
  <2> QED
    BY <1>1, <1>4, <2>2, Zenon DEF ProgressInv, Saving
<1>11. DaysInv'
  <2>1. \A b : Begun(b)' => Begun(b)
    BY <1>1 DEF Begun, Saving
  <2> QED
    BY <1>1, <2>1 DEF DailyInv, DaysInv, Saving
<1>12. OpenInv' \/ pc' \in {"groups", "plan", "protect", "save"}
  BY <1>1, Zenon DEF DailyInv, OpenInv
<1>13. planFile' = stateFile'.batch /\ protect' = stateFile'.batch
  BY <1>1, Zenon DEF DailyInv, FilesInv, Saving
<1> QED
  BY <1>6, <1>7, <1>8, <1>9, <1>10, <1>11, <1>12, <1>13, Zenon

\* A group known to be stopped is passed over; otherwise the request goes out
\* for the entry the saved state stands at.
LEMMA NextEntryKept ==
  ASSUME DailyInv, TableSame, NextEntry
  PROVE  DailyInv'
<1>1. /\ state = stateFile /\ state.phase = "submitting" /\ state \in StateRecord
      /\ pc = "loop"
      /\ state.next \in Entries(state.batch)
      /\ UNCHANGED <<planFile, protect, day, batches, answer>>
      /\ state' = stateFile'
  BY Zenon DEF DailyInv, ClockType, FilesInv, NextEntry, Save
<1>2. \A g \in state.stoppedGroups : <<state.batch, g>> \in stopped
  BY <1>1 DEF DailyInv, FilesInv, WellFormed, NoState
<1>3. \A r \in inflight : ~ r.waits
  BY <1>1, Zenon DEF DailyInv, AwaitedInv
<1>4. CASE entryGroup \in state.stoppedGroups
  <2>1. /\ stateFile' = [state EXCEPT !.next = @ + 1] /\ pc' = "loop"
        /\ inflight' = inflight
    BY <1>4, Zenon DEF NextEntry, Save
  <2>2. /\ stateFile' \in StateRecord
        /\ stateFile'.batch = state.batch /\ stateFile'.day = state.day
        /\ stateFile'.phase = "submitting" /\ stateFile'.next = state.next + 1
        /\ stateFile'.stoppedGroups = state.stoppedGroups
    BY <1>1, <2>1 DEF StateRecord
  <2>3. Settled(state.batch, state.next)
    BY <1>2, <1>4, Zenon DEF Settled, entryGroup
  <2>4. Saving
    BY <1>1, <1>2, <2>1, <2>2, <2>3, Zenon DEF Saving
  <2>5. ClockType'
    BY <1>1, <2>1, <2>2, Zenon DEF DailyInv, ClockType, Places
  <2>6. FilesInv'
    <3>1. WellFormed(stateFile)' /\ WellFormed(state)'
      BY <1>1, <2>4, SavingKeeps, Zenon DEF WellFormed
    <3> QED
      BY <1>1, <2>1, <2>2, <2>4, <3>1, SavingKeeps DEF FilesInv
  <2>7. AwaitedInv'
    BY <1>3, <2>1 DEF AwaitedInv
  <2> QED
    BY <2>1, <2>4, <2>5, <2>6, <2>7, SavingKeeps DEF DailyInv
<1>5. CASE entryGroup \notin state.stoppedGroups
  <2> DEFINE q == [batch |-> state.batch, entry |-> state.next, waits |-> TRUE]
  <2>1. /\ stateFile' = attempted(state) /\ pc' = "wait"
        /\ inflight' = inflight \cup {q}
    BY <1>5, Zenon DEF NextEntry, Save
  <2>2. /\ stateFile' \in StateRecord
        /\ stateFile'.batch = state.batch /\ stateFile'.day = state.day
        /\ stateFile'.phase = "submitting" /\ stateFile'.next = state.next
        /\ stateFile'.stoppedGroups = state.stoppedGroups
    BY <1>1, <2>1, Zenon DEF StateRecord, attempted
  <2>3. /\ q \in Request
        /\ q.batch = state.batch /\ q.entry = state.next /\ q.waits = TRUE
    BY <1>1 DEF StateRecord, Request
  <2> HIDE DEF q
  <2>4. Saving
    BY <1>1, <1>2, <2>1, <2>2, <2>3, Zenon DEF Saving
  <2>5. ClockType'
    BY <1>1, <2>1, <2>2, <2>4, SavingKeeps, Zenon DEF DailyInv, ClockType, Places
  <2>6. FilesInv'
    <3>1. WellFormed(stateFile)' /\ WellFormed(state)'
      BY <1>1, <2>4, SavingKeeps, Zenon DEF WellFormed
    <3> QED
      BY <1>1, <2>1, <2>2, <2>4, <3>1, SavingKeeps DEF FilesInv
  <2>7. AwaitedInv'
    BY <1>1, <1>3, <2>1, <2>2, <2>3 DEF AwaitedInv, Entries, PlanOf
  <2> QED
    BY <2>1, <2>4, <2>5, <2>6, <2>7, SavingKeeps DEF DailyInv
<1> QED
  BY <1>4, <1>5

\* Behind the last entry all are settled, and so are the requests under way.
LEMMA CompleteKept ==
  ASSUME DailyInv, TableSame, Complete
  PROVE  DailyInv'
<1>1. /\ state = stateFile /\ state.phase = "submitting" /\ state \in StateRecord
      /\ pc = "loop" /\ pc' = "off" /\ state' = NoState /\ answer' = "none"
      /\ state.next \notin Entries(state.batch)
      /\ UNCHANGED <<planFile, protect, day, batches, inflight>>
      /\ stateFile' = [state EXCEPT !.phase = "complete"]
  BY Zenon DEF DailyInv, ClockType, FilesInv, Complete, Exit
<1>2. \A g \in state.stoppedGroups : <<state.batch, g>> \in stopped
  BY <1>1 DEF DailyInv, FilesInv, WellFormed, NoState
<1>3. \A r \in inflight : ~ r.waits
  BY <1>1, Zenon DEF DailyInv, AwaitedInv
<1>4. /\ stateFile' \in StateRecord
      /\ stateFile'.batch = state.batch /\ stateFile'.day = state.day
      /\ stateFile'.phase = "complete" /\ stateFile'.next = state.next
      /\ stateFile'.stoppedGroups = state.stoppedGroups
  BY <1>1 DEF StateRecord
<1>5. Saving
  BY <1>1, <1>2, <1>4 DEF Saving
<1>6. ClockType'
  <2>1. NoState \in StateRecord
    BY DEF NoState, StateRecord
  <2> QED
    BY <1>1, <1>4, <2>1, Zenon DEF DailyInv, ClockType, Places
<1>7. FilesInv'
  <2>1. WellFormed(state)'
    BY <1>1, Zenon DEF WellFormed
  <2> QED
    BY <1>1, <1>4, <1>5, <2>1, SavingKeeps DEF FilesInv
<1>8. AwaitedInv'
  BY <1>1, <1>3 DEF AwaitedInv
<1> QED
  BY <1>1, <1>5, <1>6, <1>7, <1>8, SavingKeeps DEF DailyInv

\* The state behind an entry.
LEMMA PassedState ==
  ASSUME NEW s \in StateRecord
  PROVE  /\ passed(s) \in StateRecord
         /\ passed(s).batch = s.batch /\ passed(s).day = s.day /\ passed(s).phase = s.phase
         /\ passed(s).next = s.next + 1 /\ passed(s).stoppedGroups = s.stoppedGroups
<1> DEFINE t == [s EXCEPT !.next = @ + 1]
<1>1. /\ t \in StateRecord
      /\ t.batch = s.batch /\ t.day = s.day /\ t.phase = s.phase
      /\ t.next = s.next + 1 /\ t.stoppedGroups = s.stoppedGroups
  BY DEF StateRecord
<1>2. passed(s) = [t EXCEPT !.uncertain = FALSE]
  BY Zenon DEF passed
<1> HIDE DEF t
<1>3. [t EXCEPT !.uncertain = FALSE] \in StateRecord
  BY <1>1, Zenon DEF StateRecord
<1> QED
  BY <1>1, <1>2, <1>3 DEF StateRecord

\* The same with one more group stopped.
LEMMA StoppedState ==
  ASSUME NEW s \in StateRecord, NEW g \in Nat, NEW t,
         t = [s EXCEPT !.stoppedGroups = @ \cup {g}]
  PROVE  /\ t \in StateRecord
         /\ t.batch = s.batch /\ t.day = s.day /\ t.phase = s.phase
         /\ t.next = s.next /\ t.stoppedGroups = s.stoppedGroups \cup {g}
BY DEF StateRecord

\* An answer settles the entry: its task exists, or its group is stopped.
LEMMA ReplyKept ==
  ASSUME DailyInv, TableSame, Reply
  PROVE  DailyInv'
<1>1. /\ state = stateFile /\ state.phase = "submitting" /\ state \in StateRecord
      /\ pc = "reply" /\ pc' = "loop" /\ answer' = "none"
      /\ UNCHANGED <<planFile, protect, day, batches, inflight>>
      /\ stateFile' = IF answer = "stopped"
                      THEN [passed(state) EXCEPT !.stoppedGroups = @ \cup {entryGroup}]
                      ELSE passed(state)
      /\ state' = stateFile'
      /\ Settled(state.batch, state.next)
      /\ answer = "stopped" => <<state.batch, entryGroup>> \in stopped
      /\ state.next \in Entries(state.batch)
  BY Zenon DEF DailyInv, ClockType, FilesInv, AwaitedInv, Reply, Save
<1>2. /\ \A g \in state.stoppedGroups : <<state.batch, g>> \in stopped
      /\ state.batch \in DOMAIN batches
  BY <1>1 DEF DailyInv, FilesInv, WellFormed, NoState
<1>3. \A r \in inflight : ~ r.waits
  BY <1>1, Zenon DEF DailyInv, AwaitedInv
<1>4. entryGroup \in Nat
  BY <1>1, <1>2, PlanShape DEF DailyInv, entryGroup
<1>5. /\ stateFile' \in StateRecord
      /\ stateFile'.batch = state.batch /\ stateFile'.day = state.day
      /\ stateFile'.phase = "submitting" /\ stateFile'.next = state.next + 1
      /\ \A g \in stateFile'.stoppedGroups :
           g \in state.stoppedGroups \/ (g = entryGroup /\ answer = "stopped")
  <2>1. /\ passed(state) \in StateRecord
        /\ passed(state).batch = state.batch /\ passed(state).day = state.day
        /\ passed(state).phase = "submitting" /\ passed(state).next = state.next + 1
        /\ passed(state).stoppedGroups = state.stoppedGroups
    BY <1>1, PassedState, Zenon
  <2>2. CASE answer = "stopped"
    <3>1. stateFile' = [passed(state) EXCEPT !.stoppedGroups = @ \cup {entryGroup}]
      BY <1>1, <2>2, Zenon
    <3>2. /\ stateFile' \in StateRecord
          /\ stateFile'.batch = passed(state).batch /\ stateFile'.day = passed(state).day
          /\ stateFile'.phase = passed(state).phase /\ stateFile'.next = passed(state).next
          /\ stateFile'.stoppedGroups = passed(state).stoppedGroups \cup {entryGroup}
      BY <1>4, <2>1, <3>1, StoppedState
    <3> QED
      BY <2>1, <2>2, <3>2, Zenon
  <2>3. CASE answer # "stopped"
    <3>1. stateFile' = passed(state)
      BY <1>1, <2>3, Zenon
    <3>2. /\ stateFile' \in StateRecord
          /\ stateFile'.batch = state.batch /\ stateFile'.day = state.day
          /\ stateFile'.phase = "submitting" /\ stateFile'.next = state.next + 1
          /\ stateFile'.stoppedGroups = state.stoppedGroups
      BY ONLY <2>1, <3>1
    <3> QED
      BY <3>2, Zenon
  <2> QED
    BY <2>2, <2>3
<1>6. Saving
  BY <1>1, <1>2, <1>4, <1>5, Zenon DEF Saving
<1>7. ClockType'
  BY <1>1, <1>5, Zenon DEF DailyInv, ClockType, Places
<1>8. FilesInv'
  <2>1. WellFormed(stateFile)' /\ WellFormed(state)'
    BY <1>1, <1>6, SavingKeeps, Zenon DEF WellFormed
  <2> QED
    BY <1>1, <1>5, <1>6, <2>1, SavingKeeps DEF FilesInv
<1>9. AwaitedInv'
  BY <1>1, <1>3 DEF AwaitedInv
<1> QED
  BY <1>1, <1>6, <1>7, <1>8, <1>9, SavingKeeps DEF DailyInv

-----------------------------------------------------------------------------
(* A request reaches the Server.                                           *)

\* The row of an accepted request.
newRow(r) == [key |-> keyOf(r), group |-> groupOf(r), status |-> "QUEUED"]

\* A request for a settled entry changes nothing; another becomes a row.
LEMMA DeliverCases ==
  ASSUME DailyInv, NEW r \in inflight, Deliver(r)
  PROVE  /\ stopped' = stopped
         /\ UNCHANGED <<stateFile, planFile, protect, state, group, day, batches>>
         /\ inflight' = inflight \ {r}
         /\ \/ r.waits /\ pc' = "reply" /\ answer' = submitReply(keyOf(r), groupOf(r))
            \/ ~ r.waits /\ UNCHANGED <<pc, answer>>
         /\ \/ Settled(r.batch, r.entry) /\ tasks' = tasks
            \/ /\ ~ Settled(r.batch, r.entry)
               /\ tasks' = Append(tasks, newRow(r))
<1>1. Settled(r.batch, r.entry) <=> findSubmission(keyOf(r)) # {} \/ groupOf(r) \in stopped
  BY Zenon DEF Settled, findSubmission, submittedAs, keyOf, groupOf
<1>2. IF findSubmission(keyOf(r)) = {} /\ groupOf(r) \notin stopped
      THEN tasks' = Append(tasks, newRow(r))
      ELSE tasks' = tasks
  BY Zenon DEF Deliver, submitTask, Rewrite, newRow
<1>3. stopped' = stopped
  BY Zenon DEF Deliver, submitTask
<1>4. \/ Settled(r.batch, r.entry) /\ tasks' = tasks
      \/ ~ Settled(r.batch, r.entry) /\ tasks' = Append(tasks, newRow(r))
  BY <1>1, <1>2, Zenon
<1>5. /\ UNCHANGED <<stateFile, planFile, protect, state, group, day, batches>>
      /\ inflight' = inflight \ {r}
      /\ \/ r.waits /\ pc' = "reply" /\ answer' = submitReply(keyOf(r), groupOf(r))
         \/ ~ r.waits /\ UNCHANGED <<pc, answer>>
  BY Zenon DEF Deliver
<1> QED
  BY <1>3, <1>4, <1>5, Zenon

\* The submitter's side of a delivery, once the request's entry is settled.
LEMMA DeliverAnswers ==
  ASSUME DailyInv, NEW r \in inflight, Deliver(r),
         TaskIds \subseteq TaskIds', \A i \in TaskIds : tasks'[i].key = tasks[i].key,
         Settled(r.batch, r.entry)'
  PROVE  /\ ClockType' /\ FilesInv' /\ RequestInv' /\ AwaitedInv' /\ ProgressInv'
         /\ \A b, e : Settled(b, e) => Settled(b, e)'
<1>1. /\ stopped' = stopped
      /\ UNCHANGED <<stateFile, planFile, protect, state, group, day, batches>>
      /\ inflight' = inflight \ {r}
      /\ \/ r.waits /\ pc' = "reply" /\ answer' = submitReply(keyOf(r), groupOf(r))
         \/ ~ r.waits /\ UNCHANGED <<pc, answer>>
  BY DeliverCases, Zenon
<1>2. \A b : PlanOf(b)' = PlanOf(b) /\ Entries(b)' = Entries(b)
  BY <1>1, Zenon DEF PlanOf, Entries
<1>3. \A b, e : Settled(b, e) => Settled(b, e)'
  BY <1>1, SettledStays, Zenon
<1>4. r.waits => pc = "wait" /\ r.batch = state.batch /\ r.entry = state.next
  BY Zenon DEF DailyInv, AwaitedInv
<1>5. ClockType'
  <2>1. submitReply(keyOf(r), groupOf(r)) \in {"none", "ok", "stopped"}
    BY Zenon DEF submitReply
  <2> QED
    BY <1>1, <2>1, Zenon DEF DailyInv, ClockType, Places
<1>6. FilesInv'
  <2>1. WellFormed(stateFile)' /\ WellFormed(state)'
    BY <1>1, <1>2, Zenon DEF DailyInv, FilesInv, WellFormed
  <2> QED
    BY <1>1, <1>4, <2>1, Zenon DEF DailyInv, FilesInv, Fresh
<1>7. RequestInv'
  BY <1>1, <1>3, Zenon DEF DailyInv, RequestInv
<1>8. AwaitedInv'
  <2>1. CASE r.waits
    <3>1. answer' = "stopped" => groupOf(r) \in stopped
      BY <1>1, <2>1, Zenon DEF submitReply
    <3>2. \A q \in inflight' : ~ q.waits
      <4>1. ASSUME NEW q \in inflight, q.waits PROVE q = r
        <5>1. q.batch = r.batch /\ q.entry = r.entry
          BY <1>4, <2>1, <4>1, Zenon DEF DailyInv, AwaitedInv
        <5>2. q \in Request /\ r \in Request
          BY Zenon DEF DailyInv, ClockType
        <5> QED
          BY <2>1, <4>1, <5>1, <5>2 DEF Request
      <4> QED
        BY <1>1, <4>1, Zenon
    <3>3. state.next \in Entries(state.batch)
      BY <1>4, <2>1, Zenon DEF DailyInv, AwaitedInv
    <3>4. Settled(state.batch, state.next)'
      BY <1>1, <1>4, <2>1, Zenon DEF Settled, PlanOf
    <3> QED
      BY <1>1, <1>2, <1>4, <2>1, <3>1, <3>2, <3>3, <3>4, Zenon
         DEF AwaitedInv, groupOf, entryGroup
  <2>2. CASE ~ r.waits
    <3>1. Settled(state.batch, state.next) => Settled(state.batch, state.next)'
      BY <1>1, <1>3, Zenon DEF Settled, PlanOf
    <3> QED
      BY <1>1, <1>2, <2>2, <3>1, Zenon DEF DailyInv, AwaitedInv, entryGroup
  <2> QED
    BY <2>1, <2>2
<1>9. ProgressInv'
  BY <1>1, <1>2, <1>3, Zenon DEF DailyInv, ProgressInv
<1> QED
  BY <1>3, <1>5, <1>6, <1>7, <1>8, <1>9, Zenon

\* A delivered request creates the task of an entry whose key is unknown, hence
\* of the protected batch, or none.
LEMMA DeliverKept ==
  ASSUME DailyInv, NEW r \in inflight, Deliver(r)
  PROVE  DailyInv'
<1>1. /\ stopped' = stopped
      /\ UNCHANGED <<stateFile, planFile, protect, state, group, day, batches>>
      /\ inflight' = inflight \ {r}
      /\ ~ r.waits => pc' = pc
      /\ r.waits => pc' = "reply"
      /\ \/ Settled(r.batch, r.entry) /\ tasks' = tasks
         \/ ~ Settled(r.batch, r.entry) /\ tasks' = Append(tasks, newRow(r))
  BY DeliverCases, Zenon
<1>2. \A b : PlanOf(b)' = PlanOf(b) /\ Entries(b)' = Entries(b)
  BY <1>1, Zenon DEF PlanOf, Entries
<1>3. CASE tasks' = tasks
  <2>1. TaskIds' = TaskIds
    BY <1>3 DEF TaskIds
  <2>2. Settled(r.batch, r.entry)
    <3>1. Append(tasks, newRow(r)) # tasks
      BY DEF DailyInv, TableType
    <3> QED
      BY <1>1, <1>3, <3>1, Zenon
  <2>3. Settled(r.batch, r.entry)'
    BY <1>1, <1>3, <2>1, <2>2, SettledStays, Zenon
  <2>4. TableType' /\ Planned' /\ KeysUnique'
    BY <1>1, <1>2, <1>3, <2>1, Zenon DEF DailyInv, TableType, Planned, KeysUnique
  <2>5. DaysInv'
    <3>1. \A b : Begun(b)' => Begun(b)
      BY <1>1, <1>3, <2>1, Zenon DEF Begun
    <3> QED
      BY <1>1, <3>1 DEF DailyInv, DaysInv
  <2>6. OpenInv'
    BY <1>1, <1>3, <2>1 DEF DailyInv, OpenInv
  <2> QED
    BY <1>3, <2>1, <2>3, <2>4, <2>5, <2>6, DeliverAnswers, Zenon DEF DailyInv
<1>4. CASE ~ Settled(r.batch, r.entry) /\ tasks' = Append(tasks, newRow(r))
  <2>1. /\ r \in Request /\ r.batch \in DOMAIN batches /\ r.entry \in Entries(r.batch)
    BY Zenon DEF DailyInv, ClockType, Planned
  <2>2. /\ stateFile.phase = "submitting" /\ r.batch = stateFile.batch
        /\ protect = r.batch
    BY <1>4, Zenon DEF DailyInv, RequestInv, FilesInv
  <2>3. /\ newRow(r) \in TaskRow
        /\ newRow(r).key = <<r.batch, r.entry>>
        /\ newRow(r).group[1] = r.batch
        /\ newRow(r).key[1] = r.batch
    <3>1. PlanOf(r.batch)[r.entry] \in Nat
      BY <2>1, PlanShape DEF DailyInv
    <3> QED
      BY <2>1, <3>1 DEF newRow, keyOf, groupOf, TaskRow, Request, Statuses
  <2> DEFINE n == Len(tasks) + 1
  <2>4. /\ tasks' \in Seq(TaskRow)
        /\ TaskIds' = TaskIds \cup {n} /\ n \notin TaskIds
        /\ \A i \in TaskIds : tasks'[i] = tasks[i]
        /\ tasks'[n] = newRow(r)
    BY <1>4, <2>3 DEF DailyInv, TableType, TaskIds
  <2> HIDE DEF n
  <2>5. Settled(r.batch, r.entry)'
    BY <2>3, <2>4, Zenon DEF Settled
  <2>6. TableType' /\ Planned'
    BY <1>1, <1>2, <2>1, <2>3, <2>4, Zenon DEF DailyInv, TableType, Planned
  <2>7. KeysUnique'
    <3>1. \A i \in TaskIds : tasks[i].key # newRow(r).key
      BY <1>4, <2>3, Zenon DEF Settled
    <3> QED
      BY <2>4, <3>1 DEF DailyInv, KeysUnique
  <2>8. DaysInv'
    <3>1. \A b : Begun(b)' => Begun(b)
      <4>1. ASSUME NEW b, \E i \in TaskIds' : tasks'[i].group[1] = b PROVE Begun(b)
        BY <2>3, <2>4, <4>1, Zenon DEF Begun
      <4> QED
        BY <1>1, <4>1, Zenon DEF Begun
    <3> QED
      BY <1>1, <3>1 DEF DailyInv, DaysInv
  <2>9. OpenInv'
    <3>1. \A i \in TaskIds' : tasks'[i].status \in Unfinished => tasks'[i].group[1] = protect'
      BY <1>1, <2>2, <2>3, <2>4, Zenon DEF DailyInv, OpenInv
    <3> QED
      BY <1>1, <2>2, <3>1, Zenon DEF OpenInv
  <2>10. \A i \in TaskIds : i \in TaskIds' /\ tasks'[i].key = tasks[i].key
    BY <2>4, Zenon
  <2> QED
    BY <2>5, <2>6, <2>7, <2>8, <2>9, <2>10, DeliverAnswers, Zenon DEF DailyInv
<1> QED
  BY <1>1, <1>3, <1>4, Zenon

-----------------------------------------------------------------------------
(* The theorems.                                                           *)

\* Before the first process there are no files, tasks or requests.
LEMMA DailyInitially == Init => DailyInv
<1> SUFFICES ASSUME Init PROVE DailyInv
  OBVIOUS
<1> USE DEF Init, TableInit, ClockInit
<1>1. TaskIds = {} /\ TableType /\ inflight = {} /\ DOMAIN batches = {}
  BY DEF TaskIds, TableType
<1>2. NoState \in StateRecord /\ NoState.phase = "none"
  BY DEF NoState, StateRecord
<1>3. ClockType
  BY <1>1, <1>2, DayOne DEF ClockType, Places
<1>4. Planned /\ KeysUnique /\ RequestInv /\ AwaitedInv
  BY <1>1 DEF Planned, KeysUnique, RequestInv, AwaitedInv
<1>5. FilesInv /\ ProgressInv
  BY <1>2 DEF FilesInv, WellFormed, ProgressInv
<1>6. DaysInv /\ OpenInv
  BY <1>1, <1>2 DEF DaysInv, OpenInv
<1> QED
  BY <1>1, <1>3, <1>4, <1>5, <1>6 DEF DailyInv

\* The submitter, its requests and the Server's table keep the invariant.
LEMMA DailyKept == DailyInv /\ [Next]_vars => DailyInv'
<1> SUFFICES ASSUME DailyInv, [Next]_vars PROVE DailyInv'
  OBVIOUS
<1>1. ServerStep \/ SubmitterStep \/ \E r \in inflight : Deliver(r)
  BY StepKinds, Zenon DEF DailyInv
<1>2. CASE ServerStep
  BY <1>2, ServerStepKept, Zenon
<1>3. CASE SubmitterStep
  BY <1>3, InvokeKept, StatusKept, PreviousGroupKept, PlanKept, ProtectKept, FirstSaveKept,
     NextEntryKept, CompleteKept, ReplyKept, FailKept, ServerGoneKept, NewDayKept, Zenon
     DEF SubmitterStep, ClockStep
<1>4. CASE \E r \in inflight : Deliver(r)
  BY <1>4, DeliverKept, Zenon
<1> QED
  BY <1>1, <1>2, <1>3, <1>4

\* The files of the submitter, the requests under way and the tasks of the
\* Server agree after every step of process, Server and clock: clock.py
\* writes its files in an order that no death of the process can spoil.
THEOREM DailyInvariant == Spec => []DailyInv
BY DailyInitially, DailyKept, PTL DEF Spec

\* The invariant says enough about what was submitted.
LEMMA InvariantSubmits == DailyInv => SubmittedExactly
<1> SUFFICES ASSUME DailyInv PROVE SubmittedExactly
  OBVIOUS
<1>1. \A i, j \in TaskIds : tasks[i].key = tasks[j].key => i = j
  BY Zenon DEF DailyInv, KeysUnique
<1>2. \A i, j \in TaskIds :
        tasks[i].group[1] # tasks[j].group[1] =>
          batches[tasks[i].group[1]] # batches[tasks[j].group[1]]
  BY Zenon DEF DailyInv, Planned, DaysInv, Begun
<1>3. ASSUME stateFile.phase = "complete", NEW e \in Entries(stateFile.batch)
      PROVE  Settled(stateFile.batch, e)
  <2>1. /\ stateFile.batch \in DOMAIN batches
        /\ stateFile.next \in 1..(Len(PlanOf(stateFile.batch)) + 1)
    BY <1>3 DEF DailyInv, FilesInv, WellFormed, NoState
  <2>2. stateFile.next \notin Entries(stateFile.batch)
    BY <1>3 DEF DailyInv, ProgressInv
  <2>3. e < stateFile.next
    BY <1>3, <2>1, <2>2, PlanShape DEF DailyInv
  <2> QED
    BY <1>3, <2>3 DEF DailyInv, ProgressInv
<1> QED
  BY <1>1, <1>2, <1>3, Zenon DEF SubmittedExactly, Settled

\* Each entry of a plan has at most one task, batches with tasks are of
\* different days, and a batch that clock.py's state file calls complete has a
\* task for every entry whose group was not stopped.
THEOREM SubmissionIsExact == Spec => []SubmittedExactly
BY DailyInvariant, InvariantSubmits, PTL

\* OpenInv and FilesInv say what is to be protected.
LEMMA InvariantProtects == DailyInv => OpenWorkProtected
BY Zenon DEF DailyInv, FilesInv, OpenInv, OpenWorkProtected

\* The revision of unfinished daily work is the one protect_versions_file names,
\* and the plan of a batch being submitted is on disk.
THEOREM OpenWorkIsProtected == Spec => []OpenWorkProtected
BY DailyInvariant, InvariantProtects, PTL
=============================================================================
