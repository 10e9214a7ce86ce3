------------------------------ MODULE TaskTable ------------------------------
(***************************************************************************)
(* The Server as its clients see it: the durable task rows, the submission *)
(* keys that make a submission repeatable, the stopped batches, and the    *)
(* bounded list of immutable snapshots behind the paged task lists.        *)
(*                                                                         *)
(* A task's row keeps its submission key, its batch and a status; the      *)
(* statuses are those the clients tell apart: QUEUED (also PENDING), which *)
(* a cancellation may end, ACTIVE (ASSIGNED or RUNNING), which it may not, *)
(* FINAL (SUCCEEDED, FAILED, TIMEOUT) and CANCELLED.  How a row moves      *)
(* between them is the subject of module Scheduler.  The database is       *)
(* configured, so rows, keys and stopped batches survive a restart.        *)
(***************************************************************************)
EXTENDS Integers, Sequences, FiniteSets, SequencesExt, FiniteSetsExt

CONSTANTS SnapshotLimit,  \* snapshots kept at once (8 in the code)
          PageSize,       \* rows of a page (50 in the GUI)
          Capacity        \* tasks the workers execute at once

ASSUME TableAssumption ==
    /\ SnapshotLimit \in Nat \ {0}
    /\ PageSize \in Nat \ {0}
    /\ Capacity \in Nat \ {0}

VARIABLES tasks,     \* StateStore's rows, in the order of their task ids
          stopped,   \* stopped_batches_
          snaps,     \* TaskListQuery::snapshots_, the oldest first
          next,      \* TaskListQuery::next_
          instance,  \* serverInstanceId(): a new one at every start
          token,     \* the snapshot a client is reading page by page, 0 if none
          listing    \* the task id before which a client without a token goes
                     \* on reading the task view, 0 if none

tableVars == <<tasks, stopped, snaps, next, instance>>

Statuses == {"QUEUED", "ACTIVE", "FINAL", "CANCELLED"}
Unfinished == {"QUEUED", "ACTIVE"}
Views == {"tasks", "groups"}

TableInit ==
    /\ tasks = <<>>
    /\ stopped = {}
    /\ snaps = <<>>
    /\ next = 0
    /\ instance = 0
    /\ token = 0
    /\ listing = 0

TaskIds == 1..Len(tasks)
MembersOf(g) == {i \in TaskIds : tasks[i].group = g}

-----------------------------------------------------------------------------
(***************************************************************************)
(* The scheduler's generation only ever tells whether anything has changed *)
(* since a snapshot was captured, so the snapshot keeps that answer.  The  *)
(* rows of an earlier generation can be asked for with the snapshot's      *)
(* token, which the console does, and by task id alone, which the command  *)
(* line client does for the task view.  A snapshot that none of them will  *)
(* ask for keeps its place in the list; its rows are dropped.              *)
(***************************************************************************)
bumped ==
    [i \in DOMAIN snaps |->
       [snaps[i] EXCEPT !.fresh = FALSE,
                        !.rows = IF \/ snaps[i].id = token
                                    \/ snaps[i].view = "tasks" /\ listing # 0
                                 THEN @ ELSE <<>>]]

Rewrite(rows) == tasks' = rows /\ snaps' = bumped

(***************************************************************************)
(* Scheduler::submitTask behind SUBMIT_TASK.  A key that was accepted      *)
(* before gets the same task, even when its batch is stopped by now; a new *)
(* key of a stopped batch is refused; any other becomes a queued row.      *)
(***************************************************************************)
submittedAs(key) == {i \in TaskIds : tasks[i].key = key}

\* Mutant: the submission key is saved but never looked up.
submittedUnknown(key) == {}

findSubmission(key) == submittedAs(key)

submitReply(key, group) ==
    IF findSubmission(key) = {} /\ group \in stopped THEN "stopped" ELSE "ok"

submitTask(key, group) ==
    /\ IF findSubmission(key) = {} /\ group \notin stopped
       THEN Rewrite(Append(tasks, [key |-> key, group |-> group, status |-> "QUEUED"]))
       ELSE UNCHANGED <<tasks, snaps>>
    /\ UNCHANGED <<stopped, next, instance>>

\* The answers QUERY_STATUS and QUERY_BATCH give the daily submitter.
unfinishedCount == Cardinality({i \in TaskIds : tasks[i].status \in Unfinished})

batchFound(g) == MembersOf(g) # {}

batchComplete(g) == \A i \in MembersOf(g) : tasks[i].status \notin Unfinished

(***************************************************************************)
(* Scheduler::cancelBatch: a batch that has rows is stopped for good and   *)
(* its queued rows are cancelled; the generation moves only if one was.    *)
(***************************************************************************)
cancelBatch(g) ==
    LET now == {i \in MembersOf(g) : tasks[i].status = "QUEUED"}
    IN  /\ batchFound(g)
        /\ stopped' = stopped \cup {g}
        /\ IF now = {} THEN UNCHANGED <<tasks, snaps>>
           ELSE Rewrite([i \in TaskIds |-> IF i \in now
                                           THEN [tasks[i] EXCEPT !.status = "CANCELLED"]
                                           ELSE tasks[i]])
        /\ UNCHANGED <<next, instance>>

SetStatus(i, s) ==
    /\ Rewrite([tasks EXCEPT ![i].status = s])
    /\ UNCHANGED <<stopped, next, instance>>

(***************************************************************************)
(* A row moves on: a queued one is assigned to a free slot, it gets its    *)
(* result, or the assignment is taken back, which cancels it if its batch  *)
(* has been stopped.                                                       *)
(***************************************************************************)
InStatus(s) == {i \in TaskIds : tasks[i].status = s}

Assign ==
    /\ Cardinality(InStatus("ACTIVE")) < Capacity
    /\ \E i \in InStatus("QUEUED") : SetStatus(i, "ACTIVE")

Finish == \E i \in InStatus("ACTIVE") : SetStatus(i, "FINAL")

TakeBack ==
    \E i \in InStatus("ACTIVE") :
        SetStatus(i, IF tasks[i].group \in stopped THEN "CANCELLED" ELSE "QUEUED")

-----------------------------------------------------------------------------
(***************************************************************************)
(* TaskListQuery.  A view is the filter of the query: a row per task, or   *)
(* one per batch that stands at its newest task; a row tells how many of   *)
(* its tasks are in each status.  The rows of a snapshot are sorted by     *)
(* task id, the newest first.                                              *)
(***************************************************************************)
representative(g) == Max(MembersOf(g))

newestFirst == Reverse([i \in TaskIds |-> i])

row(i, view) ==
    LET covers == IF view = "tasks" THEN {i} ELSE MembersOf(tasks[i].group)
    IN  [id |-> i,
         shows |-> [s \in Statuses |-> Cardinality({j \in covers : tasks[j].status = s})]]

captured(view) ==
    LET ids == SelectSeq(newestFirst, LAMBDA i :
                 view = "tasks" \/ i = representative(tasks[i].group))
    IN  [k \in DOMAIN ids |-> row(ids[k], view)]

\* The rows after the row `before` (0: from the first), and a page of them.
after(rows, before) == SelectSeq(rows, LAMBDA r : before = 0 \/ r.id < before)

page(rows, before) ==
    LET rest == after(rows, before)
    IN  [items |-> SubSeq(rest, 1, Min({Len(rest), PageSize})),
         more |-> Len(rest) > PageSize]

reusable(view) == {i \in DOMAIN snaps : snaps[i].fresh /\ snaps[i].view = view}

\* A first page without a token: a snapshot of this generation and view is
\* used again, otherwise a new one is captured and the oldest make room.
firstSnapshot(view) ==
    IF reusable(view) # {} THEN snaps[Min(reusable(view))]
    ELSE [id |-> next + 1, view |-> view, rows |-> captured(view), fresh |-> TRUE]

kept == IF Len(snaps) < SnapshotLimit THEN snaps
        ELSE SubSeq(snaps, Len(snaps) - SnapshotLimit + 2, Len(snaps))

QueryFirst(view) ==
    /\ IF reusable(view) # {} THEN UNCHANGED <<snaps, next>>
       ELSE /\ snaps' = Append(kept, firstSnapshot(view))
            /\ next' = next + 1
    /\ UNCHANGED <<tasks, stopped, instance>>

ofView(view) == {i \in DOMAIN snaps : snaps[i].view = view}

\* Mutant: a continuation without a token searches from the oldest snapshot.
snapshotOldest(id, view) ==
    {snaps[i] : i \in {j \in ofView(view) : IF id = 0 THEN j = Min(ofView(view))
                                                     ELSE snaps[j].id = id}}

\* The snapshot that a later page is read from: the one its token names, and
\* without a token (0) the newest of the view; none if it expired or made room.
snapshotOf(id, view) ==
    {snaps[i] : i \in {j \in ofView(view) : IF id = 0 THEN j = Max(ofView(view))
                                                     ELSE snaps[j].id = id}}

\* The oldest snapshot is two minutes old: the next query drops it.
Expire ==
    /\ snaps # <<>>
    /\ snaps' = Tail(snaps)
    /\ UNCHANGED <<tasks, stopped, next, instance>>

\* The Server is started again on its database.
RestartServer ==
    /\ snaps' = <<>>
    /\ next' = 0
    /\ instance' = instance + 1
    /\ UNCHANGED <<tasks, stopped>>
=============================================================================
