----------------------------- MODULE LogArchive -----------------------------
(***************************************************************************)
(* The run log archive of the server: RunLogArchive.cpp, the LOG_APPEND    *)
(* case of the router and the log queue of WorkerServer.cpp.               *)
(*                                                                         *)
(* A run has one log of Chunks blocks (the files of a run are uploaded one *)
(* after the other in the same way).  An append is executed by a log       *)
(* thread, possibly after the worker has given up on the answer and has    *)
(* sent the block again: such appends are in "late".                       *)
(***************************************************************************)
EXTENDS SlotServer

CONSTANT Chunks      \* blocks of a complete log

ASSUME ArchiveAssumption == Chunks \in Nat \ {0}

VARIABLES archive,   \* for each run: blocks stored, completion marker
          late,      \* appends whose sender is gone: run and offset
          told       \* next_offset and complete of the reply on its way

logVars == <<archive, late, told>>

NoFile == [size |-> 0, done |-> FALSE]

ArchiveInit ==
  archive = [r \in Run |-> NoFile] /\ late = {} /\ told = NoFile

\* The block is the next one and the log is not complete.
fits(a) == a.offset = archive[a.run].size /\ ~ archive[a.run].done

\* The sender reads at most one block from the offset.
blocks(a) == IF a.offset < Chunks THEN 1 ELSE 0

\* "complete" of the request: the block reaches the end of the file.
isLast(a) == a.offset + blocks(a) = Chunks

\* append: what is stored afterwards.
appended(a) ==
  IF fits(a)
  THEN [size |-> archive[a.run].size + blocks(a), done |-> isLast(a)]
  ELSE archive[a.run]

\* The server dies between the last block and the marker.
appendedOnly(a) == [appended(a) EXCEPT !.done = archive[a.run].done]

append(a) == archive' = [archive EXCEPT ![a.run] = appended(a)]

\* LOG_APPEND: archiveOwner accepts only the logs of a finished run.
appendReply(a) ==
  /\ IF srv[a.run] \in Verdict
     THEN append(a) /\ reply' = "ok"
     ELSE reply' = "rejected" /\ UNCHANGED archive
  /\ told' = archive'[a.run]
  /\ UNCHANGED <<serverVars, late>>

\* The connection breaks before the reply: the block is still in the queue
\* of the log threads, or was written by a server that died right after.
appendCut(a) ==
  /\ srv[a.run] \in Verdict
  /\ \/ late' = late \cup {a} /\ UNCHANGED archive
     \/ /\ archive' = [archive EXCEPT ![a.run] = appendedOnly(a)]
        /\ UNCHANGED late

\* A log thread executes an append whose sender no longer waits.
LateAppend(a) ==
  /\ a \in late
  /\ append(a)
  /\ late' = late \ {a}
  /\ UNCHANGED <<serverVars, linkVars, told>>

\* pruneOlderThan removes the whole directory of the run.
PruneArchive(r) ==
  /\ archive[r] # NoFile
  /\ archive' = [archive EXCEPT ![r] = NoFile]
  /\ UNCHANGED <<serverVars, linkVars, late, told>>

\* A completed log has all its blocks, and no log has more: late and
\* repeated blocks, restarts and pruning never leave a hole or a duplicate
\* behind a completion marker.
ArchiveExact == \A r \in Run : archive[r].done => archive[r].size = Chunks
=============================================================================
