---------------------------- MODULE DailySubmitter ----------------------------
(***************************************************************************)
(* The daily submitter, server/clock.py: a process that cron starts, that  *)
(* plans the day's regression, submits it entry by entry over one          *)
(* connection per request, and keeps on disk how far it has come.          *)
(*                                                                         *)
(* Every file it replaces and every request it sends is a step of its own, *)
(* so that it may die, lose a reply or meet another client's request       *)
(* between any two of them.  A request whose sender has given up may still *)
(* reach the Server later, behind requests sent after it.  What a plan     *)
(* says about an entry is reduced to its group, one per Tasks.yaml entry;  *)
(* a batch, its uuid and the revision it was planned at are one number.    *)
(***************************************************************************)
EXTENDS TaskTable

CONSTANT DayPlan  \* what is planned on each day: the group of every entry, in
                  \* order.  Its length bounds the days that begin.

ASSUME PlanAssumption ==
    /\ DayPlan \in Seq(Seq(Nat \ {0})) \ {<<>>}
    /\ \A d \in DOMAIN DayPlan : DayPlan[d] # <<>> /\ Range(DayPlan[d]) = 1..Max(Range(DayPlan[d]))

VARIABLES stateFile,  \* clock_state_file, or NoState
          planFile,   \* the batch whose plan the .plan.json holds, 0 if none
          protect,    \* protect_versions_file: the protected revision
          pc,         \* where run() is; "off": no process holds the lock
          state,      \* run()'s state (its `previous` until it is chosen)
          group,      \* the group of `previous` that is queried next
          inflight,   \* submit requests that may still reach the Server
          answer,     \* what the Server answered the waiting process
          day,        \* date.today()
          batches     \* history: the day of every batch planned

clockVars == <<stateFile, planFile, protect, pc, state, group, inflight, answer,
               day, batches>>

\* The plan of a batch, its entries (the cases discover_cases finds, one at
\* least for every task of Tasks.yaml) and its groups (those tasks).
PlanOf(b) == DayPlan[batches[b]]
Entries(b) == DOMAIN PlanOf(b)
Groups(b) == Range(PlanOf(b))

NoState == [batch |-> 0, day |-> 0, phase |-> "none", next |-> 1,
            uncertain |-> FALSE, stoppedGroups |-> {}]
ClockInit ==
    /\ stateFile = NoState
    /\ planFile = 0
    /\ protect = 0
    /\ pc = "off"
    /\ state = NoState
    /\ group = 1
    /\ inflight = {}
    /\ answer = "none"
    /\ day = 1
    /\ batches = <<>>

-----------------------------------------------------------------------------
\* run() returns or raises: the lock is free and the memory gone.
Exit ==
    /\ pc' = "off"
    /\ state' = NoState
    /\ group' = 1
    /\ answer' = "none"

\* Mutant: a batch whose last submission is uncertain is not resumed.
resumesCertain == state.phase = "submitting" /\ ~state.uncertain

resumes == state.phase = "submitting"

\* cron calls run(): the lock is taken and the state file read.
Invoke ==
    /\ pc = "off"
    /\ pc' = "status"
    /\ state' = stateFile
    /\ UNCHANGED <<stateFile, planFile, protect, group, inflight, answer, day, batches>>

\* query_status.  Unfinished tasks of anyone postpone a new day, never the
\* rest of a batch that is being submitted; that needs the plan it saved.
Status ==
    /\ pc = "status"
    /\ IF resumes
       THEN IF planFile = state.batch
            THEN pc' = "protect" /\ UNCHANGED <<state, group, answer>>
            ELSE Exit
       ELSE IF unfinishedCount > 0 THEN Exit
       ELSE /\ pc' = IF state = NoState THEN "plan" ELSE "groups"
            /\ UNCHANGED <<state, group, answer>>
    /\ UNCHANGED <<stateFile, planFile, protect, inflight, day, batches>>

\* query_batch for one group of the previous batch; after the last one, a
\* batch of today is not submitted again.
PreviousGroup ==
    /\ pc = "groups"
    /\ LET g == <<state.batch, group>>
       IN  IF ~batchFound(g) \/ ~batchComplete(g) \/ state.uncertain THEN Exit
           ELSE IF group < Cardinality(Groups(state.batch))
           THEN group' = group + 1 /\ UNCHANGED <<pc, state, answer>>
           ELSE IF state.day = day THEN Exit
           ELSE pc' = "plan" /\ UNCHANGED <<state, group, answer>>
    /\ UNCHANGED <<stateFile, planFile, protect, inflight, day, batches>>

\* A new batch with a new uuid: the plan is on disk before the state names it.
Plan ==
    /\ pc = "plan"
    /\ batches' = Append(batches, day)
    /\ planFile' = Len(batches')
    /\ state' = [NoState EXCEPT !.batch = Len(batches'), !.day = day, !.phase = "submitting"]
    /\ pc' = "protect"
    /\ UNCHANGED <<stateFile, protect, group, inflight, answer, day>>

\* Mutant: a revision that is protected stays the protected one.
ProtectOnce ==
    /\ pc = "protect"
    /\ protect' = IF protect = 0 THEN state.batch ELSE protect
    /\ pc' = "save"
    /\ UNCHANGED <<stateFile, planFile, state, group, inflight, answer, day, batches>>

\* protect_versions_file: the build cleanup keeps the revision it names.
Protect ==
    /\ pc = "protect"
    /\ protect' = state.batch
    /\ pc' = "save"
    /\ UNCHANGED <<stateFile, planFile, state, group, inflight, answer, day, batches>>

\* atomic_text(state_path, ...): the file is the old one or the new one.
Save(s, site) ==
    /\ state' = s
    /\ stateFile' = s
    /\ pc' = site
    /\ UNCHANGED <<planFile, protect, group, day, batches>>

FirstSave == pc = "save" /\ Save(state, "loop") /\ UNCHANGED <<inflight, answer>>

entryGroup == PlanOf(state.batch)[state.next]

passed(s) == [s EXCEPT !.next = @ + 1, !.uncertain = FALSE]

attempted(s) == [s EXCEPT !.uncertain = TRUE]

\* The head of the loop: an entry of a group known to be stopped is passed
\* over; any other is marked uncertain on disk and then submitted, on a
\* connection of its own.  A process that dies in between has lost the request.
NextEntry ==
    /\ pc = "loop"
    /\ state.next \in Entries(state.batch)
    /\ IF entryGroup \in state.stoppedGroups
       THEN Save([state EXCEPT !.next = @ + 1], "loop") /\ UNCHANGED inflight
       ELSE /\ Save(attempted(state), "wait")
            /\ inflight' = inflight \cup
                 {[batch |-> state.batch, entry |-> state.next, waits |-> TRUE]}
    /\ UNCHANGED answer

\* The plan is used up.
Complete ==
    /\ pc = "loop"
    /\ state.next \notin Entries(state.batch)
    /\ stateFile' = [state EXCEPT !.phase = "complete"]
    /\ Exit
    /\ UNCHANGED <<planFile, protect, inflight, day, batches>>

keyOf(r) == <<r.batch, r.entry>>
groupOf(r) == <<r.batch, PlanOf(r.batch)[r.entry]>>

\* The Server handles a request, in time or late; the reply to a process
\* that has given up goes nowhere.
Deliver(r) ==
    /\ submitTask(keyOf(r), groupOf(r))
    /\ inflight' = inflight \ {r}
    /\ IF r.waits
       THEN answer' = submitReply(keyOf(r), groupOf(r)) /\ pc' = "reply"
       ELSE UNCHANGED <<answer, pc>>
    /\ UNCHANGED <<stateFile, planFile, protect, state, group, day, batches>>

\* The reply: the entry is behind us, and a stopped batch stops its group.
Reply ==
    /\ pc = "reply"
    /\ Save(IF answer = "stopped"
            THEN [passed(state) EXCEPT !.stoppedGroups = @ \cup {entryGroup}]
            ELSE passed(state), "loop")
    /\ answer' = "none"
    /\ UNCHANGED inflight

abandoned == {[r EXCEPT !.waits = FALSE] : r \in inflight}

\* The process dies, times out, or a file or a reply fails it; its request
\* stays in the network or is lost with the connection.
Fail ==
    /\ pc # "off"
    /\ Exit
    /\ inflight' \in {abandoned, {r \in inflight : ~r.waits}}
    /\ UNCHANGED <<stateFile, planFile, protect, day, batches>>

\* The Server stops: its connections end with it, and the waiting process fails.
ServerGone ==
    /\ inflight' = {}
    /\ IF pc = "wait" THEN Exit ELSE UNCHANGED <<pc, state, group, answer>>
    /\ UNCHANGED <<stateFile, planFile, protect, day, batches>>

NewDay ==
    /\ day < Len(DayPlan)
    /\ day' = day + 1
    /\ UNCHANGED <<stateFile, planFile, protect, pc, state, group, inflight, answer, batches>>

ClockStep ==
    \/ Status
    \/ PreviousGroup
    \/ Plan
    \/ Protect
    \/ FirstSave
    \/ NextEntry
    \/ Complete
    \/ Reply
=============================================================================
