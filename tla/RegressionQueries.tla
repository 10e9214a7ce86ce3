-------------------------- MODULE RegressionQueries --------------------------
(***************************************************************************)
(* Regression queries while the tasks change: RegressionService::query on  *)
(* the Server's worker threads, with the cache of complete responses that  *)
(* is keyed by filter and dropped when the task generation has moved; and  *)
(* the daily comparison of the console and the list of rollbacks of the    *)
(* command line client, which are read page by page.                       *)
(*                                                                         *)
(* A thread holds the scheduler's mutex when it reads the generation, and  *)
(* again when it scans the tasks, and the cache's mutex when it looks up   *)
(* and when it stores: those are the atomic steps, and anything may happen *)
(* between two of them.                                                    *)
(***************************************************************************)
EXTENDS QueryViews

CONSTANTS Thread,        \* the threads that answer queries
          CacheSize,     \* cache.regression.max_entries
          BaseDay, Day,  \* the two days the console compares
          Scenario       \* what may happen, see below

(***************************************************************************)
(* A scenario names the rows the Server is started on, what tasks may be   *)
(* submitted as and end with, and the filters clients ask with; and it     *)
(* bounds the tasks, the queries of the clients, the comparisons of the    *)
(* console, the lists of rollbacks and the starts of the Server.           *)
(***************************************************************************)
ASSUME QueryAssumption ==
    /\ CacheSize \in Nat \ {0}
    /\ \A s \in Scenario :
         {s.tasks, s.queries, s.comparisons, s.lists, s.starts} \subseteq Nat

VARIABLES table,       \* the durable task rows
          generation,  \* Scheduler::task_generation_
          instance,    \* serverInstanceId()
          cache,       \* cache_: responses by filter
          cachedGen,   \* cached_generation_
          pc, filter, seen, response,  \* the query on each thread
          during,      \* history: the answers that were true during that query
          walk,        \* each client's reading: the filter, the ids listed so
                       \* far, the cursor (-1: no page yet, 0: complete), and,
                       \* as history, the ids that matched when it began
          daily,       \* the console's comparison: the page's Server and
                       \* generation, the cursor, whether Next is enabled
          shown,       \* history: the rows of its pages so far
          whole,       \* history: the whole comparison at its first page
          review,      \* a client's list of rollbacks: the target and the two
                       \* revisions, the cases listed, the cursor, and whether
                       \* there are more
          always, ever,  \* history: the cases that were rollbacks all the time,
                       \* and at some time, while the list was read
          asked, compared, reviewed,  \* how many queries, comparisons and lists
                       \* of rollbacks were made
          scenario     \* what may happen in this behaviour

serverVars == <<table, generation, instance>>
cacheVars == <<cache, cachedGen>>
queryVars == <<pc, filter, seen, response, during>>
dailyVars == <<daily, shown, whole>>
reviewVars == <<review, always, ever>>
boundVars == <<asked, compared, reviewed, scenario>>
vars == <<serverVars, cacheVars, queryVars, walk, dailyVars, reviewVars, boundVars>>

NoFilter == [case |-> 0, revision |-> <<>>, stage |-> 0, day |-> 0, before |-> 0]
NoWalk == [filter |-> NoFilter, listed |-> {}, cursor |-> -1, goal |-> {}]
NoPage == [instance |-> 0, generation |-> 0, cursor |-> <<0, 0>>, next |-> FALSE]
NoReview == [target |-> 0, from |-> -1, to |-> -1, listed |-> {}, cursor |-> 0,
             more |-> FALSE]

\* The answer to a filter that is true of these rows, and their generation.
answer(rows, g, f) == [result |-> query(rows, f), generation |-> g]

NoResponse == answer(<<>>, 0, NoFilter)
NoResponses == [f \in {} |-> NoResponse]

Init ==
    /\ scenario \in Scenario
    /\ table = scenario.rows
    /\ generation = 1
    /\ instance = 1
    /\ cache = NoResponses
    /\ cachedGen = 0
    /\ pc = [q \in Thread |-> "idle"]
    /\ filter = [q \in Thread |-> NoFilter]
    /\ seen = [q \in Thread |-> 0]
    /\ response = [q \in Thread |-> NoResponse]
    /\ during = [q \in Thread |-> {}]
    /\ walk = [q \in Thread |-> NoWalk]
    /\ daily = NoPage
    /\ shown = {}
    /\ whole = {}
    /\ review = NoReview
    /\ always = {}
    /\ ever = {}
    /\ asked = 0
    /\ compared = 0
    /\ reviewed = 0

\* The cases of a target whose newest task at one revision passed, and whose
\* newest task at another failed.
Newest(rows, i) ==
    \A j \in Ids(rows) :
       /\ \A x \in {"target", "case", "flow"} : rows[j][x] = rows[i][x]
       /\ rows[j].revision[2] = rows[i].revision[2]
       => j <= i

Ended(rows, i, target, r, status, verdict) ==
    /\ rows[i].target = target /\ rows[i].revision[2] = r /\ Newest(rows, i)
    /\ rows[i].status = status /\ rows[i].verdict = verdict

RolledBack(rows, target, from, to) ==
    {<<rows[i].case, rows[i].flow>> : i \in {i \in Ids(rows) :
       /\ Ended(rows, i, target, to, "FAILED", "FAIL")
       /\ \E j \in Ids(rows) :
            /\ Ended(rows, j, target, from, "SUCCEEDED", "PASS")
            /\ rows[j].case = rows[i].case /\ rows[j].flow = rows[i].flow}}

-----------------------------------------------------------------------------
(***************************************************************************)
(* The tasks change: one is submitted, or one that was open ends.  Every   *)
(* such method of the scheduler saves the row and moves the generation     *)
(* under the scheduler's mutex.                                            *)
(***************************************************************************)
Rewrite(rows) ==
    /\ table' = rows
    /\ generation' = generation + 1
    /\ during' = [q \in Thread |->
                    IF pc[q] = "idle" THEN during[q]
                    ELSE during[q] \cup {answer(rows, generation + 1, filter[q])}]
    /\ IF review.more
       THEN LET now == RolledBack(rows, review.target, review.from, review.to)
            IN  always' = always \cap now /\ ever' = ever \cup now
       ELSE UNCHANGED <<always, ever>>
    /\ UNCHANGED <<instance, cacheVars, pc, filter, seen, response, walk, dailyVars,
                   review, boundVars>>

Submit ==
    /\ Len(table) < scenario.tasks
    /\ \E k \in scenario.kinds :
         Rewrite(Append(table, [target |-> k.target, case |-> k.case, flow |-> k.flow,
                                stage |-> k.stage, revision |-> k.revision, day |-> k.day,
                                status |-> "QUEUED", verdict |-> "none"]))

End ==
    \E i \in Ids(table), r \in scenario.results :
        /\ table[i].status \in Active
        /\ Rewrite([table EXCEPT ![i].status = r.status, ![i].verdict = r.verdict])

-----------------------------------------------------------------------------
(* RegressionService::query *)

\* The query begins: the thread reads the task generation.
Begin(q, f) ==
    /\ pc[q] = "idle"
    /\ asked < scenario.queries
    /\ pc' = [pc EXCEPT ![q] = "look"]
    /\ filter' = [filter EXCEPT ![q] = f]
    /\ seen' = [seen EXCEPT ![q] = generation]
    /\ during' = [during EXCEPT ![q] = {answer(table, generation, f)}]
    /\ asked' = asked + 1
    /\ UNCHANGED <<serverVars, cacheVars, response, dailyVars, reviewVars, compared,
                   reviewed, scenario>>

\* RegressionQuery::parse refuses a filter that selects by nothing but a stage.
parse(f) == f.revision # <<>> \/ f.case # 0 \/ f.day # 0

\* A client asks for the first page, or for the one after the page it got.
AskFirst(q, f) ==
    /\ parse(f)
    /\ Begin(q, f)
    /\ walk' = [walk EXCEPT ![q] = [filter |-> f, listed |-> {}, cursor |-> -1,
                                    goal |-> {i \in Ids(table) : matches(table[i], f)}]]

AskNext(q) ==
    /\ walk[q].cursor > 0
    /\ Begin(q, [walk[q].filter EXCEPT !.before = walk[q].cursor])
    /\ UNCHANGED walk

\* The responses of an older generation are dropped; a response for the
\* filter is used unless it has expired, or could not be copied.
lookedUp(q) == IF cachedGen = seen[q] THEN cache ELSE NoResponses

Look(q) ==
    /\ pc[q] = "look"
    /\ cache' = lookedUp(q)
    /\ cachedGen' = seen[q]
    /\ \/ /\ filter[q] \in DOMAIN lookedUp(q)
          /\ response' = [response EXCEPT ![q] = lookedUp(q)[filter[q]]]
          /\ pc' = [pc EXCEPT ![q] = "answered"]
       \/ /\ pc' = [pc EXCEPT ![q] = "scan"]
          /\ UNCHANGED response
    /\ UNCHANGED <<serverVars, filter, seen, during, walk, dailyVars, reviewVars, boundVars>>

Scan(q) ==
    /\ pc[q] = "scan"
    /\ response' = [response EXCEPT ![q] = answer(table, generation, filter[q])]
    /\ pc' = [pc EXCEPT ![q] = "check"]
    /\ UNCHANGED <<serverVars, cacheVars, filter, seen, during, walk, dailyVars, reviewVars,
                   boundVars>>

\* Only a response that is still current is stored.
Check(q) ==
    /\ pc[q] = "check"
    /\ pc' = [pc EXCEPT ![q] = IF response[q].generation = generation
                               THEN "store" ELSE "answered"]
    /\ UNCHANGED <<serverVars, cacheVars, filter, seen, response, during, walk,
                   dailyVars, reviewVars, boundVars>>

\* Mutant: a response is stored with those of another generation.
storedBeside(q) == cache

\* The responses of another generation are dropped before it is stored; a
\* full cache gives up an entry of the hash table's choice.  The entry itself
\* may fail to be allocated, after that.
storedWith(q) == IF cachedGen = response[q].generation THEN cache ELSE NoResponses

room(c, f) ==
    IF Cardinality(DOMAIN c) < CacheSize \/ f \in DOMAIN c
    THEN {c}
    ELSE {[g \in DOMAIN c \ {e} |-> c[g]] : e \in DOMAIN c}

put(c, f, r) == [g \in DOMAIN c \cup {f} |-> IF g = f THEN r ELSE c[g]]

Store(q) ==
    /\ pc[q] = "store"
    /\ \E c \in room(storedWith(q), filter[q]) :
         cache' \in {c, put(c, filter[q], response[q])}
    /\ cachedGen' = response[q].generation
    /\ pc' = [pc EXCEPT ![q] = "answered"]
    /\ UNCHANGED <<serverVars, filter, seen, response, during, walk, dailyVars, reviewVars,
                   boundVars>>

\* The client takes its page.
ids(r) == {i.id : i \in r.result.items}

Reply(q) ==
    /\ pc[q] = "answered"
    /\ walk' = [walk EXCEPT ![q].listed = @ \cup ids(response[q]),
                            ![q].cursor = response[q].result.next]
    /\ pc' = [pc EXCEPT ![q] = "idle"]
    /\ filter' = [filter EXCEPT ![q] = NoFilter]
    /\ seen' = [seen EXCEPT ![q] = 0]
    /\ response' = [response EXCEPT ![q] = NoResponse]
    /\ during' = [during EXCEPT ![q] = {}]
    /\ UNCHANGED <<serverVars, cacheVars, dailyVars, reviewVars, boundVars>>

-----------------------------------------------------------------------------
(***************************************************************************)
(* MainWindow::queryDaily.  The console has one request out at a time and  *)
(* the Server computes the answer in one step; a request that fails leaves *)
(* the page and disables Next.                                             *)
(***************************************************************************)
comparison(after) == compareDaily(table, BaseDay, Day, Change, after)

allRows == {comparedRow(table, k, BaseDay, Day) : k \in keys(table, BaseDay, Day)}

\* Mutant: only the generation of the next page is compared.
samePageGeneration == generation = daily.generation

samePage == generation = daily.generation /\ instance = daily.instance

TakeComparison(r) ==
    daily' = [instance |-> instance, generation |-> generation,
              cursor |-> r.next, next |-> r.more]

CompareFirst ==
    /\ compared < scenario.comparisons
    /\ compared' = compared + 1
    /\ LET r == comparison(<<0, 0>>)
       IN  \/ /\ TakeComparison(r)
              /\ shown' = r.items
              /\ whole' = allRows
           \/ /\ daily' = [daily EXCEPT !.next = FALSE]
              /\ UNCHANGED <<shown, whole>>
    /\ UNCHANGED <<serverVars, cacheVars, queryVars, walk, reviewVars, asked, reviewed,
                   scenario>>

CompareNext ==
    /\ daily.next
    /\ LET r == comparison(daily.cursor)
       IN  \/ /\ samePage
              /\ TakeComparison(r)
              /\ shown' = shown \cup r.items
           \/ /\ daily' = [daily EXCEPT !.next = FALSE]
              /\ UNCHANGED shown
    /\ UNCHANGED <<serverVars, cacheVars, queryVars, walk, whole, reviewVars, boundVars>>

-----------------------------------------------------------------------------
(***************************************************************************)
(* `gcrp_client rollback': the user takes a revision and the one before    *)
(* it from the progress table of a target, and asks for the cases that     *)
(* were rolled back between them, page by page, continuing after the last  *)
(* task id.  A page is computed in one step and not tied to the others; a  *)
(* request that fails is repeated.                                         *)
(***************************************************************************)
TakeRollbacks(target, from, to, listed, r) ==
    review' = [target |-> target, from |-> from, to |-> to,
               listed |-> listed \cup {<<table[i].case, table[i].flow>> : i \in r.items},
               cursor |-> r.next, more |-> r.more]

ReviewFirst ==
    /\ reviewed < scenario.lists
    /\ reviewed' = reviewed + 1
    /\ \E target \in {table[i].target : i \in Ids(table)} :
         \E to \in DOMAIN queryProgress(table, target, -1).rows :
           LET from == previousRevision(table, target, to)
               now == RolledBack(table, target, from, to)
           IN  /\ from # -1
               /\ TakeRollbacks(target, from, to, {}, queryRollbacks(table, target, from, to, 0))
               /\ always' = now /\ ever' = now
    /\ UNCHANGED <<serverVars, cacheVars, queryVars, walk, dailyVars, asked, compared,
                   scenario>>

ReviewNext ==
    /\ review.more
    /\ TakeRollbacks(review.target, review.from, review.to, review.listed,
                     queryRollbacks(table, review.target, review.from, review.to,
                                    review.cursor))
    /\ UNCHANGED <<serverVars, cacheVars, queryVars, walk, dailyVars, always, ever, boundVars>>

\* The Server is started again on its database: the rows are restored, the
\* generation counts from the start, and the queries that ran are gone.
RestartServer ==
    /\ instance < scenario.starts
    /\ instance' = instance + 1
    /\ generation' = 1
    /\ cache' = NoResponses
    /\ cachedGen' = 0
    /\ pc' = [q \in Thread |-> "idle"]
    /\ filter' = [q \in Thread |-> NoFilter]
    /\ seen' = [q \in Thread |-> 0]
    /\ response' = [q \in Thread |-> NoResponse]
    /\ during' = [q \in Thread |-> {}]
    /\ UNCHANGED <<table, walk, dailyVars, reviewVars, boundVars>>

Answering(q) ==
    \/ \E f \in scenario.filters : AskFirst(q, f)
    \/ AskNext(q)
    \/ Look(q) \/ Scan(q) \/ Check(q) \/ Store(q) \/ Reply(q)

Next ==
    \/ Submit
    \/ End
    \/ \E q \in Thread : Answering(q)
    \/ CompareFirst
    \/ CompareNext
    \/ ReviewFirst
    \/ ReviewNext
    \/ RestartServer

Spec == Init /\ [][Next]_vars

-----------------------------------------------------------------------------
(***************************************************************************)
(* Whatever is cached, stored late, evicted or expired, and however the    *)
(* tasks change meanwhile, the answer of a query is one that was true of   *)
(* the tasks at some moment while the query ran, and its generation is     *)
(* that moment's.  RegressionService::query reads the generation, looks    *)
(* up, scans, checks and stores under two mutexes in turn.                 *)
(***************************************************************************)
AnswerCurrent == \A q \in Thread : pc[q] = "answered" => response[q] \in during[q]

(***************************************************************************)
(* Reading page by page misses nothing and repeats nothing.  The pages of  *)
(* a regression query list every task that matched when the reading began, *)
(* once, although tasks come and end, pages come from the cache, and the   *)
(* Server restarts between two pages.  The pages of a daily comparison     *)
(* that the console has accepted are a prefix of the comparison as it was  *)
(* at its first page, and the whole of it after the last.                  *)
(***************************************************************************)
PagesExact ==
    /\ \A q \in Thread :
         /\ walk[q].cursor >= 0 =>
              \A i \in walk[q].goal : i >= walk[q].cursor => i \in walk[q].listed
         /\ pc[q] = "answered" => ids(response[q]) \cap walk[q].listed = {}
    /\ shown = {r \in whole : \/ daily.cursor = <<0, 0>>
                              \/ ~ KeyLess(daily.cursor, r.key)}

(***************************************************************************)
(* Rollbacks are counted and listed truly.  The count that queryProgress   *)
(* gives for a revision is the number of cases, each with its flow, whose  *)
(* newest task passed at the revision before and failed at this one.  A    *)
(* list of rollbacks that is read page by page names only cases that were  *)
(* rolled back at some time meanwhile, and when it ends every case that    *)
(* was so all the time, although cases are run again and results arrive    *)
(* between the pages, which gives a case a new id and a new place in the   *)
(* list.  ProgressService::collect, transitions and queryRollbacks.        *)
(***************************************************************************)
RollbacksListed ==
    /\ \A target \in {table[i].target : i \in Ids(table)} :
         \A before \in revisions(table, target) \cup {-1} :
           LET rows == queryProgress(table, target, before).rows
           IN  \A r \in DOMAIN rows :
                 rows[r].previous_revision # -1 =>
                   rows[r].rollback_count =
                     Cardinality(RolledBack(table, target, rows[r].previous_revision, r))
    /\ review.listed \subseteq ever
    /\ ~ review.more => always \subseteq review.listed
=============================================================================
