----------------------------- MODULE QueryViews -----------------------------
(***************************************************************************)
(* What the Server's read-only queries compute from the task table:        *)
(* RegressionService::query and compareDaily, and ProgressService's        *)
(* queryProgress and queryRollbacks.  Every operator takes the table, the  *)
(* rows in the order of their task ids, and nothing else of the state.     *)
(*                                                                         *)
(* A row is what the task was submitted as, its status and the verdict of  *)
(* its execution summary (case_status, or "none").  It was submitted for a *)
(* target, a case (its path), a flow, a template stage (0: none), a        *)
(* revision text and a day; the day is 0 unless the daily submitter tagged *)
(* the task with a valid date.  All tasks are regressions.  A page is a    *)
(* set of rows: their order is that of their ids or keys.                  *)
(***************************************************************************)
EXTENDS Integers, Sequences, FiniteSets

CONSTANT Limit  \* rows of a page (1 to 50 in the code)

ASSUME LimitAssumption == Limit \in Nat \ {0}

Active == {"PENDING", "QUEUED", "ASSIGNED", "RUNNING"}
Status == Active \cup {"SUCCEEDED", "FAILED", "TIMEOUT", "CANCELLED"}
Verdict == {"PASS", "FAIL", "CRASH", "none"}
Outcome == {"PASS", "FAIL", "TIMEOUT", "CRASH", "ERROR", "CANCELLED", "ACTIVE", "UNKNOWN"}

Ids(table) == 1..Len(table)

Greatest(S) == CHOOSE i \in S : \A j \in S : j <= i
Least(S) == CHOOSE i \in S : \A j \in S : i <= j

Tally(name, Names) ==
  [n \in Names |-> Cardinality({i \in DOMAIN name : name[i] = n})]

-----------------------------------------------------------------------------
(* RegressionService::query *)

outcomeOf(t) ==
    CASE t.status = "TIMEOUT" -> "TIMEOUT"
      [] t.status = "CANCELLED" -> "CANCELLED"
      [] t.status \in Active -> "ACTIVE"
      [] t.status = "SUCCEEDED" /\ t.verdict = "PASS" -> "PASS"
      [] t.status = "FAILED" /\ t.verdict = "FAIL" -> "FAIL"
      [] t.status = "FAILED" /\ t.verdict = "CRASH" -> "CRASH"
      [] t.status = "FAILED" /\ t.verdict \notin {"FAIL", "CRASH"} -> "ERROR"
      [] OTHER -> "UNKNOWN"

\* A filter names the case, the revision text, the stage and the day it asks
\* for; 0, and the empty text, ask for any.  The filters by flow and batch
\* narrow the view in the same way and are left out.
matches(t, f) ==
    /\ f.case \in {0, t.case}
    /\ f.revision \in {<<>>, t.revision}
    /\ f.stage \in {0, t.stage}
    /\ f.day \in {0, t.day}

rowOf(table, i) == [id |-> i, outcome |-> outcomeOf(table[i])]

\* The newest rows of S below the cursor, a page of them.
page(S, before) ==
    LET rest == {i \in S : before = 0 \/ i < before}
    IN  [ids |-> {i \in rest : Cardinality({j \in rest : j > i}) < Limit},
         more |-> Cardinality(rest) > Limit]

query(table, f) ==
    LET all == {i \in Ids(table) : matches(table[i], f)}
        p == page(all, f.before)
    IN  [total |-> Cardinality(all),
         counts |-> Tally([i \in all |-> outcomeOf(table[i])], Outcome),
         items |-> {rowOf(table, i) : i \in p.ids},
         more |-> p.more,
         next |-> IF p.more THEN Least(p.ids) ELSE 0]

-----------------------------------------------------------------------------
(***************************************************************************)
(* RegressionService::compareDaily: the newest scheduled task of each      *)
(* stage and case on the two days, and how its outcome changed.  All       *)
(* stages are asked for; the search text and the totals per stage are left *)
(* out.                                                                    *)
(***************************************************************************)
Change == {"REGRESSION", "IMPROVEMENT", "MISSING", "EXCEPTION", "UNCHANGED"}

eligible(table, days) ==
    {i \in Ids(table) : table[i].stage # 0 /\ table[i].day \in days \ {0}}

\* The key of a pair; neither the flow nor the target is part of it.
keyOf(t) == <<t.stage, t.case>>

KeyLess(a, b) == a[1] < b[1] \/ (a[1] = b[1] /\ a[2] < b[2])

\* The tasks of a key on a day; the greatest id is the side of the pair.
attempts(table, k, day) == {i \in eligible(table, {day}) : keyOf(table[i]) = k}

sideOutcome(table, k, day) ==
    IF attempts(table, k, day) = {} THEN "MISSING"
    ELSE outcomeOf(table[Greatest(attempts(table, k, day))])

changeOf(table, k, base, day) ==
    LET ao == sideOutcome(table, k, base)
        bo == sideOutcome(table, k, day)
    IN  CASE "MISSING" \in {ao, bo} -> "MISSING"
          [] ao = "PASS" /\ bo = "FAIL" -> "REGRESSION"
          [] ao = "FAIL" /\ bo = "PASS" -> "IMPROVEMENT"
          [] "MISSING" \notin {ao, bo} /\ bo \notin {"PASS", "FAIL"} -> "EXCEPTION"
          [] OTHER -> "UNCHANGED"

keys(table, base, day) == {keyOf(table[i]) : i \in eligible(table, {base, day})}

\* The rows that were passed over for a newer one of their key and day.
duplicates(table, base, day) ==
    {i \in eligible(table, {base, day}) :
       i # Greatest(attempts(table, keyOf(table[i]), table[i].day))}

comparedRow(table, k, base, day) ==
    [key |-> k,
     baseline |-> sideOutcome(table, k, base),
     comparison |-> sideOutcome(table, k, day),
     change |-> changeOf(table, k, base, day)]

\* One page after the cursor (<<0, 0>>: the first) of the keys with a wanted
\* change.
compareDaily(table, base, day, wanted, after) ==
    LET all == {k \in keys(table, base, day) : changeOf(table, k, base, day) \in wanted}
        rest == {k \in all : KeyLess(after, k)}
        items == {k \in rest : Cardinality({j \in rest : KeyLess(j, k)}) < Limit}
        more == Cardinality(rest) > Limit
    IN  [total |-> Cardinality(all),
         counts |-> Tally([k \in all |-> changeOf(table, k, base, day)], Change),
         items |-> {comparedRow(table, k, base, day) : k \in items},
         duplicates |-> Cardinality(duplicates(table, base, day)),
         more |-> more,
         next |-> IF more THEN CHOOSE k \in items : \A j \in items : ~ KeyLess(k, j)
                  ELSE <<0, 0>>]

-----------------------------------------------------------------------------
(***************************************************************************)
(* ProgressService: per numeric revision of one target the newest task of  *)
(* each case and flow, and what changed from one observed revision to the  *)
(* next.  A revision text is its leading zeros and its number; -1 is a     *)
(* text that is not numeric.  The filter by flow narrows the view and is   *)
(* left out.                                                               *)
(***************************************************************************)
numericRevision(text) == text[2]

outcome(t) ==
    CASE t.status = "SUCCEEDED" /\ t.verdict = "PASS" -> "PASS"
      [] t.status = "FAILED" /\ t.verdict = "FAIL" -> "FAIL"
      [] t.status \in Active -> "ACTIVE"
      [] t.status = "TIMEOUT" -> "TIMEOUT"
      [] t.status = "CANCELLED" -> "CANCELLED"
      [] t.status = "FAILED" /\ t.verdict # "FAIL" ->
           IF t.verdict = "CRASH" THEN "CRASH" ELSE "ERROR"
      [] OTHER -> "UNKNOWN"

\* Mutant: the flow is left out of the key.
caseKeyPath(t) == <<t.case, 0>>

caseKey(t) == <<t.case, t.flow>>

tasksOf(table, target) == {i \in Ids(table) : table[i].target = target}

tasksAt(table, target, r) ==
    {i \in tasksOf(table, target) : numericRevision(table[i].revision) = r}

revisions(table, target) ==
    {numericRevision(table[i].revision) : i \in tasksOf(table, target)} \ {-1}

cases(table, target, r) == {caseKey(table[i]) : i \in tasksAt(table, target, r)}

\* collect: the task with the greatest id stands for its case.
latestAt(table, target, r, c) ==
    Greatest({i \in tasksAt(table, target, r) : caseKey(table[i]) = c})

collected(table, target, r) ==
    [c \in cases(table, target, r) |-> outcome(table[latestAt(table, target, r, c)])]

previousRevision(table, target, r) ==
    LET before == {p \in revisions(table, target) : p < r}
    IN  IF before = {} THEN -1 ELSE Greatest(before)

\* How many cases of both revisions went from one outcome to another.
transitions(old, new, from, to) ==
    Cardinality({c \in DOMAIN old \cap DOMAIN new : old[c] = from /\ new[c] = to})

progressRow(table, target, r) ==
    LET p == previousRevision(table, target, r)
        new == collected(table, target, r)
        old == collected(table, target, p)
        seen == p # -1
    IN  [cases |-> Cardinality(DOMAIN new),
         counts |-> Tally(new, Outcome),
         previous_revision |-> p,
         rollback_count |-> IF seen THEN transitions(old, new, "PASS", "FAIL") ELSE 0,
         fixed_count |-> IF seen THEN transitions(old, new, "FAIL", "PASS") ELSE 0,
         new_cases |-> IF seen THEN Cardinality(DOMAIN new \ DOMAIN old) ELSE 0,
         missing_cases |-> IF seen THEN Cardinality(DOMAIN old \ DOMAIN new) ELSE 0]

\* queryProgress: the newest revisions below the cursor (-1: from the first).
queryProgress(table, target, before) ==
    LET rest == {r \in revisions(table, target) : before = -1 \/ r < before}
        rows == {r \in rest : Cardinality({q \in rest : q > r}) < Limit}
    IN  [rows |-> [r \in rows |-> progressRow(table, target, r)],
         more |-> Cardinality(rest) > Limit]

\* queryRollbacks: the cases that passed at one revision and fail at a later
\* one, listed by the id of the failing task.
rollbacks(table, target, from, to) ==
    LET old == collected(table, target, from)
        new == collected(table, target, to)
    IN  {c \in DOMAIN old \cap DOMAIN new : old[c] = "PASS" /\ new[c] = "FAIL"}

queryRollbacks(table, target, from, to, after) ==
    LET found == {latestAt(table, target, to, c) : c \in rollbacks(table, target, from, to)}
        rest == {i \in found : i > after}
        items == {i \in rest : Cardinality({j \in rest : j < i}) < Limit}
        more == Cardinality(rest) > Limit
    IN  [total |-> Cardinality(found),
         items |-> items,
         more |-> more,
         next |-> IF more THEN Greatest(items) ELSE 0]
=============================================================================
