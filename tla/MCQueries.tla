----------------------------- MODULE MCQueries -----------------------------
(***************************************************************************)
(* Two threads, a cache of two responses and pages of one row.  The        *)
(* scenarios: three queries, with three filters, against the cache while a *)
(* task comes and ends; clients that read page by page, with a restart;    *)
(* the console's comparison, with a restart; and a list of rollbacks of    *)
(* two cases that passed, while they are run at the next revision, again,  *)
(* with another flow, and on another target.                               *)
(***************************************************************************)
EXTENDS RegressionQueries, TLC

Submitted(c, s, r, d) ==
    [target |-> 1, case |-> c, flow |-> 1, stage |-> s, revision |-> r, day |-> d]
First == Submitted(1, 1, <<0, 1>>, 1)
Second == Submitted(1, 1, <<0, 2>>, 2)
Other == Submitted(2, 1, <<0, 2>>, 2)
Manual == [Submitted(1, 0, <<1, 2>>, 0) EXCEPT !.flow = 2]
Elsewhere == [Manual EXCEPT !.target = 2]

With(s, v) == [status |-> s, verdict |-> v]
Pass == With("SUCCEEDED", "PASS")
Fail == With("FAILED", "FAIL")
Late == With("TIMEOUT", "none")

Passed(c) ==
    [target |-> 1, case |-> c, flow |-> 1, stage |-> 1, revision |-> <<0, 1>>, day |-> 1,
     status |-> "SUCCEEDED", verdict |-> "PASS"]

OfSecond == [NoFilter EXCEPT !.revision = <<0, 2>>]
OfCase == [NoFilter EXCEPT !.case = 1]
OfStage == [NoFilter EXCEPT !.case = 1, !.stage = 1]

Scenarios ==
    {[rows |-> <<>>, kinds |-> {Second}, results |-> {Pass, Fail},
      filters |-> {OfSecond, OfCase, OfStage},
      tasks |-> 1, queries |-> 3, comparisons |-> 0, lists |-> 0, starts |-> 1],
     [rows |-> <<>>, kinds |-> {Second}, results |-> {Pass}, filters |-> {OfCase},
      tasks |-> 2, queries |-> 3, comparisons |-> 0, lists |-> 0, starts |-> 2],
     [rows |-> <<>>, kinds |-> {First, Second, Other}, results |-> {Pass, Fail}, filters |-> {},
      tasks |-> 3, queries |-> 0, comparisons |-> 1, lists |-> 0, starts |-> 2],
     [rows |-> <<Passed(1), Passed(2)>>, kinds |-> {Second, Other, Manual, Elsewhere},
      results |-> {Pass, Fail, Late}, filters |-> {},
      tasks |-> 5, queries |-> 0, comparisons |-> 0, lists |-> 1, starts |-> 1]}

ThreadSymmetry == Permutations(Thread)
=============================================================================
