------------------------------- MODULE MCDaily -------------------------------
\* A first day of two groups, one of two entries, and a second of one entry.
EXTENDS DailyRegression

\* The submitter's questions, and those of the clients that read lists.
Scenarios == {{"fault", "day", "stop", "restart"}, {"console", "restart", "expiry"},
              {"list", "restart", "expiry"}}

TwoDays == << <<1, 1, 2>>, <<1>> >>
=============================================================================
