----------------------------- MODULE TaskConsole -----------------------------
(***************************************************************************)
(* The Qt console as a client of the Server: the paged reading of a task   *)
(* list (MainWindow::fetchList behind refresh), the first pages other      *)
(* consoles read, which compete for the Server's snapshots, and the task   *)
(* list of the command line client, which is read by task id alone.        *)
(*                                                                         *)
(* RpcClient::request opens one connection per request and calls back      *)
(* exactly once: with the answer, or with an error after a refusal, a      *)
(* broken connection or a timeout.  The Server computes an answer in one   *)
(* step, and the console has one request out at a time, so a request, its  *)
(* handling and its callback are one step, whose callback may be the error *)
(* even when the Server has answered.                                      *)
(***************************************************************************)
EXTENDS TaskTable

VARIABLES fetch,   \* the running fetchList: its view, its rows, its cursor,
                   \* and the Server its first page came from
          truth    \* history: the rows of the list when fetch began

consoleVars == <<fetch, token, truth, listing>>

Idle == [view |-> "none", rows |-> <<>>, before |-> 0, from |-> 0]

ConsoleInit ==
    /\ fetch = Idle
    /\ truth = <<>>

loading == fetch # Idle

\* The list could not be read to its end: what is displayed stays.
FetchFails ==
    /\ fetch' = Idle
    /\ token' = 0
    /\ truth' = <<>>

\* A page has come: the rows are kept for the next one, or the list is complete.
TakePage(view, rows, id, p, now) ==
    LET all == rows \o p.items
    IN  IF p.more
        THEN /\ fetch' = [view |-> view, rows |-> all, before |-> Last(all).id,
                          from |-> instance]
             /\ token' = id
             /\ truth' = now
        ELSE /\ fetch' = Idle
             /\ token' = 0
             /\ truth' = <<>>

\* refresh(): the first page, unless a list or a submission is under way.
Refresh(view) ==
    /\ ~loading
    /\ QueryFirst(view)
    /\ \/ LET s == firstSnapshot(view)
          IN  TakePage(view, <<>>, s.id, page(s.rows, 0), captured(view))
       \/ FetchFails
    /\ UNCHANGED listing

\* Mutant: the pages of a Server that was restarted are taken as well.
sameAny == TRUE

sameServer == instance = fetch.from

\* The next page of the snapshot the first one came from.
NextPage ==
    /\ loading
    /\ LET found == snapshotOf(token, fetch.view)
       IN  \/ /\ found # {}
              /\ LET s == CHOOSE x \in found : TRUE
                 IN  IF sameServer
                     THEN TakePage(fetch.view, fetch.rows, s.id,
                                   page(s.rows, fetch.before), truth)
                     ELSE FetchFails
           \/ FetchFails
    /\ UNCHANGED <<tableVars, listing>>

\* Another console reads the first page of the same list.
OtherRefresh(view) == QueryFirst(view) /\ UNCHANGED consoleVars

-----------------------------------------------------------------------------
(***************************************************************************)
(* `gcrp_client tasks` asks for one page and prints it.  The user asks for *)
(* the next one with `--before', the last id printed; the client keeps     *)
(* neither a token nor the identity of the Server.  A request that fails   *)
(* is repeated; a snapshot that is gone makes the user begin again.        *)
(***************************************************************************)
Printed(p) ==
    /\ listing' = IF p.more THEN Last(p.items).id ELSE 0
    /\ UNCHANGED <<fetch, token, truth>>

ListFirst ==
    /\ QueryFirst("tasks")
    /\ Printed(page(firstSnapshot("tasks").rows, 0))

ListNext ==
    /\ listing # 0
    /\ IF snapshotOf(0, "tasks") = {}
       THEN listing' = 0 /\ UNCHANGED <<fetch, token, truth>>
       ELSE \E s \in snapshotOf(0, "tasks") : Printed(page(s.rows, listing))
    /\ UNCHANGED tableVars
=============================================================================
