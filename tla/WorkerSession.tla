--------------------------- MODULE WorkerSession ---------------------------
(***************************************************************************)
(* Worker connections and what they are bound to: WorkerSession.cpp,       *)
(* WorkerConnectionRegistry.cpp and the session callbacks of               *)
(* WorkerServer.cpp, over the worker table of WorkerManager.               *)
(*                                                                         *)
(* A worker that reconnects registers on a new connection while the server *)
(* may still hold the old one: the registry hands out a new handle, the    *)
(* old session keeps its old one and only learns that it was replaced when *)
(* it compares them.  All callbacks run under session_mutex_, so each is   *)
(* one action; they may come in any order across connections.  A           *)
(* connection whose transport has failed ("broken") still delivers the     *)
(* messages already received until its close callback runs.                *)
(***************************************************************************)
EXTENDS WorkerManager

CONSTANTS Conn,       \* connections
          MaxHandle   \* bound on next_handle_id_

ASSUME SessionAssumption == MaxHandle \in Nat \ {0}

VARIABLES registry,     \* registry_: worker id -> connection and handle
          session,      \* sessions_: what each connection has registered
          nextHandle,   \* next_handle_id_
          latest,       \* history: the last binding made for each worker
          drained       \* history: connections that sent WORKER_DRAIN

sessionVars == <<workers, registry, session, nextHandle, latest, drained>>

NoConn == "none"
NoBinding == [conn |-> NoConn, handle |-> 0]
Binding == [conn : Conn \cup {NoConn}, handle : 0..MaxHandle]

\* worker_id_ and binding_handle_ are set together.
Session == [link : {"open", "broken", "closed"},
            worker : Worker \cup {NoWorker}, handle : 0..MaxHandle]

SessionType ==
  /\ WorkersType
  /\ registry \in [Worker -> Binding]
  /\ session \in [Conn -> Session]
  /\ nextHandle \in 1..(MaxHandle + 1)
  /\ latest \in [Worker -> Binding]
  /\ drained \subseteq Conn

SessionInit ==
  /\ WorkersInit
  /\ registry = [w \in Worker |-> NoBinding]
  /\ session = [c \in Conn |-> [link |-> "open", worker |-> NoWorker,
                                handle |-> 0]]
  /\ nextHandle = 1
  /\ latest = [w \in Worker |-> NoBinding]
  /\ drained = {}

isRegistered(c) == session[c].worker # NoWorker

isCurrent(c) == registry[session[c].worker].handle = session[c].handle

\* Mutant: the session does not compare its handle with the registry's.
acceptsReplaced(c) == session[c].link # "closed"

\* handleRequest goes on: not a registered session that was replaced.
accepts(c) == /\ session[c].link # "closed"
              /\ isRegistered(c) => isCurrent(c)

Register(c, w, slots) ==
  /\ accepts(c) /\ session[c].link = "open"
  /\ session[c].worker \in {NoWorker, w}
  /\ nextHandle <= MaxHandle
  /\ registerWorker(w, slots)
  /\ registry' = [registry EXCEPT ![w] = [conn |-> c, handle |-> nextHandle]]
  /\ session' = [session EXCEPT ![c].worker = w, ![c].handle = nextHandle]
  /\ nextHandle' = nextHandle + 1
  /\ latest' = [latest EXCEPT ![w] = [conn |-> c, handle |-> nextHandle]]
  /\ drained' = drained \ {c}

\* WORKER_HEARTBEAT through the router.
Heartbeat(c) ==
  /\ accepts(c) /\ isRegistered(c)
  /\ heartbeat(session[c].worker)
  /\ UNCHANGED <<registry, session, nextHandle, latest, drained>>

\* WORKER_DRAIN through the router.
Drain(c) ==
  /\ accepts(c) /\ isRegistered(c)
  /\ markDraining(session[c].worker)
  /\ drained' = drained \cup {c}
  /\ UNCHANGED <<registry, session, nextHandle, latest>>

\* The transport fails or the peer leaves; the close callback comes later.
Break(c) ==
  /\ session[c].link = "open"
  /\ session' = [session EXCEPT ![c].link = "broken"]
  /\ UNCHANGED <<workers, registry, nextHandle, latest, drained>>

\* Mutant: unbind by worker id only.
unbindsAny(c) == isRegistered(c)

\* unbind finds the binding this session made.
unbinds(c) == isRegistered(c) /\ isCurrent(c)

\* handleClose, and the session is erased.
Close(c) ==
  /\ session[c].link = "broken"
  /\ session' = [session EXCEPT ![c] = [link |-> "closed",
                                        worker |-> NoWorker, handle |-> 0]]
  /\ \/ /\ unbinds(c)
        /\ markOffline(session[c].worker)
        /\ registry' = [registry EXCEPT ![session[c].worker] = NoBinding]
     \/ /\ ~ unbinds(c)
        /\ UNCHANGED <<workers, registry>>
  /\ UNCHANGED <<nextHandle, latest, drained>>

Timeout(late) ==
  /\ checkTimeouts(late)
  /\ UNCHANGED <<registry, session, nextHandle, latest, drained>>

SessionNext ==
  \/ \E c \in Conn, w \in Worker : \E slots \in 1..Slots[w] :
       Register(c, w, slots)
  \/ \E c \in Conn : Heartbeat(c) \/ Drain(c) \/ Break(c) \/ Close(c)
  \/ \E late \in SUBSET Worker : Timeout(late)

SessionSpec == SessionInit /\ [][SessionNext]_sessionVars

-----------------------------------------------------------------------------
\* "Old A closing after replacement B must affect neither B nor its
\* liveness" (WorkerSession.cpp:112): as long as the connection of a worker's
\* last registration is not closed, the registry leads to it, whatever older
\* connections of that worker did in between.
LatestWins ==
  \A w \in Worker :
    latest[w] # NoBinding =>
      LET c == latest[w].conn
      IN (session[c].worker = w /\ session[c].handle = latest[w].handle)
           => registry[w] = latest[w]

\* A worker that may be given work has a session behind it: the dispatcher
\* finds a connection that is not closed and whose session is the worker's.
\* A replaced connection cannot bring a worker back.
ReachableOrOffline ==
  \A w \in Worker :
    workers[w].status \in {"ONLINE", "DRAINING"} =>
      \E c \in Conn : /\ registry[w].conn = c
                      /\ session[c].link # "closed"
                      /\ session[c].worker = w
                      /\ session[c].handle = registry[w].handle

\* "Heartbeats from a draining slot retain DRAINING until its connection
\* closes" (WorkerManager.cpp:236): a worker whose current connection has
\* announced a drain is not ONLINE, so it gets no new task.
DrainHolds ==
  \A w \in Worker : registry[w].conn \in drained =>
                      workers[w].status # "ONLINE"
=============================================================================
