----------------------------- MODULE ServerProof -----------------------------
(***************************************************************************)
(* Proofs about the three small protocols that the Server's threads follow *)
(* around the scheduling core: which connection a worker is bound to       *)
(* (WorkerSession), which thread runs the scheduling passes                *)
(* (SchedulingDriver), and which responses a query takes from the cache    *)
(* (RegressionQueries); for any workers, connections, handles, threads,    *)
(* filters, tasks, and any size of the cache and of a page.  What a query  *)
(* computes is never looked into: that argument is about generations.      *)
(***************************************************************************)
EXTENDS WorkerSession, SchedulingDriver, RegressionQueries, TLAPS

-----------------------------------------------------------------------------
(* Connections.                                                            *)

\* All that is used of the worker table: every worker has a status.
WorkersShape ==
  DOMAIN workers = Worker /\ \A w \in Worker : "status" \in DOMAIN workers[w]

SessionRecord ==
  [link : {"open", "broken", "closed"}, worker : Worker \cup {NoWorker}, handle : Nat]

SessionShape ==
  /\ WorkersShape
  /\ registry \in [Worker -> [conn : Conn \cup {NoConn}, handle : Nat]]
  /\ session \in [Conn -> SessionRecord]
  /\ nextHandle \in Nat \ {0}
  /\ latest \in [Worker -> [conn : Conn \cup {NoConn}, handle : Nat]]
  /\ \A w \in Worker : latest[w] # NoBinding => latest[w].conn \in Conn

\* A handle is given to one session and never again.
HandlesUnique ==
  /\ \A c \in Conn : isRegistered(c) =>
       session[c].handle # 0 /\ session[c].handle < nextHandle
  /\ \A c, d \in Conn : isRegistered(c) /\ isRegistered(d)
                        /\ session[c].handle = session[d].handle => c = d

\* A binding leads to the session that made it.
BindingsLive ==
  \A w \in Worker : registry[w].handle # 0 =>
    LET c == registry[w].conn
    IN  /\ c \in Conn
        /\ session[c].link # "closed"
        /\ session[c].worker = w
        /\ session[c].handle = registry[w].handle

\* A worker without a binding is not given work.
UnboundOffline ==
  \A w \in Worker : workers[w].status \in {"ONLINE", "DRAINING"} =>
                      registry[w].handle # 0

SessionInv ==
  SessionShape /\ HandlesUnique /\ BindingsLive /\ UnboundOffline /\ LatestWins

\* Before any registration.
LEMMA SessionInitial == SessionInit => SessionInv
BY WorkerAssumption
   DEF SessionInit, WorkersInit, NewWorker, SessionInv, SessionShape, WorkersShape, HandlesUnique,
       SessionRecord, BindingsLive, UnboundOffline, LatestWins, isRegistered,
       NoBinding, NoConn, NoWorker

\* A registered session whose handle is the registry's is the bound one.
LEMMA CurrentIsBound ==
  ASSUME SessionInv, NEW c \in Conn, isRegistered(c), isCurrent(c)
  PROVE  /\ session[c].worker \in Worker
         /\ registry[session[c].worker].conn = c
         /\ registry[session[c].worker].handle # 0
<1> DEFINE w == session[c].worker
<1>1. w \in Worker /\ session[c].handle # 0
  BY DEF SessionInv, SessionShape, SessionRecord, HandlesUnique, isRegistered
<1>2. registry[w].handle # 0 /\ registry[w].handle = session[c].handle
  BY <1>1 DEF isCurrent
<1>3. /\ registry[w].conn \in Conn /\ isRegistered(registry[w].conn)
      /\ session[registry[w].conn].handle = session[c].handle
  BY <1>1, <1>2, WorkerAssumption, Zenon DEF SessionInv, BindingsLive, isRegistered, NoWorker
<1> QED BY <1>1, <1>2, <1>3 DEF SessionInv, HandlesUnique

\* A registration replaces the binding of its worker by a new handle.
LEMMA RegisterKeeps ==
  ASSUME SessionInv, NEW c \in Conn, NEW w \in Worker, NEW slots,
         Register(c, w, slots)
  PROVE  SessionInv'
<1>0. SessionShape /\ HandlesUnique /\ BindingsLive /\ UnboundOffline /\ LatestWins
  BY DEF SessionInv
<1>1. w # NoWorker
  BY WorkerAssumption DEF NoWorker
<1>2a. session'[c] = [link |-> "open", worker |-> w, handle |-> nextHandle]
  BY <1>0, Zenon DEF SessionShape, SessionRecord, Register
<1>2. /\ session'[c].worker = w /\ session'[c].handle = nextHandle
      /\ session'[c].link = "open"
      /\ \A d \in Conn \ {c} : session'[d] = session[d]
      /\ registry'[w] = [conn |-> c, handle |-> nextHandle]
      /\ latest'[w] = [conn |-> c, handle |-> nextHandle]
      /\ \A v \in Worker \ {w} :
           /\ registry'[v] = registry[v] /\ latest'[v] = latest[v]
           /\ workers'[v] = workers[v]
      /\ nextHandle' = nextHandle + 1 /\ nextHandle \in Nat \ {0}
      /\ session[c].worker \in {NoWorker, w}
  BY <1>0, <1>2a DEF SessionShape, WorkersShape, Register, registerWorker
<1>3. SessionShape'
  <2>1. WorkersShape'
    BY <1>0 DEF SessionShape, WorkersShape, Register, registerWorker
  <2>2. session' \in [Conn -> SessionRecord]
    <3>1. session'[c] \in SessionRecord
      BY <1>2, <1>2a DEF SessionRecord
    <3> QED BY <1>0, <1>2, <3>1 DEF SessionShape, Register
  <2>3. /\ registry' \in [Worker -> [conn : Conn \cup {NoConn}, handle : Nat]]
        /\ latest' \in [Worker -> [conn : Conn \cup {NoConn}, handle : Nat]]
    BY <1>0, <1>2 DEF SessionShape, Register
  <2>4. \A v \in Worker : latest'[v] # NoBinding => latest'[v].conn \in Conn
    BY <1>0, <1>2 DEF SessionShape
  <2> QED BY <1>2, <2>1, <2>2, <2>3, <2>4 DEF SessionShape
<1>4. HandlesUnique'
  <2>1. \A d \in Conn \ {c} :
          /\ isRegistered(d)' = isRegistered(d)
          /\ isRegistered(d) => /\ session[d].handle # 0
                                /\ session[d].handle < nextHandle
                                /\ session'[d].handle = session[d].handle
    BY <1>0, <1>2 DEF HandlesUnique, isRegistered
  <2>2. \A d \in Conn : session[d].handle \in Nat
    BY <1>0 DEF SessionShape, SessionRecord
  <2> QED BY <1>0, <1>2, <2>1, <2>2 DEF HandlesUnique
<1>5. BindingsLive'
  <2>1. \A v \in Worker \ {w} : registry[v].handle # 0 => registry[v].conn # c
    BY <1>0, <1>2, WorkerAssumption DEF BindingsLive, NoWorker
  <2>2. \A v \in Worker \ {w} : registry[v].handle # 0 =>
          session'[registry[v].conn] = session[registry[v].conn]
    BY <1>0, <1>2, <2>1 DEF BindingsLive
  <2> SUFFICES ASSUME NEW v \in Worker, registry'[v].handle # 0
               PROVE  /\ registry'[v].conn \in Conn
                      /\ session'[registry'[v].conn].link # "closed"
                      /\ session'[registry'[v].conn].worker = v
                      /\ session'[registry'[v].conn].handle = registry'[v].handle
    BY DEF BindingsLive
  <2>3. CASE v = w
    BY <1>2, <2>3
  <2>4. CASE v # w
    BY <1>0, <1>2, <2>2, <2>4 DEF BindingsLive
  <2> QED BY <2>3, <2>4
<1>6. UnboundOffline'
  BY <1>0, <1>2 DEF UnboundOffline
<1>7. LatestWins'
  BY <1>0, <1>2 DEF LatestWins, SessionShape
<1> QED BY <1>3, <1>4, <1>5, <1>6, <1>7 DEF SessionInv

\* A close removes the binding only if the session made it.
LEMMA CloseKeeps ==
  ASSUME SessionInv, NEW c \in Conn, Close(c)
  PROVE  SessionInv'
<1> USE DEF Close, markOffline
<1>0. SessionShape /\ HandlesUnique /\ BindingsLive /\ UnboundOffline /\ LatestWins
  BY DEF SessionInv
<1>1. /\ session'[c] = [link |-> "closed", worker |-> NoWorker, handle |-> 0]
      /\ \A d \in Conn \ {c} : session'[d] = session[d]
      /\ UNCHANGED <<nextHandle, latest>>
  BY <1>0 DEF SessionShape
<1>2. \A w \in Worker :
        \/ registry'[w] = registry[w] /\ workers'[w] = workers[w]
           /\ (registry[w].handle # 0 => registry[w].conn # c)
        \/ registry'[w] = NoBinding /\ workers'[w].status = "OFFLINE"
           /\ registry[w].conn = c /\ registry[w].handle = session[c].handle
           /\ session[c].worker = w /\ isRegistered(c)
  <2>1. CASE unbinds(c)
    <3>1. /\ session[c].worker \in Worker /\ registry[session[c].worker].conn = c
          /\ registry[session[c].worker].handle = session[c].handle /\ isRegistered(c)
      BY <2>1, CurrentIsBound DEF unbinds, isCurrent
    <3>2. \A w \in Worker \ {session[c].worker} :
            registry[w].handle # 0 => registry[w].conn # c
      BY <1>0 DEF BindingsLive
    <3> QED BY <1>0, <2>1, <3>1, <3>2 DEF SessionShape, WorkersShape
  <2>2. CASE ~ unbinds(c)
    <3>1. \A w \in Worker : registry[w].handle # 0 => registry[w].conn # c
      BY <1>0, <2>2, WorkerAssumption
         DEF BindingsLive, unbinds, isRegistered, isCurrent, NoWorker
    <3> QED BY <2>2, <3>1
  <2> QED BY <2>1, <2>2
<1>3. SessionShape'
  <2>1. WorkersShape'
    BY <1>0 DEF SessionShape, WorkersShape
  <2>2. registry' \in [Worker -> [conn : Conn \cup {NoConn}, handle : Nat]]
    BY <1>0 DEF SessionShape, NoBinding
  <2>3. session' \in [Conn -> SessionRecord]
    BY <1>0 DEF SessionShape, SessionRecord
  <2> QED BY <1>0, <1>1, <2>1, <2>2, <2>3 DEF SessionShape
<1>4. HandlesUnique'
  BY <1>0, <1>1 DEF HandlesUnique, isRegistered
<1>5. BindingsLive'
  BY <1>0, <1>1, <1>2 DEF BindingsLive, NoBinding
<1>6. UnboundOffline'
  BY <1>0, <1>1, <1>2 DEF UnboundOffline
<1>7. LatestWins'
  <2> SUFFICES ASSUME NEW w \in Worker, latest[w] # NoBinding,
                      session'[latest[w].conn].worker = w,
                      session'[latest[w].conn].handle = latest[w].handle
               PROVE  registry'[w] = latest[w]
    BY <1>1 DEF LatestWins
  <2> DEFINE d == latest[w].conn
  <2>1. d \in Conn /\ d # c /\ session'[d] = session[d]
    BY <1>0, <1>1, WorkerAssumption DEF SessionShape, NoWorker
  <2>2. registry[w] = latest[w]
    BY <1>0, <2>1 DEF LatestWins
  <2> QED BY <1>2, <2>1, <2>2
<1> QED BY <1>3, <1>4, <1>5, <1>6, <1>7 DEF SessionInv

\* Only a bound session changes its worker's status; a late worker is OFFLINE.
LEMMA StatusKeeps ==
  ASSUME SessionInv, UNCHANGED <<registry, session, nextHandle, latest>>,
         \/ \E c \in Conn : Heartbeat(c) \/ Drain(c)
         \/ \E late \in SUBSET Worker : Timeout(late)
  PROVE  SessionInv'
<1>0. SessionShape /\ HandlesUnique /\ BindingsLive /\ UnboundOffline /\ LatestWins
  BY DEF SessionInv
<1>1. SessionShape' /\ UnboundOffline'
  <2>1. ASSUME NEW c \in Conn, Heartbeat(c) \/ Drain(c)
        PROVE  SessionShape' /\ UnboundOffline'
    <3>1. session[c].worker \in Worker /\ registry[session[c].worker].handle # 0
      BY <2>1, CurrentIsBound DEF Heartbeat, Drain, accepts
    <3>2. /\ WorkersShape'
          /\ \A w \in Worker \ {session[c].worker} : workers'[w] = workers[w]
      BY <1>0, <2>1, <3>1 DEF Heartbeat, Drain, heartbeat, markDraining, SessionShape, WorkersShape
    <3> QED BY <1>0, <3>1, <3>2 DEF SessionShape, UnboundOffline
  <2>2. ASSUME NEW late \in SUBSET Worker, Timeout(late)
        PROVE  SessionShape' /\ UnboundOffline'
    <3>1. /\ WorkersShape'
          /\ \A w \in Worker : workers'[w].status \in {"OFFLINE", workers[w].status}
      BY <1>0, <2>2 DEF Timeout, checkTimeouts, SessionShape, WorkersShape
    <3> QED BY <1>0, <3>1 DEF SessionShape, UnboundOffline
  <2> QED BY <2>1, <2>2
<1>2. HandlesUnique' /\ BindingsLive' /\ LatestWins'
  BY <1>0 DEF HandlesUnique, BindingsLive, LatestWins, isRegistered
<1> QED BY <1>1, <1>2 DEF SessionInv

\* A transport that fails changes no binding.
LEMMA BreakKeeps ==
  ASSUME SessionInv, NEW c \in Conn, Break(c)
  PROVE  SessionInv'
<1>1. /\ \A d \in Conn : /\ session'[d].worker = session[d].worker
                         /\ session'[d].handle = session[d].handle
                         /\ session'[d].link = "closed" => session[d].link = "closed"
      /\ UNCHANGED <<workers, registry, nextHandle, latest>>
  BY DEF Break, SessionInv, SessionShape, SessionRecord
<1>2. SessionShape'
  <2>1. session' \in [Conn -> SessionRecord]
    BY DEF Break, SessionInv, SessionShape, SessionRecord
  <2> QED BY <1>1, <2>1 DEF SessionInv, SessionShape, WorkersShape
<1>3. HandlesUnique' /\ BindingsLive' /\ UnboundOffline'
  BY <1>1 DEF SessionInv, HandlesUnique, BindingsLive, UnboundOffline, isRegistered
<1>4. LatestWins'
  BY <1>1 DEF SessionInv, SessionShape, LatestWins
<1> QED BY <1>2, <1>3, <1>4 DEF SessionInv

\* Every step of sessions and connections keeps SessionInv.
LEMMA SessionStep == SessionInv /\ [SessionNext]_sessionVars => SessionInv'
<1> SUFFICES ASSUME SessionInv, [SessionNext]_sessionVars PROVE SessionInv'
  OBVIOUS
<1>1. CASE \E c \in Conn, w \in Worker : \E slots \in 1..Slots[w] : Register(c, w, slots)
  BY <1>1, RegisterKeeps
<1>2. CASE \E c \in Conn : Heartbeat(c) \/ Drain(c)
  <2>1. UNCHANGED <<registry, session, nextHandle, latest>>
    BY <1>2 DEF Heartbeat, Drain
  <2> QED BY <1>2, <2>1, StatusKeeps
<1>3. CASE \E late \in SUBSET Worker : Timeout(late)
  <2>1. UNCHANGED <<registry, session, nextHandle, latest>>
    BY <1>3 DEF Timeout
  <2> QED BY <1>3, <2>1, StatusKeeps
<1>4. CASE \E c \in Conn : Break(c) \/ Close(c)
  BY <1>4, BreakKeeps, CloseKeeps
<1>5. CASE UNCHANGED sessionVars
  BY <1>5 DEF sessionVars, SessionInv, SessionShape, WorkersShape, HandlesUnique,
              BindingsLive, UnboundOffline, LatestWins, isRegistered
<1> QED BY <1>1, <1>2, <1>3, <1>4, <1>5 DEF SessionNext

\* WorkerSession::handleClose of a replaced connection never unbinds the
\* worker's newer one, however many connections a worker goes through.
THEOREM NewestBindingSurvives == SessionSpec => []LatestWins
<1>1. SessionInv => LatestWins
  BY DEF SessionInv
<1> QED BY SessionInitial, SessionStep, <1>1, PTL DEF SessionSpec

\* A worker that WorkerManager holds ONLINE or DRAINING always has a live
\* session behind its registry entry: a task sent to it finds a connection.
THEOREM OnlineIsReachable == SessionSpec => []ReachableOrOffline
<1>1. SessionInv => ReachableOrOffline
  BY DEF SessionInv, UnboundOffline, BindingsLive, ReachableOrOffline
<1> QED BY SessionInitial, SessionStep, <1>1, PTL DEF SessionSpec

-----------------------------------------------------------------------------
(* The scheduling driver.                                                  *)

DriverInv == DriverType /\ SingleRunner /\ NoLostRequest

\* Nobody runs passes at the start.
LEMMA DriverInitial == DriverInit => DriverInv
BY Zenon DEF DriverInit, DriverInv, DriverType, SingleRunner, NoLostRequest, Runners

\* A step of one thread changes at most its own place.
LEMMA DriverThreadStep ==
  ASSUME DriverInv, NEW th \in Caller, Changed(th) \/ requestSchedule(th)
  PROVE  DriverInv'
<1> USE DEF Runners
<1>0. DriverType /\ SingleRunner /\ NoLostRequest
  BY DEF DriverInv
<1>1. CASE Changed(th)
  BY <1>0, <1>1 DEF Changed, DriverInv, DriverType, SingleRunner, NoLostRequest
<1>2. CASE Join(th)
  BY <1>0, <1>2 DEF Join, DriverInv, DriverType, SingleRunner, NoLostRequest
<1>3. CASE BecomeRunner(th)
  BY <1>0, <1>3, Zenon DEF BecomeRunner, DriverInv, DriverType, SingleRunner, NoLostRequest
<1>4. CASE PassLooks(th)
  <2>1. DriverType'
    BY <1>0, <1>4, Zenon DEF PassLooks, DriverType
  <2>2. SingleRunner'
    BY <1>0, <1>4 DEF PassLooks, DriverType, SingleRunner
  <2>3. NoLostRequest'
    BY <1>4, Zenon DEF PassLooks, NoLostRequest
  <2> QED BY <2>1, <2>2, <2>3 DEF DriverInv
<1>5. CASE \E throws \in BOOLEAN : PassReturns(th, throws)
  BY <1>0, <1>5 DEF PassReturns, DriverInv, DriverType, SingleRunner, NoLostRequest
<1>6. CASE Again(th)
  BY <1>0, <1>6, Zenon DEF Again, DriverInv, DriverType, SingleRunner, NoLostRequest
<1>7. CASE Finish(th)
  BY <1>0, <1>7, Zenon DEF Finish, DriverInv, DriverType, SingleRunner, NoLostRequest
<1> QED BY <1>1, <1>2, <1>3, <1>4, <1>5, <1>6, <1>7 DEF requestSchedule

\* Every step of the driver keeps DriverInv.
LEMMA DriverStep == DriverInv /\ [DriverNext]_driverVars => DriverInv'
<1> SUFFICES ASSUME DriverInv, [DriverNext]_driverVars PROVE DriverInv'
  OBVIOUS
<1>1. CASE DriverNext
  BY <1>1, DriverThreadStep DEF DriverNext
<1>2. CASE UNCHANGED driverVars
  BY <1>2 DEF driverVars, DriverInv, DriverType, SingleRunner, NoLostRequest, Runners
<1> QED BY <1>1, <1>2

\* requestSchedule never lets two threads run coordinator passes at once, and
\* running_ says so, with any number of calling threads.
THEOREM OnePassAtATime == DriverSpec => []SingleRunner
<1>1. DriverInv => SingleRunner
  BY DEF DriverInv
<1> QED BY DriverInitial, DriverStep, <1>1, PTL DEF DriverSpec

\* No change is left behind by requestSchedule: while no pass has looked at
\* it, a thread is on its way to look, or pending_ makes the runner look.
THEOREM EveryRequestKept == DriverSpec => []NoLostRequest
<1>1. DriverInv => NoLostRequest
  BY DEF DriverInv
<1> QED BY DriverInitial, DriverStep, <1>1, PTL DEF DriverSpec

-----------------------------------------------------------------------------
(* The cache of regression responses.                                      *)


Place == {"idle", "look", "scan", "check", "store", "answered"}

\* The thread holds a response that it has computed and not yet cached.
computed(q) == pc[q] \in {"check", "store"}

\* The entry of the cache, or the response on its way there, that the thread
\* is about to look up.
awaits(q, f, g) == pc[q] = "look" /\ filter[q] = f /\ seen[q] = g

CacheDomains ==
    /\ pc \in [Thread -> Place]
    /\ DOMAIN filter = Thread
    /\ DOMAIN seen = Thread
    /\ DOMAIN response = Thread
    /\ DOMAIN during = Thread

CacheType ==
    /\ generation \in Nat
    /\ cachedGen \in Nat
    /\ cachedGen <= generation
    /\ CacheDomains
    /\ \A q \in Thread : pc[q] = "look" => seen[q] \in Nat /\ seen[q] <= generation
    /\ \A q \in Thread : computed(q) =>
         response[q].generation \in Nat /\ response[q].generation <= generation

\* What is true now is an answer for every query that runs.
NowCounts ==
    \A q \in Thread : pc[q] # "idle" => answer(table, generation, filter[q]) \in during[q]

\* A response of the current generation is what is true now, computed or
\* cached.
CurrentExact ==
    /\ \A q \in Thread : computed(q) /\ response[q].generation = generation =>
         response[q] = answer(table, generation, filter[q])
    /\ cachedGen = generation =>
         \A f \in DOMAIN cache : cache[f] = answer(table, generation, f)

\* A thread that has read a generation began while it was current, so that
\* all responses of it are answers for that query.
SeenCounts ==
    \A q \in Thread :
      /\ \A p \in Thread :
           computed(p) /\ awaits(q, filter[p], response[p].generation) =>
             response[p] \in during[q]
      /\ \A f \in DOMAIN cache : awaits(q, f, cachedGen) => cache[f] \in during[q]

HeldCounts ==
    \A q \in Thread : computed(q) \/ pc[q] = "answered" => response[q] \in during[q]

CacheInv == CacheType /\ NowCounts /\ CurrentExact /\ SeenCounts /\ HeldCounts

-----------------------------------------------------------------------------
\* answer is opaque but for its generation.
LEMMA AnswerGeneration ==
  ASSUME NEW rows, NEW g, NEW f
  PROVE  answer(rows, g, f).generation = g
BY DEF answer

\* room gives up at most an entry, and put adds one.
LEMMA RoomKeeps ==
  ASSUME NEW c, NEW f, NEW d \in room(c, f)
  PROVE  /\ DOMAIN d \subseteq DOMAIN c
         /\ \A g \in DOMAIN d : d[g] = c[g]
BY Zenon DEF room

\* put stores the response under its filter and keeps or drops the others.
LEMMA PutAdds ==
  ASSUME NEW c, NEW f, NEW r, NEW d \in {c, put(c, f, r)}, NEW g \in DOMAIN d
  PROVE  \/ g = f /\ d[g] = r
         \/ g \in DOMAIN c /\ d[g] = c[g]
BY DEF put

\* Init: no query runs and nothing is cached.
LEMMA CacheInit == Init => CacheInv
BY DEF Init, CacheInv, CacheType, CacheDomains, NowCounts, CurrentExact, SeenCounts, HeldCounts,
       computed, awaits, Place, NoResponses

\* The task change moves to a generation that nothing has been read,
\* computed or cached at.
LEMMA RewriteKeeps ==
  ASSUME NEW rows, CacheInv, Rewrite(rows)
  PROVE  CacheInv'
<1>0. CacheType /\ NowCounts /\ CurrentExact /\ SeenCounts /\ HeldCounts
  BY DEF CacheInv
<1>1. /\ generation' = generation + 1 /\ generation' # generation
      /\ UNCHANGED <<cache, cachedGen, pc, filter, seen, response>>
      /\ \A q \in Thread : pc[q] # "idle" =>
           answer(table', generation', filter[q]) \in during'[q]
  BY <1>0 DEF CacheType, CacheDomains, Rewrite, cacheVars
<1>2. \A q \in Thread : during[q] \subseteq during'[q]
  BY <1>0 DEF CacheType, CacheDomains, Rewrite, cacheVars
<1>d. CacheDomains'
  BY <1>0 DEF CacheType, CacheDomains, Place, Rewrite, cacheVars
<1>3. CacheType'
  BY <1>0, <1>1, <1>d DEF CacheType, computed
<1>4. NowCounts'
  BY <1>0, <1>1 DEF CacheType, NowCounts
<1>5. CurrentExact'
  BY <1>0, <1>1 DEF CacheType, CurrentExact, computed
<1>6. SeenCounts'
  BY <1>0, <1>1, <1>2 DEF SeenCounts, computed, awaits
<1>7. HeldCounts'
  BY <1>0, <1>1, <1>2 DEF HeldCounts, computed
<1> QED BY <1>3, <1>4, <1>5, <1>6, <1>7 DEF CacheInv

\* A query that begins reads the generation that is current.
LEMMA BeginKeeps ==
  ASSUME NEW p \in Thread, NEW f, CacheInv, Begin(p, f)
  PROVE  CacheInv'
<1>0. CacheType /\ NowCounts /\ CurrentExact /\ SeenCounts /\ HeldCounts
  BY DEF CacheInv
<1>1. /\ UNCHANGED <<table, generation, cache, cachedGen, response>>
      /\ pc'[p] = "look" /\ filter'[p] = f /\ seen'[p] = generation
      /\ during'[p] = {answer(table, generation, f)}
      /\ ~ computed(p) /\ ~ computed(p)'
  BY <1>0 DEF CacheType, CacheDomains, computed, Begin, cacheVars, serverVars
<1>2. \A q \in Thread \ {p} :
        /\ pc'[q] = pc[q] /\ filter'[q] = filter[q] /\ seen'[q] = seen[q]
        /\ during'[q] = during[q] /\ computed(q)' = computed(q)
  BY <1>0 DEF CacheType, CacheDomains, computed, Begin, cacheVars, serverVars
<1>d. CacheDomains'
  BY <1>0 DEF CacheType, CacheDomains, Place, Begin, cacheVars, serverVars
<1>3. CacheType'
  BY <1>0, <1>1, <1>2, <1>d DEF CacheType
<1>4. NowCounts'
  BY <1>0, <1>1, <1>2 DEF NowCounts
<1>5. CurrentExact'
  BY <1>0, <1>1, <1>2 DEF CurrentExact
<1>6. SeenCounts'
  BY <1>0, <1>1, <1>2 DEF SeenCounts, CurrentExact, awaits
<1>7. HeldCounts'
  BY <1>0, <1>1, <1>2 DEF HeldCounts
<1> QED BY <1>3, <1>4, <1>5, <1>6, <1>7 DEF CacheInv

\* A hit is a response that the query awaits; a miss only forgets.
LEMMA LookKeeps ==
  ASSUME NEW p \in Thread, CacheInv, Look(p)
  PROVE  CacheInv'
<1>0. CacheType /\ NowCounts /\ CurrentExact /\ SeenCounts /\ HeldCounts
  BY DEF CacheInv
<1>1. /\ UNCHANGED <<table, generation, filter, seen, during>>
      /\ cachedGen' = seen[p] /\ pc[p] = "look"
      /\ ~ computed(p) /\ ~ computed(p)' /\ pc'[p] \in {"scan", "answered"}
  BY <1>0 DEF CacheType, CacheDomains, computed, Look, serverVars
<1>2. \A q \in Thread \ {p} :
        pc'[q] = pc[q] /\ response'[q] = response[q] /\ computed(q)' = computed(q)
  BY <1>0 DEF CacheType, CacheDomains, computed, Look, serverVars
<1>3. \A f \in DOMAIN cache' :
        cachedGen' = cachedGen /\ f \in DOMAIN cache /\ cache'[f] = cache[f]
  BY <1>1 DEF lookedUp, NoResponses, Look, serverVars
<1>4. pc'[p] = "answered" => response'[p] \in during[p]
  <2>1. SUFFICES ASSUME pc'[p] = "answered"
                 PROVE  response'[p] \in during[p]
    OBVIOUS
  <2>2. filter[p] \in DOMAIN cache' /\ response'[p] = cache'[filter[p]]
    BY <1>0, <2>1 DEF CacheType, CacheDomains, Look, serverVars
  <2>3. awaits(p, filter[p], cachedGen)
    BY <1>1, <1>3, <2>2 DEF awaits
  <2> QED BY <1>0, <1>3, <2>2, <2>3 DEF SeenCounts
<1>d. CacheDomains'
  BY <1>0 DEF CacheType, CacheDomains, Place, Look, serverVars
<1>5. CacheType'
  BY <1>0, <1>1, <1>2, <1>d DEF CacheType
<1>6. NowCounts'
  BY <1>0, <1>1, <1>2 DEF NowCounts
<1>7. CurrentExact'
  BY <1>0, <1>1, <1>2, <1>3 DEF CurrentExact
<1>8. SeenCounts'
  BY <1>0, <1>1, <1>2, <1>3 DEF SeenCounts, awaits
<1>9. HeldCounts'
  BY <1>0, <1>1, <1>2, <1>4 DEF HeldCounts
<1> QED BY <1>5, <1>6, <1>7, <1>8, <1>9 DEF CacheInv

\* The scan reads the rows and their generation together.
LEMMA ScanKeeps ==
  ASSUME NEW p \in Thread, CacheInv, Scan(p)
  PROVE  CacheInv'
<1>0. CacheType /\ NowCounts /\ CurrentExact /\ SeenCounts /\ HeldCounts
  BY DEF CacheInv
<1>1. /\ UNCHANGED <<table, generation, cache, cachedGen, filter, seen, during>>
      /\ pc[p] = "scan" /\ pc'[p] = "check"
      /\ response'[p] = answer(table, generation, filter[p])
      /\ response'[p].generation = generation
  BY <1>0, AnswerGeneration DEF CacheType, CacheDomains, Scan, serverVars, cacheVars
<1>2. \A q \in Thread \ {p} :
        pc'[q] = pc[q] /\ response'[q] = response[q] /\ computed(q)' = computed(q)
  BY <1>0 DEF CacheType, CacheDomains, computed, Scan, serverVars, cacheVars
<1>d. CacheDomains'
  BY <1>0 DEF CacheType, CacheDomains, Place, Scan, serverVars, cacheVars
<1>3. CacheType'
  BY <1>0, <1>1, <1>2, <1>d DEF CacheType
<1>4. NowCounts'
  BY <1>0, <1>1, <1>2 DEF NowCounts
<1>5. CurrentExact'
  BY <1>0, <1>1, <1>2 DEF CurrentExact
<1>6. SeenCounts'
  BY <1>0, <1>1, <1>2 DEF SeenCounts, NowCounts, awaits
<1>7. HeldCounts'
  BY <1>0, <1>1, <1>2 DEF HeldCounts, NowCounts
<1> QED BY <1>3, <1>4, <1>5, <1>6, <1>7 DEF CacheInv

\* The check changes nothing that the others see.
LEMMA CheckKeeps ==
  ASSUME NEW p \in Thread, CacheInv, Check(p)
  PROVE  CacheInv'
<1>0. CacheType /\ NowCounts /\ CurrentExact /\ SeenCounts /\ HeldCounts
  BY DEF CacheInv
<1>1. /\ UNCHANGED <<table, generation, cache, cachedGen, filter, seen, response, during>>
      /\ computed(p) /\ pc'[p] \in {"store", "answered"} /\ pc[p] = "check"
  BY <1>0 DEF CacheType, CacheDomains, computed, Check, serverVars, cacheVars
<1>2. \A q \in Thread :
        /\ computed(q)' => computed(q)
        /\ \A f, g : awaits(q, f, g)' => awaits(q, f, g)
        /\ q # p => pc'[q] = pc[q]
  BY <1>0, <1>1 DEF CacheType, CacheDomains, computed, awaits, Check, serverVars, cacheVars
<1>d. CacheDomains'
  BY <1>0 DEF CacheType, CacheDomains, Place, Check, serverVars, cacheVars
<1>3. CacheType'
  BY <1>0, <1>1, <1>2, <1>d DEF CacheType
<1>4. NowCounts'
  BY <1>0, <1>1, <1>2 DEF NowCounts
<1>5. CurrentExact'
  BY <1>0, <1>1, <1>2 DEF CurrentExact
<1>6. SeenCounts'
  BY <1>0, <1>1, <1>2 DEF SeenCounts
<1>7. HeldCounts'
  BY <1>0, <1>1, <1>2 DEF HeldCounts
<1> QED BY <1>3, <1>4, <1>5, <1>6, <1>7 DEF CacheInv

\* A response stored late makes its own generation the cache's, without the
\* responses of any other.
LEMMA StoreKeeps ==
  ASSUME NEW p \in Thread, CacheInv, Store(p)
  PROVE  CacheInv'
<1>0. CacheType /\ NowCounts /\ CurrentExact /\ SeenCounts /\ HeldCounts
  BY DEF CacheInv
<1>1. /\ UNCHANGED <<table, generation, filter, seen, response, during>>
      /\ computed(p) /\ ~ computed(p)' /\ pc[p] = "store" /\ pc'[p] = "answered"
      /\ cachedGen' = response[p].generation
  BY <1>0 DEF CacheType, CacheDomains, computed, Store, serverVars
<1>2. \A q \in Thread :
        /\ computed(q)' => computed(q)
        /\ \A f, g : awaits(q, f, g)' => awaits(q, f, g)
        /\ q # p => pc'[q] = pc[q]
  BY <1>0, <1>1 DEF CacheType, CacheDomains, computed, awaits, Store, serverVars
<1>3. \A f \in DOMAIN cache' :
        \/ f = filter[p] /\ cache'[f] = response[p]
        \/ cachedGen' = cachedGen /\ f \in DOMAIN cache /\ cache'[f] = cache[f]
  <2>1. PICK c \in room(storedWith(p), filter[p]) :
          cache' \in {c, put(c, filter[p], response[p])}
    BY DEF Store, serverVars
  <2>2. TAKE f \in DOMAIN cache'
  <2>3. \/ f = filter[p] /\ cache'[f] = response[p]
        \/ f \in DOMAIN c /\ cache'[f] = c[f]
    BY <2>1, PutAdds
  <2>4. f \in DOMAIN c => f \in DOMAIN storedWith(p) /\ c[f] = storedWith(p)[f]
    BY <2>1, RoomKeeps
  <2>5. DOMAIN storedWith(p) # {} => storedWith(p) = cache /\ cachedGen' = cachedGen
    BY <1>1 DEF storedWith, NoResponses, Store, serverVars
  <2> QED BY <2>3, <2>4, <2>5
<1>d. CacheDomains'
  BY <1>0 DEF CacheType, CacheDomains, Place, Store, serverVars
<1>4. CacheType'
  BY <1>0, <1>1, <1>2, <1>d DEF CacheType
<1>5. NowCounts'
  BY <1>0, <1>1, <1>2 DEF NowCounts
<1>6. CurrentExact'
  BY <1>0, <1>1, <1>2, <1>3 DEF CurrentExact
<1>7. SeenCounts'
  BY <1>0, <1>1, <1>2, <1>3 DEF SeenCounts
<1>8. HeldCounts'
  BY <1>0, <1>1, <1>2 DEF HeldCounts
<1> QED BY <1>4, <1>5, <1>6, <1>7, <1>8 DEF CacheInv

\* A query that ends awaits and holds nothing.
LEMMA ReplyKeeps ==
  ASSUME NEW p \in Thread, CacheInv, Reply(p)
  PROVE  CacheInv'
<1>0. CacheType /\ NowCounts /\ CurrentExact /\ SeenCounts /\ HeldCounts
  BY DEF CacheInv
<1>1. /\ UNCHANGED <<table, generation, cache, cachedGen>>
      /\ pc'[p] = "idle"
  BY <1>0 DEF CacheType, CacheDomains, Reply, serverVars, cacheVars
<1>2. \A q \in Thread \ {p} :
        /\ pc'[q] = pc[q] /\ filter'[q] = filter[q] /\ seen'[q] = seen[q]
        /\ response'[q] = response[q] /\ during'[q] = during[q]
  BY <1>0 DEF CacheType, CacheDomains, Reply, serverVars, cacheVars
<1>d. CacheDomains'
  BY <1>0 DEF CacheType, CacheDomains, Place, Reply, serverVars, cacheVars
<1>3. CacheType'
  BY <1>0, <1>1, <1>2, <1>d DEF CacheType, computed
<1>4. NowCounts'
  BY <1>0, <1>1, <1>2 DEF NowCounts
<1>5. CurrentExact'
  BY <1>0, <1>1, <1>2 DEF CurrentExact, computed
<1>6. SeenCounts'
  BY <1>0, <1>1, <1>2 DEF SeenCounts, computed, awaits
<1>7. HeldCounts'
  BY <1>0, <1>1, <1>2 DEF HeldCounts, computed
<1> QED BY <1>3, <1>4, <1>5, <1>6, <1>7 DEF CacheInv

\* The Server starts with an empty cache and no query.
LEMMA RestartKeeps ==
  ASSUME CacheInv, RestartServer
  PROVE  CacheInv'
<1>1. /\ generation' = 1 /\ cachedGen' = 0 /\ cache' = NoResponses
      /\ pc' = [q \in Thread |-> "idle"]
      /\ filter' = [q \in Thread |-> NoFilter]
      /\ seen' = [q \in Thread |-> 0]
      /\ response' = [q \in Thread |-> NoResponse]
      /\ during' = [q \in Thread |-> {}]
  BY DEF RestartServer
<1>2. DOMAIN cache' = {} /\ \A q \in Thread : pc'[q] = "idle"
  BY <1>1 DEF NoResponses
<1>3. CacheType'
  BY <1>1, <1>2 DEF CacheType, CacheDomains, computed, Place
<1>4. NowCounts'
  BY <1>2 DEF NowCounts
<1>5. CurrentExact'
  BY <1>2 DEF CurrentExact, computed
<1>6. SeenCounts'
  BY <1>2 DEF SeenCounts, computed, awaits
<1>7. HeldCounts'
  BY <1>2 DEF HeldCounts, computed
<1> QED
  BY <1>3, <1>4, <1>5, <1>6, <1>7 DEF CacheInv

\* The rest of the state is not looked at.
LEMMA OtherKeeps ==
  ASSUME CacheInv, UNCHANGED <<serverVars, cacheVars, queryVars>>
  PROVE  CacheInv'
BY DEF serverVars, cacheVars, queryVars, CacheInv, CacheType, CacheDomains, NowCounts,
       CurrentExact, SeenCounts, HeldCounts, computed, awaits

\* Every step of threads, clients, tasks and restarts keeps CacheInv.
LEMMA CacheStep == CacheInv /\ [Next]_vars => CacheInv'
<1> SUFFICES ASSUME CacheInv, [Next]_vars PROVE CacheInv'
  OBVIOUS
<1>1. CASE Submit
  BY <1>1, RewriteKeeps DEF Submit
<1>2. CASE End
  BY <1>2, RewriteKeeps DEF End
<1>3. CASE \E q \in Thread : Answering(q)
  <2>1. PICK q \in Thread : Answering(q)
    BY <1>3
  <2>2. CASE \E f \in scenario.filters : AskFirst(q, f)
    BY <2>2, BeginKeeps DEF AskFirst
  <2>3. CASE AskNext(q)
    BY <2>3, BeginKeeps DEF AskNext
  <2> QED BY <2>1, <2>2, <2>3, LookKeeps, ScanKeeps, CheckKeeps, StoreKeeps, ReplyKeeps
          DEF Answering
<1>4. CASE CompareFirst
  BY <1>4, OtherKeeps DEF CompareFirst
<1>5. CASE CompareNext
  BY <1>5, OtherKeeps DEF CompareNext
<1>6. CASE ReviewFirst
  BY <1>6, OtherKeeps DEF ReviewFirst
<1>7. CASE ReviewNext
  BY <1>7, OtherKeeps DEF ReviewNext
<1>8. CASE RestartServer
  BY <1>8, RestartKeeps
<1>9. CASE UNCHANGED vars
  BY <1>9, OtherKeeps DEF vars
<1> QED BY <1>1, <1>2, <1>3, <1>4, <1>5, <1>6, <1>7, <1>8, <1>9 DEF Next

\* RegressionService::query never answers with what was true only before the
\* query began: whatever the other threads look up, drop, store late and
\* evict, with any number of threads, filters and cache entries.
THEOREM CachedAnswersAreCurrent == Spec => []AnswerCurrent
<1>1. CacheInv => AnswerCurrent
  BY DEF CacheInv, HeldCounts, AnswerCurrent
<1> QED BY CacheInit, CacheStep, <1>1, PTL DEF Spec
=============================================================================
