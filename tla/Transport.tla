------------------------------ MODULE Transport ------------------------------
(***************************************************************************)
(* The network transport of the server: EchoServer with its connections,   *)
(* its event loops, the protocol thread pool and the log I/O threads of    *)
(* WorkerServer.                                                           *)
(*                                                                         *)
(* A connection belongs to one event loop.  Only that loop touches its     *)
(* output buffer and its epoll interest; every other thread reaches it     *)
(* through a functor queued in the loop, except that a pool thread whose   *)
(* handler threw stores Disconnected in its state.  Functors of different  *)
(* connections commute; of one connection's functors the packets keep      *)
(* their order (`outgoing'), the others may run at any later time          *)
(* (`posted'), which allows every order the loop has and some more.  Each  *)
(* decoded message goes to the connection's protocol queue, which one task *)
(* of the pool drains.  A log message is answered later, by a log thread.  *)
(*                                                                         *)
(* A message is its number in the connection's input; the reply to a       *)
(* message carries its number.  A message may have none: a registration    *)
(* on a closing connection, a response that cannot be encoded, a handler   *)
(* that throws.  Bytes, frames and metrics are left out.                   *)
(***************************************************************************)
EXTENDS Integers, Sequences, SequencesExt, FiniteSets

CONSTANTS
  Conns,       \* the connections ever made
  Load,        \* Load[c]: how many messages the peer of c sends at most
  LogMsgs,     \* the <<connection, message>> pairs that are log requests
  Threads,     \* the threads of the protocol pool
  QueueLimit,  \* messages a protocol queue holds (512 in the code)
  LogLimit,    \* jobs the log queue holds (64 in the code)
  LogThreads,  \* number of log I/O threads (2 in the code)
  MaxEvent     \* bound on the disturbances of a behaviour: idle-check ticks, broken
               \* connections, messages without a response, handlers that throw

ASSUME TransportAssumption ==
  /\ Load \in [Conns -> Nat]
  /\ LogMsgs \subseteq Conns \X (Nat \ {0})
  /\ QueueLimit \in Nat \ {0}
  /\ LogLimit \in Nat \ {0} /\ LogThreads \in Nat \ {0}
  /\ MaxEvent \in Nat

VARIABLES
  peer,      \* the other end: "open", "half" (write side shut), "gone"
  sent,      \* number of messages the peer sent
  read,      \* number of messages the loop took from the socket
  got,       \* replies written to the socket, in order
  st,        \* ConnState; "none" before accept, "new" inside the accept functor
  conns,     \* connections_: the registered connections
  sessions,  \* WorkerServer::sessions_
  interest,  \* epoll interest besides RDHUP: subset of {"in", "out"}
  output,    \* outputBuffer_, as the replies in it
  tasks,     \* pending_tasks_
  packets,   \* pending_packets_
  queue,     \* protocol_messages_
  active,    \* protocol_active_
  outgoing,  \* functors of sendPacket queued in the owner loop, as their replies
  posted,    \* other functors queued in the owner loop
  closing,   \* how far the loop is in shutdown ("store") and in canBeClosed
             \* ("tasks", "packets", "yes"); "no" outside of them
  site,      \* who evaluates it: "functor", "read" or "write" (event handlers)
  jobs,      \* the pool's task queue: connections to drain
  thread,    \* what each pool thread does: [at, conn, msg]
  logJobs,   \* log_jobs_
  leases,    \* replied log jobs whose PendingLogReply is not yet released
  accepts,   \* pending_accepts_
  stopping,  \* stopping_; the pool accepts tasks exactly while it is FALSE
  timer,     \* the forced-shutdown timer: "off", "armed", "fired"
  finish,    \* a tryFinishShutdown is queued in the base loop
  base,      \* the base loop: "run", "join" (inside pool_.stop), "quit"
  events,    \* disturbances so far, at most MaxEvent
  handled,   \* history: messages passed to protocol_message_, in order
  silent,    \* history: messages whose handling ended without a response
  threw,     \* history: connections a handler of which threw
  cut        \* history: connections closed for another reason than EOF

peerVars == <<peer, sent>>
dataVars == <<read, got, output, packets>>
connVars == <<st, conns, sessions, interest>>
queueVars == <<queue, active, jobs>>
threadVars == <<thread, handled>>
logVars == <<logJobs, leases>>
closeVars == <<closing, site>>
endVars == <<silent, threw, cut>>
baseVars == <<accepts, stopping, timer, finish, base, events>>
vars == <<peerVars, dataVars, connVars, queueVars, threadVars, logVars,
          closeVars, baseVars, tasks, outgoing, posted, endVars>>

Idle == [at |-> "idle"]

Init ==
  /\ peer = [c \in Conns |-> "open"] /\ st = [c \in Conns |-> "none"]
  /\ sent = [c \in Conns |-> 0] /\ read = sent
  /\ tasks = sent /\ packets = sent
  /\ got = [c \in Conns |-> <<>>] /\ output = got
  /\ queue = got /\ outgoing = got /\ handled = got
  /\ conns = {} /\ sessions = {} /\ leases = {}
  /\ cut = {} /\ threw = {} /\ silent = [c \in Conns |-> {}]
  /\ interest = [c \in Conns |-> {}] /\ posted = interest
  /\ active = [c \in Conns |-> FALSE]
  /\ closing = [c \in Conns |-> "no"] /\ site = [c \in Conns |-> "functor"]
  /\ jobs = <<>> /\ logJobs = <<>>
  /\ thread = [t \in Threads |-> Idle]
  /\ accepts = 0 /\ events = 0
  /\ stopping = FALSE /\ finish = FALSE
  /\ timer = "off" /\ base = "run"

(***************************************************************************)
(* Helpers.                                                                *)
(***************************************************************************)
\* The connection was registered and removed again, or never registered.
Removed(c) == st[c] = "Disconnected" /\ c \notin conns

\* EventLoop::queueInLoop: f runs later on the loop of c.  For a removed
\* connection every functor does nothing, and is left out.
queueInLoop(c, f) == posted' = [posted EXCEPT ![c] = IF Removed(c) THEN {} ELSE @ \cup {f}]

\* EchoServer::removeConnection always defers to the owner loop.
removeConnection(c) == queueInLoop(c, "remove")

\* The same from an event handler: the functor runs before the loop polls again.
removeInEvent(c) == queueInLoop(c, "remove now")

\* Mutant: a disconnecting connection is no longer watched for output.
wantWriteConnected(state, out) == state = "Connected" /\ out # <<>>

\* Connection::wantWrite for a connection with this output.
wantWrite(state, out) == out # <<>>

\* EchoServer::updateConnectionEvent for a connection with this state and output.
updateConnectionEvent(c, state, out) ==
  interest' = [interest EXCEPT ![c] =
    IF c \notin conns THEN @
    ELSE {e \in {"in", "out"} :
            \/ e = "in" /\ ~ stopping /\ state = "Connected"
            \/ e = "out" /\ wantWrite(state, out)}]

\* Mutant: removeConnection does not call tryFinishShutdown.
finishKept == finish

\* tryFinishShutdown is queued in the base loop.  Without a shutdown it does
\* nothing, and beginShutdown calls it itself.
finishAsked == finish \/ stopping

\* Mutant: pending_packets_ is read before pending_tasks_.
pendingSwapped(k, c) == IF k = "tasks" THEN packets[c] = 0 ELSE tasks[c] = 0

\* The atomic loads that end Connection::canBeClosed: of pending_tasks_, then of
\* pending_packets_.  Another thread may move before, between and after them.
nonePending(k, c) == IF k = "tasks" THEN tasks[c] = 0 ELSE packets[c] = 0

\* The loop evaluates canBeClosed: up to the load of pending_tasks_.
AskClose(c, state, out, who) ==
  LET on == state = "Disconnecting" /\ out = <<>>
  IN  /\ closing' = [closing EXCEPT ![c] = IF on THEN "tasks" ELSE "no"]
      /\ site' = [site EXCEPT ![c] = IF on THEN who ELSE "functor"]

\* Connection::shutdown up to its store, which is a step of its own and may
\* overwrite the Disconnected of a handler that threw in between; then
\* updateConnectionEvent and canBeClosed.
shutdown(c, who) ==
  IF st[c] = "Connected"
  THEN /\ closing' = [closing EXCEPT ![c] = "store"]
       /\ site' = [site EXCEPT ![c] = who]
       /\ UNCHANGED interest
  ELSE updateConnectionEvent(c, st[c], output[c]) /\ AskClose(c, st[c], output[c], who)

\* Connection::sendPacket: count the packet, then hand it to the loop.
sendPacket(c, m) ==
  IF st[c] = "Disconnected"
  THEN UNCHANGED <<packets, outgoing>>
  ELSE /\ packets' = [packets EXCEPT ![c] = @ + 1]
       /\ outgoing' = [outgoing EXCEPT ![c] = Append(@, m)]

\* The connection's loop is between two events.
LoopFree(c) == closing[c] = "no" /\ st[c] # "new"

\* The loop may report a socket event of c.
Polled(c) == LoopFree(c) /\ c \in conns /\ "remove now" \notin posted[c]

(***************************************************************************)
(* The peer.                                                               *)
(***************************************************************************)
\* The peer shuts its write side and still reads, or the connection breaks.
PeerLeaves(c, how) ==
  /\ st[c] \notin {"none", "Disconnected"} /\ peer[c] # "gone" /\ peer[c] # how
  /\ events' = IF how = "gone" THEN events + 1 ELSE events
  /\ events' <= MaxEvent
  /\ peer' = [peer EXCEPT ![c] = how]
  /\ UNCHANGED <<sent, dataVars, connVars, queueVars, threadVars, logVars, closeVars,
                 accepts, stopping, timer, finish, base, tasks, outgoing, posted, endVars>>

(***************************************************************************)
(* Accepting a connection.                                                 *)
(***************************************************************************)
\* Acceptor::handleAccept, in the base loop: c is the next connection of the
\* backlog.  What the peer sends is in the socket from the start: the loop may
\* read it arbitrarily late.
handleAccept(c) ==
  /\ st[c] = "none" /\ posted[c] = {}
  /\ \E n \in 0..Load[c] : sent' = [sent EXCEPT ![c] = n]

\* EchoServer::handleNewConnection, called with the connection just accepted.
HandleNewConnection(c) ==
  /\ base = "run" /\ ~ stopping
  /\ handleAccept(c)
  /\ accepts' = accepts + 1
  /\ queueInLoop(c, "accept")
  /\ UNCHANGED <<peer, dataVars, connVars, queueVars, threadVars, logVars,
                 closeVars, stopping, timer, finish, base, events, tasks, outgoing, endVars>>

\* The functor of handleNewConnection tests stopping_ ...
AcceptTests(c) ==
  /\ st' = [st EXCEPT ![c] = IF stopping THEN "Disconnected" ELSE "new"]
  /\ accepts' = IF stopping THEN accepts - 1 ELSE accepts
  /\ finish' = finishAsked
  /\ cut' = IF stopping THEN cut \cup {c} ELSE cut
  /\ posted' = [posted EXCEPT ![c] = @ \ {"accept"}]
  /\ UNCHANGED <<conns, sessions, interest, dataVars, tasks, outgoing, closeVars,
                 silent, threw>>

\* ... and then registers the connection: a shutdown may have begun between.
AcceptRegisters(c) ==
  /\ st[c] = "new"
  /\ st' = [st EXCEPT ![c] = "Connected"]
  /\ conns' = conns \cup {c} /\ sessions' = sessions \cup {c}
  /\ interest' = [interest EXCEPT ![c] = {"in"}]
  /\ accepts' = accepts - 1
  /\ finish' = finishAsked
  /\ UNCHANGED <<peerVars, dataVars, queueVars, threadVars, logVars, closeVars,
                 stopping, timer, base, events, tasks, outgoing, posted, endVars>>

(***************************************************************************)
(* Functors run by the connection's loop (EventLoop::doPending, in order). *)
(***************************************************************************)
\* The functor of sendPacket: append to the output, then on_write_ready_.
PacketRuns(c) ==
  /\ LoopFree(c) /\ outgoing[c] # <<>>
  /\ LET gone == st[c] = "Disconnected"
         out == IF gone THEN output[c] ELSE Append(output[c], Head(outgoing[c]))
     IN  /\ packets' = [packets EXCEPT ![c] = @ - 1]
         /\ output' = [output EXCEPT ![c] = out]
         /\ IF gone THEN UNCHANGED interest ELSE updateConnectionEvent(c, st[c], out)
  /\ outgoing' = [outgoing EXCEPT ![c] = Tail(@)]
  /\ UNCHANGED <<peerVars, read, got, st, conns, sessions, queueVars, threadVars,
                 logVars, closeVars, baseVars, tasks, posted, endVars>>

\* The functor the pool task leaves when the protocol queue is empty.
CheckRuns(c) ==
  /\ posted' = [posted EXCEPT ![c] =
       (@ \ {"check"}) \cup (IF st[c] = "Disconnected" THEN {"remove"} ELSE {})]
  /\ AskClose(c, st[c], output[c], "functor")
  /\ UNCHANGED <<dataVars, connVars, tasks, outgoing, accepts, finish, endVars>>

\* The functor of beginShutdown.
ShutdownRuns(c) ==
  /\ posted' = [posted EXCEPT ![c] = @ \ {"shutdown"}]
  /\ shutdown(c, "functor")
  /\ cut' = cut \cup {c}
  /\ UNCHANGED <<dataVars, st, conns, sessions, tasks, outgoing, accepts, finish,
                 silent, threw>>

\* The functor of removeConnection.  The session goes with the connection, the
\* output is lost and what is still queued will find the connection removed.
RemoveRuns(c) ==
  /\ conns' = conns \ {c} /\ sessions' = sessions \ {c}
  /\ st' = [st EXCEPT ![c] = "Disconnected"]
  /\ interest' = [interest EXCEPT ![c] = {}]
  /\ posted' = [posted EXCEPT ![c] = {}]
  /\ outgoing' = [outgoing EXCEPT ![c] = <<>>]
  /\ packets' = [packets EXCEPT ![c] = 0]
  /\ output' = [output EXCEPT ![c] = <<>>]
  /\ finish' = finishAsked
  /\ UNCHANGED <<read, got, tasks, closeVars, accepts, endVars>>

DoPending(c) ==
  /\ LoopFree(c)
  /\ \/ "accept" \in posted[c] /\ AcceptTests(c)
     \/ "check" \in posted[c] /\ CheckRuns(c)
     \/ "shutdown" \in posted[c] /\ ShutdownRuns(c)
     \/ {"remove", "remove now"} \cap posted[c] # {} /\ RemoveRuns(c)
  /\ UNCHANGED <<peerVars, queueVars, threadVars, logVars, stopping, timer,
                 base, events>>

(***************************************************************************)
(* Socket events (EchoServer::handleClientEvent).                          *)
(***************************************************************************)
\* Mutant: a message that finds the queue active starts a drain task, too.
startsDrainAlways(c) == TRUE

\* enqueueProtocolMessage returns 1: the caller starts the drain task.
startsDrain(c) == ~ active[c]

\* pending_tasks_ after a message is refused: handleRead counted it, and it is
\* taken back alone or with the messages abandonProtocolMessages drops.
tasksAfterRefusal(c, fits) == IF fits THEN tasks[c] - Len(queue[c]) ELSE tasks[c]

\* EchoServer::onMessage with Connection::enqueueProtocolMessage: message m is
\* queued, handed to the pool with a new drain task, or ends the connection
\* (queue full, or the pool takes no more tasks).
OnMessage(c, m) ==
  LET fits == Len(queue[c]) < QueueLimit
      takes == fits /\ (active[c] \/ ~ stopping)
  IN  /\ active' = [active EXCEPT ![c] = takes \/ (@ /\ ~ fits)]
      /\ IF takes
         THEN /\ queue' = [queue EXCEPT ![c] = Append(@, m)]
              /\ tasks' = [tasks EXCEPT ![c] = @ + 1]
              /\ jobs' = IF startsDrain(c) THEN Append(jobs, c) ELSE jobs
              /\ updateConnectionEvent(c, st[c], output[c])
              /\ UNCHANGED <<st, posted, cut>>
         ELSE /\ queue' = [queue EXCEPT ![c] = IF fits THEN <<>> ELSE @]
              /\ tasks' = [tasks EXCEPT ![c] = tasksAfterRefusal(c, fits)]
              /\ st' = [st EXCEPT ![c] = "Disconnected"]
              /\ removeInEvent(c)
              /\ updateConnectionEvent(c, "Disconnected", output[c])
              /\ cut' = cut \cup {c}
              /\ UNCHANGED jobs

\* handleClientEvent needs a registered connection that is not yet closed and
\* an epoll event: RDHUP is always of interest, input only while "in" is.
Readable(c) ==
  /\ Polled(c) /\ st[c] # "Disconnected"
  /\ peer[c] = "half" \/ (peer[c] = "open" /\ "in" \in interest[c])

\* Connection::handleRead takes one message.
HandleRead(c) ==
  /\ Readable(c) /\ read[c] < sent[c]
  /\ read' = [read EXCEPT ![c] = @ + 1]
  /\ OnMessage(c, read[c] + 1)
  /\ UNCHANGED <<peerVars, got, output, packets, conns, sessions, threadVars,
                 logVars, closeVars, baseVars, outgoing, silent, threw>>

\* Connection::handleRead finds the end of the input: recv returned 0.
HandleEof(c) ==
  /\ Readable(c) /\ peer[c] = "half" /\ read[c] = sent[c]
  /\ shutdown(c, "read")
  /\ UNCHANGED <<peerVars, dataVars, st, conns, sessions, queueVars, threadVars,
                 logVars, baseVars, tasks, outgoing, posted, endVars>>

\* Connection::handleWrite: the socket takes a part of the output, or all of it;
\* then canBeClosed is evaluated.
HandleWrite(c) ==
  /\ Polled(c) /\ st[c] # "Disconnected"
  /\ peer[c] # "gone" /\ "out" \in interest[c]
  /\ \E n \in 1..Len(output[c]) :
       LET left == SubSeq(output[c], n + 1, Len(output[c]))
       IN  /\ got' = [got EXCEPT ![c] = @ \o SubSeq(output[c], 1, n)]
           /\ output' = [output EXCEPT ![c] = left]
           /\ updateConnectionEvent(c, st[c], left)
           /\ AskClose(c, st[c], left, "write")
  /\ UNCHANGED <<peerVars, read, packets, st, conns, sessions, queueVars,
                 threadVars, logVars, baseVars, tasks, outgoing, posted, endVars>>

\* The connection broke: EPOLLERR or EPOLLHUP, or send fails.
HandleHangup(c) ==
  /\ Polled(c) /\ peer[c] = "gone"
  /\ \/ UNCHANGED st
     \/ "out" \in interest[c] /\ st' = [st EXCEPT ![c] = "Disconnected"]
  /\ removeInEvent(c)
  /\ cut' = cut \cup {c}
  /\ UNCHANGED <<peerVars, dataVars, conns, sessions, interest, queueVars,
                 threadVars, logVars, closeVars, baseVars, tasks, outgoing, silent, threw>>

\* handleClientEvent finds a connection that a pool thread has disconnected.
HandleDisconnected(c) ==
  /\ Polled(c) /\ st[c] = "Disconnected" /\ peer[c] # "gone"
  /\ \/ peer[c] = "half" \/ "out" \in interest[c]
     \/ "in" \in interest[c] /\ read[c] < sent[c]
  /\ removeInEvent(c)
  /\ UNCHANGED <<peerVars, dataVars, connVars, queueVars, threadVars, logVars,
                 closeVars, baseVars, tasks, outgoing, endVars>>

\* The store of Connection::shutdown, and what follows the call.
ShutdownStores(c) ==
  /\ closing[c] = "store"
  /\ st' = [st EXCEPT ![c] = "Disconnecting"]
  /\ updateConnectionEvent(c, "Disconnecting", output[c])
  /\ AskClose(c, "Disconnecting", output[c], site[c])
  /\ UNCHANGED <<peerVars, dataVars, conns, sessions, queueVars, threadVars,
                 logVars, baseVars, tasks, outgoing, posted, endVars>>

\* The two loads of canBeClosed, then the removal it decides; handleWrite also
\* marks the connection Disconnected.
CloseReads(c) ==
  /\ closing[c] \in {"tasks", "packets"}
  /\ closing' = [closing EXCEPT ![c] =
       IF ~ nonePending(@, c) THEN "no" ELSE IF @ = "tasks" THEN "packets" ELSE "yes"]
  /\ UNCHANGED <<peerVars, dataVars, connVars, queueVars, threadVars, logVars,
                 site, baseVars, tasks, outgoing, posted, endVars>>

CloseDecides(c) ==
  /\ closing[c] = "yes"
  /\ closing' = [closing EXCEPT ![c] = "no"]
  /\ st' = [st EXCEPT ![c] = IF site[c] = "write" THEN "Disconnected" ELSE @]
  /\ site' = [site EXCEPT ![c] = "functor"]
  /\ IF site[c] = "functor" THEN removeConnection(c) ELSE removeInEvent(c)
  /\ UNCHANGED <<peerVars, dataVars, conns, sessions, interest, queueVars,
                 threadVars, logVars, baseVars, tasks, outgoing, endVars>>

(***************************************************************************)
(* The pool threads (ThreadPool::worker with the drain task of onMessage). *)
(***************************************************************************)
\* Threads are alike: the job goes to a fixed one of the idle threads.
TakeJob(t) ==
  /\ jobs # <<>> /\ thread[t] = Idle
  /\ t = CHOOSE u \in Threads : thread[u] = Idle
  /\ thread' = [thread EXCEPT ![t] = [at |-> "next", conn |-> Head(jobs)]]
  /\ jobs' = Tail(jobs)
  /\ UNCHANGED <<peerVars, dataVars, connVars, queue, active, handled, logVars,
                 closeVars, baseVars, tasks, outgoing, posted, endVars>>

\* Connection::nextProtocolMessage: the next message, or no longer active.
NextMessage(t) ==
  /\ thread[t].at = "next"
  /\ LET c == thread[t].conn
     IN  IF queue[c] = <<>>
         THEN /\ active' = [active EXCEPT ![c] = FALSE]
              /\ thread' = [thread EXCEPT ![t].at = "report"]
              /\ UNCHANGED queue
         ELSE /\ queue' = [queue EXCEPT ![c] = Tail(@)]
              /\ thread' = [thread EXCEPT ![t] =
                   [at |-> "handle", conn |-> c, msg |-> Head(queue[c])]]
              /\ UNCHANGED active
  /\ UNCHANGED <<peerVars, dataVars, connVars, jobs, handled, logVars,
                 closeVars, baseVars, tasks, outgoing, posted, endVars>>

\* WorkerServer::attach queues a log job under a PendingLogReply.
queueLog(c, m) ==
  /\ logJobs' = Append(logJobs, <<c, m>>)
  /\ tasks' = [tasks EXCEPT ![c] = @ + 1]
  /\ UNCHANGED <<packets, outgoing, silent, events>>

\* A response that is encoded is sent; there may be none: it cannot be encoded,
\* or the handler returns or throws before it has one.
sendResponse(c, m, throws) ==
  /\ \/ sendPacket(c, m) /\ UNCHANGED silent
     \/ silent' = [silent EXCEPT ![c] = @ \cup {m}] /\ UNCHANGED <<packets, outgoing>>
  /\ events' = IF throws \/ silent' # silent THEN events + 1 ELSE events
  /\ events' <= MaxEvent

\* ConnectionSession::onMessage and the sessions behind it: a response to what
\* was decoded, allowed and handled or not, except for a registration on a
\* connection that closes.  They may throw, before or after the response.
sessionReplies(c, m, throws) == sendResponse(c, m, throws) /\ UNCHANGED <<tasks, logJobs>>

\* protocol_message_: a request of an open session is answered by the session,
\* a log request by a log thread unless the log queue is full.  A session that
\* throws leaves the thread at the catch of the drain task.
HandleMessage(t) ==
  /\ thread[t].at = "handle"
  /\ LET c == thread[t].conn
         m == thread[t].msg
         open == st[c] # "Disconnected" /\ c \in sessions
         isLog == <<c, m>> \in LogMsgs /\ Len(logJobs) < LogLimit
         next(at) == thread' = [thread EXCEPT ![t].at = at]
     IN  /\ handled' = IF open THEN [handled EXCEPT ![c] = Append(@, m)] ELSE handled
         /\ \/ /\ ~ open /\ next("release")
               /\ UNCHANGED <<tasks, packets, outgoing, logJobs, silent, events>>
            \/ open /\ isLog /\ next("release") /\ queueLog(c, m)
            \/ open /\ ~ isLog /\ next("release") /\ sessionReplies(c, m, FALSE)
            \/ open /\ ~ isLog /\ next("catch") /\ sessionReplies(c, m, TRUE)
  /\ UNCHANGED <<peerVars, read, got, output, connVars, queueVars, leases, closeVars,
                 accepts, stopping, timer, finish, base, posted, threw, cut>>

\* The catch of the drain task: the pool thread disconnects the connection.
CatchMessage(t) ==
  /\ thread[t].at = "catch"
  /\ thread' = [thread EXCEPT ![t].at = "release"]
  /\ LET c == thread[t].conn
     IN  /\ st' = [st EXCEPT ![c] = "Disconnected"]
         /\ threw' = threw \cup {c} /\ cut' = cut \cup {c}
  /\ UNCHANGED <<peerVars, dataVars, conns, sessions, interest, queueVars, handled,
                 logVars, closeVars, baseVars, tasks, outgoing, posted, silent>>

ReleaseMessage(t) ==
  /\ thread[t].at = "release"
  /\ thread' = [thread EXCEPT ![t] = [at |-> "next", conn |-> @.conn]]
  /\ tasks' = [tasks EXCEPT ![thread[t].conn] = @ - 1]
  /\ UNCHANGED <<peerVars, dataVars, connVars, queueVars, handled, logVars,
                 closeVars, baseVars, outgoing, posted, endVars>>

\* The drain task ends: the loop is asked to check the connection.
EndJob(t) ==
  /\ thread[t].at = "report"
  /\ thread' = [thread EXCEPT ![t] = Idle]
  /\ queueInLoop(thread[t].conn, "check")
  /\ UNCHANGED <<peerVars, dataVars, connVars, queueVars, handled, logVars,
                 closeVars, baseVars, tasks, outgoing, endVars>>

PoolStep(t) ==
  TakeJob(t) \/ NextMessage(t) \/ HandleMessage(t) \/ CatchMessage(t)
  \/ ReleaseMessage(t) \/ EndJob(t)

(***************************************************************************)
(* The log I/O threads of WorkerServer.                                    *)
(***************************************************************************)
\* A log thread runs the first job and sends its reply, if the job gets to one ...
LogReply ==
  /\ logJobs # <<>> /\ Cardinality(leases) < LogThreads
  /\ logJobs' = Tail(logJobs)
  /\ leases' = leases \cup {Head(logJobs)}
  /\ sendResponse(Head(logJobs)[1], Head(logJobs)[2], FALSE)
  /\ UNCHANGED <<peerVars, read, got, output, connVars, queueVars, threadVars, closeVars,
                 accepts, stopping, timer, finish, base, tasks, posted, threw, cut>>

\* ... and releases the PendingLogReply when the job is destroyed.  Nobody is
\* told: the connection is looked at again by its next event.
LogRelease(l) ==
  /\ l \in leases
  /\ leases' = leases \ {l}
  /\ tasks' = [tasks EXCEPT ![l[1]] = @ - 1]
  /\ UNCHANGED <<peerVars, dataVars, connVars, queueVars, threadVars, logJobs,
                 closeVars, baseVars, outgoing, posted, endVars>>

(***************************************************************************)
(* The base loop: idle check, shutdown.                                    *)
(***************************************************************************)
queueAll(cs, f) ==
  posted' = [c \in Conns |-> IF c \in cs THEN posted[c] \cup {f} ELSE posted[c]]

\* The 5 s timer of EchoServer::run, as its functor for a connection it finds
\* idle for too long or already disconnected.  (It waits in the loop like any
\* other; the tick may come at any time, so only its run is a step.)
IdleCheck(c) ==
  /\ LoopFree(c) /\ c \in conns /\ base # "quit" /\ events < MaxEvent
  /\ events' = events + 1
  /\ IF st[c] = "Disconnected"
     THEN removeConnection(c) /\ UNCHANGED <<interest, closeVars, cut>>
     ELSE shutdown(c, "functor") /\ cut' = cut \cup {c} /\ UNCHANGED posted
  /\ UNCHANGED <<peerVars, dataVars, st, conns, sessions, queueVars, threadVars, logVars,
                 accepts, stopping, timer, finish, base, tasks, outgoing, silent, threw>>

\* EchoServer::beginShutdown on the stop signal: no more accepts, no more pool
\* tasks, every registered connection is told; the call of tryFinishShutdown
\* that ends it is the pending `finish'.
BeginShutdown ==
  /\ base = "run" /\ ~ stopping
  /\ stopping' = TRUE /\ timer' = "armed" /\ finish' = TRUE
  /\ queueAll(conns, "shutdown")
  /\ UNCHANGED <<peerVars, dataVars, connVars, queueVars, threadVars, logVars,
                 closeVars, accepts, base, events, tasks, outgoing, endVars>>

\* The forced-shutdown timer fires once.  An accept functor that passed its test
\* of stopping_ has ended by then (it takes far less than the 30 s).
ForceShutdown ==
  /\ base = "run" /\ timer = "armed" /\ \A c \in Conns : st[c] # "new"
  /\ timer' = "fired"
  /\ queueAll(conns, "remove")
  /\ cut' = cut \cup conns
  /\ UNCHANGED <<peerVars, dataVars, connVars, queueVars, threadVars, logVars,
                 closeVars, accepts, stopping, finish, base, events, tasks, outgoing,
                 silent, threw>>

\* EchoServer::tryFinishShutdown up to pool_.stop ...
TryFinishShutdown ==
  /\ base = "run" /\ finish
  /\ finish' = FALSE
  /\ IF accepts = 0 /\ conns = {}
     THEN timer' = "off" /\ base' = "join"
     ELSE UNCHANGED <<timer, base>>
  /\ UNCHANGED <<peerVars, dataVars, connVars, queueVars, threadVars, logVars,
                 closeVars, accepts, stopping, events, tasks, outgoing, posted, endVars>>

\* ... which joins the pool threads once they have run every task; then quit.
PoolStopped ==
  /\ base = "join" /\ jobs = <<>> /\ \A t \in Threads : thread[t] = Idle
  /\ base' = "quit"
  /\ UNCHANGED <<peerVars, dataVars, connVars, queueVars, threadVars, logVars,
                 closeVars, accepts, stopping, timer, finish, events, tasks, outgoing, posted, endVars>>

(***************************************************************************)
(* Specification.                                                          *)
(***************************************************************************)
LoopStep(c) ==
  \/ AcceptRegisters(c) \/ HandleRead(c) \/ HandleEof(c) \/ HandleHangup(c)
  \/ HandleDisconnected(c) \/ ShutdownStores(c) \/ CloseReads(c) \/ CloseDecides(c)

Next ==
  \/ \E c \in Conns :
       \/ HandleNewConnection(c)
       \/ \E how \in {"half", "gone"} : PeerLeaves(c, how)
       \/ LoopStep(c) \/ PacketRuns(c) \/ DoPending(c) \/ HandleWrite(c) \/ IdleCheck(c)
  \/ \E t \in Threads : PoolStep(t)
  \/ LogReply \/ \E l \in LogMsgs : LogRelease(l)
  \/ BeginShutdown \/ ForceShutdown
  \/ TryFinishShutdown \/ PoolStopped

\* Threads run.  A loop runs all queued functors in every turn, so a functor is
\* not starved by socket events that keep coming back: strong fairness.  No
\* fairness for the peers, and so none for the writes that need a reader.
Fairness ==
  /\ \A c \in Conns : WF_vars(LoopStep(c)) /\ SF_vars(PacketRuns(c))
                      /\ SF_vars(DoPending(c))
  /\ \A t \in Threads : WF_vars(PoolStep(t))
  /\ WF_vars(LogReply) /\ \A l \in LogMsgs : WF_vars(LogRelease(l))
  /\ WF_vars(ForceShutdown) /\ WF_vars(TryFinishShutdown) /\ WF_vars(PoolStopped)

Spec == Init /\ [][Next]_vars /\ Fairness

(***************************************************************************)
(* Properties.                                                             *)
(***************************************************************************)
\* A graceful close loses no reply.  Whenever canBeClosed holds, each message
\* read so far has been handled and its reply, if its handler had one, is in the
\* socket, log replies of other threads included; a handler that threw is
\* reason to close without.  A connection that only ended because its peer shut
\* the write side was sent every reply to everything the peer had sent.
RepliesBeforeClose ==
  \A c \in Conns :
    LET answered == ToSet(got[c]) \cup silent[c]
    IN  /\ closing[c] = "yes" /\ c \notin threw => 1..read[c] \subseteq answered
        /\ st[c] = "Disconnected" /\ c \notin cut => 1..sent[c] \subseteq answered

\* Messages of a connection are handled one at a time, in the order sent, and
\* unless a handler throws with none left out in the middle; a waiting message
\* always has exactly one drain task, queued in the pool or running; and
\* pending_tasks_, which holds a close back, counts exactly the messages and log
\* replies that are still owed.
DrainedInOrder ==
  \A c \in Conns :
    LET drains == {t \in Threads : /\ thread[t].at \in {"next", "handle", "catch", "release"}
                                   /\ thread[t].conn = c}
        waiting == {i \in DOMAIN jobs : jobs[i] = c}
    IN  /\ \A i, j \in DOMAIN handled[c] : i < j => handled[c][i] < handled[c][j]
        /\ c \notin threw => handled[c] = [i \in DOMAIN handled[c] |-> i]
        /\ Cardinality(drains) + Cardinality(waiting) = (IF active[c] THEN 1 ELSE 0)
        /\ queue[c] # <<>> => active[c]
        /\ tasks[c] = Len(queue[c]) + Cardinality({t \in drains : thread[t].at # "next"})
                      + Cardinality({i \in DOMAIN logJobs : logJobs[i][1] = c})
                      + Cardinality({l \in leases : l[1] = c})

\* A peer that shuts its write side and reads its replies is closed by the
\* server in the end, although nothing wakes the loop when a log reply's lease
\* is released after the reply was written.
HalfCloseEnds ==
  \A c \in Conns :
    WF_vars(HandleWrite(c)) => (peer[c] = "half" /\ c \in conns ~> c \notin conns)

\* Once shutdown has begun the base loop quits, whatever the peers do: also
\* with peers that never read, a connection accepted while shutdown begins, or
\* a lease released after the last event.
ShutdownFinishes == stopping ~> base = "quit"
=============================================================================
