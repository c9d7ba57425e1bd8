----------------------------- MODULE HttpServer ------------------------------
(***************************************************************************)
(* The class HttpServer of HttpServer.hpp: its two routes, the in-flight   *)
(* counter, the shutdown handshake between a worker thread, the shutdown   *)
(* thread and the main thread, and as much of httplib's listen(), stop()   *)
(* and worker loop as that handshake rests on.                             *)
(*                                                                         *)
(* A member of Requests is one client connection.  A worker serves it from *)
(* the time it picks it up until the connection is closed.  Every atomic   *)
(* access, lock operation and thread operation is an action of its own;    *)
(* accesses to atomics are taken to be sequentially consistent.            *)
(***************************************************************************)
EXTENDS Integers, FiniteSets

CONSTANTS
  Requests,         \* client connections
  Messages,         \* the requests a client may send
  Token,            \* --shutdown-token, None when it is empty
  None,             \* the empty string, or no value
  ShutdownTimeout,  \* --shutdown-timeout-ms, 0 = wait indefinitely
  PoolSize          \* worker threads of httplib's task queue

\* A message names its route (POST /api, POST /shutdown, or an OPTIONS preflight
\* for either) and the credentials in its two headers; scheme tells whether
\* Authorization carries its value behind the prefix "Bearer ".
ASSUME MessagesShaped ==
  \A m \in Messages :
    /\ m.route \in {"api", "shutdown", "options"}
    /\ {"scheme", "authorization", "adminToken"} \subseteq DOMAIN m
ASSUME RequestsFinite == IsFiniteSet(Requests)
ASSUME NoneIsNoRequest == None \notin Requests
ASSUME ShutdownTimeoutNat == ShutdownTimeout \in Nat
ASSUME PoolSizePositive == PoolSize \in Nat \ {0}

VARIABLES
  pc,                  \* per connection: where its handler stands
  message,             \* per connection: the request being handled
  response,            \* per connection: the HTTP status of its answer
  shutting_down,       \* atomic flag, closes the gate
  shutdown_requested,  \* atomic flag, elects the one initiator
  in_flight,           \* atomic counter of requests inside InFlightGuard
  listening,           \* httplib: svr_sock_ is valid
  main,                \* the main thread, in run()
  waiter,              \* the shutdown thread
  joinable,            \* shutdown_thread_ holds a thread
  acked,               \* history: who has been sent a 202 answer
  winner,              \* history: the request whose compare-exchange won
  receivedAfter        \* history: per connection, acked when it was read

handlerVars == <<message, response, receivedAfter>>
flagVars == <<shutting_down, shutdown_requested, in_flight>>
threadVars == <<listening, main, waiter, joinable>>
ackVars == <<acked, winner>>
vars == <<pc, handlerVars, flagVars, threadVars, ackVars>>

\* Handler positions from the read of a request to the sending of its answer.
Handling == {"preflight", "gate", "begin", "analyze", "end", "notify",
             "authorize", "cas", "close", "spawn", "assign", "reply"}

\* The requests that hold an InFlightGuard.
InFlight == {r \in Requests : pc[r] \in {"analyze", "end"}}

\* The connections that occupy a worker thread.
Busy == {r \in Requests : pc[r] \in Handling \cup {"reading"}}

TypeOK ==
  /\ pc \in [Requests -> Handling \cup {"idle", "queued", "reading"}]
  /\ message \in [Requests -> Messages \cup {None}]
  /\ response \in [Requests -> {0, 200, 202, 400, 403, 503}]
  /\ shutting_down \in BOOLEAN
  /\ shutdown_requested \in BOOLEAN
  /\ in_flight \in Int
  /\ listening \in BOOLEAN
  /\ main \in {"start", "accepting", "draining", "finalize", "exited"}
  /\ waiter \in {"none", "stop", "check", "block", "waiting", "done", "expired"}
  /\ joinable \in BOOLEAN
  /\ acked \subseteq {"winner", "any"}
  /\ winner \in Requests \cup {None}
  /\ receivedAfter \in [Requests -> SUBSET {"winner", "any"}]

Init ==
  /\ pc = [r \in Requests |-> "idle"]
  /\ message = [r \in Requests |-> None]
  /\ response = [r \in Requests |-> 0]
  /\ shutting_down = FALSE
  /\ shutdown_requested = FALSE
  /\ in_flight = 0
  /\ listening = FALSE
  /\ main = "start"
  /\ waiter = "none"
  /\ joinable = FALSE
  /\ acked = {}
  /\ winner = None
  /\ receivedAfter = [r \in Requests |-> {}]

-----------------------------------------------------------------------------
\* The listener and the workers of httplib.

goto(r, there) == pc' = [pc EXCEPT ![r] = there]

\* Between two requests of a connection a worker tests whether the listening
\* socket is still valid; it does not test again before it reads.
serveNext == IF listening THEN "reading" ELSE "idle"

\* server_.listen: bind and listen, or fail to bind and return at once.
Listen ==
  /\ main = "start"
  /\ \/ main' = "accepting" /\ listening' = TRUE
     \/ main' = "finalize" /\ UNCHANGED listening
  /\ UNCHANGED <<pc, handlerVars, flagVars, waiter, joinable, ackVars>>

\* The accept loop hands a new connection to the task queue.
Accept(r) ==
  /\ main = "accepting"
  /\ listening
  /\ pc[r] = "idle"
  /\ goto(r, "queued")
  /\ UNCHANGED <<handlerVars, flagVars, threadVars, ackVars>>

\* Faulty: a connection still queued when the server stops is never dropped.
Pickup_keepsQueued(r) ==
  /\ Cardinality(Busy) < PoolSize
  /\ listening
  /\ pc[r] = "queued"
  /\ goto(r, "reading")
  /\ UNCHANGED <<handlerVars, flagVars, threadVars, ackVars>>

\* A free worker takes a connection; with the socket gone it drops it.
Pickup(r) ==
  /\ Cardinality(Busy) < PoolSize
  /\ pc[r] = "queued"
  /\ goto(r, serveNext)
  /\ UNCHANGED <<handlerVars, flagVars, threadVars, ackVars>>

\* The worker reads request m and routes it to its handler.
Receive(r, m) ==
  /\ pc[r] = "reading"
  /\ goto(r, CASE m.route = "api" -> "gate"
               [] m.route = "shutdown" -> "authorize"
               [] OTHER -> "preflight")
  /\ message' = [message EXCEPT ![r] = m]
  /\ receivedAfter' = [receivedAfter EXCEPT ![r] = acked]
  /\ UNCHANGED <<response, flagVars, threadVars, ackVars>>

\* The client closes the connection, or its keep-alive time or count is over.
HangUp(r) ==
  /\ pc[r] = "reading"
  /\ goto(r, "idle")
  /\ UNCHANGED <<handlerVars, flagVars, threadVars, ackVars>>

\* httplib writes the answer only after the handler has returned.
Reply(r) ==
  /\ pc[r] = "reply"
  /\ goto(r, serveNext)
  /\ acked' = IF response[r] # 202 THEN acked
              ELSE acked \cup {"any"} \cup (IF winner = r THEN {"winner"} ELSE {})
  /\ message' = [message EXCEPT ![r] = None]
  /\ response' = [response EXCEPT ![r] = 0]
  /\ receivedAfter' = [receivedAfter EXCEPT ![r] = {}]
  /\ UNCHANGED <<flagVars, threadVars, winner>>

-----------------------------------------------------------------------------
\* The handlers.

answer(r, code) == response' = [response EXCEPT ![r] = code]

is_shutting_down == shutting_down

\* Faulty: the preflight is answered 204.
Preflight_204(r) ==
  /\ pc[r] = "preflight"
  /\ goto(r, "reply")
  /\ answer(r, IF is_shutting_down THEN 503 ELSE 204)
  /\ UNCHANGED <<message, receivedAfter, flagVars, threadVars, ackVars>>

Preflight(r) ==
  /\ pc[r] = "preflight"
  /\ goto(r, "reply")
  /\ answer(r, IF is_shutting_down THEN 503 ELSE 200)
  /\ UNCHANGED <<message, receivedAfter, flagVars, threadVars, ackVars>>

\* handle_post_api turns requests away once the server is shutting down.
Gate(r) ==
  /\ pc[r] = "gate"
  /\ IF is_shutting_down
     THEN goto(r, "reply") /\ answer(r, 503)
     ELSE goto(r, "begin") /\ UNCHANGED response
  /\ UNCHANGED <<message, receivedAfter, flagVars, threadVars, ackVars>>

begin_request(r) ==
  /\ pc[r] = "begin"
  /\ goto(r, "analyze")
  /\ in_flight' = in_flight + 1
  /\ UNCHANGED <<handlerVars, shutting_down, shutdown_requested, threadVars, ackVars>>

\* Faulty: an exception skips the decrement, as without the guard object.
Analyze_withoutGuard(r) ==
  /\ pc[r] = "analyze"
  /\ \/ goto(r, "end") /\ answer(r, 200)
     \/ goto(r, "reply") /\ answer(r, 400)
  /\ UNCHANGED <<message, receivedAfter, flagVars, threadVars, ackVars>>

\* The JSON is parsed and the analysis runs, or one of the two throws.
Analyze(r) ==
  /\ pc[r] = "analyze"
  /\ goto(r, "end")
  /\ \E code \in {200, 400} : answer(r, code)
  /\ UNCHANGED <<message, receivedAfter, flagVars, threadVars, ackVars>>

\* The destructor of InFlightGuard: decrement, then notify if it was the last.
end_request(r) ==
  /\ pc[r] = "end"
  /\ in_flight' = in_flight - 1
  /\ goto(r, IF in_flight = 1 THEN "notify" ELSE "reply")
  /\ UNCHANGED <<handlerVars, shutting_down, shutdown_requested, threadVars, ackVars>>

\* shutdown_cv_.notify_all() is called without shutdown_mutex_: it finds the
\* shutdown thread waiting or it has no effect.
NotifyAll(r) ==
  /\ pc[r] = "notify"
  /\ goto(r, "reply")
  /\ waiter' = IF waiter = "waiting" THEN "check" ELSE waiter
  /\ UNCHANGED <<handlerVars, flagVars, listening, main, joinable, ackVars>>

\* A non-empty Authorization header decides alone; without one X-Admin-Token does.
is_authorized_shutdown(m) ==
  /\ Token # None
  /\ IF m.scheme = "bearer" \/ m.authorization # None
     THEN m.authorization = Token
     ELSE m.adminToken = Token

handle_post_shutdown(r) ==
  /\ pc[r] = "authorize"
  /\ IF ~is_authorized_shutdown(message[r])
     THEN goto(r, "reply") /\ answer(r, 403)
     ELSE /\ goto(r, IF shutdown_requested THEN "reply" ELSE "cas")
          /\ answer(r, 202)
  /\ UNCHANGED <<message, receivedAfter, flagVars, threadVars, ackVars>>

\* Faulty: a store instead of the compare-exchange.
ElectInitiator_store(r) ==
  /\ pc[r] = "cas"
  /\ goto(r, "close")
  /\ shutdown_requested' = TRUE
  /\ winner' = r
  /\ UNCHANGED <<handlerVars, shutting_down, in_flight, threadVars, acked>>

\* initiate_shutdown: the compare-exchange elects one initiator.
ElectInitiator(r) ==
  /\ pc[r] = "cas"
  /\ IF shutdown_requested
     THEN goto(r, "reply") /\ UNCHANGED <<shutdown_requested, winner>>
     ELSE /\ goto(r, "close")
          /\ shutdown_requested' = TRUE
          /\ winner' = r
  /\ UNCHANGED <<handlerVars, shutting_down, in_flight, threadVars, acked>>

\* Faulty: the gate stays open.
CloseGate_missing(r) ==
  /\ pc[r] = "close"
  /\ goto(r, "spawn")
  /\ UNCHANGED <<handlerVars, flagVars, threadVars, ackVars>>

CloseGate(r) ==
  /\ pc[r] = "close"
  /\ goto(r, "spawn")
  /\ shutting_down' = TRUE
  /\ UNCHANGED <<handlerVars, shutdown_requested, in_flight, threadVars, ackVars>>

\* The thread runs from its construction on; the assignment to
\* shutdown_thread_ comes after it.
SpawnWaiter(r) ==
  /\ pc[r] = "spawn"
  /\ goto(r, "assign")
  /\ waiter' = "stop"
  /\ UNCHANGED <<handlerVars, flagVars, listening, main, joinable, ackVars>>

AssignThread(r) ==
  /\ pc[r] = "assign"
  /\ goto(r, "reply")
  /\ joinable' = TRUE
  /\ UNCHANGED <<handlerVars, flagVars, listening, main, waiter, ackVars>>

-----------------------------------------------------------------------------
\* The shutdown thread.

otherThanWaiter == <<pc, handlerVars, flagVars, main, joinable, ackVars>>

\* Faulty: the shutdown thread waits but does not stop the listener.
StopListener_missing ==
  /\ waiter = "stop"
  /\ waiter' = "check"
  /\ UNCHANGED <<otherThanWaiter, listening>>

\* server_.stop() closes the listening socket.
StopListener ==
  /\ waiter = "stop"
  /\ listening' = FALSE
  /\ waiter' = "check"
  /\ UNCHANGED otherThanWaiter

\* Both waits evaluate done() first, holding shutdown_mutex_.
CheckDrained ==
  /\ waiter = "check"
  /\ waiter' = IF in_flight = 0 THEN "done" ELSE "block"
  /\ UNCHANGED <<otherThanWaiter, listening>>

\* Release the mutex and join the wait set, in one step.
Block ==
  /\ waiter = "block"
  /\ waiter' = "waiting"
  /\ UNCHANGED <<otherThanWaiter, listening>>

SpuriousWakeup ==
  /\ waiter = "waiting"
  /\ waiter' = "check"
  /\ UNCHANGED <<otherThanWaiter, listening>>

\* wait_for evaluates done() once more when its time is over.
TimeOut ==
  /\ ShutdownTimeout > 0
  /\ waiter = "waiting"
  /\ waiter' = IF in_flight = 0 THEN "done" ELSE "expired"
  /\ UNCHANGED <<otherThanWaiter, listening>>

-----------------------------------------------------------------------------
\* The main thread, from the end of the accept loop on.

otherThanMain == <<pc, handlerVars, flagVars, listening, waiter, ackVars>>

LeaveAcceptLoop ==
  /\ main = "accepting"
  /\ ~listening
  /\ main' = "draining"
  /\ UNCHANGED <<otherThanMain, joinable>>

\* Faulty: the workers are left running.
JoinWorkers_detached ==
  /\ main = "draining"
  /\ main' = "finalize"
  /\ UNCHANGED <<otherThanMain, joinable>>

\* listen() shuts its task queue down, which joins every worker, and returns.
JoinWorkers ==
  /\ main = "draining"
  /\ \A r \in Requests : pc[r] = "idle"
  /\ main' = "finalize"
  /\ UNCHANGED <<otherThanMain, joinable>>

finalize_shutdown ==
  /\ main = "finalize"
  /\ joinable => waiter \in {"done", "expired"}
  /\ joinable' = FALSE
  /\ main' = "exited"
  /\ UNCHANGED otherThanMain

\* The process has ended.
Terminated == main = "exited" /\ UNCHANGED vars

Handler(r) ==
  \/ Preflight(r) \/ Gate(r) \/ begin_request(r) \/ end_request(r) \/ NotifyAll(r)
  \/ handle_post_shutdown(r) \/ ElectInitiator(r) \/ CloseGate(r)
  \/ SpawnWaiter(r) \/ AssignThread(r) \/ Reply(r)

Waiter == StopListener \/ CheckDrained \/ Block

Main == Listen \/ LeaveAcceptLoop \/ JoinWorkers \/ finalize_shutdown

Next ==
  \/ \E r \in Requests :
       \/ Handler(r) \/ Analyze(r) \/ Accept(r) \/ Pickup(r) \/ HangUp(r)
       \/ \E m \in Messages : Receive(r, m)
  \/ Waiter \/ SpuriousWakeup \/ TimeOut
  \/ Main
  \/ Terminated

Spec == Init /\ [][Next]_vars

\* Threads that can run do run.  Strong fairness stands for what httplib and
\* wait_for guarantee: the task queue is first in first out, a connection is
\* closed when it is idle or has had its share of requests, and the deadline
\* of wait_for is absolute.
Scheduling ==
  /\ \A r \in Requests :
       WF_vars(Handler(r)) /\ SF_vars(HangUp(r)) /\ SF_vars(Pickup(r))
  /\ WF_vars(Waiter) /\ WF_vars(Main) /\ SF_vars(TimeOut)

\* FairSpec assumes that every analysis ends, SchedulingSpec does not.
SchedulingSpec == Spec /\ Scheduling
FairSpec == SchedulingSpec /\ \A r \in Requests : WF_vars(Analyze(r))

-----------------------------------------------------------------------------
\* Safety.

Route(r) == message[r].route

\* A request is admitted once it has passed the gate and until its answer
\* has been written.
Admitted(r) ==
  \/ pc[r] \in {"begin", "analyze", "end", "notify"}
  \/ pc[r] = "reply" /\ Route(r) = "api" /\ response[r] # 503

\* The counter the shutdown thread waits on is the number of live
\* InFlightGuards, whatever mixture of requests and shutdowns is running.
InFlightExact == in_flight = Cardinality(InFlight)

\* There is one shutdown thread.  It is started only when there is none, its
\* handle has been stored by the time the main thread looks at it, and the
\* process does not end with the thread running or unjoined (either would
\* call std::terminate).
ShutdownThreadHandover ==
  /\ \A r, s \in Requests :
       {pc[r], pc[s]} \subseteq {"close", "spawn", "assign"} => r = s
  /\ \A r \in Requests : pc[r] \in {"close", "spawn"} => waiter = "none"
  /\ \A r \in Requests : pc[r] = "assign" => ~joinable
  /\ main = "finalize" /\ shutdown_requested => joinable
  /\ main = "exited" => waiter \in {"none", "done", "expired"} /\ ~joinable

\* Once the client that started the shutdown has its 202, no request read
\* after that is let in or answered 200.
ClosedTo(r) == "winner" \in receivedAfter[r] => ~Admitted(r) /\ response[r] # 200
InitiatorAckClosesGate == \A r \in Requests : ClosedTo(r)

\* README, "Request a graceful shutdown": "The server responds with `202
\* Accepted` and stops accepting new requests": said of every 202.
AnyAckClosesGate ==
  \A r \in Requests : "any" \in receivedAfter[r] => ~Admitted(r)

\* HttpServer keeps the promise of RequestGate: requests are let in only
\* before the gate closes, turned away only after it, and the process ends
\* only when every admitted request has its answer.
Gate_phase == IF main = "exited" THEN "exited"
              ELSE IF shutting_down THEN "closing" ELSE "open"
StageOf(r) == IF Admitted(r) THEN "inside"
              ELSE IF pc[r] = "reply" /\ Route(r) = "api" THEN "refused" ELSE "outside"
Gate_stage == [r \in Requests |-> StageOf(r)]
RG == INSTANCE RequestGate WITH phase <- Gate_phase, stage <- Gate_stage
ImplementsRequestGate == RG!Spec

-----------------------------------------------------------------------------
\* The inductive invariant behind the safety properties.

\* The listener and the connections in the course of run().
LifecycleInv ==
  /\ listening => main = "accepting"
  /\ main # "accepting" /\ main # "draining" => \A r \in Requests : pc[r] = "idle"
  /\ main = "start" => ~shutdown_requested
  /\ main = "exited" => ~joinable /\ waiter \in {"none", "done", "expired"}

\* How far the elected initiator has come, and what it has done by then.
InitiatorInv ==
  /\ \A r \in Requests : pc[r] \in {"close", "spawn", "assign"} => winner = r
  /\ ~shutdown_requested =>
       winner = None /\ ~shutting_down /\ waiter = "none" /\ ~joinable
  /\ shutdown_requested =>
       /\ winner \in Requests
       /\ shutting_down <=> pc[winner] # "close"
       /\ waiter = "none" <=> pc[winner] \in {"close", "spawn"}
       /\ pc[winner] \in {"close", "spawn", "assign"} => ~joinable
       /\ joinable \/ main = "exited" \/ pc[winner] \in {"close", "spawn", "assign"}

\* The answer and the route that go with a handler position.
AnswerAt(r) ==
  /\ pc[r] \notin {"end", "notify", "cas", "close", "spawn", "assign", "reply"} =>
       response[r] = 0
  /\ pc[r] \in {"end", "notify"} => response[r] \in {200, 400}
  /\ pc[r] \in {"cas", "close", "spawn", "assign"} => response[r] = 202
  /\ pc[r] \in {"gate", "begin", "analyze", "end", "notify"} => Route(r) = "api"
  /\ pc[r] \in {"authorize", "cas", "close", "spawn", "assign"} => Route(r) = "shutdown"
  /\ pc[r] = "preflight" => Route(r) = "options"
AnswerInv == \A r \in Requests : AnswerAt(r)

\* The initiator is answered after it has closed the gate.
AckInv ==
  /\ "winner" \in acked => shutting_down
  /\ \A r \in Requests : receivedAfter[r] \subseteq acked

IInv == /\ TypeOK /\ InFlightExact /\ LifecycleInv /\ InitiatorInv
        /\ AnswerInv /\ AckInv /\ InitiatorAckClosesGate

-----------------------------------------------------------------------------
\* Liveness.

\* A shutdown that has been requested ends the process.
ShutdownCompletes == shutdown_requested ~> main = "exited"

\* Every connection that was accepted is taken up or dropped, and every
\* request that was read is answered, shutdown or not.
Answered(r) ==
  pc[r] \in Handling \cup {"queued"} ~> pc[r] \in {"reading", "idle"}
EveryRequestAnswered == \A r \in Requests : Answered(r)

\* "Shutdown timeout exceeded. Forcing exit.": once the wait has timed out,
\* the process ends, whatever the analyses do.
TimeoutForcesExit == waiter = "expired" ~> main = "exited"
==============================================================================
