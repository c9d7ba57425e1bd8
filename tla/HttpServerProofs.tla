-------------------------- MODULE HttpServerProofs ---------------------------
(***************************************************************************)
(* Proofs about HttpServer for any set of connections, any messages, any   *)
(* token, timeout and number of worker threads.                            *)
(***************************************************************************)
EXTENDS HttpServer, FiniteSetTheorems, TLAPS

-----------------------------------------------------------------------------
(***************************************************************************)
(* Type correctness.  A handler moves one connection; the shutdown thread  *)
(* and the main thread move none.                                          *)
(***************************************************************************)
LEMMA TypeInit == Init => TypeOK
<1> SUFFICES ASSUME Init PROVE TypeOK
  OBVIOUS
<1> USE DEF Init
<1>1. /\ pc \in [Requests -> Handling \cup {"idle", "queued", "reading"}]
      /\ message \in [Requests -> Messages \cup {None}]
      /\ response \in [Requests -> {0, 200, 202, 400, 403, 503}]
      /\ receivedAfter \in [Requests -> SUBSET {"winner", "any"}]
  OBVIOUS
<1>2. shutting_down \in BOOLEAN /\ shutdown_requested \in BOOLEAN /\ listening \in BOOLEAN
      /\ joinable \in BOOLEAN
  OBVIOUS
<1>3. QED
  BY <1>1, <1>2 DEF TypeOK

LEMMA TypeNext == TypeOK /\ [Next]_vars => TypeOK'
<1> SUFFICES ASSUME TypeOK, [Next]_vars
             PROVE  TypeOK'
  OBVIOUS
<1> USE DEF TypeOK, Handling, goto, handlerVars, flagVars, threadVars, ackVars
<1>1. ASSUME NEW r \in Requests, Accept(r)
      PROVE  TypeOK'
  BY <1>1 DEF Accept
<1>2. ASSUME NEW r \in Requests, Pickup(r)
      PROVE  TypeOK'
  BY <1>2 DEF Pickup, serveNext
<1>3. ASSUME NEW r \in Requests, HangUp(r)
      PROVE  TypeOK'
  BY <1>3 DEF HangUp
<1>4. ASSUME NEW r \in Requests, Reply(r)
      PROVE  TypeOK'
  BY <1>4 DEF Reply, serveNext
<1>5. ASSUME NEW r \in Requests, Analyze(r)
      PROVE  TypeOK'
  BY <1>5 DEF Analyze, answer
<1>6. ASSUME NEW r \in Requests, Preflight(r)
      PROVE  TypeOK'
  BY <1>6 DEF Preflight, answer
<1>7. ASSUME NEW r \in Requests, Gate(r)
      PROVE  TypeOK'
  BY <1>7 DEF Gate, answer
<1>8. ASSUME NEW r \in Requests, begin_request(r)
      PROVE  TypeOK'
  BY <1>8 DEF begin_request
<1>9. ASSUME NEW r \in Requests, end_request(r)
      PROVE  TypeOK'
  BY <1>9 DEF end_request
<1>10. ASSUME NEW r \in Requests, NotifyAll(r)
       PROVE  TypeOK'
  BY <1>10 DEF NotifyAll
<1>11. ASSUME NEW r \in Requests, handle_post_shutdown(r)
       PROVE  TypeOK'
  <2>1. /\ \E p \in {"reply", "cas"} : pc' = [pc EXCEPT ![r] = p]
        /\ \E c \in {202, 403} : response' = [response EXCEPT ![r] = c]
        /\ UNCHANGED <<message, receivedAfter, flagVars, threadVars, ackVars>>
    BY <1>11 DEF handle_post_shutdown, answer
  <2>2. QED
    BY <2>1
<1>12. ASSUME NEW r \in Requests, ElectInitiator(r)
       PROVE  TypeOK'
  <2>1. \E p \in {"reply", "close"} : pc' = [pc EXCEPT ![r] = p]
    BY <1>12 DEF ElectInitiator
  <2>2. shutdown_requested' \in BOOLEAN
    BY <1>12, Zenon DEF ElectInitiator
  <2>3. winner' \in Requests \cup {None}
    BY <1>12 DEF ElectInitiator
  <2>4. UNCHANGED <<handlerVars, shutting_down, in_flight, threadVars, acked>>
    BY <1>12 DEF ElectInitiator
  <2>5. QED
    BY <2>1, <2>2, <2>3, <2>4
<1>13. ASSUME NEW r \in Requests, CloseGate(r)
       PROVE  TypeOK'
  BY <1>13 DEF CloseGate
<1>14. ASSUME NEW r \in Requests, SpawnWaiter(r)
       PROVE  TypeOK'
  BY <1>14 DEF SpawnWaiter
<1>15. ASSUME NEW r \in Requests, AssignThread(r)
       PROVE  TypeOK'
  BY <1>15 DEF AssignThread
<1>16. ASSUME NEW r \in Requests, NEW m \in Messages, Receive(r, m)
       PROVE  TypeOK'
  <2>1. PICK p \in {"gate", "authorize", "preflight"} : pc' = [pc EXCEPT ![r] = p]
    BY <1>16 DEF Receive
  <2>2. /\ message' = [message EXCEPT ![r] = m]
        /\ receivedAfter' = [receivedAfter EXCEPT ![r] = acked]
        /\ UNCHANGED <<response, flagVars, threadVars, ackVars>>
    BY <1>16 DEF Receive
  <2>3. QED
    BY <2>1, <2>2
<1>17. CASE Waiter \/ SpuriousWakeup \/ TimeOut
  <2>1. UNCHANGED otherThanWaiter /\ listening' \in BOOLEAN
    BY <1>17 DEF Waiter, StopListener, CheckDrained, Block, SpuriousWakeup, TimeOut
  <2>2. waiter' \in {"check", "block", "waiting", "done", "expired"}
    BY <1>17 DEF Waiter, StopListener, CheckDrained, Block, SpuriousWakeup, TimeOut
  <2>3. QED
    BY <2>1, <2>2 DEF otherThanWaiter
<1>18. CASE Main
  <2>1. UNCHANGED <<pc, handlerVars, flagVars, waiter, ackVars>>
    BY <1>18 DEF Main, Listen, LeaveAcceptLoop, JoinWorkers, finalize_shutdown, otherThanMain
  <2>2. /\ listening' \in BOOLEAN /\ joinable' \in BOOLEAN
        /\ main' \in {"accepting", "draining", "finalize", "exited"}
    BY <1>18 DEF Main, Listen, LeaveAcceptLoop, JoinWorkers, finalize_shutdown, otherThanMain
  <2>3. QED
    BY <2>1, <2>2
<1>19. CASE UNCHANGED vars
  BY <1>19 DEF vars
<1>20. QED
  BY <1>1, <1>2, <1>3, <1>4, <1>5, <1>6, <1>7, <1>8, <1>9, <1>10,
     <1>11, <1>12, <1>13, <1>14, <1>15, <1>16, <1>17, <1>18, <1>19
  DEF Next, Handler, Terminated

THEOREM TypeCorrect == Spec => []TypeOK
<1>1. QED
  BY TypeInit, TypeNext, PTL DEF Spec

-----------------------------------------------------------------------------
(***************************************************************************)
(* The in-flight counter.  Only begin_request and end_request change the   *)
(* set of guarded requests, each by one element.                           *)
(***************************************************************************)
LEMMA InFlightFinite == IsFiniteSet(InFlight)
BY RequestsFinite, FS_Subset DEF InFlight

LEMMA InFlightInit == Init => InFlightExact
<1> SUFFICES ASSUME Init PROVE InFlightExact
  OBVIOUS
<1>1. InFlight = {}
  BY DEF Init, InFlight
<1>2. QED
  BY <1>1, FS_EmptySet DEF Init, InFlightExact

LEMMA InFlightNext == TypeOK /\ InFlightExact /\ [Next]_vars => InFlightExact'
<1> SUFFICES ASSUME TypeOK, InFlightExact, [Next]_vars
             PROVE  InFlightExact'
  OBVIOUS
<1>1. ASSUME NEW r \in Requests, begin_request(r)
      PROVE  InFlightExact'
  <2>1. InFlight' = InFlight \cup {r} /\ r \notin InFlight
    BY <1>1 DEF begin_request, goto, InFlight, TypeOK
  <2>2. Cardinality(InFlight') = Cardinality(InFlight) + 1
    BY <2>1, InFlightFinite, FS_AddElement
  <2>3. QED
    BY <1>1, <2>2 DEF begin_request, InFlightExact
<1>2. ASSUME NEW r \in Requests, end_request(r)
      PROVE  InFlightExact'
  <2>1. InFlight' = InFlight \ {r} /\ r \in InFlight
    BY <1>2 DEF end_request, goto, InFlight, TypeOK
  <2>2. Cardinality(InFlight') = Cardinality(InFlight) - 1
    BY <2>1, InFlightFinite, FS_RemoveElement
  <2>3. QED
    BY <1>2, <2>2 DEF end_request, InFlightExact
<1>3. ASSUME NEW r \in Requests, Accept(r) \/ Pickup(r) \/ HangUp(r) \/ Reply(r)
      PROVE  UNCHANGED <<InFlight, in_flight>>
  BY <1>3 DEF Accept, Pickup, HangUp, Reply, serveNext, goto, InFlight, TypeOK, flagVars
<1>4. ASSUME NEW r \in Requests, NEW m \in Messages, Receive(r, m)
      PROVE  UNCHANGED <<InFlight, in_flight>>
  <2>1. PICK p \in {"gate", "authorize", "preflight"} : pc' = [pc EXCEPT ![r] = p]
    BY <1>4 DEF Receive, goto
  <2>2. pc[r] = "reading" /\ UNCHANGED flagVars
    BY <1>4 DEF Receive
  <2>3. QED
    BY <2>1, <2>2 DEF InFlight, TypeOK, flagVars
<1>5. ASSUME NEW r \in Requests,
             Preflight(r) \/ Gate(r) \/ Analyze(r) \/ NotifyAll(r)
      PROVE  UNCHANGED <<InFlight, in_flight>>
  BY <1>5 DEF Preflight, Gate, Analyze, NotifyAll, goto, InFlight, TypeOK, flagVars
<1>6. ASSUME NEW r \in Requests, handle_post_shutdown(r) \/ ElectInitiator(r)
      PROVE  UNCHANGED <<InFlight, in_flight>>
  BY <1>6 DEF handle_post_shutdown, ElectInitiator, goto, InFlight, TypeOK, flagVars
<1>7. ASSUME NEW r \in Requests, CloseGate(r) \/ SpawnWaiter(r) \/ AssignThread(r)
      PROVE  UNCHANGED <<InFlight, in_flight>>
  BY <1>7 DEF CloseGate, SpawnWaiter, AssignThread, goto, InFlight, TypeOK, flagVars
<1>8. ASSUME Waiter \/ SpuriousWakeup \/ TimeOut \/ Main \/ UNCHANGED vars
      PROVE  UNCHANGED <<InFlight, in_flight>>
  BY <1>8 DEF Waiter, StopListener, CheckDrained, Block, SpuriousWakeup, TimeOut,
     otherThanWaiter, Main, Listen, LeaveAcceptLoop, JoinWorkers, finalize_shutdown,
     otherThanMain, vars, flagVars, InFlight
<1>9. UNCHANGED <<InFlight, in_flight>> => InFlightExact'
  BY DEF InFlightExact
<1>10. QED
  BY <1>1, <1>2, <1>3, <1>4, <1>5, <1>6, <1>7, <1>8, <1>9 DEF Next, Handler, Terminated

\* in_flight counts exactly the requests between begin_request and the end
\* of their guard, whatever runs concurrently; in particular it is never
\* negative and is zero only when no analysis is running.
THEOREM InFlightCorrect == Spec => []InFlightExact
<1>1. QED
  BY TypeCorrect, InFlightInit, InFlightNext, PTL DEF Spec
-----------------------------------------------------------------------------
(***************************************************************************)
(* What a step does to one connection s: the part of Next a property of s  *)
(* alone depends on.                                                       *)
(***************************************************************************)
Keeps(s) == Route(s)' = Route(s) /\ receivedAfter'[s] = receivedAfter[s]
Silent(s) == Keeps(s) /\ response'[s] = response[s]

Listener == {"idle", "queued", "reading"}

LocalStep(s) ==
  \/ Silent(s) /\ pc'[s] = pc[s]
  \/ Silent(s) /\ pc[s] \in Listener /\ pc'[s] \in Listener
  \/ /\ pc[s] = "reading" /\ response'[s] = response[s] /\ receivedAfter'[s] = acked
     /\ \/ pc'[s] = "gate" /\ Route(s)' = "api"
        \/ pc'[s] = "authorize" /\ Route(s)' = "shutdown"
        \/ pc'[s] = "preflight" /\ Route(s)' = "options"
  \/ /\ pc[s] = "reply" /\ pc'[s] \in Listener
     /\ response'[s] = 0 /\ receivedAfter'[s] = {}
  \/ /\ Keeps(s) /\ pc[s] = "preflight" /\ pc'[s] = "reply"
     /\ response'[s] = IF shutting_down THEN 503 ELSE 200
  \/ /\ Keeps(s) /\ pc[s] = "gate" /\ pc'[s] = "reply"
     /\ response'[s] = 503 /\ shutting_down
  \/ Silent(s) /\ pc[s] = "gate" /\ pc'[s] = "begin" /\ ~shutting_down
  \/ Silent(s) /\ pc[s] = "begin" /\ pc'[s] = "analyze"
  \/ Keeps(s) /\ pc[s] = "analyze" /\ pc'[s] = "end" /\ response'[s] \in {200, 400}
  \/ Silent(s) /\ pc[s] = "end" /\ pc'[s] \in {"notify", "reply"}
  \/ Silent(s) /\ pc[s] = "notify" /\ pc'[s] = "reply"
  \/ /\ Keeps(s) /\ pc[s] = "authorize" /\ pc'[s] = "reply"
     /\ response'[s] \in {202, 403}
  \/ Keeps(s) /\ pc[s] = "authorize" /\ pc'[s] = "cas" /\ response'[s] = 202
  \/ Silent(s) /\ pc[s] = "cas" /\ pc'[s] \in {"reply", "close"}
  \/ Silent(s) /\ pc[s] = "close" /\ pc'[s] = "spawn"
  \/ Silent(s) /\ pc[s] = "spawn" /\ pc'[s] = "assign"
  \/ Silent(s) /\ pc[s] = "assign" /\ pc'[s] = "reply"

LEMMA RouteKept ==
  ASSUME NEW s \in Requests, UNCHANGED message
  PROVE  Route(s)' = Route(s)
BY DEF Route

\* What Receive does, with the handler chosen by the route named.
LEMMA ReceiveStep ==
  ASSUME TypeOK, NEW r \in Requests, NEW m \in Messages, Receive(r, m)
  PROVE  \E p \in {"gate", "authorize", "preflight"} :
           /\ pc' = [pc EXCEPT ![r] = p]
           /\ p = "gate" => m.route = "api"
           /\ p = "authorize" => m.route = "shutdown"
           /\ p = "preflight" => m.route = "options"
<1>1. PICK p \in {"gate", "authorize", "preflight"} :
        /\ pc' = [pc EXCEPT ![r] = p]
        /\ p = CASE m.route = "api" -> "gate"
                 [] m.route = "shutdown" -> "authorize"
                 [] OTHER -> "preflight"
  BY DEF Receive, goto
<1>2. QED
  BY <1>1, MessagesShaped

LEMMA LocalStepNext ==
  ASSUME TypeOK, [Next]_vars, NEW s \in Requests
  PROVE  LocalStep(s)
<1> USE DEF goto, handlerVars, flagVars, threadVars, ackVars, TypeOK, Handling,
            LocalStep, Keeps, Silent, Listener
<1>1. ASSUME NEW r \in Requests, Accept(r) \/ Pickup(r) \/ HangUp(r)
      PROVE  LocalStep(s)
  <2>1. Route(s)' = Route(s)
    BY <1>1, RouteKept DEF Accept, Pickup, HangUp
  <2>2. QED
    BY <1>1, <2>1 DEF Accept, Pickup, HangUp, serveNext
<1>2. ASSUME NEW r \in Requests, NEW m \in Messages, Receive(r, m)
      PROVE  LocalStep(s)
  <2>1. Route(s)' = IF s = r THEN m.route ELSE Route(s)
    <3>1. message'[s] = IF s = r THEN m ELSE message[s]
      BY <1>2 DEF Receive
    <3>2. QED
      BY <3>1 DEF Route
  <2>2. PICK p \in {"gate", "authorize", "preflight"} :
          /\ pc' = [pc EXCEPT ![r] = p]
          /\ p = "gate" => m.route = "api"
          /\ p = "authorize" => m.route = "shutdown"
          /\ p = "preflight" => m.route = "options"
    BY <1>2, ReceiveStep
  <2>3. /\ pc[r] = "reading" /\ UNCHANGED response
        /\ receivedAfter' = [receivedAfter EXCEPT ![r] = acked]
    BY <1>2 DEF Receive
  <2>4. QED
    BY <2>1, <2>2, <2>3
<1>3. ASSUME NEW r \in Requests, Reply(r)
      PROVE  LocalStep(s)
  <2>1. s # r => Route(s)' = Route(s)
    BY <1>3 DEF Reply, Route
  <2>2. QED
    BY <1>3, <2>1 DEF Reply, serveNext
<1>4. ASSUME NEW r \in Requests, Preflight(r) \/ Gate(r) \/ Analyze(r)
      PROVE  LocalStep(s)
  <2>1. Route(s)' = Route(s)
    BY <1>4, RouteKept DEF Preflight, Gate, Analyze
  <2>2. QED
    BY <1>4, <2>1 DEF Preflight, Gate, Analyze, answer, is_shutting_down
<1>5. ASSUME NEW r \in Requests, begin_request(r) \/ end_request(r) \/ NotifyAll(r)
      PROVE  LocalStep(s)
  <2>1. Route(s)' = Route(s)
    BY <1>5, RouteKept DEF begin_request, end_request, NotifyAll
  <2>2. QED
    BY <1>5, <2>1 DEF begin_request, end_request, NotifyAll
<1>6. ASSUME NEW r \in Requests, handle_post_shutdown(r)
      PROVE  LocalStep(s)
  <2>1. Route(s)' = Route(s)
    BY <1>6, RouteKept DEF handle_post_shutdown
  <2>2. QED
    BY <1>6, <2>1 DEF handle_post_shutdown, answer
<1>7. ASSUME NEW r \in Requests,
             ElectInitiator(r) \/ CloseGate(r) \/ SpawnWaiter(r) \/ AssignThread(r)
      PROVE  LocalStep(s)
  <2>1. Route(s)' = Route(s)
    BY <1>7, RouteKept DEF ElectInitiator, CloseGate, SpawnWaiter, AssignThread
  <2>2. QED
    BY <1>7, <2>1 DEF ElectInitiator, CloseGate, SpawnWaiter, AssignThread
<1>8. CASE Waiter \/ SpuriousWakeup \/ TimeOut \/ Main \/ UNCHANGED vars
  <2>1. UNCHANGED <<pc, handlerVars>>
    BY <1>8 DEF Waiter, StopListener, CheckDrained, Block, SpuriousWakeup, TimeOut,
       otherThanWaiter, Main, Listen, LeaveAcceptLoop, JoinWorkers, finalize_shutdown,
       otherThanMain, vars
  <2>2. Route(s)' = Route(s)
    BY <2>1, RouteKept
  <2>3. QED
    BY <2>1, <2>2
<1>9. QED
  BY <1>1, <1>2, <1>3, <1>4, <1>5, <1>6, <1>7, <1>8 DEF Next, Handler, Terminated

-----------------------------------------------------------------------------
(***************************************************************************)
(* The other parts of the inductive invariant.                             *)
(***************************************************************************)
LEMMA InvInit == Init => LifecycleInv /\ InitiatorInv /\ AnswerInv /\ AckInv
                         /\ InitiatorAckClosesGate
<1> SUFFICES ASSUME Init
             PROVE  LifecycleInv /\ InitiatorInv /\ AnswerInv /\ AckInv
                    /\ InitiatorAckClosesGate
  OBVIOUS
<1>1. LifecycleInv /\ InitiatorInv
  BY DEF Init, LifecycleInv, InitiatorInv
<1>2. AnswerInv
  BY DEF Init, AnswerInv, AnswerAt
<1>3. AckInv /\ InitiatorAckClosesGate
  BY DEF Init, AckInv, InitiatorAckClosesGate, ClosedTo
<1>4. QED
  BY <1>1, <1>2, <1>3

LEMMA AnswerNext ==
  ASSUME NEW s \in Requests, LocalStep(s), AnswerAt(s)
  PROVE  AnswerAt(s)'
BY DEF LocalStep, Silent, Keeps, Listener, AnswerAt

\* A request that was read after the initiator's 202 finds the gate closed.
LEMMA ClosedToNext ==
  ASSUME NEW s \in Requests, LocalStep(s), AnswerAt(s), AckInv, ClosedTo(s)
  PROVE  ClosedTo(s)'
BY DEF LocalStep, Silent, Keeps, Listener, AnswerAt, AckInv, ClosedTo, Admitted

LEMMA LifecycleNext ==
  ASSUME TypeOK, InitiatorInv, LifecycleInv, [Next]_vars
  PROVE  LifecycleInv'
<1> USE NoneIsNoRequest DEF goto, handlerVars, flagVars, threadVars, ackVars,
            TypeOK, Handling, InitiatorInv, LifecycleInv
<1>1. ASSUME NEW r \in Requests, NEW m \in Messages, Receive(r, m)
      PROVE  LifecycleInv'
  <2>1. PICK p \in {"gate", "authorize", "preflight"} : pc' = [pc EXCEPT ![r] = p]
    BY <1>1, ReceiveStep
  <2>2. /\ pc[r] = "reading" /\ UNCHANGED <<flagVars, threadVars, ackVars>>
        /\ receivedAfter' = [receivedAfter EXCEPT ![r] = acked]
    BY <1>1 DEF Receive
  <2>3. QED
    BY <2>1, <2>2
<1>2. ASSUME NEW r \in Requests, Accept(r) \/ Pickup(r) \/ HangUp(r)
      PROVE  LifecycleInv'
  BY <1>2 DEF Accept, Pickup, HangUp, serveNext
<1>3. ASSUME NEW r \in Requests, Reply(r)
      PROVE  LifecycleInv'
  BY <1>3 DEF Reply, serveNext
<1>4. ASSUME NEW r \in Requests, Preflight(r) \/ Gate(r) \/ Analyze(r)
      PROVE  LifecycleInv'
  BY <1>4 DEF Preflight, Gate, Analyze, answer, is_shutting_down
<1>5. ASSUME NEW r \in Requests, begin_request(r) \/ end_request(r) \/ NotifyAll(r)
      PROVE  LifecycleInv'
  BY <1>5 DEF begin_request, end_request, NotifyAll
<1>6. ASSUME NEW r \in Requests, handle_post_shutdown(r)
      PROVE  LifecycleInv'
  BY <1>6 DEF handle_post_shutdown, answer
<1>7. ASSUME NEW r \in Requests, ElectInitiator(r)
      PROVE  LifecycleInv'
  BY <1>7 DEF ElectInitiator
<1>8. ASSUME NEW r \in Requests, CloseGate(r)
      PROVE  LifecycleInv'
  BY <1>8 DEF CloseGate
<1>9. ASSUME NEW r \in Requests, SpawnWaiter(r)
      PROVE  LifecycleInv'
  BY <1>9 DEF SpawnWaiter
<1>10. ASSUME NEW r \in Requests, AssignThread(r)
      PROVE  LifecycleInv'
  BY <1>10 DEF AssignThread
<1>11. CASE Waiter \/ SpuriousWakeup \/ TimeOut
  BY <1>11 DEF Waiter, StopListener, CheckDrained, Block, SpuriousWakeup,
     TimeOut, otherThanWaiter
<1>12. CASE Main
  BY <1>12 DEF Main, Listen, LeaveAcceptLoop, JoinWorkers, finalize_shutdown,
     otherThanMain
<1>13. CASE UNCHANGED vars
  BY <1>13 DEF vars
<1>14. QED
  BY <1>1, <1>2, <1>3, <1>4, <1>5, <1>6, <1>7, <1>8, <1>9, <1>10, <1>11, <1>12,
     <1>13
  DEF Next, Handler, Terminated

LEMMA InitiatorNext ==
  ASSUME TypeOK, LifecycleInv, InitiatorInv, [Next]_vars
  PROVE  InitiatorInv'
<1> USE NoneIsNoRequest DEF goto, handlerVars, flagVars, threadVars, ackVars,
            TypeOK, Handling, LifecycleInv, InitiatorInv
<1>1. ASSUME NEW r \in Requests, NEW m \in Messages, Receive(r, m)
      PROVE  InitiatorInv'
  <2>1. PICK p \in {"gate", "authorize", "preflight"} : pc' = [pc EXCEPT ![r] = p]
    BY <1>1, ReceiveStep
  <2>2. /\ pc[r] = "reading" /\ UNCHANGED <<flagVars, threadVars, ackVars>>
        /\ receivedAfter' = [receivedAfter EXCEPT ![r] = acked]
    BY <1>1 DEF Receive
  <2>3. QED
    BY <2>1, <2>2
<1>2. ASSUME NEW r \in Requests, Accept(r) \/ Pickup(r) \/ HangUp(r)
      PROVE  InitiatorInv'
  BY <1>2 DEF Accept, Pickup, HangUp, serveNext
<1>3. ASSUME NEW r \in Requests, Reply(r)
      PROVE  InitiatorInv'
  BY <1>3 DEF Reply, serveNext
<1>4. ASSUME NEW r \in Requests, Preflight(r) \/ Gate(r) \/ Analyze(r)
      PROVE  InitiatorInv'
  BY <1>4 DEF Preflight, Gate, Analyze, answer, is_shutting_down
<1>5. ASSUME NEW r \in Requests, begin_request(r) \/ end_request(r) \/ NotifyAll(r)
      PROVE  InitiatorInv'
  BY <1>5 DEF begin_request, end_request, NotifyAll
<1>6. ASSUME NEW r \in Requests, handle_post_shutdown(r)
      PROVE  InitiatorInv'
  BY <1>6 DEF handle_post_shutdown, answer
<1>7. ASSUME NEW r \in Requests, ElectInitiator(r)
      PROVE  InitiatorInv'
  BY <1>7 DEF ElectInitiator
<1>8. ASSUME NEW r \in Requests, CloseGate(r)
      PROVE  InitiatorInv'
  BY <1>8 DEF CloseGate
<1>9. ASSUME NEW r \in Requests, SpawnWaiter(r)
      PROVE  InitiatorInv'
  BY <1>9 DEF SpawnWaiter
<1>10. ASSUME NEW r \in Requests, AssignThread(r)
      PROVE  InitiatorInv'
  BY <1>10 DEF AssignThread
<1>11. CASE Waiter \/ SpuriousWakeup \/ TimeOut
  BY <1>11 DEF Waiter, StopListener, CheckDrained, Block, SpuriousWakeup,
     TimeOut, otherThanWaiter
<1>12. CASE Main
  BY <1>12 DEF Main, Listen, LeaveAcceptLoop, JoinWorkers, finalize_shutdown,
     otherThanMain
<1>13. CASE UNCHANGED vars
  BY <1>13 DEF vars
<1>14. QED
  BY <1>1, <1>2, <1>3, <1>4, <1>5, <1>6, <1>7, <1>8, <1>9, <1>10, <1>11, <1>12,
     <1>13
  DEF Next, Handler, Terminated

LEMMA AckNext ==
  ASSUME TypeOK, InitiatorInv, AckInv, [Next]_vars
  PROVE  AckInv'
<1> USE NoneIsNoRequest DEF goto, handlerVars, flagVars, threadVars, ackVars,
            TypeOK, Handling, InitiatorInv, AckInv
<1>1. ASSUME NEW r \in Requests, NEW m \in Messages, Receive(r, m)
      PROVE  AckInv'
  <2>1. PICK p \in {"gate", "authorize", "preflight"} : pc' = [pc EXCEPT ![r] = p]
    BY <1>1, ReceiveStep
  <2>2. /\ pc[r] = "reading" /\ UNCHANGED <<flagVars, threadVars, ackVars>>
        /\ receivedAfter' = [receivedAfter EXCEPT ![r] = acked]
    BY <1>1 DEF Receive
  <2>3. QED
    BY <2>1, <2>2
<1>2. ASSUME NEW r \in Requests, Accept(r) \/ Pickup(r) \/ HangUp(r)
      PROVE  AckInv'
  BY <1>2 DEF Accept, Pickup, HangUp, serveNext
<1>3. ASSUME NEW r \in Requests, Reply(r)
      PROVE  AckInv'
  BY <1>3 DEF Reply, serveNext
<1>4. ASSUME NEW r \in Requests, Preflight(r) \/ Gate(r) \/ Analyze(r)
      PROVE  AckInv'
  BY <1>4 DEF Preflight, Gate, Analyze, answer, is_shutting_down
<1>5. ASSUME NEW r \in Requests, begin_request(r) \/ end_request(r) \/ NotifyAll(r)
      PROVE  AckInv'
  BY <1>5 DEF begin_request, end_request, NotifyAll
<1>6. ASSUME NEW r \in Requests, handle_post_shutdown(r)
      PROVE  AckInv'
  BY <1>6 DEF handle_post_shutdown, answer
<1>7. ASSUME NEW r \in Requests, ElectInitiator(r)
      PROVE  AckInv'
  BY <1>7 DEF ElectInitiator
<1>8. ASSUME NEW r \in Requests, CloseGate(r)
      PROVE  AckInv'
  BY <1>8 DEF CloseGate
<1>9. ASSUME NEW r \in Requests, SpawnWaiter(r)
      PROVE  AckInv'
  BY <1>9 DEF SpawnWaiter
<1>10. ASSUME NEW r \in Requests, AssignThread(r)
      PROVE  AckInv'
  BY <1>10 DEF AssignThread
<1>11. CASE Waiter \/ SpuriousWakeup \/ TimeOut
  BY <1>11 DEF Waiter, StopListener, CheckDrained, Block, SpuriousWakeup,
     TimeOut, otherThanWaiter
<1>12. CASE Main
  BY <1>12 DEF Main, Listen, LeaveAcceptLoop, JoinWorkers, finalize_shutdown,
     otherThanMain
<1>13. CASE UNCHANGED vars
  BY <1>13 DEF vars
<1>14. QED
  BY <1>1, <1>2, <1>3, <1>4, <1>5, <1>6, <1>7, <1>8, <1>9, <1>10, <1>11, <1>12,
     <1>13
  DEF Next, Handler, Terminated

-----------------------------------------------------------------------------
(***************************************************************************)
(* The inductive invariant, and the two safety properties it gives.        *)
(***************************************************************************)
THEOREM Invariance == Spec => []IInv
<1>1. Init => IInv
  BY TypeInit, InFlightInit, InvInit DEF IInv
<1>2. IInv /\ [Next]_vars => IInv'
  <2> SUFFICES ASSUME IInv, [Next]_vars
               PROVE  IInv'
    OBVIOUS
  <2>1. TypeOK' /\ InFlightExact' /\ LifecycleInv' /\ InitiatorInv' /\ AckInv'
    BY TypeNext, InFlightNext, LifecycleNext, InitiatorNext, AckNext DEF IInv
  <2>2. ASSUME NEW s \in Requests
        PROVE  AnswerAt(s)' /\ ClosedTo(s)'
    <3>1. LocalStep(s)
      BY LocalStepNext DEF IInv
    <3>2. AnswerAt(s) /\ ClosedTo(s)
      BY DEF IInv, AnswerInv, InitiatorAckClosesGate
    <3>3. QED
      BY <3>1, <3>2, AnswerNext, ClosedToNext DEF IInv
  <2>3. AnswerInv' /\ InitiatorAckClosesGate'
    BY <2>2 DEF AnswerInv, InitiatorAckClosesGate
  <2>4. QED
    BY <2>1, <2>3 DEF IInv
<1>3. QED
  BY <1>1, <1>2, PTL DEF Spec

\* One shutdown thread, whose handle is stored before the main thread looks
\* for it and which has ended and been joined when the process ends.
THEOREM HandoverCorrect == Spec => []ShutdownThreadHandover
<1>1. IInv => ShutdownThreadHandover
  BY NoneIsNoRequest
  DEF IInv, TypeOK, Handling, LifecycleInv, InitiatorInv, ShutdownThreadHandover
<1>2. QED
  BY <1>1, Invariance, PTL

\* No request read after the initiator has been sent its 202 is let in.
THEOREM AckCorrect == Spec => []InitiatorAckClosesGate
<1>1. IInv => InitiatorAckClosesGate
  BY DEF IInv
<1>2. QED
  BY <1>1, Invariance, PTL

-----------------------------------------------------------------------------
(***************************************************************************)
(* The refinement of RequestGate.  A connection changes its stage only     *)
(* when it leaves the gate or when its answer has been written.            *)
(***************************************************************************)
LEMMA StageKept ==
  ASSUME NEW s \in Requests, LocalStep(s), AnswerAt(s),
         pc[s] \notin {"gate", "reply"} \/ pc'[s] = pc[s]
  PROVE  StageOf(s)' = StageOf(s)
BY DEF LocalStep, Silent, Keeps, Listener, AnswerAt, StageOf, Admitted

\* A step that moves nobody out of "gate" or "reply" keeps every stage.
LEMMA StagesKept ==
  ASSUME IInv, [Next]_vars,
         \A s \in Requests : pc[s] \notin {"gate", "reply"} \/ pc'[s] = pc[s]
  PROVE  UNCHANGED Gate_stage
<1>1. ASSUME NEW s \in Requests
      PROVE  StageOf(s)' = StageOf(s)
  <2>1. LocalStep(s) /\ AnswerAt(s)
    BY LocalStepNext DEF IInv, AnswerInv
  <2>2. QED
    BY <2>1, StageKept
<1>2. QED
  BY <1>1 DEF Gate_stage

\* A step that moves r alone changes the stage of r alone.
LEMMA StageMoved ==
  ASSUME IInv, [Next]_vars, NEW r \in Requests, NEW p, pc' = [pc EXCEPT ![r] = p]
  PROVE  Gate_stage' = [Gate_stage EXCEPT ![r] = StageOf(r)']
<1>1. ASSUME NEW s \in Requests, s # r
      PROVE  StageOf(s)' = StageOf(s)
  <2>1. LocalStep(s) /\ AnswerAt(s) /\ pc'[s] = pc[s]
    BY <1>1, LocalStepNext DEF IInv, AnswerInv, TypeOK
  <2>2. QED
    BY <2>1, StageKept
<1>2. QED
  BY <1>1 DEF Gate_stage

LEMMA GateStep ==
  ASSUME IInv, NEW r \in Requests, Gate(r)
  PROVE  RG!Admit(r) \/ RG!Refuse(r)
<1>1. PICK p \in {"reply", "begin"} : pc' = [pc EXCEPT ![r] = p]
  BY DEF Gate, goto
<1>2. [Next]_vars
  BY DEF Next, Handler
<1>3. Gate_stage' = [Gate_stage EXCEPT ![r] = StageOf(r)']
  BY <1>1, <1>2, StageMoved
<1>4. LocalStep(r) /\ AnswerAt(r) /\ pc[r] = "gate"
  BY <1>2, LocalStepNext DEF IInv, AnswerInv, Gate
<1>5. Gate_stage[r] = "outside"
  BY <1>4 DEF Gate_stage, StageOf, Admitted
<1>6. StageOf(r)' = IF shutting_down THEN "refused" ELSE "inside"
  BY <1>1, <1>4
  DEF IInv, TypeOK, LocalStep, Silent, Keeps, Listener, AnswerAt, StageOf, Admitted
<1>7. Gate_phase = (IF shutting_down THEN "closing" ELSE "open") /\ UNCHANGED Gate_phase
  BY <1>4 DEF IInv, LifecycleInv, Gate, Gate_phase, flagVars, threadVars
<1>8. QED
  BY <1>3, <1>5, <1>6, <1>7 DEF RG!Admit, RG!Refuse

LEMMA ReplyStep ==
  ASSUME IInv, NEW r \in Requests, Reply(r)
  PROVE  RG!Answer(r) \/ UNCHANGED RG!gateVars
<1>1. PICK p \in Listener : pc' = [pc EXCEPT ![r] = p]
  BY DEF Reply, goto, serveNext, Listener
<1>2. [Next]_vars
  BY DEF Next, Handler
<1>3. Gate_stage' = [Gate_stage EXCEPT ![r] = StageOf(r)']
  BY <1>1, <1>2, StageMoved
<1>4. StageOf(r)' = "outside"
  BY <1>1 DEF IInv, TypeOK, Listener, StageOf, Admitted
<1>5. UNCHANGED Gate_phase
  BY DEF Reply, Gate_phase, flagVars, threadVars
<1>6. Gate_stage \in [Requests -> {"outside", "inside", "refused"}]
  BY DEF Gate_stage, StageOf
<1>7. QED
  BY <1>3, <1>4, <1>5, <1>6 DEF RG!Answer, RG!gateVars

LEMMA CloseGateStep ==
  ASSUME IInv, NEW r \in Requests, CloseGate(r)
  PROVE  RG!Close
<1>1. [Next]_vars
  BY DEF Next, Handler
<1>2. UNCHANGED Gate_stage
  BY <1>1, StagesKept DEF CloseGate, goto, IInv, TypeOK
<1>3. main # "exited" /\ ~shutting_down /\ shutting_down' /\ UNCHANGED main
  BY DEF IInv, LifecycleInv, InitiatorInv, CloseGate, threadVars
<1>4. QED
  BY <1>2, <1>3 DEF RG!Close, Gate_phase

LEMMA ExitStep ==
  ASSUME IInv, finalize_shutdown
  PROVE  RG!Exit
<1>1. [Next]_vars
  BY DEF Next, Main
<1>2. UNCHANGED Gate_stage
  BY <1>1, StagesKept DEF finalize_shutdown, otherThanMain
<1>3. ASSUME NEW s \in Requests
      PROVE  Gate_stage[s] = "outside"
  <2>1. pc[s] = "idle"
    BY DEF IInv, LifecycleInv, finalize_shutdown
  <2>2. QED
    BY <2>1 DEF Gate_stage, StageOf, Admitted
<1>4. Gate_phase # "exited" /\ Gate_phase' = "exited"
  BY DEF finalize_shutdown, Gate_phase
<1>5. QED
  BY <1>2, <1>3, <1>4 DEF RG!Exit

\* Every other step is invisible at the gate.
LEMMA InvisibleStep ==
  ASSUME IInv, [Next]_vars, UNCHANGED shutting_down, main' = "exited" => main = "exited",
         main = "exited" => main' = "exited",
         \A s \in Requests : pc[s] \notin {"gate", "reply"} \/ pc'[s] = pc[s]
  PROVE  UNCHANGED RG!gateVars
<1>1. UNCHANGED Gate_stage
  BY StagesKept
<1>2. UNCHANGED Gate_phase
  BY DEF Gate_phase
<1>3. QED
  BY <1>1, <1>2 DEF RG!gateVars

LEMMA GateNext ==
  ASSUME IInv, [Next]_vars
  PROVE  [RG!Next]_(RG!gateVars)
<1> USE DEF goto, flagVars, threadVars
<1>1. ASSUME NEW r \in Requests, Gate(r) \/ Reply(r) \/ CloseGate(r)
      PROVE  [RG!Next]_(RG!gateVars)
  BY <1>1, GateStep, ReplyStep, CloseGateStep DEF RG!Next
<1>2. CASE finalize_shutdown
  BY <1>2, ExitStep DEF RG!Next
<1>3. ASSUME NEW r \in Requests, Accept(r) \/ Pickup(r) \/ HangUp(r)
      PROVE  UNCHANGED RG!gateVars
  BY <1>3, InvisibleStep DEF Accept, Pickup, HangUp, serveNext, IInv, TypeOK
<1>4. ASSUME NEW r \in Requests, NEW m \in Messages, Receive(r, m)
      PROVE  UNCHANGED RG!gateVars
  BY <1>4, InvisibleStep, ReceiveStep DEF Receive, IInv, TypeOK
<1>5. ASSUME NEW r \in Requests, Preflight(r) \/ Analyze(r)
      PROVE  UNCHANGED RG!gateVars
  BY <1>5, InvisibleStep DEF Preflight, Analyze, IInv, TypeOK
<1>6. ASSUME NEW r \in Requests, begin_request(r) \/ end_request(r) \/ NotifyAll(r)
      PROVE  UNCHANGED RG!gateVars
  BY <1>6, InvisibleStep DEF begin_request, end_request, NotifyAll, IInv, TypeOK
<1>7. ASSUME NEW r \in Requests, handle_post_shutdown(r)
      PROVE  UNCHANGED RG!gateVars
  BY <1>7, InvisibleStep DEF handle_post_shutdown, IInv, TypeOK
<1>8. ASSUME NEW r \in Requests,
             ElectInitiator(r) \/ SpawnWaiter(r) \/ AssignThread(r)
      PROVE  UNCHANGED RG!gateVars
  BY <1>8, InvisibleStep DEF ElectInitiator, SpawnWaiter, AssignThread, IInv, TypeOK
<1>9. CASE Waiter \/ SpuriousWakeup \/ TimeOut
  BY <1>9, InvisibleStep
  DEF Waiter, StopListener, CheckDrained, Block, SpuriousWakeup, TimeOut, otherThanWaiter
<1>10. CASE Listen \/ LeaveAcceptLoop \/ JoinWorkers
  BY <1>10, InvisibleStep DEF Listen, LeaveAcceptLoop, JoinWorkers, otherThanMain
<1>11. CASE UNCHANGED vars
  BY <1>11, InvisibleStep DEF vars
<1>12. QED
  BY <1>1, <1>2, <1>3, <1>4, <1>5, <1>6, <1>7, <1>8, <1>9, <1>10, <1>11
  DEF Next, Handler, Main, Terminated

\* HttpServer implements RequestGate: the process never ends owing an answer
\* to a request it let in, and lets none in after the gate has closed.
THEOREM GateRefinement == Spec => ImplementsRequestGate
<1>1. Init => RG!Init
  <2> SUFFICES ASSUME Init PROVE RG!Init
    OBVIOUS
  <2>1. Gate_phase = "open"
    BY DEF Init, Gate_phase
  <2>2. Gate_stage = [r \in Requests |-> "outside"]
    BY DEF Init, Gate_stage, StageOf, Admitted
  <2>3. QED
    BY <2>1, <2>2 DEF RG!Init
<1>2. IInv /\ [Next]_vars => [RG!Next]_(RG!gateVars)
  BY GateNext
<1>3. QED
  BY <1>1, <1>2, Invariance, PTL DEF Spec, RG!Spec, ImplementsRequestGate
==============================================================================
