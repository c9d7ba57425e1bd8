-------------------------- MODULE ThreadPoolProofs ---------------------------
(***************************************************************************)
(* Proofs about ThreadPool for any number of workers and of tasks.         *)
(***************************************************************************)
EXTENDS ThreadPool, FiniteSetTheorems, TLAPS

-----------------------------------------------------------------------------
(***************************************************************************)
(* Type correctness.  The element type of the queue is the one conjunct    *)
(* that needs the sequence operators; the others follow action by action.  *)
(***************************************************************************)
LEMMA TypeInit == Init => TypeOK
<1> SUFFICES ASSUME Init PROVE TypeOK
  OBVIOUS
<1> USE DEF Init
<1>1. tasks \in Seq(Nat) /\ submitted \in Nat /\ taken \in Nat /\ done \subseteq Nat
  OBVIOUS
<1>2. stopping \in BOOLEAN
  OBVIOUS
<1>3. /\ wpc \in [Workers -> {"check", "waiting", "running", "exited"}]
      /\ current \in [Workers -> Nat \cup {Idle}]
      /\ \A w \in Workers : wpc[w] = "running" <=> current[w] \in Nat
  BY IdleIsNoTask
<1>4. QED
  BY <1>1, <1>2, <1>3 DEF TypeOK

LEMMA TypeNext == TypeOK /\ [Next]_poolVars => TypeOK'
<1> SUFFICES ASSUME TypeOK, [Next]_poolVars
             PROVE  TypeOK'
  OBVIOUS
<1> USE IdleIsNoTask DEF TypeOK
<1>1. ASSUME NEW w \in Workers, Take(w)
      PROVE  TypeOK'
  <2>1. Head(tasks) \in Nat /\ Tail(tasks) \in Seq(Nat)
    BY <1>1 DEF Take
  <2>2. QED
    BY <1>1, <2>1 DEF Take
<1>2. ASSUME NEW w \in Workers, Wait(w) \/ ExitLoop(w) \/ SpuriousWakeup(w)
      PROVE  TypeOK'
  BY <1>2 DEF Wait, ExitLoop, SpuriousWakeup
<1>3. ASSUME NEW w \in Workers, Complete(w)
      PROVE  TypeOK'
  BY <1>3 DEF Complete
<1>4. CASE enqueue
  BY <1>4 DEF enqueue
<1>5. CASE notify_one
  BY <1>5 DEF notify_one
<1>6. CASE Destructor
  BY <1>6 DEF Destructor, SetStopping, notify_all, JoinWorkers
<1>7. CASE UNCHANGED poolVars
  BY <1>7 DEF poolVars
<1>8. QED
  BY <1>1, <1>2, <1>3, <1>4, <1>5, <1>6, <1>7 DEF Next, Worker, Destroyed

THEOREM TypeCorrect == Spec => []TypeOK
<1>1. QED
  BY TypeInit, TypeNext, PTL DEF Spec

-----------------------------------------------------------------------------
(***************************************************************************)
(* The safety invariants, by induction over IInv.                          *)
(***************************************************************************)
LEMMA InvInit == Init => IInv
<1> SUFFICES ASSUME Init PROVE IInv
  OBVIOUS
<1> USE DEF Init
<1>1. TypeOK
  BY TypeInit
<1>2. Len(tasks) = 0
  OBVIOUS
<1>3. QueueIsFifo
  BY <1>2 DEF QueueIsFifo
<1>4. TakenOnce
  BY DEF TakenOnce
<1>5. NoLostWakeup
  BY DEF NoLostWakeup
<1>6. DestructorDrains /\ OwnerInv
  BY DEF DestructorDrains, OwnerInv
<1>7. QED
  BY <1>1, <1>3, <1>4, <1>5, <1>6 DEF IInv

\* The head of a non-empty queue is the oldest task not yet taken.
LEMMA HeadIsNext ==
  ASSUME TypeOK, QueueIsFifo, tasks # <<>>
  PROVE  /\ Head(tasks) = taken + 1
         /\ taken < submitted
         /\ Len(Tail(tasks)) = Len(tasks) - 1
         /\ \A i \in 1..Len(Tail(tasks)) : Tail(tasks)[i] = tasks[i + 1]
BY DEF TypeOK, QueueIsFifo

LEMMA FifoNext == IInv /\ [Next]_poolVars => QueueIsFifo'
<1> SUFFICES ASSUME TypeOK, QueueIsFifo, [Next]_poolVars
             PROVE  QueueIsFifo'
  BY DEF IInv
<1>1. ASSUME NEW w \in Workers, Take(w)
      PROVE  QueueIsFifo'
  BY <1>1, HeadIsNext DEF Take, QueueIsFifo, TypeOK
<1>2. CASE enqueue
  <2>1. /\ Len(tasks') = Len(tasks) + 1
        /\ tasks'[Len(tasks) + 1] = submitted + 1
        /\ \A i \in 1..Len(tasks) : tasks'[i] = tasks[i]
    BY <1>2 DEF enqueue, TypeOK
  <2>2. Len(tasks) = submitted - taken /\ Len(tasks) \in Nat
    BY DEF QueueIsFifo, TypeOK
  <2>3. ASSUME NEW i \in 1..Len(tasks')
        PROVE  tasks'[i] = taken + i
    <3>1. CASE i \in 1..Len(tasks)
      BY <2>1, <3>1 DEF QueueIsFifo
    <3>2. CASE i = Len(tasks) + 1
      BY <2>1, <2>2, <3>2 DEF TypeOK
    <3>3. QED
      BY <2>1, <2>2, <3>1, <3>2
  <2>4. QED
    BY <1>2, <2>1, <2>2, <2>3 DEF enqueue, QueueIsFifo, TypeOK
<1>3. CASE UNCHANGED <<tasks, submitted, taken>>
  BY <1>3 DEF QueueIsFifo
<1>4. QED
  BY <1>1, <1>2, <1>3 DEF Next, Worker, Wait, ExitLoop, Complete, SpuriousWakeup,
     notify_one, Destructor, SetStopping, notify_all, JoinWorkers, Destroyed, poolVars

LEMMA TakenNext == IInv /\ [Next]_poolVars => TakenOnce'
<1> SUFFICES ASSUME TypeOK, QueueIsFifo, TakenOnce, [Next]_poolVars
             PROVE  TakenOnce'
  BY DEF IInv
<1> USE DEF TypeOK
<1>1. ASSUME NEW w \in Workers, Take(w)
      PROVE  TakenOnce'
  <2> USE DEF Take
  <2>1. /\ current'[w] = taken + 1 /\ wpc'[w] = "running"
        /\ \A v \in Workers \ {w} : current'[v] = current[v] /\ wpc'[v] = wpc[v]
        /\ taken' = taken + 1 /\ done' = done
    BY <1>1, HeadIsNext
  <2>2. \A v \in Workers : wpc[v] = "running" => current[v] \in 1..taken
    BY DEF TakenOnce
  <2>3. \A u, v \in Workers :
          wpc'[u] = "running" /\ wpc'[v] = "running" /\ current'[u] = current'[v] => u = v
    BY <2>1, <2>2 DEF TakenOnce
  <2>4. \A v \in Workers : wpc'[v] = "running" => current'[v] \in (1..taken') \ done'
    BY <2>1, <2>2 DEF TakenOnce
  <2>5. ASSUME NEW t \in 1..taken'
        PROVE  t \in done' \/ \E v \in Workers : wpc'[v] = "running" /\ current'[v] = t
    <3>1. CASE t = taken + 1
      BY <2>1, <3>1
    <3>2. CASE t \in 1..taken
      BY <1>1, <2>1, <3>2 DEF TakenOnce
    <3>3. QED
      BY <2>1, <3>1, <3>2
  <2>6. done' \subseteq 1..taken'
    BY <2>1 DEF TakenOnce
  <2>7. QED
    BY <2>3, <2>4, <2>5, <2>6 DEF TakenOnce
<1>2. ASSUME NEW w \in Workers, Complete(w)
      PROVE  TakenOnce'
  <2> USE DEF Complete
  <2>1. /\ wpc[w] = "running" /\ wpc'[w] = "check"
        /\ \A v \in Workers \ {w} : current'[v] = current[v] /\ wpc'[v] = wpc[v]
        /\ taken' = taken /\ done' = done \cup {current[w]}
    BY <1>2
  <2>2. \A u, v \in Workers :
          wpc'[u] = "running" /\ wpc'[v] = "running" /\ current'[u] = current'[v] => u = v
    BY <2>1 DEF TakenOnce
  <2>3. ASSUME NEW v \in Workers, wpc'[v] = "running"
        PROVE  current'[v] \in (1..taken') \ done'
    <3>1. v # w /\ wpc[v] = "running" /\ current'[v] = current[v]
      BY <2>1, <2>3
    <3>2. current[v] \in (1..taken) \ done /\ current[v] # current[w]
      BY <2>1, <3>1 DEF TakenOnce
    <3>3. QED
      BY <2>1, <3>1, <3>2
  <2>4. done' \subseteq 1..taken'
    BY <2>1 DEF TakenOnce
  <2>5. ASSUME NEW t \in 1..taken'
        PROVE  t \in done' \/ \E v \in Workers : wpc'[v] = "running" /\ current'[v] = t
    <3>1. CASE t \in done \/ t = current[w]
      BY <2>1, <3>1
    <3>2. CASE t \notin done /\ t # current[w]
      <4>1. PICK v \in Workers : wpc[v] = "running" /\ current[v] = t
        BY <2>1, <2>5, <3>2 DEF TakenOnce
      <4>2. QED
        BY <2>1, <3>2, <4>1
    <3>3. QED
      BY <3>1, <3>2
  <2>6. QED
    BY <2>2, <2>5, <2>3, <2>4 DEF TakenOnce
<1>3. ASSUME NEW w \in Workers, Wait(w) \/ ExitLoop(w) \/ SpuriousWakeup(w)
      PROVE  TakenOnce'
  <2>1. /\ UNCHANGED <<current, taken, done>>
        /\ \A v \in Workers : wpc'[v] = "running" <=> wpc[v] = "running"
    BY <1>3 DEF Wait, ExitLoop, SpuriousWakeup
  <2>2. QED
    BY <2>1 DEF TakenOnce
<1>4. CASE enqueue
  BY <1>4 DEF enqueue, TakenOnce
<1>5. CASE notify_one \/ notify_all
  <2>1. /\ UNCHANGED <<current, taken, done>>
        /\ \A w \in Workers : wpc'[w] = "running" <=> wpc[w] = "running"
    BY <1>5 DEF notify_one, notify_all
  <2>2. QED
    BY <2>1 DEF TakenOnce
<1>6. CASE UNCHANGED <<wpc, current, taken, done>>
  BY <1>6 DEF TakenOnce
<1>7. QED
  BY <1>1, <1>2, <1>3, <1>4, <1>5, <1>6 DEF Next, Worker, Destructor, SetStopping,
     JoinWorkers, Destroyed, poolVars

\* When a worker falls asleep or exits the queue is empty, and whoever makes
\* it non-empty is then obliged to notify.
LEMMA WakeupNext == IInv /\ [Next]_poolVars => NoLostWakeup'
<1> SUFFICES ASSUME TypeOK, NoLostWakeup, DestructorDrains, OwnerInv, [Next]_poolVars
             PROVE  NoLostWakeup'
  BY DEF IInv
<1> USE DEF TypeOK
<1>1. ASSUME NEW w \in Workers, Take(w) \/ Complete(w)
      PROVE  NoLostWakeup'
  BY <1>1 DEF Take, Complete, NoLostWakeup
<1>2. ASSUME NEW w \in Workers, Wait(w) \/ ExitLoop(w) \/ SpuriousWakeup(w)
      PROVE  NoLostWakeup'
  BY <1>2 DEF Wait, ExitLoop, SpuriousWakeup, NoLostWakeup
<1>3. CASE enqueue
  BY <1>3 DEF enqueue, NoLostWakeup
<1>4. CASE notify_one
  <2>1. ~stopping /\ \A w \in Workers : wpc[w] # "exited"
    BY <1>4 DEF notify_one, OwnerInv, DestructorDrains
  <2>2. \E w \in Workers : wpc'[w] \in {"check", "running"}
    <3>1. CASE \E w \in Workers : wpc[w] = "waiting"
      BY <1>4, <3>1 DEF notify_one
    <3>2. CASE \A w \in Workers : wpc[w] # "waiting"
      BY <1>4, <2>1, <3>2, WorkersNonEmpty DEF notify_one
    <3>3. QED
      BY <3>1, <3>2
  <2>3. QED
    BY <1>4, <2>1, <2>2 DEF notify_one, NoLostWakeup
<1>5. CASE SetStopping
  BY <1>5 DEF SetStopping, NoLostWakeup
<1>6. CASE notify_all
  BY <1>6 DEF notify_all, NoLostWakeup
<1>7. CASE JoinWorkers
  BY <1>7 DEF JoinWorkers, NoLostWakeup
<1>8. CASE UNCHANGED poolVars
  BY <1>8 DEF poolVars, NoLostWakeup
<1>9. QED
  BY <1>1, <1>2, <1>3, <1>4, <1>5, <1>6, <1>7, <1>8 DEF Next, Worker, Destructor, Destroyed

LEMMA DrainNext == IInv /\ [Next]_poolVars => DestructorDrains' /\ OwnerInv'
<1> SUFFICES ASSUME TypeOK, QueueIsFifo, TakenOnce, DestructorDrains, OwnerInv,
                    [Next]_poolVars
             PROVE  DestructorDrains' /\ OwnerInv'
  BY DEF IInv
<1> USE DEF TypeOK
<1>1. ASSUME NEW w \in Workers, Take(w) \/ Wait(w) \/ ExitLoop(w) \/ Complete(w)
      PROVE  DestructorDrains' /\ OwnerInv'
  BY <1>1 DEF Take, Wait, ExitLoop, Complete, DestructorDrains, OwnerInv
<1>2. ASSUME NEW w \in Workers, SpuriousWakeup(w)
      PROVE  DestructorDrains' /\ OwnerInv'
  BY <1>2 DEF SpuriousWakeup, DestructorDrains, OwnerInv
<1>3. CASE enqueue
  BY <1>3 DEF enqueue, DestructorDrains, OwnerInv
<1>4. CASE notify_one
  BY <1>4 DEF notify_one, DestructorDrains, OwnerInv
<1>5. CASE SetStopping \/ notify_all
  BY <1>5 DEF SetStopping, notify_all, DestructorDrains, OwnerInv
<1>6. CASE JoinWorkers
  <2>1. tasks = <<>>
    BY <1>6, WorkersNonEmpty DEF JoinWorkers, DestructorDrains
  <2>2. taken = submitted
    BY <2>1 DEF QueueIsFifo
  <2>3. done = 1..taken
    BY <1>6 DEF JoinWorkers, TakenOnce
  <2>4. QED
    BY <1>6, <2>1, <2>2, <2>3 DEF JoinWorkers, DestructorDrains, OwnerInv
<1>7. CASE UNCHANGED poolVars
  BY <1>7 DEF poolVars, DestructorDrains, OwnerInv
<1>8. QED
  BY <1>1, <1>2, <1>3, <1>4, <1>5, <1>6, <1>7 DEF Next, Worker, Destructor, Destroyed

LEMMA InvNext == IInv /\ [Next]_poolVars => IInv'
BY TypeNext, FifoNext, TakenNext, WakeupNext, DrainNext DEF IInv

LEMMA InvAlways == Spec => []IInv
<1>1. QED
  BY InvInit, InvNext, PTL DEF Spec

\* What the pool guarantees to ToolInvoker, for any number of workers and
\* tasks: order, exactly-once execution, no stranded task, and a destructor
\* that returns only when everything has run.
THEOREM Safety ==
  Spec => [](QueueIsFifo /\ TakenOnce /\ NoLostWakeup /\ DestructorDrains)
<1>1. IInv => QueueIsFifo /\ TakenOnce /\ NoLostWakeup /\ DestructorDrains
  BY DEF IInv
<1>2. QED
  BY <1>1, InvAlways, PTL

-----------------------------------------------------------------------------
(***************************************************************************)
(* ThreadPool implements TaskService.                                      *)
(***************************************************************************)

\* A worker that is about to take a task is not one that runs a task.
LEMMA RoomToStart ==
  ASSUME IInv, NEW w \in Workers, wpc[w] = "check"
  PROVE  Cardinality(TS!Running) < Cardinality(Workers)
<1> DEFINE Others == Workers \ {w}
           runner == [t \in TS!Running |->
                        CHOOSE v \in Others : wpc[v] = "running" /\ current[v] = t]
<1>1. IsFiniteSet(Others) /\ Cardinality(Others) = Cardinality(Workers) - 1
  BY WorkersNonEmpty, FS_RemoveElement
<1>2. Cardinality(Workers) \in Nat /\ Cardinality(Others) \in Nat
  BY <1>1, WorkersNonEmpty, FS_CardinalityType
<1>3. \A t \in TS!Running : \E v \in Others : wpc[v] = "running" /\ current[v] = t
  BY DEF IInv, TakenOnce, TS!Running
<1>4. \A t \in TS!Running : runner[t] \in Others /\ current[runner[t]] = t
  BY <1>3
<1>5. runner \in Injection(TS!Running, Others)
  BY <1>4 DEF Injection, IsInjective
<1>6. IsFiniteSet(TS!Running) /\ Cardinality(TS!Running) <= Cardinality(Others)
  BY <1>1, <1>5, FS_Injection
<1>7. Cardinality(TS!Running) \in Nat
  BY <1>6, FS_CardinalityType
<1>8. QED
  BY <1>1, <1>2, <1>6, <1>7

LEMMA ServiceInit == Init => TS!Init
BY DEF Init, TS!Init

LEMMA ServiceNext == IInv /\ IInv' /\ [Next]_poolVars => [TS!Next]_(TS!serviceVars)
<1> SUFFICES ASSUME IInv, IInv', [Next]_poolVars
             PROVE  TS!Next \/ UNCHANGED TS!serviceVars
  OBVIOUS
<1> USE DEF IInv, TypeOK, TS!Next, TS!serviceVars
<1>1. ASSUME NEW w \in Workers, Take(w)
      PROVE  TS!Start
  <2>1. taken < submitted
    BY <1>1, HeadIsNext DEF Take
  <2>2. Cardinality(TS!Running) < Cardinality(Workers)
    BY <1>1, RoomToStart DEF Take
  <2>3. TS!Cardinality(TS!Running) = Cardinality(TS!Running)
    BY DEF TS!Cardinality, Cardinality
  <2>4. QED
    BY <1>1, <2>1, <2>2, <2>3 DEF Take, TS!Start
<1>2. ASSUME NEW w \in Workers, Complete(w)
      PROVE  TS!Finish
  <2>1. current[w] \in TS!Running
    BY <1>2 DEF Complete, TakenOnce, TS!Running
  <2>2. QED
    BY <1>2, <2>1 DEF Complete, TS!Finish
<1>3. CASE enqueue
  BY <1>3 DEF enqueue, TS!Submit
<1>4. CASE JoinWorkers
  BY <1>4 DEF JoinWorkers, DestructorDrains, TS!Destroy
<1>5. CASE UNCHANGED <<submitted, taken, done, opc = "destroyed">>
  BY <1>5
<1>6. QED
  BY <1>1, <1>2, <1>3, <1>4, <1>5 DEF Next, Worker, Wait, ExitLoop, SpuriousWakeup,
     notify_one, Destructor, SetStopping, notify_all, Destroyed, poolVars

\* Every behaviour of the pool is one of the abstract service: tasks start
\* in the order of submission, once each, at most one per worker at a time,
\* and the pool is gone only after the last of them has finished.
THEOREM Refinement == Spec => ImplementsTaskService
<1>1. QED
  BY ServiceInit, ServiceNext, InvAlways, PTL DEF Spec, ImplementsTaskService, TS!Spec
==============================================================================
