----------------------------- MODULE ThreadPool ------------------------------
(***************************************************************************)
(* The class ThreadPool of ToolsInvoker.hpp: workers that wait on one      *)
(* condition variable for tasks in a queue, enqueue(), and a destructor    *)
(* that drains the queue and joins the workers.                            *)
(*                                                                         *)
(* A critical section of queueMutex is one action.  Notifications are      *)
(* separate actions because the code sends them after it has released the  *)
(* mutex.  Tasks are numbered in the order in which they are enqueued; one *)
(* thread, the owner, enqueues them and destroys the pool.                 *)
(***************************************************************************)
EXTENDS Naturals, Sequences, FiniteSets

CONSTANTS
  Workers,   \* the worker threads
  Idle,      \* no task
  MaxTasks   \* bound on the number of tasks, for model checking

ASSUME WorkersNonEmpty == Workers # {} /\ IsFiniteSet(Workers)
ASSUME IdleIsNoTask == Idle \notin Nat
ASSUME MaxTasksNat == MaxTasks \in Nat

VARIABLES
  tasks,      \* the queue
  stopping,   \* set by the destructor
  wpc,        \* per worker: "check", "waiting", "running" or "exited"
  current,    \* per worker: the task it runs, or Idle
  opc,        \* the owner
  submitted,  \* history: number of tasks enqueued
  taken,      \* history: number of tasks removed from the queue
  done        \* history: tasks that have ended

poolVars == <<tasks, stopping, wpc, current, opc, submitted, taken, done>>

TypeOK ==
  /\ tasks \in Seq(Nat)
  /\ stopping \in BOOLEAN
  /\ wpc \in [Workers -> {"check", "waiting", "running", "exited"}]
  /\ current \in [Workers -> Nat \cup {Idle}]
  /\ opc \in {"ready", "notify", "notifyAll", "joining", "destroyed"}
  /\ submitted \in Nat
  /\ taken \in Nat
  /\ done \subseteq Nat
  /\ \A w \in Workers : wpc[w] = "running" <=> current[w] \in Nat

Init ==
  /\ tasks = <<>>
  /\ stopping = FALSE
  /\ wpc = [w \in Workers |-> "check"]
  /\ current = [w \in Workers |-> Idle]
  /\ opc = "ready"
  /\ submitted = 0
  /\ taken = 0
  /\ done = {}

-----------------------------------------------------------------------------
\* A worker, once it holds queueMutex and is not in the wait set.

\* Faulty: the task is left at the head of the queue.
Take_noPop(w) ==
  /\ wpc[w] = "check"
  /\ tasks # <<>>
  /\ current' = [current EXCEPT ![w] = Head(tasks)]
  /\ taken' = taken + 1
  /\ wpc' = [wpc EXCEPT ![w] = "running"]
  /\ UNCHANGED <<tasks, stopping, opc, submitted, done>>

Take(w) ==
  /\ wpc[w] = "check"
  /\ tasks # <<>>
  /\ current' = [current EXCEPT ![w] = Head(tasks)]
  /\ tasks' = Tail(tasks)
  /\ taken' = taken + 1
  /\ wpc' = [wpc EXCEPT ![w] = "running"]
  /\ UNCHANGED <<stopping, opc, submitted, done>>

Wait(w) ==
  /\ wpc[w] = "check"
  /\ tasks = <<>>
  /\ ~stopping
  /\ wpc' = [wpc EXCEPT ![w] = "waiting"]
  /\ UNCHANGED <<tasks, stopping, current, opc, submitted, taken, done>>

\* Faulty: a stopping worker does not look at the queue.
ExitLoop_early(w) ==
  /\ wpc[w] = "check"
  /\ stopping
  /\ wpc' = [wpc EXCEPT ![w] = "exited"]
  /\ UNCHANGED <<tasks, stopping, current, opc, submitted, taken, done>>

ExitLoop(w) ==
  /\ wpc[w] = "check"
  /\ tasks = <<>>
  /\ stopping
  /\ wpc' = [wpc EXCEPT ![w] = "exited"]
  /\ UNCHANGED <<tasks, stopping, current, opc, submitted, taken, done>>

SpuriousWakeup(w) ==
  /\ wpc[w] = "waiting"
  /\ wpc' = [wpc EXCEPT ![w] = "check"]
  /\ UNCHANGED <<tasks, stopping, current, opc, submitted, taken, done>>

\* Faulty: the task object is not released when it has run.
Complete_keepsTask(w) ==
  /\ wpc[w] = "running"
  /\ done' = done \cup {current[w]}
  /\ wpc' = [wpc EXCEPT ![w] = "check"]
  /\ UNCHANGED <<tasks, stopping, current, opc, submitted, taken>>

\* task() returns; what it throws stays in its future.
Complete(w) ==
  /\ wpc[w] = "running"
  /\ done' = done \cup {current[w]}
  /\ current' = [current EXCEPT ![w] = Idle]
  /\ wpc' = [wpc EXCEPT ![w] = "check"]
  /\ UNCHANGED <<tasks, stopping, opc, submitted, taken>>

-----------------------------------------------------------------------------
\* The owner.

\* Faulty: a task jumps the queue.
enqueue_lifo ==
  /\ opc = "ready"
  /\ ~stopping
  /\ submitted < MaxTasks
  /\ submitted' = submitted + 1
  /\ tasks' = <<submitted'>> \o tasks
  /\ opc' = "notify"
  /\ UNCHANGED <<stopping, wpc, current, taken, done>>

enqueue ==
  /\ opc = "ready"
  /\ ~stopping
  /\ submitted < MaxTasks
  /\ submitted' = submitted + 1
  /\ tasks' = Append(tasks, submitted')
  /\ opc' = "notify"
  /\ UNCHANGED <<stopping, wpc, current, taken, done>>

\* Faulty: nobody is notified.
notify_one_missing ==
  /\ opc = "notify"
  /\ opc' = "ready"
  /\ UNCHANGED <<tasks, stopping, wpc, current, submitted, taken, done>>

notify_one ==
  /\ opc = "notify"
  /\ \/ \E w \in Workers : /\ wpc[w] = "waiting"
                           /\ wpc' = [wpc EXCEPT ![w] = "check"]
     \/ /\ \A w \in Workers : wpc[w] # "waiting"
        /\ UNCHANGED wpc
  /\ opc' = "ready"
  /\ UNCHANGED <<tasks, stopping, current, submitted, taken, done>>

\* ~ThreadPool(), in three steps.
SetStopping ==
  /\ opc = "ready"
  /\ stopping' = TRUE
  /\ opc' = "notifyAll"
  /\ UNCHANGED <<tasks, wpc, current, submitted, taken, done>>

\* Faulty: one sleeping worker is notified instead of all.
notify_all_one ==
  /\ opc = "notifyAll"
  /\ \/ \E w \in Workers : /\ wpc[w] = "waiting"
                           /\ wpc' = [wpc EXCEPT ![w] = "check"]
     \/ (\A w \in Workers : wpc[w] # "waiting") /\ UNCHANGED wpc
  /\ opc' = "joining"
  /\ UNCHANGED <<tasks, stopping, current, submitted, taken, done>>

notify_all ==
  /\ opc = "notifyAll"
  /\ wpc' = [w \in Workers |-> IF wpc[w] = "waiting" THEN "check" ELSE wpc[w]]
  /\ opc' = "joining"
  /\ UNCHANGED <<tasks, stopping, current, submitted, taken, done>>

JoinWorkers ==
  /\ opc = "joining"
  /\ \A w \in Workers : wpc[w] = "exited"
  /\ opc' = "destroyed"
  /\ UNCHANGED <<tasks, stopping, wpc, current, submitted, taken, done>>

Destroyed == opc = "destroyed" /\ UNCHANGED poolVars

Worker(w) == Take(w) \/ Wait(w) \/ ExitLoop(w) \/ Complete(w)
Destructor == SetStopping \/ notify_all \/ JoinWorkers

Next ==
  \/ \E w \in Workers : Worker(w) \/ SpuriousWakeup(w)
  \/ enqueue \/ notify_one \/ Destructor \/ Destroyed

Spec == Init /\ [][Next]_poolVars

\* Threads that can run do run and every task ends; the owner need never
\* destroy the pool.
FairSpec == /\ Spec
            /\ \A w \in Workers : WF_poolVars(Worker(w))
            /\ WF_poolVars(notify_one) /\ WF_poolVars(notify_all \/ JoinWorkers)

-----------------------------------------------------------------------------
\* Safety.

\* The queue is exactly the tasks that were enqueued and not yet taken, in
\* the order of enqueue.
QueueIsFifo ==
  /\ Len(tasks) = submitted - taken
  /\ \A i \in 1..Len(tasks) : tasks[i] = taken + i

\* A task that was taken is finished or run by one worker, never both and
\* never by two.
TakenOnce ==
  /\ \A v, w \in Workers :
       wpc[v] = "running" /\ wpc[w] = "running" /\ current[v] = current[w] => v = w
  /\ \A w \in Workers : wpc[w] = "running" => current[w] \in (1..taken) \ done
  /\ done \subseteq 1..taken
  /\ \A t \in 1..taken :
       t \in done \/ \E w \in Workers : wpc[w] = "running" /\ current[w] = t

\* No lost wakeup: while a task is in the queue, some worker is awake or the
\* owner is about to wake one up; and once the destructor joins, no worker
\* is asleep.
NoLostWakeup ==
  /\ tasks # <<>> => \/ opc = "notify"
                     \/ \E w \in Workers : wpc[w] \in {"check", "running"}
  /\ stopping /\ opc # "notifyAll" => \A w \in Workers : wpc[w] # "waiting"

\* A worker leaves its loop, and the destructor returns, only when the queue
\* is empty for good; when it has returned every task has ended.
DestructorDrains ==
  /\ \A w \in Workers : wpc[w] = "exited" => stopping /\ tasks = <<>>
  /\ opc = "destroyed" => done = 1..submitted

\* The destructor in terms of the two flags; with the four invariants above
\* and TypeOK this is inductive.
OwnerInv ==
  /\ stopping <=> opc \in {"notifyAll", "joining", "destroyed"}
  /\ opc = "destroyed" => \A w \in Workers : wpc[w] = "exited"

IInv == /\ TypeOK /\ QueueIsFifo /\ TakenOnce /\ NoLostWakeup
        /\ DestructorDrains /\ OwnerInv

\* ThreadPool keeps the promise of TaskService.
TS == INSTANCE TaskService WITH
        Width <- Cardinality(Workers), started <- taken, finished <- done,
        gone <- (opc = "destroyed")
ImplementsTaskService == TS!Spec

-----------------------------------------------------------------------------
\* Liveness.

\* Every task that was enqueued is run to its end.
EveryTaskEnds == \A t \in 1..MaxTasks : submitted >= t ~> t \in done

\* The destructor returns.
DestructorReturns == stopping ~> opc = "destroyed"
==============================================================================
