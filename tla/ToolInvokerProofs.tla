-------------------------- MODULE ToolInvokerProofs --------------------------
(***************************************************************************)
(* Proofs about ToolInvoker for any configurations and any number of       *)
(* workers.                                                                *)
(***************************************************************************)
EXTENDS ToolInvoker, ToolPlanProofs

\* The theorems of ThreadPool, about the pool of this run.
TPP == INSTANCE ThreadPoolProofs

-----------------------------------------------------------------------------
(***************************************************************************)
(* The pool: its invariant, and what of it is used here.                   *)
(***************************************************************************)
LEMMA PoolAssumptions == TPP!WorkersNonEmpty /\ TPP!IdleIsNoTask /\ TPP!MaxTasksNat
BY PoolShaped DEF TPP!WorkersNonEmpty, TPP!IdleIsNoTask, TPP!MaxTasksNat, IsFiniteSet,
   TPP!IsFiniteSet

LEMMA PoolInv == TP!IInv <=> TPP!IInv
BY DEF TP!IInv, TPP!IInv, TP!TypeOK, TPP!TypeOK, TP!QueueIsFifo, TPP!QueueIsFifo,
   TP!TakenOnce, TPP!TakenOnce, TP!NoLostWakeup, TPP!NoLostWakeup,
   TP!DestructorDrains, TPP!DestructorDrains, TP!OwnerInv, TPP!OwnerInv

LEMMA PoolNext == [TP!Next]_(TP!poolVars) <=> [TPP!Next]_(TPP!poolVars)
BY DEF TP!Next, TPP!Next, TP!Worker, TPP!Worker, TP!Take, TPP!Take, TP!Wait, TPP!Wait,
   TP!ExitLoop, TPP!ExitLoop, TP!Complete, TPP!Complete,
   TP!SpuriousWakeup, TPP!SpuriousWakeup, TP!enqueue, TPP!enqueue,
   TP!notify_one, TPP!notify_one, TP!Destructor, TPP!Destructor,
   TP!SetStopping, TPP!SetStopping, TP!notify_all, TPP!notify_all,
   TP!JoinWorkers, TPP!JoinWorkers, TP!Destroyed, TPP!Destroyed,
   TP!poolVars, TPP!poolVars

LEMMA PoolInvInit == TP!Init => TP!IInv
<1>1. TP!Init => TPP!Init
  BY DEF TP!Init, TPP!Init
<1>2. QED
  BY <1>1, PoolInv, PoolAssumptions, TPP!InvInit

LEMMA PoolInvNext == TP!IInv /\ [TP!Next]_(TP!poolVars) => TP!IInv'
<1>1. TP!IInv' <=> TPP!IInv'
  BY PoolInv, PTL
<1>2. QED
  BY <1>1, PoolInv, PoolNext, PoolAssumptions, TPP!InvNext
\* What the steps below use of the pool's invariant.
LEMMA PoolFacts ==
  ASSUME TP!IInv
  PROVE  /\ submitted \in Nat /\ taken \in Nat /\ taken <= submitted
         /\ done \subseteq 1..submitted
         /\ tasks # <<>> => Head(tasks) = taken + 1 /\ Head(tasks) \in 1..submitted
         /\ \A w \in Workers : wpc[w] = "running" => current[w] \in (1..submitted) \ done
         /\ \A v, w \in Workers :
              wpc[v] = "running" /\ wpc[w] = "running" /\ current[v] = current[w] => v = w
         /\ done = 1..submitted => tasks = <<>> /\ \A w \in Workers : wpc[w] # "running"
         /\ wpc \in [Workers -> {"check", "waiting", "running", "exited"}]
         /\ current \in [Workers -> Nat \cup {Idle}]
<1> USE DEF TP!IInv, TP!TypeOK
<1>1. /\ submitted \in Nat /\ taken \in Nat
      /\ wpc \in [Workers -> {"check", "waiting", "running", "exited"}]
      /\ current \in [Workers -> Nat \cup {Idle}]
      /\ Len(tasks) \in Nat /\ Len(tasks) = submitted - taken
  BY DEF TP!QueueIsFifo
<1>2. taken <= submitted
  BY <1>1
<1>3. done \subseteq 1..submitted
  BY <1>1, <1>2 DEF TP!TakenOnce
<1>4. tasks # <<>> => Head(tasks) = taken + 1 /\ Head(tasks) \in 1..submitted
  <2>1. tasks # <<>> => Len(tasks) > 0 /\ Head(tasks) = tasks[1]
    BY <1>1
  <2>2. QED
    BY <1>1, <2>1 DEF TP!QueueIsFifo
<1>5. \A w \in Workers : wpc[w] = "running" => current[w] \in (1..taken) \ done
  BY DEF TP!TakenOnce
<1>6. ASSUME done = 1..submitted
      PROVE  tasks = <<>> /\ \A w \in Workers : wpc[w] # "running"
  <2>1. taken = submitted
    <3>1. done \subseteq 1..taken
      BY DEF TP!TakenOnce
    <3>2. submitted = 0 \/ submitted \in 1..taken
      BY <1>1, <1>6, <3>1
    <3>3. QED
      BY <1>1, <1>2, <3>2
  <2>2. QED
    BY <1>1, <1>5, <1>6, <2>1
<1>7. QED
  BY <1>1, <1>2, <1>3, <1>4, <1>5, <1>6 DEF TP!TakenOnce

-----------------------------------------------------------------------------
(***************************************************************************)
(* Every step is a step of the pool, or leaves it alone.                   *)
(***************************************************************************)
LEMMA PoolStep == [Next]_vars => [TP!Next]_(TP!poolVars)
<1> SUFFICES ASSUME [Next]_vars PROVE TP!Next \/ UNCHANGED TP!poolVars
  OBVIOUS
<1> USE DEF pool, TP!poolVars
<1>1. CASE Enqueue \/ Notify \/ DestroyPool
  BY <1>1 DEF Enqueue, Notify, DestroyPool, TP!Next
<1>2. ASSUME NEW w \in Workers, TakeTask(w) \/ SleepOrExit(w) \/ Spurious(w)
      PROVE  TP!Next
  BY <1>2 DEF TakeTask, SleepOrExit, Spurious, TP!Next, TP!Worker
<1>3. ASSUME NEW x \in Executors, Execute(x) \/ recordDiagnosticsSummary(x)
      PROVE  TP!Next \/ UNCHANGED TP!poolVars
  <2>1. CASE x = Owner
    BY <1>3, <2>1 DEF Execute, recordDiagnosticsSummary, Return
  <2>2. CASE x \in Workers
    BY <1>3, <2>2, OwnerIsNoWorker
       DEF Execute, recordDiagnosticsSummary, Return, TP!Next, TP!Worker
  <2>3. QED
    BY <2>1, <2>2 DEF Executors
<1>4. CASE UNCHANGED pool
  BY <1>4
<1>5. QED
  BY <1>1, <1>2, <1>3, <1>4 DEF Next, Caller, Worker, ExecuteTool, Executors, BeginStep,
     GetResults, EndOfRun, DestroySummary, Gone, Lock, vars

\* The invoker uses the pool as ThreadPool describes it, for any workers and
\* any configurations.
THEOREM UsesThePool == Spec => ImplementsThreadPool
<1>1. Init => TP!Init
  BY DEF Init
<1>2. QED
  BY <1>1, PoolStep, PTL DEF Spec, ImplementsThreadPool, TP!Spec

LEMMA PoolInvStep == IInv /\ [Next]_vars => TP!IInv'
BY PoolStep, PoolInvNext DEF IInv

LEMMA ConfigStays == [Next]_vars => config' = config
BY DEF Next, Caller, Worker, ExecuteTool, BeginStep, Enqueue, Notify, GetResults, EndOfRun,
   DestroySummary, DestroyPool, Gone, Lock, Execute, recordDiagnosticsSummary, TakeTask,
   SleepOrExit, Spurious, vars, ownerVars

-----------------------------------------------------------------------------
(***************************************************************************)
(* Type correctness, but for the set of locks, which is in LocksNext.      *)
(***************************************************************************)
LEMMA JobNotNoJob == config \in Configs => NoJob \notin Plan(config)
BY PlanShaped, NoJobIsNoJob, ConfigsShaped

\* What is not the thread's own state.
Shared ==
  /\ stage \in {"next", "call", "submit", "teardown", "destroyPool", "gone"}
  /\ plan \subseteq Plan(config)
  /\ toSubmit \subseteq Plan(config)
  /\ awaited \in 0..submitted
  /\ jobs \in Seq(Plan(config))
  /\ Len(jobs) = submitted
  /\ failed \subseteq done
  /\ last \in [tools -> Plan(config) \cup {NoJob}]
  /\ IsABag(recorded) /\ DOMAIN recorded \subseteq Plan(config)
  /\ IsABag(reported) /\ DOMAIN reported \subseteq Plan(config)
  /\ threw \in BOOLEAN
  /\ alive \in BOOLEAN

Threads ==
  /\ at \in [Executors -> {"idle", "lock", "execute", "record"}]
  /\ job \in [Executors -> Plan(config) \cup {NoJob}]
  /\ \A x \in Executors : at[x] = "idle" <=> job[x] = NoJob

\* What x executes is a job of the plan, whose tool exists.
LEMMA Busy ==
  ASSUME IInv, NEW x \in Executors, at[x] # "idle"
  PROVE  job[x] \in Plan(config) /\ toolOf(x) \in tools
<1>1. config \in Configs /\ job[x] \in Plan(config)
  BY DEF IInv, TypeOK
<1>2. QED
  BY <1>1, PlanShaped, ConfigsShaped DEF toolOf

LEMMA BagAddType ==
  ASSUME NEW B, IsABag(B), NEW e
  PROVE  /\ IsABag(BagAdd(B, e))
         /\ DOMAIN BagAdd(B, e) = DOMAIN B \cup {e}
         /\ \A d \in DOMAIN B \ {e} : BagAdd(B, e)[d] = B[d]
         /\ e \notin DOMAIN B => BagAdd(B, e)[e] = 1
BY DEF IsABag, BagAdd

LEMMA ThreadsNext == IInv /\ [Next]_vars => Threads'
<1> SUFFICES ASSUME IInv, [Next]_vars
             PROVE  Threads'
  OBVIOUS
<1>0. Threads /\ config \in Configs /\ config' = config /\ NoJob \notin Plan(config)
  BY ConfigStays, JobNotNoJob DEF IInv, TypeOK, Threads
<1>1. ASSUME NEW x \in Executors, NEW j \in Plan(config), start(x, j)
      PROVE  Threads'
  BY <1>0, <1>1 DEF start, Threads
<1>2. ASSUME NEW x \in Executors, at' = [at EXCEPT ![x] = "idle"],
             job' = [job EXCEPT ![x] = NoJob]
      PROVE  Threads'
  BY <1>0, <1>2 DEF Threads
<1>3. ASSUME NEW x \in Executors, at[x] # "idle", UNCHANGED job,
             at' = [at EXCEPT ![x] = "execute"] \/ at' = [at EXCEPT ![x] = "record"]
      PROVE  Threads'
  BY <1>0, <1>3 DEF Threads
<1>4. CASE UNCHANGED <<at, job>>
  BY <1>0, <1>4 DEF Threads
<1>5. CASE BeginStep
  <2>1. plan \subseteq Plan(config) /\ Owner \in Executors
    BY DEF IInv, TypeOK, Executors
  <2>2. QED
    BY <1>1, <1>4, <1>5, <2>1 DEF BeginStep, FirstOf, execVars
<1>6. ASSUME NEW w \in Workers, TakeTask(w)
      PROVE  Threads'
  <2>1. Head(tasks) \in 1..submitted
    BY <1>6, PoolFacts DEF IInv, TakeTask, TP!Take
  <2>2. jobs[Head(tasks)] \in Plan(config)
    BY <2>1 DEF IInv, TypeOK
  <2>3. w \in Executors
    BY DEF Executors
  <2>4. QED
    BY <1>1, <1>6, <2>2, <2>3 DEF TakeTask
<1>7. ASSUME NEW x \in Executors, ExecuteTool(x)
      PROVE  Threads'
  BY <1>2, <1>3, <1>7 DEF ExecuteTool, Lock, Execute, recordDiagnosticsSummary, Return
<1>8. QED
  BY <1>4, <1>5, <1>6, <1>7 DEF Next, Caller, Worker, Executors, Enqueue, Notify, GetResults,
     EndOfRun, DestroySummary, DestroyPool, Gone, SleepOrExit, Spurious, vars, execVars

LEMMA SharedNext == IInv /\ [Next]_vars => Shared'
<1> SUFFICES ASSUME IInv, [Next]_vars
             PROVE  Shared'
  OBVIOUS
<1>0. /\ Shared /\ config \in Configs /\ config' = config
      /\ submitted \in Nat /\ done \subseteq 1..submitted
  BY ConfigStays, PoolFacts DEF IInv, TypeOK, Shared
<1> USE <1>0
<1>1. CASE BeginStep
  BY <1>1 DEF BeginStep, Shared, pool, toolVars
<1>2. CASE Enqueue
  <2>1. submitted' = submitted + 1 /\ done' = done
    BY <1>2 DEF Enqueue, TP!enqueue
  <2>2. PICK j \in toSubmit : jobs' = Append(jobs, j) /\ toSubmit' = toSubmit \ {j}
    BY <1>2 DEF Enqueue
  <2>3. j \in Plan(config) /\ jobs' \in Seq(Plan(config)) /\ Len(jobs') = Len(jobs) + 1
    BY <2>2 DEF Shared
  <2>4. QED
    BY <1>2, <2>1, <2>2, <2>3 DEF Enqueue, Shared, toolVars
<1>3. CASE Notify
  BY <1>3 DEF Notify, TP!notify_one, Shared, ownerVars, toolVars
<1>4. CASE GetResults
  BY <1>4 DEF GetResults, Shared, pool, ownerVars, toolVars
<1>5. CASE EndOfRun
  BY <1>5 DEF EndOfRun, Shared, pool, toolVars
<1>6. CASE DestroySummary
  BY <1>6 DEF DestroySummary, Shared, pool, toolVars
<1>7. CASE DestroyPool
  BY <1>7 DEF DestroyPool, TP!Destructor, TP!SetStopping, TP!notify_all, TP!JoinWorkers,
     Shared, ownerVars, toolVars
<1>8. ASSUME NEW x \in Executors, Lock(x)
      PROVE  Shared'
  BY <1>8 DEF Lock, Shared, pool, ownerVars
<1>9. ASSUME NEW x \in Executors, Execute(x)
      PROVE  Shared'
  <2>1. job[x] \in Plan(config) /\ toolOf(x) \in tools
    BY <1>9, Busy DEF Execute
  <2>2. last' \in [tools -> Plan(config) \cup {NoJob}]
    BY <1>9, <2>1 DEF Execute, Shared
  <2>3. CASE UNCHANGED <<pool, stage, failed, threw>>
    BY <1>9, <2>2, <2>3 DEF Execute, Shared, pool, ownerVars
  <2>4. CASE Return(x, TRUE) /\ x = Owner
    BY <1>9, <2>2, <2>4 DEF Execute, Return, Shared, pool, ownerVars
  <2>5. CASE Return(x, TRUE) /\ x # Owner
    BY <1>9, <2>2, <2>5 DEF Execute, Return, TP!Complete, Shared, ownerVars
  <2>6. QED
    BY <1>9, <2>3, <2>4, <2>5 DEF Execute
<1>10. ASSUME NEW x \in Executors, recordDiagnosticsSummary(x)
       PROVE  Shared'
  <2>1. last[toolOf(x)] = job[x] /\ job[x] \in Plan(config)
    BY <1>10, Busy DEF recordDiagnosticsSummary, IInv, SummaryIsOwn
  <2>2. IsABag(recorded') /\ DOMAIN recorded' \subseteq Plan(config)
    <3>1. recorded' = BagAdd(recorded, job[x])
      BY <1>10, <2>1 DEF recordDiagnosticsSummary
    <3>2. IsABag(recorded) /\ DOMAIN recorded \subseteq Plan(config)
      BY DEF Shared
    <3>3. IsABag(BagAdd(recorded, job[x])) /\ DOMAIN BagAdd(recorded, job[x]) = DOMAIN recorded \cup {job[x]}
      BY <3>2, BagAddType
    <3>4. QED
      BY <2>1, <3>1, <3>2, <3>3
  <2>3. CASE x = Owner
    BY <1>10, <2>2, <2>3 DEF recordDiagnosticsSummary, Return, Shared, pool, ownerVars
  <2>4. CASE x # Owner
    BY <1>10, <2>2, <2>4 DEF recordDiagnosticsSummary, Return, TP!Complete, Shared, ownerVars
  <2>5. QED
    BY <2>3, <2>4
<1>11. ASSUME NEW w \in Workers, TakeTask(w) \/ SleepOrExit(w) \/ Spurious(w)
       PROVE  Shared'
  BY <1>11 DEF TakeTask, TP!Take, SleepOrExit, TP!Wait, TP!ExitLoop, Spurious,
     TP!SpuriousWakeup, Shared, ownerVars, toolVars
<1>12. CASE UNCHANGED vars
  BY <1>12 DEF vars, pool, ownerVars, toolVars, Shared
<1>13. QED
  BY <1>1, <1>2, <1>3, <1>4, <1>5, <1>6, <1>7, <1>8, <1>9, <1>10, <1>11, <1>12
     DEF Next, Caller, Worker, ExecuteTool, Executors, Gone

-----------------------------------------------------------------------------
(***************************************************************************)
(* The locks of the tools and what they protect: the last summary of a     *)
(* tool is that of the thread that holds its lock.                         *)
(***************************************************************************)
Holders == {x \in Executors : at[x] \in {"execute", "record"}}

Locks ==
  /\ locked = {toolOf(x) : x \in Holders}
  /\ \A x, y \in Holders : toolOf(x) = toolOf(y) => x = y
  /\ \A x \in Executors : at[x] = "record" => last[toolOf(x)] = job[x]

LEMMA LocksAgain == TypeOK /\ LockIsExclusive /\ SummaryIsOwn => Locks
BY DEF TypeOK, LockIsExclusive, SummaryIsOwn, Locks, Holders

LEMMA LocksNext == IInv /\ [Next]_vars => Locks'
<1> SUFFICES ASSUME IInv, [Next]_vars
             PROVE  Locks'
  OBVIOUS
<1>0. Locks /\ Threads /\ config' = config /\ (toolOf(Owner))' = tool(config, job'[Owner])
  BY ConfigStays, LocksAgain DEF IInv, TypeOK, Threads, toolOf
<1>1. last \in [tools -> Plan(config) \cup {NoJob}]
  BY DEF IInv, TypeOK
<1>2. ASSUME NEW x \in Executors, NEW j, at[x] = "idle", start(x, j), UNCHANGED <<locked, last>>
      PROVE  Locks'
  <2>1. /\ at'[x] = "lock"
        /\ \A y \in Executors \ {x} : at'[y] = at[y] /\ job'[y] = job[y]
    BY <1>0, <1>2 DEF start, Threads
  <2>2. Holders' = Holders /\ \A y \in Holders : job'[y] = job[y] /\ at'[y] = at[y]
    BY <1>2, <2>1 DEF Holders
  <2>3. QED
    BY <1>0, <1>2, <2>1, <2>2 DEF Locks, Holders, toolOf
<1>3. ASSUME NEW x \in Executors, Lock(x)
      PROVE  Locks'
  <2>1. /\ at'[x] = "execute" /\ at[x] = "lock" /\ job' = job /\ last' = last
        /\ locked' = locked \cup {toolOf(x)} /\ toolOf(x) \notin locked
        /\ \A y \in Executors \ {x} : at'[y] = at[y]
    BY <1>0, <1>3 DEF Lock, Threads
  <2>2. Holders' = Holders \cup {x}
    BY <2>1 DEF Holders
  <2>3. \A y \in Executors : toolOf(y)' = toolOf(y)
    BY <1>0, <2>1 DEF toolOf
  <2>4. locked' = {toolOf(y)' : y \in Holders'}
    BY <1>0, <2>1, <2>2, <2>3 DEF Locks, Holders
  <2>5. \A y, z \in Holders' : toolOf(y)' = toolOf(z)' => y = z
    BY <1>0, <2>1, <2>2, <2>3 DEF Locks, Holders
  <2>6. \A y \in Executors : at'[y] = "record" => last'[toolOf(y)'] = job'[y]
    BY <1>0, <2>1, <2>3 DEF Locks
  <2>7. QED
    BY <2>4, <2>5, <2>6 DEF Locks
<1>4. ASSUME NEW x \in Executors, at[x] = "execute", at' = [at EXCEPT ![x] = "record"],
             last' = [last EXCEPT ![toolOf(x)] = job[x]], UNCHANGED <<job, locked>>
      PROVE  Locks'
  <2>1. /\ at'[x] = "record" /\ toolOf(x) \in tools
        /\ \A y \in Executors \ {x} : at'[y] = at[y]
    BY <1>0, <1>4, Busy DEF Threads
  <2>2. Holders' = Holders /\ x \in Holders
    BY <1>4, <2>1 DEF Holders
  <2>3. \A y \in Executors : toolOf(y)' = toolOf(y)
    BY <1>0, <1>4 DEF toolOf
  <2>4. ASSUME NEW y \in Executors, at'[y] = "record"
        PROVE  last'[toolOf(y)'] = job'[y]
    <3>1. CASE y = x
      BY <1>1, <1>4, <2>1, <2>3, <3>1
    <3>2. CASE y # x
      <4>1. at[y] = "record" /\ y \in Holders
        BY <2>1, <2>4, <3>2 DEF Holders
      <4>2. toolOf(y) # toolOf(x) /\ last[toolOf(y)] = job[y]
        BY <1>0, <2>2, <3>2, <4>1 DEF Locks
      <4>3. QED
        BY <1>1, <1>4, <2>3, <4>2
    <3>3. QED
      BY <3>1, <3>2
  <2>5. locked' = {toolOf(y)' : y \in Holders'}
    <3>1. locked' = {toolOf(y) : y \in Holders}
      BY <1>0, <1>4 DEF Locks
    <3>2. \A y \in Holders : toolOf(y)' = toolOf(y)
      BY <2>3 DEF Holders
    <3>3. QED
      BY <2>2, <3>1, <3>2
  <2>6. \A y, z \in Holders' : toolOf(y)' = toolOf(z)' => y = z
    BY <1>0, <2>2, <2>3 DEF Locks, Holders
  <2>7. QED
    BY <2>4, <2>5, <2>6 DEF Locks
<1>5. ASSUME NEW x \in Executors, at[x] \in {"execute", "record"},
             at' = [at EXCEPT ![x] = "idle"], job' = [job EXCEPT ![x] = NoJob],
             locked' = locked \ {toolOf(x)},
             last' = last \/ last' = [last EXCEPT ![toolOf(x)] = job[x]]
      PROVE  Locks'
  <2>1. /\ at'[x] = "idle"
        /\ \A y \in Executors \ {x} : at'[y] = at[y] /\ job'[y] = job[y]
    BY <1>0, <1>5 DEF Threads
  <2>2. Holders' = Holders \ {x} /\ x \in Holders
    BY <1>5, <2>1 DEF Holders
  <2>3. \A y \in Executors \ {x} : toolOf(y)' = toolOf(y)
    BY <1>0, <2>1 DEF toolOf
  <2>4. \A y \in Holders' : toolOf(y)' = toolOf(y) /\ toolOf(y) # toolOf(x) /\ y \in Holders
    BY <1>0, <2>2, <2>3 DEF Locks, Holders
  <2>5. locked' = {toolOf(y)' : y \in Holders'}
    <3>1. locked' = {toolOf(y) : y \in Holders'}
      BY <1>0, <1>5, <2>2, <2>4 DEF Locks
    <3>2. QED
      BY <2>4, <3>1
  <2>6. ASSUME NEW y \in Executors, at'[y] = "record"
        PROVE  last'[toolOf(y)'] = job'[y]
    <3>1. y # x /\ at[y] = "record" /\ job'[y] = job[y]
      BY <2>1, <2>6
    <3>2. y \in Holders'
      BY <2>6 DEF Holders
    <3>3. last[toolOf(y)] = job[y]
      BY <1>0, <3>1 DEF Locks
    <3>4. last'[toolOf(y)] = last[toolOf(y)]
      <4>1. toolOf(y) \in tools /\ toolOf(y) # toolOf(x)
        BY <2>4, <3>1, <3>2, Busy
      <4>2. QED
        BY <1>1, <1>5, <4>1
    <3>5. QED
      BY <2>4, <3>1, <3>2, <3>3, <3>4
  <2>7. \A y, z \in Holders' : toolOf(y)' = toolOf(z)' => y = z
    BY <1>0, <2>4 DEF Locks
  <2>8. QED
    BY <2>5, <2>6, <2>7 DEF Locks
<1>6. CASE UNCHANGED <<at, job, locked, last>>
  BY <1>0, <1>6 DEF Locks, Holders, toolOf
<1>7. CASE BeginStep
  <2>1. at[Owner] = "idle" /\ Owner \in Executors
    BY <1>7 DEF BeginStep, IInv, ExecutorLinks, Executors
  <2>2. QED
    BY <1>2, <1>6, <1>7, <2>1 DEF BeginStep, toolVars, execVars
<1>8. ASSUME NEW w \in Workers, TakeTask(w)
      PROVE  Locks'
  <2>1. at[w] = "idle" /\ w \in Executors
    BY <1>8 DEF TakeTask, TP!Take, IInv, ExecutorLinks, Executors
  <2>2. QED
    BY <1>2, <1>8, <2>1 DEF TakeTask, toolVars
<1>9. ASSUME NEW x \in Executors, Execute(x)
      PROVE  Locks'
  BY <1>4, <1>5, <1>9 DEF Execute, Return
<1>10. ASSUME NEW x \in Executors, recordDiagnosticsSummary(x)
       PROVE  Locks'
  BY <1>5, <1>10 DEF recordDiagnosticsSummary, Return
<1>11. QED
  BY <1>3, <1>6, <1>7, <1>8, <1>9, <1>10 DEF Next, Caller, Worker, ExecuteTool, Executors,
     Enqueue, Notify, GetResults, EndOfRun, DestroySummary, DestroyPool, Gone, SleepOrExit,
     Spurious, vars, toolVars, execVars

LEMMA TypeNext == IInv /\ [Next]_vars => TypeOK' /\ LockIsExclusive' /\ SummaryIsOwn'
<1> SUFFICES ASSUME IInv, [Next]_vars
             PROVE  TypeOK' /\ LockIsExclusive' /\ SummaryIsOwn'
  OBVIOUS
<1>1. Shared' /\ Threads' /\ Locks' /\ TP!IInv' /\ config' = config /\ config \in Configs
  BY SharedNext, ThreadsNext, LocksNext, PoolInvStep, ConfigStays DEF IInv, TypeOK
<1>2. QED
  BY <1>1 DEF Shared, Threads, Locks, Holders, TypeOK, LockIsExclusive, SummaryIsOwn, TP!IInv

-----------------------------------------------------------------------------
(***************************************************************************)
(* Workers and tasks against executors and jobs, and the calling thread as *)
(* the owner of the pool.                                                  *)
(***************************************************************************)

\* Sleeping, waking up, leaving the loop and joining touch no task.
LEMMA TasksStay ==
  ASSUME IInv,
         \/ Notify \/ DestroyPool
         \/ \E w \in Workers : SleepOrExit(w) \/ Spurious(w)
  PROVE  /\ UNCHANGED <<tasks, current, submitted, taken, done>>
         /\ \A w \in Workers : wpc'[w] = "running" <=> wpc[w] = "running"
         /\ UNCHANGED <<config, plan, toSubmit, awaited, jobs, reported, alive, locked, last,
                        recorded, at, job, failed, threw>>
<1>1. wpc \in [Workers -> {"check", "waiting", "running", "exited"}]
  BY PoolFacts DEF IInv
<1>2. CASE Notify
  BY <1>1, <1>2 DEF Notify, TP!notify_one, ownerVars, toolVars, execVars
<1>3. CASE DestroyPool
  BY <1>1, <1>3 DEF DestroyPool, TP!Destructor, TP!SetStopping, TP!notify_all, TP!JoinWorkers,
     ownerVars, toolVars, execVars
<1>4. ASSUME NEW w \in Workers, SleepOrExit(w) \/ Spurious(w)
      PROVE  /\ UNCHANGED <<tasks, current, submitted, taken, done>>
             /\ \A v \in Workers : wpc'[v] = "running" <=> wpc[v] = "running"
             /\ UNCHANGED <<ownerVars, toolVars, execVars, failed, threw>>
  BY <1>1, <1>4 DEF SleepOrExit, TP!Wait, TP!ExitLoop, Spurious, TP!SpuriousWakeup
<1>5. QED
  BY <1>2, <1>3, <1>4 DEF ownerVars, toolVars, execVars

\* What ending an execution does to its thread and to the pool.
LEMMA Returned ==
  ASSUME IInv, NEW x \in Executors, NEW e \in BOOLEAN, at[x] # "idle", Return(x, e)
  PROVE  /\ at'[x] = "idle" /\ \A y \in Executors \ {x} : at'[y] = at[y] /\ job'[y] = job[y]
         /\ x = Owner => /\ stage = "call" /\ UNCHANGED <<pool, failed>>
                         /\ stage' = (IF e THEN "teardown" ELSE "next")
                         /\ threw' = (threw \/ e)
         /\ x # Owner => /\ x \in Workers /\ wpc[x] = "running" /\ wpc'[x] # "running"
                         /\ \A w \in Workers \ {x} : wpc'[w] = wpc[w] /\ current'[w] = current[w]
                         /\ done' = done \cup {current[x]}
                         /\ failed' = (IF e THEN failed \cup {current[x]} ELSE failed)
                         /\ UNCHANGED <<tasks, submitted, taken, opc, stage, threw>>
<1>1. /\ wpc \in [Workers -> {"check", "waiting", "running", "exited"}]
      /\ current \in [Workers -> Nat \cup {Idle}]
  BY PoolFacts DEF IInv
<1>2. /\ at'[x] = "idle"
      /\ \A y \in Executors \ {x} : at'[y] = at[y] /\ job'[y] = job[y]
  BY DEF Return, IInv, TypeOK
<1>3. CASE x = Owner
  BY <1>2, <1>3, OwnerIsNoWorker DEF Return, IInv, ExecutorLinks
<1>4. CASE x # Owner
  <2>1. x \in Workers /\ wpc[x] = "running"
    BY <1>4 DEF Executors, IInv, ExecutorLinks
  <2>2. TP!Complete(x)
    BY <1>4 DEF Return
  <2>3. /\ wpc'[x] # "running"
        /\ \A w \in Workers \ {x} : wpc'[w] = wpc[w] /\ current'[w] = current[w]
    BY <1>1, <2>1, <2>2 DEF TP!Complete
  <2>4. QED
    BY <1>2, <1>4, <2>1, <2>2, <2>3 DEF Return, TP!Complete
<1>5. QED
  BY <1>3, <1>4

LEMMA LinksNext == IInv /\ [Next]_vars => ExecutorLinks' /\ CallerLinks'
<1> SUFFICES ASSUME IInv, [Next]_vars
             PROVE  ExecutorLinks' /\ CallerLinks'
  OBVIOUS
<1> USE DEF ExecutorLinks, CallerLinks
<1>0. /\ ExecutorLinks /\ CallerLinks /\ config' = config
      /\ submitted \in Nat /\ Len(jobs) = submitted /\ jobs \in Seq(Plan(config))
      /\ at \in [Executors -> {"idle", "lock", "execute", "record"}]
      /\ job \in [Executors -> Plan(config) \cup {NoJob}]
      /\ \A w \in Workers : wpc[w] = "running" => current[w] \in 1..submitted
      /\ Owner \in Executors /\ Owner \notin Workers /\ Workers \subseteq Executors
  BY ConfigStays, PoolFacts, OwnerIsNoWorker DEF IInv, TypeOK, Executors
<1>1. CASE BeginStep
  <2>1. /\ UNCHANGED <<wpc, current, submitted, jobs, opc, alive>>
        /\ stage = "next" /\ at[Owner] = "idle"
    BY <1>0, <1>1 DEF BeginStep, pool
  <2>2. PICK j \in plan :
          \/ /\ ~Pooled(config, j) /\ stage' = "call" /\ start(Owner, j) /\ toSubmit' = toSubmit
          \/ /\ stage' = "submit" /\ UNCHANGED <<at, job>>
             /\ \A m \in toSubmit' : Pooled(config, m)
    BY <1>1 DEF BeginStep, execVars
  <2>3. \A w \in Workers : at'[w] = at[w] /\ job'[w] = job[w]
    BY <1>0, <2>2 DEF start
  <2>4. stage' = "call" => at'[Owner] = "lock" /\ job'[Owner] = j /\ ~Pooled(config, j)
    BY <1>0, <2>2 DEF start
  <2>5. ExecutorLinks'
    BY <1>0, <2>1, <2>2, <2>3, <2>4
  <2>6. CallerLinks'
    BY <1>0, <2>1, <2>2
  <2>7. QED
    BY <2>5, <2>6
<1>2. CASE Enqueue
  <2>1. PICK j \in toSubmit : jobs' = Append(jobs, j) /\ toSubmit' = toSubmit \ {j}
    BY <1>2 DEF Enqueue
  <2>2. /\ submitted' = submitted + 1 /\ opc' = "notify"
        /\ UNCHANGED <<wpc, current, at, job, stage, alive>> /\ stage = "submit"
    BY <1>2 DEF Enqueue, TP!enqueue, execVars
  <2>3. \A i \in 1..submitted : jobs'[i] = jobs[i]
    BY <1>0, <2>1
  <2>4. jobs'[submitted + 1] = j
    BY <1>0, <2>1
  <2>5. \A i \in 1..submitted' : i \in 1..submitted \/ i = submitted + 1
    BY <1>0, <2>2
  <2>6. QED
    BY <1>0, <2>1, <2>2, <2>3, <2>4, <2>5
<1>3. CASE Notify \/ DestroyPool
  <2>1. /\ UNCHANGED <<current, submitted, jobs, at, job, toSubmit, alive>>
        /\ \A w \in Workers : wpc'[w] = "running" <=> wpc[w] = "running"
    BY <1>3, TasksStay
  <2>2. CASE Notify
    BY <1>0, <2>1, <2>2 DEF Notify, TP!notify_one
  <2>3. CASE DestroyPool
    BY <1>0, <2>1, <2>3 DEF DestroyPool, TP!Destructor, TP!SetStopping, TP!notify_all,
       TP!JoinWorkers
  <2>4. QED
    BY <1>3, <2>2, <2>3
<1>4. CASE GetResults \/ EndOfRun \/ DestroySummary
  BY <1>0, <1>4 DEF GetResults, EndOfRun, DestroySummary, pool, ownerVars, execVars
<1>5. ASSUME NEW x \in Executors, at[x] # "idle",
             at' = [at EXCEPT ![x] = "execute"] \/ at' = [at EXCEPT ![x] = "record"],
             UNCHANGED <<pool, ownerVars, job, stage>>
      PROVE  ExecutorLinks' /\ CallerLinks'
  <2>1. \A y \in Executors : at'[y] # "idle" <=> at[y] # "idle"
    BY <1>0, <1>5
  <2>2. QED
    BY <1>0, <1>5, <2>1 DEF pool, ownerVars
<1>6. ASSUME NEW x \in Executors, NEW e \in BOOLEAN, at[x] # "idle", Return(x, e),
             UNCHANGED ownerVars
      PROVE  ExecutorLinks' /\ CallerLinks'
  <2>1. CASE x = Owner
    <3>1. /\ at'[Owner] = "idle" /\ stage = "call" /\ stage' \in {"teardown", "next"}
          /\ \A w \in Workers : at'[w] = at[w] /\ job'[w] = job[w]
          /\ UNCHANGED pool
      BY <1>0, <1>6, <2>1, Returned
    <3>2. QED
      BY <1>0, <1>6, <3>1 DEF pool, ownerVars
  <2>2. CASE x # Owner
    <3>1. /\ at'[x] = "idle" /\ wpc'[x] # "running" /\ x \in Workers
          /\ \A y \in Executors \ {x} : at'[y] = at[y] /\ job'[y] = job[y]
          /\ \A w \in Workers \ {x} : wpc'[w] = wpc[w] /\ current'[w] = current[w]
          /\ UNCHANGED <<submitted, opc, stage>>
      BY <1>6, <2>2, Returned
    <3>2. \A w \in Workers : /\ at'[w] # "idle" <=> wpc'[w] = "running"
                             /\ wpc'[w] = "running" => job'[w] = jobs[current'[w]]
      BY <1>0, <3>1
    <3>3. QED
      BY <1>0, <1>6, <2>2, <3>1, <3>2 DEF ownerVars
  <2>3. QED
    BY <2>1, <2>2
<1>7. ASSUME NEW w \in Workers, TakeTask(w)
      PROVE  ExecutorLinks' /\ CallerLinks'
  <2>1. /\ wpc[w] = "check" /\ wpc'[w] = "running" /\ current'[w] = Head(tasks)
        /\ \A v \in Workers \ {w} : wpc'[v] = wpc[v] /\ current'[v] = current[v]
        /\ UNCHANGED <<submitted, opc, stage, jobs, toSubmit, alive>>
    BY <1>7, PoolFacts DEF IInv, TakeTask, TP!Take, ownerVars
  <2>2. /\ at'[w] = "lock" /\ job'[w] = jobs[Head(tasks)]
        /\ \A y \in Executors \ {w} : at'[y] = at[y] /\ job'[y] = job[y]
    BY <1>0, <1>7 DEF TakeTask, start
  <2>3. \A v \in Workers : /\ at'[v] # "idle" <=> wpc'[v] = "running"
                           /\ wpc'[v] = "running" => job'[v] = jobs[current'[v]]
    BY <1>0, <2>1, <2>2
  <2>4. at'[Owner] = at[Owner] /\ job'[Owner] = job[Owner]
    BY <1>0, <2>2
  <2>5. QED
    BY <1>0, <2>1, <2>3, <2>4
<1>8. ASSUME NEW w \in Workers, SleepOrExit(w) \/ Spurious(w)
      PROVE  ExecutorLinks' /\ CallerLinks'
  <2>1. /\ UNCHANGED <<current, submitted, jobs, at, job, toSubmit, alive>>
        /\ \A v \in Workers : wpc'[v] = "running" <=> wpc[v] = "running"
    BY <1>8, TasksStay
  <2>2. UNCHANGED <<opc, stage>>
    BY <1>8 DEF SleepOrExit, TP!Wait, TP!ExitLoop, Spurious, TP!SpuriousWakeup
  <2>3. QED
    BY <1>0, <2>1, <2>2
<1>9. CASE UNCHANGED vars
  BY <1>0, <1>9 DEF vars, pool, ownerVars, execVars
<1>10. ASSUME NEW x \in Executors, ExecuteTool(x)
       PROVE  ExecutorLinks' /\ CallerLinks'
  <2>1. CASE Lock(x)
    BY <1>5, <2>1 DEF Lock
  <2>2. CASE Execute(x)
    BY <1>5, <1>6, <2>2 DEF Execute
  <2>3. CASE recordDiagnosticsSummary(x)
    BY <1>6, <2>3 DEF recordDiagnosticsSummary
  <2>4. QED
    BY <1>10, <2>1, <2>2, <2>3 DEF ExecuteTool
<1>11. QED
  BY <1>1, <1>2, <1>3, <1>4, <1>7, <1>8, <1>9, <1>10
     DEF Next, Caller, Worker, Executors, Gone

-----------------------------------------------------------------------------
(***************************************************************************)
(* No task is left behind by a round, and no exception by a run.           *)
(***************************************************************************)
LEMMA QuietNext == IInv /\ [Next]_vars => Quiet'
<1> SUFFICES ASSUME IInv, [Next]_vars
             PROVE  Quiet'
  OBVIOUS
<1> USE DEF Quiet, over
<1>0. /\ Quiet /\ CallerLinks
      /\ submitted \in Nat /\ done \subseteq 1..submitted /\ failed \subseteq done
      /\ awaited \in 0..submitted
      /\ threw \in BOOLEAN
      /\ stage \in {"next", "call", "submit", "teardown", "destroyPool", "gone"}
      /\ \A w \in Workers : wpc[w] = "running" => current[w] \in (1..submitted) \ done
  BY PoolFacts DEF IInv, TypeOK
<1>1. CASE BeginStep
  BY <1>0, <1>1 DEF BeginStep, pool
<1>2. CASE Enqueue
  BY <1>0, <1>2 DEF Enqueue, TP!enqueue
<1>3. CASE Notify
  <2>1. UNCHANGED <<submitted, done, failed, awaited, threw, stage>>
    BY <1>3, TasksStay DEF Notify
  <2>2. QED
    BY <1>0, <2>1
<1>4. CASE GetResults
  <2>1. stage = "submit" /\ UNCHANGED <<submitted, done, failed, awaited>>
    BY <1>4 DEF GetResults, pool, ownerVars
  <2>2. CASE (awaited + 1)..submitted \subseteq done \ failed /\ stage' = "next" /\ threw' = threw
    <3>1. 1..submitted \subseteq done \ failed
      <4>1. \A t \in 1..submitted : t \in 1..awaited \/ t \in (awaited + 1)..submitted
        BY <1>0
      <4>2. QED
        BY <1>0, <2>1, <2>2, <4>1
    <3>2. done = 1..submitted /\ failed = {}
      BY <1>0, <3>1
    <3>3. QED
      BY <1>0, <2>1, <2>2, <3>2
  <2>3. CASE failed # {} /\ stage' = "teardown" /\ threw' = TRUE
    BY <2>1, <2>3
  <2>4. QED
    BY <1>4, <2>2, <2>3 DEF GetResults
<1>5. CASE EndOfRun \/ DestroySummary
  BY <1>0, <1>5 DEF EndOfRun, DestroySummary, pool
<1>6. CASE DestroyPool
  <2>1. UNCHANGED <<submitted, done, failed, awaited, threw>>
    BY <1>6, TasksStay
  <2>2. QED
    BY <1>0, <1>6, <2>1 DEF DestroyPool
<1>7. ASSUME NEW x \in Executors, NEW e \in BOOLEAN, at[x] # "idle", Return(x, e),
             UNCHANGED ownerVars
      PROVE  Quiet'
  <2>1. CASE x = Owner
    <3>1. /\ stage = "call" /\ stage' = (IF e THEN "teardown" ELSE "next")
          /\ threw' = (threw \/ e)
          /\ UNCHANGED <<submitted, done, failed>>
      BY <1>7, <2>1, Returned DEF pool
    <3>2. QED
      BY <1>0, <3>1
  <2>2. CASE x # Owner
    <3>1. /\ current[x] \in (1..submitted) \ done
          /\ done' = done \cup {current[x]}
          /\ failed' \subseteq failed \cup {current[x]}
          /\ failed \subseteq failed'
          /\ UNCHANGED <<submitted, stage, threw, awaited>>
      BY <1>0, <1>7, <2>2, Returned DEF ownerVars
    <3>2. stage = "submit" \/ (over /\ failed # {} /\ threw)
      BY <1>0, <3>1
    <3>3. stage = "submit" => 1..awaited \subseteq done' \ failed'
      BY <1>0, <3>1
    <3>4. QED
      BY <1>0, <3>1, <3>2, <3>3
  <2>3. QED
    BY <2>1, <2>2
<1>8. ASSUME NEW x \in Executors, ExecuteTool(x)
      PROVE  Quiet'
  <2>1. CASE UNCHANGED <<pool, ownerVars, stage, failed, threw>>
    BY <1>0, <2>1 DEF pool, ownerVars
  <2>2. QED
    BY <1>7, <1>8, <2>1 DEF ExecuteTool, Lock, Execute, recordDiagnosticsSummary
<1>9. ASSUME NEW w \in Workers, TakeTask(w)
      PROVE  Quiet'
  BY <1>0, <1>9 DEF TakeTask, TP!Take, ownerVars
<1>10. ASSUME NEW w \in Workers, SleepOrExit(w) \/ Spurious(w)
       PROVE  Quiet'
  <2>1. UNCHANGED <<submitted, done, failed, awaited, threw>>
    BY <1>10, TasksStay
  <2>2. stage' = stage
    BY <1>10 DEF SleepOrExit, Spurious
  <2>3. QED
    BY <1>0, <2>1, <2>2
<1>11. CASE UNCHANGED vars
  BY <1>0, <1>11 DEF vars, pool, ownerVars
<1>12. QED
  BY <1>1, <1>2, <1>3, <1>4, <1>5, <1>6, <1>8, <1>9, <1>10, <1>11
     DEF Next, Caller, Worker, Executors, Gone

-----------------------------------------------------------------------------
(***************************************************************************)
(* Every job is begun once, recorded once and not lost.                    *)
(***************************************************************************)
LEMMA JobsNext == IInv /\ [Next]_vars => EachJobOnce' /\ NoJobLost'
<1> SUFFICES ASSUME IInv, [Next]_vars
             PROVE  EachJobOnce' /\ NoJobLost'
  OBVIOUS
<1> USE DEF EachJobOnce, NoJobLost, over
<1>0. /\ EachJobOnce /\ NoJobLost /\ Quiet /\ ExecutorLinks /\ CallerLinks /\ config' = config
      /\ submitted \in Nat /\ done \subseteq 1..submitted /\ failed \subseteq done
      /\ Len(jobs) = submitted /\ jobs \in Seq(Plan(config))
      /\ threw \in BOOLEAN
      /\ Owner \in Executors /\ Owner \notin Workers
      /\ job \in [Executors -> Plan(config) \cup {NoJob}]
      /\ DOMAIN recorded \subseteq Plan(config)
      /\ \A w \in Workers : wpc[w] = "running" => current[w] \in (1..submitted) \ done
  BY PoolFacts, ConfigStays, OwnerIsNoWorker DEF IInv, TypeOK, Executors
<1>1. CASE BeginStep
  <2>1. /\ UNCHANGED <<submitted, done, failed, jobs, recorded, reported, threw>>
        /\ stage = "next"
    BY <1>1 DEF BeginStep, pool, toolVars
  <2>2. PICK j \in plan :
          \/ /\ stage' = "call" /\ start(Owner, j) /\ toSubmit' = toSubmit /\ plan' = plan \ {j}
          \/ /\ stage' = "submit" /\ toSubmit' \subseteq plan /\ plan' = plan \ toSubmit'
    BY <1>1 DEF BeginStep
  <2>3. toSubmit = {}
    BY <1>0, <2>1 DEF CallerLinks
  <2>4. CASE stage' = "call" /\ start(Owner, j) /\ toSubmit' = toSubmit /\ plan' = plan \ {j}
    <3>1. job'[Owner] = j
      BY <1>0, <2>4 DEF start
    <3>2. QED
      BY <1>0, <2>1, <2>2, <2>3, <2>4, <3>1
  <2>5. CASE stage' = "submit" /\ toSubmit' \subseteq plan /\ plan' = plan \ toSubmit'
    BY <1>0, <2>1, <2>3, <2>5
  <2>6. QED
    BY <2>2, <2>4, <2>5
<1>2. CASE Enqueue
  <2>1. PICK j \in toSubmit : jobs' = Append(jobs, j) /\ toSubmit' = toSubmit \ {j}
    BY <1>2 DEF Enqueue
  <2>2. /\ submitted' = submitted + 1 /\ stage = "submit"
        /\ UNCHANGED <<done, failed, plan, recorded, reported, threw, stage>>
    BY <1>2 DEF Enqueue, TP!enqueue, toolVars
  <2>3. /\ \A i \in 1..submitted : jobs'[i] = jobs[i]
        /\ jobs'[submitted + 1] = j
        /\ \A i \in 1..submitted' : i \in 1..submitted \/ i = submitted + 1
        /\ 1..submitted \subseteq 1..submitted' /\ submitted + 1 \in 1..submitted'
    BY <1>0, <2>1, <2>2
  <2>4. submitted + 1 \notin done /\ j \notin plan /\ j \notin DOMAIN recorded
    BY <1>0, <2>1
  <2>5. EachJobOnce'
    BY <1>0, <2>1, <2>2, <2>3, <2>4
  <2>6. NoJobLost'
    BY <1>0, <2>1, <2>2, <2>3
  <2>7. QED
    BY <2>5, <2>6
<1>3. CASE Notify
  <2>1. UNCHANGED <<submitted, done, failed, jobs, recorded, reported, threw, plan, toSubmit,
                    stage, job>>
    BY <1>3, TasksStay DEF Notify
  <2>2. QED
    BY <1>0, <2>1
<1>4. CASE GetResults
  <2>1. UNCHANGED <<submitted, done, failed, jobs, recorded, reported, plan, toSubmit, job>>
    BY <1>4 DEF GetResults, pool, ownerVars, toolVars, execVars
  <2>2. stage = "submit"
    BY <1>4 DEF GetResults
  <2>3. CASE stage' = "next" /\ threw' = threw
    BY <1>0, <2>1, <2>2, <2>3
  <2>4. CASE stage' = "teardown" /\ threw' = TRUE
    BY <1>0, <2>1, <2>2, <2>4
  <2>5. QED
    BY <1>4, <2>3, <2>4 DEF GetResults
<1>5. CASE EndOfRun
  <2>1. /\ UNCHANGED <<submitted, done, failed, jobs, recorded, threw, plan, toSubmit, job>>
        /\ stage = "next" /\ stage' = "teardown" /\ plan = {} /\ reported' = recorded
    BY <1>5 DEF EndOfRun, pool, toolVars, execVars
  <2>2. /\ toSubmit = {} /\ done = 1..submitted /\ failed = {} /\ ~threw
    BY <1>0, <2>1 DEF Quiet, CallerLinks
  <2>3. \A i \in 1..submitted : jobs[i] \in DOMAIN recorded
    BY <1>0, <2>2
  <2>4. DOMAIN recorded = Plan(config) /\ \A j \in Plan(config) : recorded[j] = 1
    <3>1. ASSUME NEW j \in Plan(config)
          PROVE  j \in DOMAIN recorded
      BY <1>0, <2>1, <2>2, <2>3
    <3>2. \A j \in DOMAIN recorded : recorded[j] = 1
      BY <1>0
    <3>3. QED
      BY <1>0, <3>1, <3>2
  <2>5. QED
    BY <1>0, <2>1, <2>4
<1>6. CASE DestroySummary
  BY <1>0, <1>6 DEF DestroySummary, pool, toolVars, execVars
<1>7. CASE DestroyPool
  <2>1. UNCHANGED <<submitted, done, failed, jobs, recorded, reported, threw, plan, toSubmit,
                    job>>
    BY <1>7, TasksStay
  <2>2. stage = "destroyPool" /\ stage' \in {"destroyPool", "gone"}
    BY <1>7 DEF DestroyPool
  <2>3. QED
    BY <1>0, <2>1, <2>2
<1>8. ASSUME NEW x \in Executors, Lock(x) \/ Execute(x),
             UNCHANGED <<pool, job, stage, failed, threw>>
      PROVE  EachJobOnce' /\ NoJobLost'
  <2>1. UNCHANGED <<submitted, done, plan, toSubmit, jobs, recorded, reported>>
    BY <1>8 DEF Lock, Execute, pool, ownerVars
  <2>2. QED
    BY <1>0, <1>8, <2>1
<1>9. ASSUME NEW x \in Executors, Execute(x), Return(x, TRUE)
      PROVE  EachJobOnce' /\ NoJobLost'
  <2>1. UNCHANGED <<plan, toSubmit, jobs, recorded, reported>> /\ at[x] # "idle"
    BY <1>9 DEF Execute, ownerVars
  <2>2. CASE x = Owner
    <3>1. /\ stage = "call" /\ stage' = "teardown" /\ threw'
          /\ UNCHANGED <<submitted, done, failed>>
      BY <1>9, <2>1, <2>2, Returned DEF pool
    <3>2. QED
      BY <1>0, <2>1, <3>1
  <2>3. CASE x # Owner
    <3>1. /\ current[x] \in (1..submitted) \ done
          /\ done' = done \cup {current[x]} /\ failed' = failed \cup {current[x]}
          /\ UNCHANGED <<submitted, stage, threw>>
          /\ job'[Owner] = job[Owner]
      BY <1>0, <1>9, <2>1, <2>3, Returned
    <3>2. \A i \in 1..submitted : i \in done' \ failed' <=> i \in done \ failed
      BY <1>0, <3>1
    <3>3. QED
      BY <1>0, <2>1, <3>1, <3>2
  <2>4. QED
    BY <2>2, <2>3
<1>10. ASSUME NEW x \in Executors, recordDiagnosticsSummary(x)
       PROVE  EachJobOnce' /\ NoJobLost'
  <2>1. /\ UNCHANGED <<plan, toSubmit, jobs, reported>> /\ at[x] # "idle"
        /\ recorded' = BagAdd(recorded, job[x]) /\ Return(x, FALSE)
    BY <1>10 DEF recordDiagnosticsSummary, ownerVars, IInv, SummaryIsOwn
  <2>2. IsABag(recorded)
    BY DEF IInv, TypeOK
  <2>3. /\ DOMAIN recorded' = DOMAIN recorded \cup {job[x]}
        /\ \A j \in DOMAIN recorded \ {job[x]} : recorded'[j] = recorded[j]
        /\ job[x] \notin DOMAIN recorded => recorded'[job[x]] = 1
    BY <2>1, <2>2, BagAddType
  <2>4. CASE x = Owner
    <3>1. /\ stage = "call" /\ stage' = "next" /\ threw' = threw
          /\ UNCHANGED <<submitted, done, failed>>
      BY <1>0, <2>1, <2>4, Returned DEF pool
    <3>2. /\ job[x] \notin plan \cup DOMAIN recorded /\ toSubmit = {}
          /\ \A i \in 1..submitted : jobs[i] # job[x]
      BY <1>0, <2>4, <3>1 DEF ExecutorLinks, CallerLinks
    <3>3. QED
      BY <1>0, <2>1, <2>3, <2>4, <3>1, <3>2
  <2>5. CASE x # Owner
    <3>1. /\ current[x] \in (1..submitted) \ done
          /\ done' = done \cup {current[x]} /\ failed' = failed
          /\ UNCHANGED <<submitted, stage, threw>>
          /\ job'[Owner] = job[Owner]
          /\ job[x] = jobs[current[x]]
      BY <1>0, <2>1, <2>5, Returned DEF ExecutorLinks
    <3>2. /\ job[x] \notin DOMAIN recorded /\ job[x] \notin plan \cup toSubmit
          /\ \A i \in 1..submitted : jobs[i] = job[x] => i = current[x]
      BY <1>0, <3>1
    <3>3. stage = "call" => job[Owner] # job[x]
      BY <1>0, <3>1 DEF ExecutorLinks
    <3>4. \A i \in 1..submitted : i \in done' \ failed' <=> i \in done \ failed \/ i = current[x]
      BY <1>0, <3>1
    <3>5. EachJobOnce'
      BY <1>0, <2>1, <2>3, <3>1, <3>2, <3>3, <3>4
    <3>6. NoJobLost'
      BY <1>0, <2>1, <2>3, <3>1
    <3>7. QED
      BY <3>5, <3>6
  <2>6. QED
    BY <2>4, <2>5
<1>11. ASSUME NEW w \in Workers, TakeTask(w)
       PROVE  EachJobOnce' /\ NoJobLost'
  <2>1. UNCHANGED <<submitted, done, failed, jobs, recorded, reported, threw, plan, toSubmit,
                    stage>>
    BY <1>11 DEF TakeTask, TP!Take, ownerVars, toolVars
  <2>2. job'[Owner] = job[Owner]
    BY <1>0, <1>11 DEF TakeTask, start
  <2>3. QED
    BY <1>0, <2>1, <2>2
<1>12. ASSUME NEW w \in Workers, SleepOrExit(w) \/ Spurious(w)
       PROVE  EachJobOnce' /\ NoJobLost'
  <2>1. UNCHANGED <<submitted, done, failed, jobs, recorded, reported, threw, plan, toSubmit,
                    job>>
    BY <1>12, TasksStay
  <2>2. stage' = stage
    BY <1>12 DEF SleepOrExit, Spurious
  <2>3. QED
    BY <1>0, <2>1, <2>2
<1>13. CASE UNCHANGED vars
  BY <1>0, <1>13 DEF vars, pool, ownerVars, toolVars, execVars
<1>14. ASSUME NEW x \in Executors, ExecuteTool(x)
       PROVE  EachJobOnce' /\ NoJobLost'
  BY <1>8, <1>9, <1>10, <1>14 DEF ExecuteTool, Lock, Execute
<1>15. QED
  BY <1>1, <1>2, <1>3, <1>4, <1>5, <1>6, <1>7, <1>11, <1>12, <1>13, <1>14
     DEF Next, Caller, Worker, Executors, Gone

-----------------------------------------------------------------------------
(***************************************************************************)
(* The invariant, and what it says of a run.                               *)
(***************************************************************************)
LEMMA InvInit == Init => IInv
<1> SUFFICES ASSUME Init PROVE IInv
  OBVIOUS
<1> USE DEF Init, TP!Init
<1>1. TP!IInv
  BY PoolInvInit
<1>2. /\ DOMAIN recorded = {} /\ IsABag(recorded)
      /\ DOMAIN reported = {} /\ IsABag(reported)
  BY DEF EmptyBag, SetToBag, IsABag
<1>3. TypeOK
  <2>1. TP!TypeOK /\ config \in Configs
    BY <1>1 DEF TP!IInv
  <2>2. jobs \in Seq(Plan(config)) /\ Len(jobs) = submitted /\ awaited \in 0..submitted
    OBVIOUS
  <2>3. \A x \in Executors : at[x] = "idle" /\ job[x] = NoJob
    OBVIOUS
  <2>4. locked = {toolOf(x) : x \in {y \in Executors : at[y] \in {"execute", "record"}}}
    <3>1. {y \in Executors : at[y] \in {"execute", "record"}} = {}
      BY <2>3
    <3>2. QED
      BY <3>1
  <2>5. QED
    BY <1>2, <2>1, <2>2, <2>3, <2>4 DEF TypeOK
<1>4. ExecutorLinks /\ CallerLinks
  BY DEF ExecutorLinks, CallerLinks, Executors
<1>5. Quiet
  BY DEF Quiet, over
<1>6. LockIsExclusive /\ SummaryIsOwn
  BY DEF LockIsExclusive, SummaryIsOwn
<1>7. EachJobOnce /\ NoJobLost
  BY <1>2 DEF EachJobOnce, NoJobLost, over
<1>8. QED
  BY <1>1, <1>3, <1>4, <1>5, <1>6, <1>7 DEF IInv

LEMMA InvNext == IInv /\ [Next]_vars => IInv'
BY PoolInvStep, TypeNext, LinksNext, QuietNext, JobsNext DEF IInv

LEMMA InvAlways == Spec => []IInv
<1>1. QED
  BY InvInit, InvNext, PTL DEF Spec

\* The variables keep their types, and a lock is held exactly by the threads
\* that execute its tool.
THEOREM TypeCorrect == Spec => []TypeOK
<1>1. IInv => TypeOK
  BY DEF IInv
<1>2. QED
  BY <1>1, InvAlways, PTL

\* Once all tasks have ended nothing is queued and no worker executes.
LEMMA NothingRuns ==
  ASSUME IInv, done = 1..submitted
  PROVE  tasks = <<>> /\ \A w \in Workers : at[w] = "idle"
BY PoolFacts DEF IInv, ExecutorLinks

\* Nothing is executed more often than the lists ask for: recorded holds
\* jobs of the plan, once each, and the plan has one job per request.
THEOREM NoExtraExecution == Spec => []NeverMoreThanRequested
<1>1. ASSUME IInv
      PROVE  NeverMoreThanRequested
  <2>1. SUFFICES ASSUME NEW l \in Lists, NEW t \in tools, NEW f \in ToSet(config.files),
                        NEW j \in Executions(recorded, l, t, f)
                 PROVE  /\ Requested(config, l, t)
                        /\ recorded[j] = 1
                        /\ Executions(recorded, l, t, f) = {j}
    BY DEF NeverMoreThanRequested
  <2>2. /\ config \in Configs /\ ConfigShaped(config)
        /\ DOMAIN recorded \subseteq Plan(config)
        /\ \A m \in DOMAIN recorded : recorded[m] = 1
    BY <1>1, ConfigsShaped DEF IInv, TypeOK, EachJobOnce
  <2>3. \A m \in Executions(recorded, l, t, f) :
          m \in Plan(config) /\ m.list = l /\ tool(config, m) = t /\ f \in filesOf(config, m)
    BY <2>2 DEF Executions
  <2>4. Requested(config, l, t)
    BY <2>2, <2>3, PlannedIsRequested
  <2>5. \A m \in Executions(recorded, l, t, f) : m = j
    BY <2>2, <2>3, PlannedOnce
  <2>6. recorded[j] = 1
    BY <2>2 DEF Executions
  <2>7. QED
    BY <2>4, <2>5, <2>6
<1>2. QED
  BY <1>1, InvAlways, PTL

\* A run that ends without an exception has reported each execution that was
\* asked for, once.
THEOREM ReportsEverything == Spec => []ReportComplete
<1>1. ASSUME IInv
      PROVE  ReportComplete
  <2>1. SUFFICES ASSUME stage \in {"destroyPool", "gone"}, ~threw,
                        NEW l \in Lists, NEW t \in tools, NEW f \in ToSet(config.files)
                 PROVE  IF Requested(config, l, t)
                        THEN \E j \in DOMAIN reported :
                               Executions(reported, l, t, f) = {j} /\ reported[j] = 1
                        ELSE Executions(reported, l, t, f) = {}
    BY DEF ReportComplete
  <2>2. /\ config \in Configs /\ ConfigShaped(config)
        /\ DOMAIN reported = Plan(config)
        /\ \A m \in Plan(config) : reported[m] = 1
    BY <1>1, <2>1, ConfigsShaped DEF IInv, TypeOK, NoJobLost, over
  <2>3. \A m \in Executions(reported, l, t, f) :
          m \in Plan(config) /\ m.list = l /\ tool(config, m) = t /\ f \in filesOf(config, m)
    BY <2>2 DEF Executions
  <2>4. CASE Requested(config, l, t)
    <3>1. PICK j \in Plan(config) :
            j.list = l /\ tool(config, j) = t /\ f \in filesOf(config, j)
      BY <2>2, <2>4, RequestedIsPlanned
    <3>2. j \in Executions(reported, l, t, f)
      BY <2>2, <3>1 DEF Executions
    <3>3. \A m \in Executions(reported, l, t, f) : m = j
      BY <2>2, <2>3, <3>1, PlannedOnce
    <3>4. QED
      BY <2>2, <2>4, <3>1, <3>2, <3>3
  <2>5. CASE ~Requested(config, l, t)
    <3>1. ASSUME NEW m \in Executions(reported, l, t, f)
          PROVE  FALSE
      BY <2>2, <2>3, <2>5, PlannedIsRequested
    <3>2. QED
      BY <2>5, <3>1
  <2>6. QED
    BY <2>4, <2>5
<1>2. QED
  BY <1>1, InvAlways, PTL

\* What a thread records is the summary of its own execution.
THEOREM OwnSummary == Spec => []SummaryIsOwn
<1>1. IInv => SummaryIsOwn
  BY DEF IInv
<1>2. QED
  BY <1>1, InvAlways, PTL

\* A tool that captures the output of the process runs alone: it is executed
\* by the calling thread, and only when no task is left.
THEOREM ExclusiveCapture == Spec => []CaptureIsExclusive
<1>1. ASSUME IInv
      PROVE  CaptureIsExclusive
  <2>1. SUFFICES ASSUME NEW x \in Executors, at[x] = "execute",
                        requiresExclusiveProcessCapture(toolOf(x))
                 PROVE  tasks = <<>> /\ \A y \in Executors \ {x} : at[y] = "idle"
    BY DEF CaptureIsExclusive
  <2>2. ~Pooled(config, job[x])
    BY <2>1 DEF Pooled, toolOf
  <2>3. x = Owner
    <3>1. SUFFICES ASSUME x \in Workers PROVE FALSE
      BY DEF Executors
    <3>2. wpc[x] = "running" /\ job[x] = jobs[current[x]]
      BY <1>1, <2>1, <3>1 DEF IInv, ExecutorLinks
    <3>3. current[x] \in 1..submitted
      BY <1>1, <3>1, <3>2, PoolFacts DEF IInv
    <3>4. QED
      BY <1>1, <2>2, <3>2, <3>3 DEF IInv, ExecutorLinks
  <2>4. stage = "call"
    BY <1>1, <2>1, <2>3 DEF IInv, ExecutorLinks
  <2>5. done = 1..submitted
    BY <1>1, <2>4 DEF IInv, Quiet
  <2>6. QED
    BY <1>1, <2>3, <2>5, NothingRuns DEF Executors
<1>2. QED
  BY <1>1, InvAlways, PTL

\* The summary map and its mutex are gone only when no task is left, as long
\* as no task threw.
THEOREM NothingOutlivesTheInvoker == Spec => []NoUseAfterDestroy
<1>1. ASSUME IInv
      PROVE  NoUseAfterDestroy
  <2>1. SUFFICES ASSUME ~alive, failed = {}
                 PROVE  tasks = <<>> /\ \A x \in Executors : at[x] = "idle"
    BY DEF NoUseAfterDestroy
  <2>2. stage \in {"destroyPool", "gone"}
    BY <1>1, <2>1 DEF IInv, CallerLinks
  <2>3. done = 1..submitted
    BY <1>1, <2>1, <2>2 DEF IInv, Quiet, over
  <2>4. at[Owner] = "idle"
    BY <1>1, <2>2 DEF IInv, ExecutorLinks
  <2>5. QED
    BY <1>1, <2>3, <2>4, NothingRuns DEF Executors
<1>2. QED
  BY <1>1, InvAlways, PTL

\* An exception of a task leaves the run.
THEOREM ExceptionsLeave == Spec => []NoExceptionLost
<1>1. IInv => NoExceptionLost
  BY DEF IInv, Quiet, over, NoExceptionLost
<1>2. QED
  BY <1>1, InvAlways, PTL
=============================================================================
