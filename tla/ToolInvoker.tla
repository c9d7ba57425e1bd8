----------------------------- MODULE ToolInvoker -----------------------------
(***************************************************************************)
(* The class ToolInvoker of ToolsInvoker.hpp for one run: the calling      *)
(* thread goes through the jobs of ToolPlan in their order, hands tasks to *)
(* its ThreadPool, waits for their futures, executes batch tools itself    *)
(* and finally destroys the invoker, whose members go in reverse order of  *)
(* declaration.                                                            *)
(*                                                                         *)
(* An executor is a worker of the pool or the calling thread, Owner.  The  *)
(* pool is module ThreadPool; its actions are conjoined here with what a   *)
(* task does: executeTool takes the lock of its tool, executes it and      *)
(* records the tool's last summary.                                        *)
(***************************************************************************)
EXTENDS ToolPlan, Bags, BagsExt, FiniteSets

CONSTANTS
  Configs,   \* the configurations of a run
  Workers,   \* the workers of the pool
  Owner,     \* the calling thread
  Idle,      \* no task
  NoJob,     \* no job
  MaxTasks   \* bound on the tasks of one run

ASSUME OwnerIsNoWorker == Owner \notin Workers
ASSUME PoolShaped ==
  /\ Workers # {} /\ IsFiniteSet(Workers)
  /\ Idle \notin Nat
  /\ MaxTasks \in Nat
ASSUME NoJobIsNoJob == NoJob \notin Job
ASSUME ConfigsShaped == \A c \in Configs : ConfigShaped(c)

VARIABLES
  tasks, stopping, wpc, current, opc, submitted, taken, done,  \* ThreadPool
  config,      \* the configuration of this run
  plan,        \* the jobs that are still to be begun
  stage,       \* the calling thread
  toSubmit,    \* jobs of the current round that are not yet enqueued
  awaited,     \* futures of the current round: tasks awaited+1 .. submitted
  jobs,        \* the job of every task
  failed,      \* tasks whose future holds an exception
  at,          \* per executor: where it is in executeTool
  job,         \* per executor: the job it executes, or NoJob
  locked,      \* the tools whose lock is held
  last,        \* per tool: the job its last summary is about, or NoJob
  recorded,    \* the bag of jobs whose summaries have been added
  reported,    \* the bag behind diagnostics_summary_total
  threw,       \* an exception has left the run
  alive        \* m_diagnosticsSummaryMutex and its map exist

pool == <<tasks, stopping, wpc, current, opc, submitted, taken, done>>
ownerVars == <<config, plan, toSubmit, awaited, jobs, reported, alive>>
toolVars == <<locked, last, recorded>>
execVars == <<at, job>>
vars == <<pool, ownerVars, toolVars, execVars, stage, failed, threw>>

TP == INSTANCE ThreadPool

Executors == Workers \cup {Owner}

Init ==
  /\ TP!Init
  /\ config \in Configs
  /\ plan = Plan(config)
  /\ stage = "next"
  /\ toSubmit = {}
  /\ awaited = 0
  /\ jobs = <<>>
  /\ failed = {}
  /\ at = [x \in Executors |-> "idle"]
  /\ job = [x \in Executors |-> NoJob]
  /\ locked = {}
  /\ last = [t \in tools |-> NoJob]
  /\ recorded = EmptyBag
  /\ reported = EmptyBag
  /\ threw = FALSE
  /\ alive = TRUE

-----------------------------------------------------------------------------
\* The calling thread.

toolOf(x) == tool(config, job[x])

start(x, j) == at' = [at EXCEPT ![x] = "lock"] /\ job' = [job EXCEPT ![x] = j]

\* The next job is a call on this thread, or one of a round for the pool.
BeginStep ==
  /\ stage = "next"
  /\ \E j \in plan :
       /\ FirstOf(config, plan, j)
       /\ \/ /\ ~Pooled(config, j)
             /\ stage' = "call"
             /\ start(Owner, j)
             /\ plan' = plan \ {j}
             /\ UNCHANGED <<toSubmit, awaited>>
          \/ /\ Pooled(config, j)
             /\ stage' = "submit"
             /\ toSubmit' = {m \in plan : SameRound(j, m) /\ Pooled(config, m)}
             /\ awaited' = submitted
             /\ plan' = plan \ toSubmit'
             /\ UNCHANGED execVars
  /\ UNCHANGED <<pool, config, jobs, reported, alive, toolVars, failed, threw>>

Enqueue ==
  /\ stage = "submit"
  /\ TP!enqueue
  /\ \E j \in toSubmit :
       /\ FirstOf(config, toSubmit, j)
       /\ jobs' = Append(jobs, j)
       /\ toSubmit' = toSubmit \ {j}
  /\ UNCHANGED <<config, plan, awaited, reported, alive, toolVars, execVars, stage,
                 failed, threw>>

Notify ==
  /\ TP!notify_one
  /\ UNCHANGED <<ownerVars, toolVars, execVars, stage, failed, threw>>

\* Faulty: the futures are dropped, and those of packaged tasks do not block.
GetResults_dropped ==
  /\ stage = "submit"
  /\ toSubmit = {}
  /\ opc = "ready"
  /\ stage' = "next"
  /\ UNCHANGED <<pool, ownerVars, toolVars, execVars, failed, threw>>

\* result.get() in the order of the tasks; the first exception is rethrown.
GetResults ==
  /\ stage = "submit"
  /\ toSubmit = {}
  /\ opc = "ready"
  /\ \/ /\ (awaited + 1)..submitted \subseteq done \ failed
        /\ stage' = "next"
        /\ UNCHANGED threw
     \/ /\ \E t \in (awaited + 1)..submitted :
             t \in failed /\ (awaited + 1)..(t - 1) \subseteq done \ failed
        /\ stage' = "teardown"
        /\ threw' = TRUE
  /\ UNCHANGED <<pool, ownerVars, toolVars, execVars, failed>>

\* diagnosticsSummaryTotal() is read when all lists have been run.
EndOfRun ==
  /\ stage = "next"
  /\ plan = {}
  /\ reported' = recorded
  /\ stage' = "teardown"
  /\ UNCHANGED <<pool, config, plan, toSubmit, awaited, jobs, alive, toolVars, execVars,
                 failed, threw>>

\* The destructor: the summary map and its mutex, then the pool, then the
\* rest.  Without the asynchronous policy there is no pool.
DestroySummary ==
  /\ stage = "teardown"
  /\ alive' = FALSE
  /\ stage' = IF config.async THEN "destroyPool" ELSE "gone"
  /\ UNCHANGED <<pool, config, plan, toSubmit, awaited, jobs, reported, toolVars,
                 execVars, failed, threw>>

\* Faulty: the workers are detached instead of joined.
DestroyPool_detach ==
  /\ stage = "destroyPool"
  /\ opc' = "destroyed"
  /\ stopping' = TRUE
  /\ stage' = "gone"
  /\ UNCHANGED <<tasks, wpc, current, submitted, taken, done>>
  /\ UNCHANGED <<ownerVars, toolVars, execVars, failed, threw>>

DestroyPool ==
  /\ stage = "destroyPool"
  /\ TP!Destructor
  /\ stage' = IF opc' = "destroyed" THEN "gone" ELSE stage
  /\ UNCHANGED <<ownerVars, toolVars, execVars, failed, threw>>

Gone == stage = "gone" /\ UNCHANGED vars

-----------------------------------------------------------------------------
\* executeTool and executeBatchTool.

\* Faulty: an exception leaves the task without being stored in its future.
Return_unresolved(x, exception) ==
  /\ at' = [at EXCEPT ![x] = "idle"]
  /\ job' = [job EXCEPT ![x] = NoJob]
  /\ locked' = locked \ {toolOf(x)}
  /\ IF x = Owner
     THEN /\ stage' = IF exception THEN "teardown" ELSE "next"
          /\ threw' = (threw \/ exception)
          /\ UNCHANGED <<pool, failed>>
     ELSE /\ IF exception THEN UNCHANGED pool ELSE TP!Complete(x)
          /\ UNCHANGED <<stage, threw, failed>>

\* A task ends in the pool, a call on the calling thread.
Return(x, exception) ==
  /\ at' = [at EXCEPT ![x] = "idle"]
  /\ job' = [job EXCEPT ![x] = NoJob]
  /\ locked' = locked \ {toolOf(x)}
  /\ IF x = Owner
     THEN /\ stage' = IF exception THEN "teardown" ELSE "next"
          /\ threw' = (threw \/ exception)
          /\ UNCHANGED <<pool, failed>>
     ELSE /\ TP!Complete(x)
          /\ failed' = IF exception THEN failed \cup {current[x]} ELSE failed
          /\ UNCHANGED <<stage, threw>>

Lock(x) ==
  /\ at[x] = "lock"
  /\ toolOf(x) \notin locked
  /\ locked' = locked \cup {toolOf(x)}
  /\ at' = [at EXCEPT ![x] = "execute"]
  /\ UNCHANGED <<pool, ownerVars, last, recorded, job, stage, failed, threw>>

\* Faulty: the summary of the previous execution is kept.
Execute_stale(x) ==
  /\ at[x] = "execute"
  /\ at' = [at EXCEPT ![x] = "record"]
  /\ UNCHANGED <<pool, ownerVars, toolVars, job, stage, failed, threw>>

Execute(x) ==
  /\ at[x] = "execute"
  /\ last' = [last EXCEPT ![toolOf(x)] = job[x]]
  /\ \/ /\ at' = [at EXCEPT ![x] = "record"]
        /\ UNCHANGED <<pool, locked, job, stage, failed, threw>>
     \/ /\ toolOf(x) \in config.throws
        /\ Return(x, TRUE)
  /\ UNCHANGED <<ownerVars, recorded>>

\* Faulty: the tool stays locked after its summary has been recorded.
recordDiagnosticsSummary_locked(x) ==
  /\ at[x] = "record"
  /\ at' = [at EXCEPT ![x] = "idle"]
  /\ job' = [job EXCEPT ![x] = NoJob]
  /\ recorded' = BagAdd(recorded, last[toolOf(x)])
  /\ IF x = Owner THEN stage' = "next" /\ UNCHANGED pool
                  ELSE TP!Complete(x) /\ UNCHANGED stage
  /\ UNCHANGED <<ownerVars, locked, last, failed, threw>>

recordDiagnosticsSummary(x) ==
  /\ at[x] = "record"
  /\ recorded' = BagAdd(recorded, last[toolOf(x)])
  /\ Return(x, FALSE)
  /\ UNCHANGED <<ownerVars, last>>

-----------------------------------------------------------------------------
\* The workers, which exist when the policy is asynchronous.

TakeTask(w) ==
  /\ TP!Take(w)
  /\ start(w, jobs[Head(tasks)])
  /\ UNCHANGED <<ownerVars, toolVars, stage, failed, threw>>

SleepOrExit(w) ==
  /\ config.async
  /\ TP!Wait(w) \/ TP!ExitLoop(w)
  /\ UNCHANGED <<ownerVars, toolVars, execVars, stage, failed, threw>>

Spurious(w) ==
  /\ TP!SpuriousWakeup(w)
  /\ UNCHANGED <<ownerVars, toolVars, execVars, stage, failed, threw>>

ExecuteTool(x) == Lock(x) \/ Execute(x) \/ recordDiagnosticsSummary(x)
Worker(w) == TakeTask(w) \/ SleepOrExit(w) \/ ExecuteTool(w)
Caller == \/ BeginStep \/ Enqueue \/ Notify \/ GetResults \/ EndOfRun
          \/ DestroySummary \/ DestroyPool \/ ExecuteTool(Owner)

Next == Caller \/ (\E w \in Workers : Worker(w) \/ Spurious(w)) \/ Gone

Spec == Init /\ [][Next]_vars

\* Every thread that can run runs, and every tool ends.
FairSpec == Spec /\ WF_vars(Caller) /\ \A w \in Workers : WF_vars(Worker(w))

-----------------------------------------------------------------------------
\* Safety.

TypeOK ==
  /\ TP!TypeOK
  /\ config \in Configs
  /\ stage \in {"next", "call", "submit", "teardown", "destroyPool", "gone"}
  /\ plan \subseteq Plan(config)
  /\ toSubmit \subseteq Plan(config)
  /\ awaited \in 0..submitted
  /\ jobs \in Seq(Plan(config))
  /\ Len(jobs) = submitted
  /\ failed \subseteq done
  /\ at \in [Executors -> {"idle", "lock", "execute", "record"}]
  /\ job \in [Executors -> Plan(config) \cup {NoJob}]
  /\ \A x \in Executors : at[x] = "idle" <=> job[x] = NoJob
  /\ locked = {toolOf(x) : x \in {y \in Executors : at[y] \in {"execute", "record"}}}
  /\ last \in [tools -> Plan(config) \cup {NoJob}]
  /\ IsABag(recorded) /\ DOMAIN recorded \subseteq Plan(config)
  /\ IsABag(reported) /\ DOMAIN reported \subseteq Plan(config)
  /\ threw \in BOOLEAN
  /\ alive \in BOOLEAN

\* The executions of tool t on file f that list l led to, according to bag B.
Executions(B, l, t, f) ==
  {j \in DOMAIN B : j.list = l /\ tool(config, j) = t /\ f \in filesOf(config, j)}

\* However a run is spread over threads, no tool is executed on a file more
\* often than the lists ask for.
NeverMoreThanRequested ==
  \A l \in Lists, t \in tools, f \in ToSet(config.files) :
    \A j \in Executions(recorded, l, t, f) :
      /\ Requested(config, l, t)
      /\ recorded[j] = 1
      /\ Executions(recorded, l, t, f) = {j}

\* A run that ends without an exception reports every execution that was
\* asked for: no summary is lost and none is counted twice.
ReportComplete ==
  stage \in {"destroyPool", "gone"} /\ ~threw =>
    \A l \in Lists, t \in tools, f \in ToSet(config.files) :
      IF Requested(config, l, t)
      THEN \E j \in DOMAIN reported : Executions(reported, l, t, f) = {j} /\ reported[j] = 1
      ELSE Executions(reported, l, t, f) = {}

\* lastDiagnosticsSummary() is shared state of the tool: what a thread
\* records is the summary of its own execution.
SummaryIsOwn == \A x \in Executors : at[x] = "record" => last[toolOf(x)] = job[x]

\* A tool that redirects the standard output of the whole process never
\* runs while another tool does.
CaptureIsExclusive ==
  \A x \in Executors :
    at[x] = "execute" /\ requiresExclusiveProcessCapture(toolOf(x)) =>
      tasks = <<>> /\ \A y \in Executors \ {x} : at[y] = "idle"

\* m_diagnosticsSummaryMutex is destroyed before the pool has joined its
\* workers: no task that would still use it may be queued or running then.
\* This holds as long as no task of the pool throws.
NoUseAfterDestroy ==
  ~alive /\ failed = {} => tasks = <<>> /\ \A x \in Executors : at[x] = "idle"

\* An exception of a task leaves the run through result.get(): a run that
\* ends normally had no task whose future holds one.
NoExceptionLost == stage \in {"destroyPool", "gone"} /\ failed # {} => threw

-----------------------------------------------------------------------------
\* What makes the invariants above inductive, next to TP!IInv and TypeOK.

over == stage \in {"teardown", "destroyPool", "gone"}

\* Workers and tasks of the pool against executors and jobs.
ExecutorLinks ==
  /\ \A w \in Workers : at[w] # "idle" <=> wpc[w] = "running"
  /\ \A w \in Workers : wpc[w] = "running" => job[w] = jobs[current[w]]
  /\ at[Owner] # "idle" <=> stage = "call"
  /\ stage = "call" => ~Pooled(config, job[Owner])
  /\ \A i \in 1..submitted : Pooled(config, jobs[i])
  /\ \A j \in toSubmit : Pooled(config, j)

\* The calling thread as the owner of the pool.
CallerLinks ==
  /\ toSubmit # {} => stage = "submit"
  /\ opc = "notify" => stage = "submit"
  /\ opc \notin {"ready", "notify"} => stage \in {"destroyPool", "gone"}
  /\ alive <=> stage \notin {"destroyPool", "gone"}

\* Between two rounds, and after a run in which no task threw, every task
\* has ended; a run that goes on has met no exception.
Quiet ==
  /\ stage \in {"next", "call"} => done = 1..submitted /\ failed = {}
  /\ stage = "submit" => 1..awaited \subseteq done \ failed
  /\ over /\ failed = {} => done = 1..submitted
  /\ threw => over
  /\ over /\ failed # {} => threw

\* A lock is held by one executor.
LockIsExclusive ==
  \A x, y \in Executors :
    /\ at[x] \in {"execute", "record"} /\ at[y] \in {"execute", "record"}
    /\ toolOf(x) = toolOf(y)
    => x = y

\* A job is to be begun, to be enqueued, a task, or a call, at most one of them.
EachJobOnce ==
  /\ plan \cap toSubmit = {}
  /\ \A i \in 1..submitted : jobs[i] \notin plan \cup toSubmit
  /\ \A i, k \in 1..submitted : jobs[i] = jobs[k] => i = k
  /\ stage = "call" => job[Owner] \notin plan \cup DOMAIN recorded
  /\ \A j \in DOMAIN recorded : j \notin plan \cup toSubmit /\ recorded[j] = 1
  /\ \A i \in 1..submitted : jobs[i] \in DOMAIN recorded <=> i \in done \ failed

\* No job is forgotten as long as nothing has been thrown.
NoJobLost ==
  /\ ~threw => \A j \in Plan(config) :
       \/ j \in plan \cup toSubmit \cup DOMAIN recorded
       \/ \E i \in 1..submitted : jobs[i] = j
       \/ stage = "call" /\ job[Owner] = j
  /\ over /\ ~threw => DOMAIN reported = Plan(config) /\ \A j \in Plan(config) : reported[j] = 1

IInv ==
  /\ TP!IInv /\ TypeOK /\ ExecutorLinks /\ CallerLinks /\ Quiet /\ LockIsExclusive
  /\ SummaryIsOwn /\ EachJobOnce /\ NoJobLost

\* The invoker uses the pool as ThreadPool describes it.
ImplementsThreadPool == TP!Spec

-----------------------------------------------------------------------------
\* Liveness.

\* Every run ends with the invoker destroyed, with or without an exception:
\* no wait for a future, a tool lock or a worker lasts for ever.
RunEnds == <>(stage = "gone")
==============================================================================
