# CoreTrace in TLA+

CoreTrace is a command-line tool and a small HTTP server that run static and dynamic
analysers over source files. This directory models its control: how the server starts and
stops, how a configuration is put together, which files it names, how analyses are spread over
threads and processes, how the output of an analyser is captured, and how all of it becomes an
answer. TLC checks the models on small instances; TLAPS proves
the main safety results for every value of the constants. File names below are relative to
the root of the repository's tree `src/`.

## 1. The system

| Component | Code | State it keeps | Operations | What is hard |
|---|---|---|---|---|
| HTTP server | `include/Process/Ipc/HttpServer.hpp` 643-909 | `shutting_down_`, `shutdown_requested_`, `in_flight_`, `shutdown_cv_`, `shutdown_thread_` | `run`, `POST /api`, `POST /shutdown`, `OPTIONS`, `initiate_shutdown`, `wait_for_inflight_or_timeout`, `finalize_shutdown` | atomics, a condition variable that is notified without its mutex, a thread created by a handler and joined by `main`, a timeout |
| Requests | `HttpServer.hpp` 69-636 (`ApiHandler`), `src/App/Runner.cpp` | none: one `ProgramConfig`, `ToolInvoker` and `CaptureBuffer` per request | parse, `build_config_from_params`, `run_analysis`, `run_cli_analysis`, answer | precedence of file and fields; overlapping requests; which failures reach the answer |
| Configuration | `src/App/ToolConfig.cpp`, `src/App/Config.cpp`, `include/Config/config.hpp` | `ProgramConfig` | `applyToolConfigFile`, `ConfigProcessor::process`, `buildConfig` | six sections that write the same fields, rejection half way |
| Tool invoker | `include/Process/Tools/ToolsInvoker.hpp` 111-441 | tool locks, sum of the diagnostics, last summary per tool | `runStaticTools`, `runDynamicTools`, `runSpecificTools`, `executeTool`, `executeBatchTool`, destructor | tasks on several threads, exceptions in futures, order of destruction |
| Thread pool | `ToolsInvoker.hpp` 31-109 | queue, stop flag, workers | `enqueue`, worker loop, destructor | lost wakeups, draining |
| Output capture | `src/Process/Tools/StackAnalyzerToolImplementation.cpp` 747-1063 | descriptors 1 and 2 of the process, two temporary files, the stdio buffer | `ScopedFdCapture` (constructor, `release`, destructor), `executeBatch` | process-wide state, system calls that fail half way |
| Analyzer bridge | the same file, 104-595 | none | `buildAnalyzerArgs`, parsing of summaries | which option reaches the analyzer; counting each diagnostic once whatever the format |
| Source files | `src/App/Files.cpp` | none | `resolveSourceFiles` | manifests, discovery of `compile_commands.json`, dependencies and duplicates in several spellings |
| Child processes | `include/Process/LinuxProcess.hpp` and siblings | name and content of the log | `prepare`, `run`, `cleanup` | names in `/tmp` that are unlinked and given out again; failing `mkstemp`, `fork`, `exec` and `fopen` |
| External tools | `include/Process/Tools/AnalysisTools.hpp`, `src/Process/Tools/TscancodeToolImplementation.cpp` | none | `execute` | exceptions on each path; which of them leave the tool |
| Thread output capture | `include/Process/ThreadProcess.hpp` | thread-local pointer to a `CaptureBuffer` | `ScopedCapture`, `emit_line` | entries of one tool must stay whole and in order |
| IPC socket | `include/Process/Ipc/IpcStrategy.hpp` | one socket | constructor, `write`, `close` | short writes, a peer that goes, several writers |
| Argument parsers, strings, mangling, tables | `src/ArgumentParser`, `src/ctrace_tools`, `SupportedTools.hpp` | none that outlives a call | parsing and formatting | boundary cases of text |

How they interact: `main` builds a `ProgramConfig` from the command line. With `--ipc=serve`
it constructs `HttpServer` and calls `run()`, which blocks in httplib's `listen()`; a worker of
httplib runs each handler, which builds a configuration of its own from the request and the
file it names, resolves the sources and runs a `ToolInvoker`. Otherwise `run_cli_analysis` runs one `ToolInvoker`. An
invoker executes its tools on the calling thread or, with the asynchronous policy, as tasks of
its `ThreadPool`; the stack analyzer redirects the process's stdout and stderr while it runs, the
other tools fork processes that write into logs in `/tmp`. What tools say goes through
`ThreadProcess` to the console and to the request's buffer, and, outside standardIO, through the
socket to a peer; `run_analysis` makes the answer of the buffer and the summary of the invoker.

### What makes each component correct

- **Server.** No request is let in after the gate has closed; each request that is read is
  answered; there is exactly one shutdown thread, and it is joined; a shutdown ends the
  process; the counter the shutdown waits for is exact.
- **Pool.** Tasks start in order and run once; no task is stranded while a worker sleeps; the
  destructor runs what is queued before it returns.
- **Invoker.** Each requested tool runs on each file exactly once per request for it, its
  summary is counted once and is its own, a tool that captures the process's output runs
  alone, nothing outlives what it uses, an exception is never lost.
- **Capture.** The report of a run whose output was captured is what its own analyzer printed to
  stdout; the descriptors, the saved copies and the temporary files are given back; captured text
  is printed in the end. `docs/configuration.md` asks for the report after every successful run,
  which the code does not give (findings 4 and 6).
- **Configuration.** The strongest source wins for every field; an input is accepted only when
  all of it that is checked passes, and never rejected when the documentation allows it; the
  file's input files are those of one place, and the command line's come last. The documentation
  asks for more of the command line (findings 5, 7 and 8).
- **Sources.** Each file that is mentioned is analysed once, in the order of first mention and
  whatever its spelling; files of dependencies come in only when they are asked for; a bad
  manifest takes nothing else with it.
- **Bridge.** Every setting reaches the analyzer as the option it stands for, and no option loses
  its value; the summary counts every diagnostic of a captured output once.
- **Processes.** The output of an execution is that of its own child, however many run at once, and
  whole but for what follows a NUL byte in a line; no child and no log is left behind.
- **Run.** Every tool is executed on every file and reports its output or an error; messages to the
  peer are not interleaved; what goes wrong in one tool does not fail the request.

## 2. The modules

| Module | Role |
|---|---|
| `RequestGate` | abstract: open, closing, gone; requests are let in, refused and answered |
| `HttpServer` | the server; implements `RequestGate` |
| `HttpServerProofs` | its theorems |
| `TaskService` | abstract: submitted, started in order, finished, gone |
| `ThreadPool` | the pool; implements `TaskService` |
| `ThreadPoolProofs` | its theorems |
| `ToolPlan` | `runToolList` and its callers as a function from a configuration to a set of jobs with an order |
| `ToolPlanProofs` | its theorems |
| `ToolInvoker` | one run of an invoker; composed with `ThreadPool` (INSTANCE) and shown to use it as specified |
| `ToolInvokerProofs` | its theorems; takes those of `ToolPlan` and `ThreadPool` as lemmas |
| `FdCapture` | `executeBatch` and `ScopedFdCapture` |
| `FdCaptureProofs` | its theorems |
| `Configuration` | file, command line and request to `ProgramConfig` |
| `ConfigurationProofs` | its theorems |
| `SourceFiles` | `resolveSourceFiles` as operators |
| `AnalyzerBridge` | `buildAnalyzerArgs` and the parsing of summaries as operators |
| `ConversionProofs` | lemmas about these two: what is resolved, what is read of a command line, what a summary counts |
| `ChildProcess` | processes that share `/tmp` |
| `AnalysisRun` | a run from configuration to answer; puts the four modules above together |
| `AnalysisRunProofs` | the theorems of `ChildProcess` and of `AnalysisRun`; shows that `AnalysisRun` implements `ChildProcess` |
| `MC...` | instances for TLC |

Definitions named `X_something` under a comment "Faulty:" are plausible bugs in the definition
`X` that follows them. They are not part of any specification; they show that the properties
would notice.

### HttpServer

A member of `Requests` is a connection; `pc[r]` is where its handler stands, and each atomic
access, notification and thread operation of the code is an action. The shutdown thread is
`waiter`: `stop` (about to call `server_.stop()`), `check` (evaluating the predicate of the
wait under `shutdown_mutex_`), `block` (predicate was false, not yet in the wait set),
`waiting`, `done`, `expired`. The step between `check` and `waiting` is split because
`end_request` notifies without the mutex. `main` follows `run()`: listening, joining httplib's
workers, `finalize_shutdown`, end. httplib is external and modelled from its use: at most `PoolSize` connections are
served at once, waiting ones are queued, `stop()` invalidates the socket, a worker tests the
socket between two requests, and `listen()` returns after its workers have finished. `acked`,
`winner` and `receivedAfter` are history variables: which 202 answers a client could have seen
when it sent its request.

Abstractions: atomics are sequentially consistent. Except for the
compare-exchange, the code asks for less (acquire, release, and a relaxed increment, `HttpServer.hpp` 734-889), so
outcomes that only weaker orders allow are not explored; the three violated runs do not need any. An analysis
is one step with the outcome 200 or 400; creating the shutdown thread does not fail (listed as
a hazard).

### ThreadPool, ToolPlan, ToolInvoker

A critical section of `queueMutex` is one action of `ThreadPool`; notifications are actions of
their own because the code sends them after unlocking. One thread, the owner, enqueues and
destroys. `ToolPlan` is the branching of `runToolList` (policy, number of tools, batch and
exclusive tools, deduplication). A plan is a set of jobs, each the list it comes from, its round
(one per file, and a last one for batch tools) and its index in the list; `Before` is the order in
which the code comes to them. A configuration's files are assumed to be without duplicates, as
`resolveSourceFiles` makes them (`SourcesRight`). `ToolInvoker` executes a plan: `BeginStep`, `Enqueue` and
`Notify` on the owner, `Lock`, `Execute`, `recordDiagnosticsSummary` and the return on every executor, `GetResults`
with its rethrow, and the destruction in reverse order of declaration. Sums of diagnostics are
bags of jobs, so that "counted once" means the bag is the requested one.

### FdCapture

Descriptors point to files `<<owner, stream>>`; text is the set of batches that wrote it, enough
to tell whose output a report holds. `MayFail` names the system calls that may fail. `lockOf`
says which batches share a tool lock: those of one invoker do, those of two requests do not.
The output policy is standardIO, and the text that the code logs is assumed to reach stderr.
When `dup` or `mkstemp` fails, the analyzer runs all the same, without a capture, and its batch persists an
empty report; `PersistedReport` asks nothing of that report but that it holds no other batch's text,
and `SomeReportPersisted` shows it against the documentation.

### Configuration

A place is a JSON object that holds settings; `config[f]` records which place wrote field `f`
last and what sort of value (`ok`, `empty`, ...). Reading a section is one action, in the code's
order: analyzer section, legacy root keys, `analysis`, `files`, `output`, `runtime`, `server`.
A section that is rejected has written part of its fields in the code; nobody can see them,
because the program exits or the request's configuration is dropped. `ConfigProcessor::process` iterates
over an `unordered_map`, so options are applied in any order. Fields of the analyzer section that
are read like a modelled one of the same type, key aliases, path resolution and the elements of
lists are left out; an option whose value is only commas is not an input.

`argsPass` is what the front end checks, `argsAllowed` what the documentation allows as well: of a
command line, the first lets a `smt_timeout_ms` above `UINT32_MAX`, an analysis profile and an SMT mode
through whatever their value; of a request, the last two. A port is any `int` in both
front ends although `docs/configuration.md:171` allows `0..65535`; it is not given a range in the model.
`AcceptsOnlyChecked` says both directions, from the wider set for what is
accepted and from the narrower one for what is not rejected.

### SourceFiles and AnalyzerBridge

Both are pure: a path is a flag and a sequence of segments, and `Disk` gives the files there are.
The resolution goes through the entries of the input (`resolveSourceFiles`) and the names each
entry stands for (`appendNames`), drops the dependencies and appends what is not in the list yet;
both are recursive functions. An item of a manifest that names nothing is the
empty name. `SourcesRight` compares the result
with a definition by first mention, which does not recurse. `DependenciesFiltered` is about discovered databases
that are lists, or objects with a list: a database that is a single object, or one that is not a
`.json` file, is not filtered by the code (`Files.cpp` 208-222), and the property exempts it.
A setting of the analyzer is a function from those options that are given to their values, and a
command line is a sequence of options and texts. `parseArguments` reads it word by word as a parser of
options with values does, for one option at a time: it collects the texts that came with that option, and the inputs.
`ArgumentsReachAnalyzer` compares, for every option there is, what has been read with what the settings mean
to the analyzer (`Meant`), which is written from the meaning of the settings and not from the order in which
words are appended. What the analyzer prints is a sequence of lines (a total, one file, other) or a document
on each stream; what it reports are the severities of the diagnostics of each file. `Rendered` says how a
report can be printed: per file, as a total, both, or as a document with the spellings each severity
has, on either stream, among anything else; with nothing reported, it may be silent. `truth` counts the report itself,
so `SummaryIsTrue` is about what was reported and not about any text. The settings of
a run are those of `Configuration`'s result, but any combination is taken, not only those that
section parsing can produce.

### ChildProcess and AnalysisRun

`ChildProcess` has one action per system call of `UnixProcess` and of its child. `tmp` maps names
to logs, so a name can be used again; `<<p, n>>` is the n-th log of thread `p`. The exceptions of
failing calls skip `cleanup()` as in the code; the exit status is not looked at. `readLog` uses `fgets` and
appends each chunk as a C string, so what follows a NUL byte in a line, or in 1023 bytes of it, is lost. The
constant `AsRead` is what is left of a text; `ReadingAssumption` says of it that the empty text stays
empty and that reading again loses nothing more. `OutputIsOwn` and `OutputsComplete` speak of the output as it is read.

In `AnalysisRun` a member of `Requests` is a run, by the server or by the command line, and
`<<r, t>>` is tool `t` of run `r`. `stage` follows `run_analysis`: invoker with its socket, sources, tools, the stack analyzer
after the futures of all others, answer. `execute()` of a tool is `StartTool`, the steps of its
process, then `Report`, `Send` or `Catch`. A message to the peer is sent in two halves, so that messages can
interleave and be cut; an empty one is not sent at all. The peer may go at any time, and a signal may cut
any send. When the peer is gone the server's `send` fails, since httplib has SIGPIPE ignored; the command
line program is killed (`died`). `captured` is what `executeBatch` has of the analyzer's output:
both streams, or nothing when the capture was not enabled. Entries, message and summary are made of it, so a
run without a capture ends well with none of them. The conversion of tscancode to SARIF may throw on any
text that is not empty: `std::stoi` on a number that is too large, or `dump` on text that is not UTF-8.

Abstractions: tools of a list work on their files in the order that `ToolInvoker` allows (side by
side per file with the asynchronous policy, else one by one), as a guard on `StartTool`; the list
names each tool once. Other requests' captures of descriptors are in `FdCapture`, not here. What the
analyzer library prints is taken to be UTF-8; what children print need not be. The commands of the
tools, the SARIF document of tscancode, the console and the echo of the configuration in the
answer are data.

## 3. The runs

| Run | Instance | What it shows |
|---|---|---|
| `http_safety` | 3 connections, 2 workers, all messages, timeout | types, exact counter, hand-over of the shutdown thread, gate closed after the initiator's 202, refinement of `RequestGate` (19,527 states up to symmetry) |
| `http_live` | 3 connections, 2 workers, timeout | an authorised shutdown ends the process; a queued connection is taken up or dropped and a request that is read is answered (41,528 states) |
| `http_lostwakeup` | 2 connections, no timeout | *violated*: see finding 1 |
| `http_ack` | 3 connections | *violated*: finding 2 |
| `http_forceexit` | 2 connections, an analysis need not end | *violated*: finding 3 |
| `pool` | 3 workers, 4 tasks | no stranded task, `TaskService` (started in order, run once, all finished when the destructor returns), and that tasks and destructor end (2,108 states) |
| `invoker` | 2 workers, 6 configurations | executions, summaries, exclusivity, destruction, exceptions, termination, `ThreadPool` (6,753 states) |
| `capture_safety` | 3 batches of one invoker; `dup`, `mkstemp`, `open` may fail | report of captured runs, descriptors, delivery, closing (99,220 states) |
| `capture_concurrent` | 2 batches of two requests; `dup` may fail | *violated*: findings 4 and 6 |
| `configuration` | 12 groups of settings, both front ends | precedence, acceptance, input files (138,823 states) |
| `config_cli` | entry points, input files and checked values of a command line | *violated*: findings 5, 7 and 8 |
| `analysis` | 289 configurations of one or two runs, with and without a capture | sources, dependencies, arguments, logs, outputs, remains, the peer's stream, failures, summary of captured output (205,140 states up to symmetry) |

Why the bounds are enough to be of interest. Server: two connections give a request against a shutdown;
the third gives two competing shutdowns beside a request in flight, or a request sent after one
of two answers. With two workers the third waits behind two long analyses. Pool: more tasks than
workers and at least two workers asleep. Invoker: the six configurations have each list, both
policies, no, one and two files, repeated and unknown names, and exceptions on either side; plans
have up to three pool tasks per step. Capture: the third batch starts from what two predecessors
left behind, failures included. Configuration: settings interact only within a group (the same
field, or a field whose use depends on another), so the groups are checked one at a time with every
combination of present, absent and malformed places. Analysis: the configurations come in three
groups. The first varies the entries (all pairs of twelve, and all databases without entries), the second one setting of the
analyzer at a time and many together, the third the tools: both policies, all IPC modes, one and two
files, and two requests at once. Every run of the analyzer may print each of seven outputs on either stream, captured or not. A child prints nothing, plain text, text that is not UTF-8, or text with a NUL
byte that is read as plain text. Processes share three
names in `/tmp`, which are given out again within a run. Sources and settings do not interact with the steps of tools, so the groups need not be multiplied.

`MaxTasks` bounds the tasks of a pool; `ToolInvoker` sets it above what any plan needs. `MaxRuns`
bounds the executions of each tool in `ChildProcess`; the instance has as many as the longest list
of sources of a run with processes. There is no other bound in a guard. Every passing run checks deadlock; each specification has an explicit
stuttering step for its end.

### Fairness

- *Threads.* Handlers, the shutdown thread, the main thread, pool workers and the owner are
  weakly fair: a thread that can run is run.
- *Strong fairness* for `Pickup` (httplib's task queue is first in, first out), `HangUp` (a
  keep-alive connection is closed after a number of requests or a silence) and `TimeOut`
  (the deadline of `wait_for` is absolute: wakeups do not put it off).
- *Analyses end* in `FairSpec` but not in `SchedulingSpec`; the latter is for what the timeout
  promises. In the invoker every execution of a tool ends, by returning or throwing.
- Nothing is assumed of clients, and spurious wakeups are possible but never fair: liveness does not rest on
  them. A run has finitely many tasks, so weak fairness is enough for the tool locks.

## 4. Findings

1. `http_lostwakeup`: with `--shutdown-timeout-ms 0` ("wait indefinitely") the last request may
   notify between the shutdown thread's evaluation of its predicate and its wait; nothing wakes
   the thread after that and the process does not end.
2. `http_ack`: `shutdown_requested_` is set before `shutting_down_`; a second authorised
   shutdown is answered 202 in between, and a request sent after that answer is still served. For
   the client that started the shutdown the promise holds (`InitiatorAckClosesGate`, proved).
3. `http_forceexit`: after the timeout the code logs "Forcing exit." but `listen()` still joins its
   workers; an analysis that hangs keeps the process alive.
4. `capture_concurrent`: the lock around the capture belongs to an invoker and requests have one
   each, but the descriptors belong to the process; a report may miss what its analyzer printed.
5. `config_cli`: an analyzer section that names `entry_points` or `only_functions` hides
   `--entry-points` from the analyzer, although command-line values are said to win. A canonical
   `files.entry_points` is hidden in the same way.
6. `capture_concurrent`: when `dup` or `mkstemp` fails, a run succeeds without a capture and an empty
   report replaces the previous one.
7. `config_cli`: `--input`, the option of `files.input`, is added to the files of the configuration file and does
   not override them.
8. `config_cli`: `--smt-timeout-ms` is truncated to 32 bits where only `0..UINT32_MAX` is allowed, and `--analysis-profile`
   and `--smt-mode` take any text although such values "are validated explicitly".

Findings 4 and 6 are two ways to break one sentence (`docs/configuration.md:97`), and 5, 7 and 8 break three. Each of the two runs
checks a property that is weaker than each of them: `SomeReportPersisted` only asks that one of two
successful runs, one captured and one not, persists its analyzer's stdout, and `SomeCliPromiseKept` that
one of three promises is kept. So one counterexample refutes all of them. With `MayFail = {}` two overlapping captures
break the sentence as well.

## 5. What is proved

All proofs are for any number of connections, workers, tasks, files, batches or inputs, whichever the
module has.

**HttpServerProofs.** `TypeCorrect`; `InFlightCorrect` (the counter equals the number of live
guards); `HandoverCorrect`, `AckCorrect` and `GateRefinement`. The properties are not inductive by
themselves: that the handle of the shutdown thread is stored before `main` looks at it needs to
know that the elected initiator is still in its handler until then, hence that its connection is
not idle, hence that `listen()` has not returned. `IInv` (in `HttpServer`) therefore adds
`LifecycleInv` (listening and idle connections against the progress of `run()`), `InitiatorInv`
(how far the winner of the compare-exchange has come and what it has done by then), `AnswerInv`
(response and route per handler position) and `AckInv`. What a step does to one
connection is collected in `LocalStep`, proved once from `Next`; the invariants about
a single connection and the refinement follow from it. Assumptions: finitely many connections, and
those named in `HttpServer`.

**ThreadPoolProofs.** `TypeCorrect`, `Safety` (all safety properties of the run) and `Refinement`.
The invariant adds `OwnerInv` to them: the stop flag is set exactly from the owner's destructor on, and
all workers have exited once the destructor has returned. `NoLostWakeup` needs it, because which
notification is still to come depends on the owner's position.

**ToolPlanProofs.** `PlannedOnce`: two jobs of a plan with the same list and tool have no file in common;
`RequestedIsPlanned`: each requested tool has a job for each file. Deduplication keeps the first
mention of a name; that there is a first one is the least-number principle (`LeastNumber`, from the
library's `WFMin`).

**ToolInvokerProofs.** `UsesThePool`: an invoker's steps are steps of `ThreadPool` or leave it alone, so
`ThreadPoolProofs`, taken through INSTANCE, gives the pool's invariant for free. On top of it
`TypeCorrect`, `NoExtraExecution`, `ReportsEverything`, `OwnSummary`, `ExclusiveCapture`,
`NothingOutlivesTheInvoker` and `ExceptionsLeave`, for any configurations and any tools' exceptions.
The invariant (`IInv` in `ToolInvoker`) needs: which worker executes the job of which task
(`ExecutorLinks`) and which stage the owner is in while the pool is used (`CallerLinks`); that a lock
has one holder (`LockIsExclusive`), hence that `last` is still the executor's own when it is recorded; that
all tasks have ended when the owner calls a tool itself or begins a round (`Quiet`), which is what
makes the capture exclusive; and that a job is in one place at a time and in none only after an
exception (`EachJobOnce`, `NoJobLost`), from which the plan's theorems give the counts. `Quiet` also
says that a failed task leads to `threw` before anything else happens, because `result.get()` goes
through the futures in order.

**FdCaptureProofs.** Under `OneLock` (all batches share a tool lock) and no failing `dup2`:
`TypeCorrect`, `DescriptorsGivenBack`, `CapturesAreClosed`, `ReportCorrect`, `OutputIsDelivered`. The invariant says that the lock makes
at most one batch active (`Exclusive`), where each descriptor points at each position
(`DescriptorInv`), what the stdio buffer may hold (`BufferInv`) and what each batch has saved, opened and read
(`CaptureInv`, `ReportInv`). `ReportCorrect` is about batches whose capture was set up, and about whose text a report may
hold; it does not exclude the empty report of finding 6. `DeliverInv` follows the text of a batch from its file or the buffer to
the terminal; files only grow (`TextGrows`), so a batch that is done is not disturbed. Both assumptions are needed: without the first, finding 4; a `dup2` that fails
after the other has succeeded leaves stdout redirected, because `restoreDescriptors` returns early
(listed as a hazard).

**ConfigurationProofs.** `TypeCorrect`, `StrongestSourceWins`, `RejectsOnlyInvalid` and
`InputFilesOfOnePlace`, for any set of well-formed inputs and any order of options. `RejectsOnlyInvalid` is about what the code
checks and about what the documentation allows, which is not the same (finding 8), and `InputFilesOfOnePlace` leaves
open whether the command line's files replace the file's (finding 7). The properties speak of the end; the invariant says
at each position what has been read: `Progress` (which positions a front end passes, what is still pending), `ReadIsValid` (what was
read was valid; an input was rejected for something that is not) and `FieldsFollow` / `FilesFollow` (a
field follows the strongest source consulted so far). `FieldsFollow` carries the difficulty of the
code: boolean fields of a request are written before the file is read, all others after it, so the same field has
two precedences (`overridden`); a legacy key of the root and the canonical sections overwrite in
order of rank (`GiversDiffer`: no two of the same rank give one field). The assumption is
`InputsShaped`: each value has one of the kinds of its type, which TLC checks for the instance.

**AnalysisRunProofs, the processes.** `LogsAreSeparate`, `OutputsAreOwn` (what is read is the log of the own child, with nothing missing
but what `AsRead` drops) and `ChildrenAreWaitedFor`, for any number of
threads, processes, names and texts. The invariant `ProcessInv` adds which processes remember a
name (`PathInv`): only those whose log still has it. That is why the second unlink, in `cleanup()`, never hits
a name that `mkstemp` has given to another thread after the first.

**AnalysisRunProofs, the runs.** `ProcessRefinement`: every step of a run is a step of `ChildProcess` or leaves
all processes alone, so its theorems hold in the composition (`RunLogsAreSeparate`). With
`ProcessInv` as a lemma, `RunInvariance` shows `RunInv`, from which `StreamIntact`,
`FailuresStayContained` and `NothingIsLeft` follow. `RunInv` needs: that a process belongs to a tool of a run which waits for it
(`BusyInv`), so nothing runs when the stage goes on to the analyzer or to the answer; that only a tool that holds its output sends (`SendingInv`), and that
the message being sent is the last of its stream (`StreamInv`), so that the second half lands behind the first; that text which
is not UTF-8 in an entry was printed by a child of the same run (`LinesInv`); and that logs in
`/tmp` have one name each (`NamesInv`), so that unlinking a name removes a log.

`OutputInvariance` shows `OutputInv` on top of `RunInv`; `SourcesAreRight`, `DependenciesAreFiltered`,
`OutputsAreComplete` and `TypeCorrect` follow. `SourcesInv` keeps the sources equal to their resolution.
What the resolution yields is shown in `ConversionProofs` by counting up over the entries and, in each, over its names
(`CountUp`, the least-number principle of the library's `WFMin`; the library's
induction theorems cannot be used): after each name the list has each file that has been mentioned so far once, in the
order of first mention (`Listing`, `EntryStep`). `WorkInv` ties what a tool has said and sent to the
number of files it has finished; without `runs[p] = finished[p]`, plus one while it works, one
could not tell that a log belongs to the file at hand, and without the last two conjuncts half a message
could be taken for the report on the next file. That a report stays one when other tools speak and
send is `ReportStays`: lists only get longer, by lines about one log (`Longer`). `DoneInv`
says that the stage leaves the tools only when all have finished. `TypeCorrect` also shows that the
summary has its type: the sum over the lines (`LinesOneByOne`) and the counts of a document, which has finitely
many results.

`ArgumentsReachTheAnalyzer` rests on `WordsAreBuilt`: the command line of a run is empty until its sources are resolved and
is then built once, from the settings and sources the run still has. The rest is `ArgumentsAreRead` in `ConversionProofs`, for any
settings, inputs and extra arguments. Reading a command line in two parts is reading the second where
the first has left off (`ReadInParts`), and a part that leaves no option waiting only adds to what has been read
(`ReadBehind`). So each piece that `buildAnalyzerArgs` appends is described by what it adds for one option
and that it leaves none waiting (`AddsFlag`, `AddsPair`, `AddsFilter`, ...); an empty value
adds nothing. The pieces of a list of options are put together with the fact that each option is listed once and is
of one sort (`ListedOnce`, `OneSort`, `TheOptions`), which gives `Meant` (`OptionsAreGiven`). The extra
arguments come next, and what follows them are only the inputs.

`TheSummaryIsTrue` rests on `SummaryIsMade`: there is no exit of the analyzer before it has run, and from the answer on the
summary is the one made of what has been captured. That this is the truth when everything has been captured is `TheSummaryIsTold` in
`ConversionProofs`. The counts of the lines of files add up to the count of all diagnostics: counting up over the lines, the
diagnostics of the files whose lines have been passed are a set that grows by those of one file at a time,
disjoint from it (`OneMoreFile`, `FilesAddUp`). In a document exactly the entries that spell a severity
count for it (`DocumentTells`). A silent text yields no summary, so the next place is looked at; without a capture both streams are
silent (`CapturesHaveASummary`).

Assumptions: `RunConstants` (processes are pairs of a run and a tool), `ReadingAssumption` in `ChildProcess`, `LoadsAssumption` (a run names
tools that have a module, its entries are a list, a report is not the empty text), `SettingsAssumption`
(settings are texts, lists of texts and switches), `PrintsAssumption`
(a print has lines and a document, and is one of the ways to print what it reports) and `DiskShaped` in `SourceFiles` (an
array in a manifest is a list). TLC checks them for the instance.

**Only model-checked.** Liveness and whatever rests on fairness (`ShutdownCompletes` and `OneRequestAnswered` of the server, `EveryTaskEnds` and
`DestructorReturns` of the pool, `RunEnds` of the invoker) is out of the prover's reach. Every invariant and
every action property of a passing run is a theorem. That the analyzer reads its command line and prints its
reports as `AnalyzerBridge` says is not proved: its library is not part of the repository. The properties of the violated runs are refuted by TLC.


## 6. Not modelled

- The argument parsers: their grammar is CLI11's and getopt's, and what they hand on is
  where `Configuration` begins.
- `strings.cpp`, `mangle.cpp` and `languageType.cpp`: recognition of text, without state. Lists that `splitByComma`
  has split are members of small sets in the models.
- The tool table and the help text; `main` and `run_server`, which only construct and call.
- A failing `dup2`, and a `std::thread` that cannot be created: nothing in the repository says what
  should happen then. Both are listed as hazards.
- The text of log messages and of the SARIF document of tscancode. That document is written to one fixed file
  for all requests.
- `UnixProcess.hpp` is not used by the factory, `WinProcess.hpp` belongs to another platform, and
  `external/` is third-party.

Behaviour of the code that the models contain and no run calls wrong, because nothing in the
repository promises otherwise, or nothing precise enough to be a property:

- With standardIO the stdout of the stack analyzer is in the answer of the server twice, once from
  `captureToolOutputOnly` and once from `tool_out` (`Deliver`).
- A write of the analyzer's report to a peer that is gone throws out of `executeBatch`: summary and report are lost
  and the request is answered 400 (`DeliverToPeer`). On the command line the program dies of SIGPIPE.
- A run whose capture could not be set up ends well with a summary of zero, no entries in the answer and no message
  to the peer, whatever the analyzer reported (`RunAnalyzer`, `Deliver`, `Summarise`). Only its report is promised (finding 6).
- What follows a NUL byte in a line of a tool's output is lost without an error (`readLog`).
- A number in tscancode's output that does not fit an `int` makes the tool report an error in place of its
  output (`Report`).
- After a task has thrown, tasks that are still queued use the summary map and its mutex after their destruction;
  `NoUseAfterDestroy` speaks of runs in which no task has thrown.
- A `connect` that fails leaks the descriptor of the socket (`ConstructInvoker`).
- Output of a tool that is not UTF-8 turns a valid request into 400 InvalidRequest (`Answer`).
- A last `extra_args` entry that is an option with a value takes the first input file as its value;
  `ArgumentsArrive` leaves that case out.

## 7. Plan

1. `FdCapture` with a failing `dup2` (now a hazard without a property) and with the socket as the second output.
2. `splitByComma` over the shapes of tokens, with the quotation mark that is both first and last.
