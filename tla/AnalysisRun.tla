----------------------------- MODULE AnalysisRun -----------------------------
(***************************************************************************)
(* One run of an analysis from its configuration to its answer:            *)
(* ApiHandler::run_analysis and handle_post_api for a request to the       *)
(* server, run_cli_analysis for the command line.  It puts together the    *)
(* resolution of the sources (SourceFiles), the external tools and their   *)
(* processes (ChildProcess), the stack analyzer (AnalyzerBridge), the      *)
(* capture of what tools say and the socket.                               *)
(*                                                                         *)
(* A server executes several requests at once.  Each has its own invoker,  *)
(* so its own tool locks, capture buffer and socket; /tmp is shared.       *)
(* <<r, t>> is tool t of request r, which executes one file after another; *)
(* how the invoker spreads tools over its threads is module ToolInvoker.   *)
(***************************************************************************)
EXTENDS SourceFiles, AnalyzerBridge, ChildProcess

CONSTANTS
  Requests,        \* the runs of one process
  ChildTools,      \* the tools that execute a process
  Loads,           \* what the runs may be asked to do, and by whom
  AnalyzerPrints,  \* what the stack analyzer may print
  Binary           \* a text that is not UTF-8

analyzer == "ctrace_stack_analyzer"

ASSUME RunConstants ==
  /\ Procs = Requests \X ChildTools
  /\ ChildTools \subseteq {"cppcheck", "flawfinder", "tscancode", "ikos"}
  /\ Binary \in Texts

\* Tools of a run have a module, its entries are a list, and a report is not
\* the empty text.
ASSUME LoadsAssumption ==
  /\ \A l \in Loads, r \in Requests : l[r] # None =>
       /\ ToSet(l[r].tools) \subseteq ChildTools \cup {analyzer}
       /\ IsArray(l[r].input.files)
  /\ \A print \in AnalyzerPrints : print.out # Nothing

\* The analyzer tells what it reports, in one of the ways it has.
ASSUME PrintsAssumption ==
  \A print \in AnalyzerPrints :
    IsPrinted(print.out) /\ IsPrinted(print.err) /\ Rendered(print)

\* The settings are texts, lists of texts and switches.
ASSUME SettingsAssumption ==
  \A l \in Loads, r \in Requests : l[r] # None => IsSettings(l[r].settings, Seq(STRING))

VARIABLES
  load,         \* per run: its configuration, or None
  stage,        \* how far the run has come, or how it has ended
  sources,      \* the resolved source files
  sending,      \* per tool: half of its message has been sent
  finished,     \* per tool: the number of files it has been executed on
  lines,        \* per tool: what it has said, in order
  socket,       \* the socket of the invoker
  gone,         \* the peer has closed its end
  interrupted,  \* a signal has cut a send short
  stream,       \* what has arrived at the peer: halves of messages
  words,        \* the command line of the stack analyzer
  printed,      \* what the stack analyzer has printed, or None
  captured,     \* what of it has been captured, or None
  exit,         \* how the stack analyzer has ended
  summary       \* the summary of its diagnostics

toolVars == <<sending, finished, lines>>
ipcVars == <<socket, gone, interrupted, stream>>
analyzerVars == <<words, printed, captured, exit, summary>>
vars == <<processVars, load, stage, sources, toolVars, ipcVars, analyzerVars>>

SA(r) == <<r, analyzer>>
AllTools == Requests \X (ChildTools \cup {analyzer})
Children(r) == {<<r, t>> : t \in ToSet(load[r].tools) \ {analyzer}}
standardIO(r) == load[r].ipc = "standardIO"
hasSarifFormat(r) == is(load[r].settings, "sarif_format")

Ends == {"absent", "noanalysis", "missing", "rejected", "died", "ok"}

Init ==
  /\ ProcessInit
  /\ load \in Loads
  /\ stage = [r \in Requests |-> IF load[r] = None THEN "absent" ELSE "begin"]
  /\ sources = [r \in Requests |-> <<>>]
  /\ sending = [q \in AllTools |-> FALSE]
  /\ finished = [q \in AllTools |-> 0]
  /\ lines = [q \in AllTools |-> <<>>]
  /\ socket = [r \in Requests |-> "none"]
  /\ gone = [r \in Requests |-> FALSE]
  /\ interrupted = [r \in Requests |-> FALSE]
  /\ stream = [r \in Requests |-> <<>>]
  /\ words = [r \in Requests |-> <<>>]
  /\ printed = [r \in Requests |-> None]
  /\ captured = [r \in Requests |-> None]
  /\ exit = [r \in Requests |-> "none"]
  /\ summary = [r \in Requests |-> NoSummary]

goto(r, s) == stage' = [stage EXCEPT ![r] = s]

\* The invoker is destroyed, and with it its socket.
close(r) == socket' = [socket EXCEPT ![r] = IF @ = "open" THEN "closed" ELSE @]

\* An exception leaves the run: the server answers 400 InvalidRequest, the
\* command line program is terminated.
Throw(r) == goto(r, IF load[r].api THEN "rejected" ELSE "died")

-----------------------------------------------------------------------------
\* The beginning: the invoker, then the sources.

\* connect can fail after socket has given a descriptor, which no
\* destructor closes then.
ConstructInvoker(r) ==
  /\ stage[r] = "begin"
  /\ load[r].selected \/ ~load[r].api
  /\ \/ standardIO(r) /\ goto(r, "resolve") /\ UNCHANGED socket
     \/ ~standardIO(r) /\ goto(r, "resolve") /\ socket' = [socket EXCEPT ![r] = "open"]
     \/ /\ ~standardIO(r)
        /\ Throw(r)
        /\ \E s \in {"none", "leaked"} : socket' = [socket EXCEPT ![r] = s]
  /\ UNCHANGED <<processVars, load, sources, toolVars, gone, interrupted, stream, analyzerVars>>

NoAnalysisSelected(r) ==
  /\ stage[r] = "begin"
  /\ ~load[r].selected /\ load[r].api
  /\ goto(r, "noanalysis")
  /\ UNCHANGED <<processVars, load, sources, toolVars, ipcVars, analyzerVars>>

ResolveSources(r) ==
  /\ stage[r] = "resolve"
  /\ sources' = [sources EXCEPT ![r] = resolveSourceFiles(load[r].input)]
  /\ IF sources'[r] = <<>> THEN goto(r, "missing") /\ close(r)
                           ELSE goto(r, "tools") /\ UNCHANGED socket
  /\ UNCHANGED <<processVars, load, toolVars, gone, interrupted, stream, analyzerVars>>

-----------------------------------------------------------------------------
\* What tools say and send.

Line(kind, log, text) == [kind |-> kind, log |-> log, text |-> text]
say(q, said) == lines' = [lines EXCEPT ![q] = @ \o said]

\* The first half of a message; an empty one has no halves.
sendFirst(r, log, text) ==
  /\ ~gone[r]
  /\ stream' = IF text = Nothing THEN stream
               ELSE [stream EXCEPT ![r] = Append(@, Line("first", log, text))]
  /\ UNCHANGED <<socket, gone, interrupted>>

\* A send that has begun returns the number of bytes sent, few as they may
\* be, when the peer goes or a signal arrives; nobody looks at the number.
sendRest(r, log, text) ==
  /\ \/ /\ ~gone[r]
        /\ stream' = [stream EXCEPT ![r] = Append(@, Line("rest", log, text))]
        /\ UNCHANGED interrupted
     \/ gone[r] /\ UNCHANGED <<stream, interrupted>>
     \/ /\ interrupted' = [interrupted EXCEPT ![r] = TRUE]
        /\ UNCHANGED stream
  /\ UNCHANGED <<socket, gone>>

PeerLeaves(r) ==
  /\ socket[r] = "open"
  /\ ~gone[r]
  /\ gone' = [gone EXCEPT ![r] = TRUE]
  /\ UNCHANGED <<processVars, load, stage, sources, toolVars, socket, interrupted, stream,
                 analyzerVars>>

-----------------------------------------------------------------------------
\* Tools that execute a process: execute() of cppcheck, flawfinder,
\* tscancode and ikos.

\* Tools of one list work on the same file side by side, or one by one.
MayStart(p) ==
  LET r == p[1]
      place(q) == CHOOSE i \in DOMAIN load[r].tools : load[r].tools[i] = q[2]
      ahead(q) == ~load[r].async /\ place(q) < place(p)
  IN  \A q \in Children(r) \ {p} :
        /\ finished[q] >= finished[p] + (IF ahead(q) THEN 1 ELSE 0)
        /\ ~load[r].async => step[q] = "idle"

Running(p) == stage[p[1]] = "tools" /\ p \in Children(p[1])

\* Faulty: one file more than there are.
StartTool_oneMore(p) ==
  /\ Running(p)
  /\ finished[p] <= Len(sources[p[1]])
  /\ MayStart(p)
  /\ CreateLog(p)
  /\ UNCHANGED <<load, stage, sources, toolVars, ipcVars, analyzerVars>>

StartTool(p) ==
  /\ Running(p)
  /\ finished[p] < Len(sources[p[1]])
  /\ MayStart(p)
  /\ CreateLog(p)
  /\ UNCHANGED <<load, stage, sources, toolVars, ipcVars, analyzerVars>>

Process(p) ==
  /\ Running(p)
  /\ Execute(p)
  /\ UNCHANGED <<load, stage, sources, toolVars, ipcVars, analyzerVars>>

return(p) ==
  /\ Dispose(p)
  /\ finished' = [finished EXCEPT ![p] = @ + 1]
  /\ sending' = [sending EXCEPT ![p] = FALSE]

output(p) == Line("out", logOutput[p].of, logOutput[p].text)
error(p) == Line("err", own(p), Nothing)
Writes(p) == p[2] = "flawfinder" /\ ~standardIO(p[1])

\* tool_out, and for tscancode the output once more as SARIF.  That throws
\* when a line number does not fit into an int or the document holds text
\* that is not UTF-8; an empty output has neither.
Report(p) ==
  /\ Running(p)
  /\ step[p] = "finished"
  /\ ~Writes(p)
  /\ \/ /\ p[2] = "tscancode" /\ hasSarifFormat(p[1])
        /\ \/ say(p, <<output(p), [output(p) EXCEPT !.kind = "sarif"]>>)
           \/ logOutput[p].text # Nothing /\ say(p, <<output(p), error(p)>>)
     \/ ~(p[2] = "tscancode" /\ hasSarifFormat(p[1])) /\ say(p, <<output(p)>>)
  /\ return(p)
  /\ UNCHANGED <<load, stage, sources, ipcVars, analyzerVars>>

Send(p) ==
  /\ Running(p)
  /\ step[p] = "finished"
  /\ Writes(p)
  /\ ~sending[p]
  /\ sendFirst(p[1], logOutput[p].of, logOutput[p].text)
  /\ IF logOutput[p].text = Nothing THEN return(p)
     ELSE /\ sending' = [sending EXCEPT ![p] = TRUE]
          /\ UNCHANGED <<processVars, finished>>
  /\ UNCHANGED <<load, stage, sources, lines, analyzerVars>>

SendRest(p) ==
  /\ sending[p]
  /\ stage[p[1]] = "tools"
  /\ sendRest(p[1], logOutput[p].of, logOutput[p].text)
  /\ return(p)
  /\ UNCHANGED <<load, stage, sources, lines, analyzerVars>>

\* The peer is gone: the server ignores SIGPIPE and send fails, the command
\* line program dies.
SendFails(p) ==
  /\ Running(p)
  /\ step[p] = "finished"
  /\ Writes(p) /\ ~sending[p]
  /\ gone[p[1]]
  /\ IF load[p[1]].api
     THEN say(p, <<error(p)>>) /\ return(p) /\ UNCHANGED stage
     ELSE goto(p[1], "died") /\ UNCHANGED <<processVars, toolVars>>
  /\ UNCHANGED <<load, sources, ipcVars, analyzerVars>>

\* Faulty: the exception of a process leaves the tool.
Catch_not(p) ==
  /\ Running(p)
  /\ step[p] = "threw"
  /\ Throw(p[1])
  /\ return(p)
  /\ UNCHANGED <<load, sources, lines, ipcVars, analyzerVars>>

\* An exception of the process is all the tool reports.
Catch(p) ==
  /\ Running(p)
  /\ step[p] = "threw"
  /\ say(p, <<error(p)>>)
  /\ return(p)
  /\ UNCHANGED <<load, stage, sources, ipcVars, analyzerVars>>

-----------------------------------------------------------------------------
\* The stack analyzer takes all files at once.

\* Faulty: the analyzer does not wait for the tools of the pool.
ToolsDone_unawaited(r) ==
  stage[r] = "tools" /\ \A p \in Children(r) : finished[p] + 1 >= Len(sources[r])

ToolsDone(r) ==
  stage[r] = "tools" /\ \A p \in Children(r) : finished[p] = Len(sources[r])

WithoutAnalyzer(r) ==
  /\ ToolsDone(r)
  /\ analyzer \notin ToSet(load[r].tools)
  /\ goto(r, "answer")
  /\ UNCHANGED <<processVars, load, sources, toolVars, ipcVars, analyzerVars>>

fileName(path) ==
  <<FoldLeft(LAMBDA name, part : name \o (IF name = "" THEN "" ELSE "/") \o part,
             IF path.abs THEN "/" ELSE "", path.parts)>>

inputFiles(r) == [i \in DOMAIN sources[r] |-> fileName(sources[r][i])]

\* The settings of the analyzer: its own, and two the sources depend on too.
settings(r) ==
  LET given == load[r].input
      chosen == load[r].settings
      added == (IF given.compile_commands = Empty THEN {} ELSE {"--compile-commands"})
                 \cup (IF given.include_compdb_deps THEN {"--include-compdb-deps"} ELSE {})
  IN  [o \in DOMAIN chosen \cup added |->
         IF o \in DOMAIN chosen THEN chosen[o]
         ELSE IF o = "--compile-commands" THEN fileName(given.compile_commands) ELSE TRUE]

\* The analyzer may refuse its arguments or be asked for help only.
StartAnalyzer(r) ==
  /\ ToolsDone(r)
  /\ analyzer \in ToSet(load[r].tools)
  /\ words' = [words EXCEPT ![r] = buildAnalyzerArgs(inputFiles(r), settings(r))]
  /\ \/ goto(r, "analyzer") /\ UNCHANGED lines
     \/ /\ \E kind \in {"out", "err"} : say(SA(r), <<Line(kind, <<SA(r), 1>>, Nothing)>>)
        /\ goto(r, "answer")
  /\ UNCHANGED <<processVars, load, sources, sending, finished, ipcVars, printed, captured,
                 exit, summary>>

\* What ScopedFdCapture has of both streams: nothing when dup or mkstemp has
\* failed, so that it is not enabled and the analyzer prints to the terminal.
Streams(print) == [out |-> print.out, err |-> print.err]
Silence == [lines |-> <<>>, doc |-> [kind |-> "none", runs |-> <<>>]]
NotEnabled == [out |-> Silence, err |-> Silence]

RunAnalyzer(r) ==
  /\ stage[r] = "analyzer"
  /\ \E p \in AnalyzerPrints, e \in {"ok", "failed", "threw"} :
       /\ printed' = [printed EXCEPT ![r] = p]
       /\ \E c \in {Streams(p), NotEnabled} : captured' = [captured EXCEPT ![r] = c]
       /\ exit' = [exit EXCEPT ![r] = e]
       /\ IF e = "threw" THEN Throw(r) /\ close(r) ELSE goto(r, "deliver") /\ UNCHANGED socket
  /\ UNCHANGED <<processVars, load, sources, toolVars, gone, interrupted, stream, words, summary>>

IsEmpty(text) == text.lines = <<>> /\ text.doc.kind = "none"

\* captureToolOutputOnly: an entry of the answer and nothing on the console.
entry(r, kind, text) ==
  IF load[r].api /\ ~IsEmpty(text) THEN <<Line(kind, <<SA(r), 1>>, text)>> ELSE <<>>

WritesReport(r) == load[r].ipc = "socket" /\ ~IsEmpty(captured[r].out)

\* tool_out makes an entry of its own.
Deliver(r) ==
  /\ stage[r] = "deliver"
  /\ ~WritesReport(r)
  /\ LET out == captured[r].out
         again == IF standardIO(r) /\ ~IsEmpty(out) THEN <<Line("out", <<SA(r), 1>>, out)>> ELSE <<>>
     IN  say(SA(r), entry(r, "out", out) \o again \o entry(r, "err", captured[r].err))
  /\ goto(r, "summarise")
  /\ UNCHANGED <<processVars, load, sources, sending, finished, ipcVars, analyzerVars>>

DeliverToPeer(r) ==
  /\ stage[r] = "deliver"
  /\ WritesReport(r)
  /\ say(SA(r), entry(r, "out", captured[r].out))
  /\ \/ sendFirst(r, <<SA(r), 1>>, captured[r].out) /\ goto(r, "sending")
     \/ gone[r] /\ Throw(r) /\ close(r) /\ UNCHANGED <<gone, interrupted, stream>>
  /\ UNCHANGED <<processVars, load, sources, sending, finished, analyzerVars>>

DeliverRest(r) ==
  /\ stage[r] = "sending"
  /\ sendRest(r, <<SA(r), 1>>, captured[r].out)
  /\ say(SA(r), entry(r, "err", captured[r].err))
  /\ goto(r, "summarise")
  /\ UNCHANGED <<processVars, load, sources, sending, finished, analyzerVars>>

Summarise(r) ==
  /\ stage[r] = "summarise"
  /\ summary' = [summary EXCEPT ![r] = lastDiagnosticsSummary(captured[r].out, captured[r].err)]
  /\ say(SA(r), IF exit[r] = "failed" THEN <<Line("err", <<SA(r), 1>>, Nothing)>> ELSE <<>>)
  /\ goto(r, "answer")
  /\ UNCHANGED <<processVars, load, sources, sending, finished, ipcVars, words, printed, captured,
                 exit>>

-----------------------------------------------------------------------------
\* response.dump() throws when an entry holds text that is not UTF-8.
HasBinary(r) == \E p \in Children(r) : \E l \in ToSet(lines[p]) : l.text = Binary

Answer(r) ==
  /\ stage[r] = "answer"
  /\ IF load[r].api /\ HasBinary(r) THEN Throw(r) ELSE goto(r, "ok")
  /\ close(r)
  /\ UNCHANGED <<processVars, load, sources, toolVars, gone, interrupted, stream, analyzerVars>>

Tool(p) == \/ StartTool(p) \/ Process(p) \/ Report(p) \/ Send(p) \/ SendRest(p)
           \/ SendFails(p) \/ Catch(p)

Run(r) == \/ ConstructInvoker(r) \/ NoAnalysisSelected(r) \/ ResolveSources(r)
          \/ WithoutAnalyzer(r) \/ StartAnalyzer(r) \/ RunAnalyzer(r) \/ Deliver(r)
          \/ DeliverToPeer(r) \/ DeliverRest(r) \/ Summarise(r) \/ Answer(r)

Ended == (\A r \in Requests : stage[r] \in Ends) /\ UNCHANGED vars

Next == \/ \E p \in Procs : Tool(p)
        \/ \E r \in Requests : Run(r) \/ PeerLeaves(r)
        \/ Ended

Spec == Init /\ [][Next]_vars

-----------------------------------------------------------------------------
Stages == Ends \cup {"begin", "resolve", "tools", "analyzer", "deliver", "sending",
                     "summarise", "answer"}
Captures == {Streams(print) : print \in AnalyzerPrints} \cup {NotEnabled}
Outputs == Content \cup {c.out : c \in Captures} \cup {c.err : c \in Captures}
LinesOf(kinds) == [kind : kinds, log : AllTools \X Nat, text : Outputs]

RunTypeOK ==
  /\ load \in Loads
  /\ stage \in [Requests -> Stages]
  /\ sending \in [AllTools -> BOOLEAN]
  /\ finished \in [AllTools -> Nat]
  /\ lines \in [AllTools -> Seq(LinesOf({"out", "err", "sarif"}))]
  /\ socket \in [Requests -> {"none", "open", "closed", "leaked"}]
  /\ gone \in [Requests -> BOOLEAN] /\ interrupted \in [Requests -> BOOLEAN]
  /\ stream \in [Requests -> Seq(LinesOf({"first", "rest"}))]
  /\ printed \in [Requests -> AnalyzerPrints \cup {None}]
  /\ captured \in [Requests -> Captures \cup {None}]
  /\ exit \in [Requests -> {"none", "ok", "failed", "threw"}]

TypeOK ==
  /\ ProcessTypeOK
  /\ RunTypeOK
  /\ \A q \in AllTools : finished[q] \in 0..MaxRuns /\ finished[q] <= Len(sources[q[1]])
  /\ summary \in [Requests -> Summaries]

Resolved(r) == stage[r] \notin Ends \cup {"begin", "resolve"}

\* A file that is mentioned several times, in any spelling and by any
\* entries, is analysed once, in the place of its first mention, and no
\* mention is lost.
SourcesRight == \A r \in Requests : Resolved(r) => MentionedOnce(load[r].input, sources[r])

\* Files of dependencies that a discovered database lists are analysed only
\* when they are asked for.  A database that is a single object, or not a
\* .json file, is exempt: the code does not filter it.
DependenciesFiltered ==
  \A r \in Requests : Resolved(r) => NoUnwantedDependency(load[r].input, sources[r])

\* The analyzer reads from its command line what the configuration says.
ArgumentsReachAnalyzer ==
  \A r \in Requests :
    words[r] # <<>> => ArgumentsArrive(inputFiles(r), settings(r), words[r])

\* What tool p has said about its i-th file, and the messages it has begun
\* to send about it, by their positions.
saidAbout(p, i, kind) ==
  {k \in DOMAIN lines[p] : lines[p][k].log = <<p, i>> /\ lines[p][k].kind = kind}
sentAbout(p, i) ==
  {k \in DOMAIN stream[p[1]] : /\ stream[p[1]][k].log = <<p, i>>
                               /\ stream[p[1]][k].kind = "first"}
AtMostOne(S) == \A x, y \in S : x = y

\* Tool p has said or begun to send the output of its own child for the i-th
\* file, all of it that was read, or reported one error, or both.
Reported(p, i) ==
  /\ \A k \in saidAbout(p, i, "out") : lines[p][k].text = AsRead[written[<<p, i>>]]
  /\ \A k \in sentAbout(p, i) : stream[p[1]][k].text = AsRead[written[<<p, i>>]]
  /\ AtMostOne(saidAbout(p, i, "out")) /\ AtMostOne(sentAbout(p, i)) /\ AtMostOne(saidAbout(p, i, "err"))
  /\ saidAbout(p, i, "out") = {} \/ sentAbout(p, i) = {}
  /\ saidAbout(p, i, "out") \cup sentAbout(p, i) \cup saidAbout(p, i, "err") = {} =>
       Writes(p) /\ AsRead[written[<<p, i>>]] = Nothing

\* What tool p has said is about its first n files, one after the other.
FileByFile(p, n) ==
  /\ \A k \in DOMAIN lines[p] : \E i \in 1..n : lines[p][k].log = <<p, i>>
  /\ \A k, m \in DOMAIN lines[p] : k < m => lines[p][k].log[2] <= lines[p][m].log[2]

\* A run that ends well has executed every tool on every file; file after
\* file each tool has said or begun to send the output of its own child,
\* whole but for what a NUL byte hides, or reported one error.
OutputsComplete ==
  \A r \in Requests : stage[r] = "ok" =>
    \A p \in Children(r) :
      /\ FileByFile(p, Len(sources[r]))
      /\ \A i \in 1..Len(sources[r]) : Reported(p, i)

\* A log stays in /tmp only when its tool has reported an error for it or
\* the program has died.
LogIsLeft(g) ==
  LET p == g[1]
  IN  \/ own(p) = g /\ step[p] \in {"created", "waiting", "exited", "threw"}
      \/ \E l \in ToSet(lines[p]) : l.kind = "err" /\ l.log = g
      \/ stage[p[1]] = "died"

\* No run leaves anything behind: no log, no child and no open socket,
\* except the log of an execution that failed and the descriptor of a
\* socket that could not be connected.
NothingLeftBehind ==
  /\ \A l \in LogNames : tmp[l] # None => LogIsLeft(tmp[l])
  /\ \A r \in Requests : stage[r] \in Ends \ {"died"} =>
       /\ socket[r] # "open"
       /\ \A t \in ChildTools : step[<<r, t>>] = "idle" /\ child[<<r, t>>] = "none"

\* The halves of a message arrive next to each other, in a stream that
\* several tools write to; a half is missing only at the end, or after a
\* signal.
Paired(s, i, cut) ==
  LET m == s[i]
  IN  /\ m.kind = "rest" => i > 1 /\ s[i - 1] = [m EXCEPT !.kind = "first"]
      /\ m.kind = "first" /\ i < Len(s) => s[i + 1] = [m EXCEPT !.kind = "rest"] \/ cut

PeerStreamIntact ==
  \A r \in Requests : \A i \in DOMAIN stream[r] : Paired(stream[r], i, interrupted[r])

\* A request fails as a whole only because of the socket, the analyzer or
\* text that no JSON can hold: what goes wrong with the process of a tool,
\* in this request or another, stays a line of that tool.
FailuresContained ==
  \A r \in Requests : stage[r] = "rejected" =>
    \/ ~standardIO(r) /\ (sources[r] = <<>> \/ gone[r])
    \/ exit[r] = "threw"
    \/ \E p \in Children(r) : \E i \in 1..MaxRuns : AsRead[written[<<p, i>>]] = Binary

\* The summary of an analysis whose output was captured counts every
\* diagnostic the analyzer has reported exactly once, in whatever format and
\* on whatever stream.
SummaryIsTrue ==
  \A r \in Requests :
    stage[r] = "ok" /\ exit[r] # "none" /\ captured[r] = Streams(printed[r]) =>
      summary[r] = truth(printed[r].reports)

-----------------------------------------------------------------------------
\* The inductive invariant, next to that of the processes.

\* A process belongs to a tool that has not yet done all its files.
BusyInv(p) ==
  step[p] # "idle" => /\ stage[p[1]] \in {"tools", "died"}
                      /\ p \in Children(p[1])
                      /\ finished[p] < Len(sources[p[1]])

\* Only a tool that has its output sends.
SendingInv(p) == sending[p] => Writes(p) /\ step[p] = "finished" /\ stage[p[1]] = "tools"

StageInv(r) ==
  /\ stage[r] # "absent" => load[r] # None
  /\ stage[r] \in {"absent", "begin", "noanalysis"} => socket[r] = "none"
  /\ stage[r] \in {"absent", "begin", "resolve"} => sources[r] = <<>>
  /\ stage[r] \in {"deliver", "sending", "summarise"} =>
       printed[r] \in AnalyzerPrints /\ captured[r] \in {Streams(printed[r]), NotEnabled}
  /\ stage[r] \in Ends \ {"died"} => socket[r] # "open"

\* What cannot be part of an answer has been printed by a child.
LinesInv(p) ==
  \A l \in ToSet(lines[p]) : l.text = Binary => \E i \in 1..MaxRuns : AsRead[written[<<p, i>>]] = Binary

\* Logs in /tmp have been made and have one name each.
NamesInv ==
  /\ \A l \in LogNames : tmp[l] # None => tmp[l][2] <= runs[tmp[l][1]]
  /\ \A l, m \in LogNames : tmp[l] # None /\ tmp[l] = tmp[m] => l = m

LeftInv == \A l \in LogNames : tmp[l] # None => LogIsLeft(tmp[l])

Senders(r) == {p \in Procs : p[1] = r /\ sending[p]}

\* A message that is being sent is the last of its stream; a half message
\* at the end that nobody completes has been cut short.
StreamInv(r) ==
  LET last == stream[r][Len(stream[r])]
      isLast(log, text) == stream[r] # <<>> /\ last = Line("first", log, text)
  IN  /\ \A p \in Senders(r) : isLast(logOutput[p].of, logOutput[p].text)
      /\ stage[r] = "sending" => isLast(<<SA(r), 1>>, captured[r].out)
      /\ stream[r] # <<>> /\ last.kind = "first" =>
           gone[r] \/ interrupted[r] \/ stage[r] = "sending" \/ Senders(r) # {}

\* The sources are those of the configuration once they are resolved.
SourcesInv(r) ==
  /\ sources[r] = <<>> \/ sources[r] = resolveSourceFiles(load[r].input)
  /\ Resolved(r) => sources[r] = resolveSourceFiles(load[r].input)

\* The command line of the analyzer is built once, from what the run has
\* found by then.
WordsInv(r) ==
  /\ stage[r] \in {"absent", "begin", "resolve"} => words[r] = <<>>
  /\ words[r] # <<>> => words[r] = buildAnalyzerArgs(inputFiles(r), settings(r))

WordsAreBuilt ==
  /\ words = [r \in Requests |-> words[r]]
  /\ \A r \in Requests : WordsInv(r)

\* The summary is made of what has been captured.
SummaryInv(r) ==
  /\ stage[r] \in {"absent", "begin", "resolve", "tools", "analyzer"} => exit[r] = "none"
  /\ stage[r] \in {"answer", "ok"} /\ exit[r] # "none" =>
       /\ printed[r] \in AnalyzerPrints
       /\ summary[r] = lastDiagnosticsSummary(captured[r].out, captured[r].err)

SummaryIsMade == \A r \in Requests : SummaryInv(r)

\* A tool has reported on the files it has finished; it has begun one more
\* at most, about which it has sent something only while it is sending.
WorkInv(p) ==
  /\ runs[p] = finished[p] + (IF step[p] = "idle" THEN 0 ELSE 1)
  /\ finished[p] <= Len(sources[p[1]])
  /\ FileByFile(p, finished[p])
  /\ \A i \in 1..finished[p] : Reported(p, i)
  /\ \A k \in DOMAIN stream[p[1]] :
       LET log == stream[p[1]][k].log
       IN  log[1] = p => log[2] \in 1..finished[p] \/ (sending[p] /\ log = own(p))
  /\ sending[p] =>
       /\ sentAbout(p, runs[p]) # {} /\ AtMostOne(sentAbout(p, runs[p]))
       /\ \A k \in sentAbout(p, runs[p]) : stream[p[1]][k].text = AsRead[written[own(p)]]

\* A run goes on when its tools have finished all files; the analyzer takes
\* them at once.
DoneInv(r) ==
  /\ stage[r] \in {"analyzer", "deliver", "sending", "summarise", "answer", "ok"} =>
       \A p \in Children(r) : finished[p] = Len(sources[r])
  /\ finished[SA(r)] = 0

OutputInv ==
  /\ \A r \in Requests : SourcesInv(r) /\ DoneInv(r)
  /\ \A p \in Procs : WorkInv(p)

RunInv ==
  /\ RunTypeOK
  /\ sources = [r \in Requests |-> sources[r]]
  /\ \A p \in Procs : BusyInv(p) /\ SendingInv(p) /\ LinesInv(p)
  /\ \A r \in Requests : StageInv(r) /\ StreamInv(r)
  /\ NamesInv /\ LeftInv
  /\ PeerStreamIntact /\ FailuresContained
=============================================================================
