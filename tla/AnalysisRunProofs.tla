-------------------------- MODULE AnalysisRunProofs --------------------------
(***************************************************************************)
(* Theorems about ChildProcess and AnalysisRun, for any number of          *)
(* requests, tools, sources, log names and texts.                          *)
(***************************************************************************)
EXTENDS AnalysisRun, ConversionProofs

USE ProcessConstants

-----------------------------------------------------------------------------
(***************************************************************************)
(* The processes by themselves (ChildProcess).                             *)
(***************************************************************************)

\* At the start nothing runs and /tmp holds no log.
LEMMA InitInv == ProcessInit => ProcessInv
BY DEF ProcessInit, ProcessInv, ProcessTypeOK, PathInv, LogIsOwn, OutputIsOwn,
       ChildIsWaitedFor, InUse, Content, own, Log

\* The types are kept by every step.
LEMMA TypeStep ==
  ASSUME ProcessInv, NEW p \in Procs, CreateLog(p) \/ Execute(p) \/ Dispose(p)
  PROVE  ProcessTypeOK'
<1> USE DEF ProcessInv, ProcessTypeOK, moves, own, Content
<1>1. CASE CreateLog(p)
  <2>1. runs' \in [Procs -> 0..MaxRuns] /\ <<p, runs[p] + 1>> \in Log
    BY <1>1 DEF CreateLog, Log
  <2> QED  BY <1>1, <2>1 DEF CreateLog
<1>2. CASE Fork(p)  BY <1>2 DEF Fork
<1>3. CASE Wait(p)  BY <1>3 DEF Wait
<1>4. CASE captureLogs(p)
  <2>1. CASE readLog(p)
    <3>1. step[p] = "exited" /\ log_path_[p] \in LogNames
      BY <1>4 DEF captureLogs, PathInv, InUse
    <3>2. tmp[log_path_[p]] \in Log /\ AsRead[written[tmp[log_path_[p]]]] \in Content
      BY <2>1, <3>1, ReadingAssumption DEF readLog
    <3>3. logOutput' \in [Procs -> [of : Log, text : Texts \cup {Nothing}] \cup {None}]
      BY <2>1, <3>2 DEF readLog
    <3> QED  BY <1>4, <3>1, <3>3 DEF captureLogs
  <2>2. CASE ~readLog(p)  BY <1>4, <2>2 DEF captureLogs
  <2> QED  BY <2>1, <2>2
<1>5. CASE cleanup(p)  BY <1>5 DEF cleanup
<1>6. CASE Exec(p)  BY <1>6 DEF Exec, objectVars
<1>7. CASE Prints(p)  BY <1>7 DEF Prints, objectVars
<1>8. CASE Exit(p)  BY <1>8 DEF Exit, objectVars
<1>9. CASE Dispose(p)  BY <1>9 DEF Dispose
<1> QED  BY <1>1, <1>2, <1>3, <1>4, <1>5, <1>6, <1>7, <1>8, <1>9 DEF Execute

\* So are the names that processes remember.
LEMMA PathStep ==
  ASSUME ProcessInv, NEW p \in Procs, CreateLog(p) \/ Execute(p) \/ Dispose(p)
  PROVE  \A q \in Procs : PathInv(q)'
<1> USE DEF ProcessInv, ProcessTypeOK, moves, PathInv, InUse
<1>1. CASE CreateLog(p)  BY <1>1 DEF CreateLog
<1>2. CASE Fork(p)  BY <1>2 DEF Fork
<1>3. CASE Wait(p)  BY <1>3 DEF Wait
<1>4. CASE captureLogs(p)  BY <1>4 DEF captureLogs
<1>5. CASE cleanup(p)  BY <1>5 DEF cleanup
<1>6. CASE Exec(p) \/ Prints(p) \/ Exit(p)  BY <1>6 DEF Exec, Prints, Exit, objectVars
<1>7. CASE Dispose(p)  BY <1>7 DEF Dispose
<1> QED  BY <1>1, <1>2, <1>3, <1>4, <1>5, <1>6, <1>7 DEF Execute

\* Two processes in use remember different names: what one of them creates
\* or unlinks is not the log of the other.
LEMMA NamesDiffer ==
  ASSUME ProcessInv, NEW p \in Procs, NEW q \in Procs, InUse(p), InUse(q), p # q
  PROVE  log_path_[p] # log_path_[q]
BY DEF ProcessInv, LogIsOwn, own

\* A name stays with its log while the log is needed.
LEMMA LogStep ==
  ASSUME ProcessInv, NEW p \in Procs, CreateLog(p) \/ Execute(p) \/ Dispose(p)
  PROVE  LogIsOwn'
<1> SUFFICES ASSUME NEW q \in Procs, InUse(q)'  PROVE (tmp[log_path_[q]] = own(q))'
  BY DEF LogIsOwn
<1> USE DEF ProcessInv, ProcessTypeOK, moves, own
<1>1. CASE CreateLog(p)
  <2>1. CASE q = p  BY <1>1, <2>1 DEF CreateLog, InUse
  <2>2. CASE q # p
    <3>1. InUse(q) /\ runs'[q] = runs[q] /\ log_path_'[q] = log_path_[q]
      BY <1>1, <2>2 DEF CreateLog, InUse
    <3>2. log_path_[q] \in LogNames /\ tmp[log_path_[q]] = <<q, runs[q]>>
      BY <3>1 DEF PathInv, LogIsOwn
    <3>3. <<q, runs[q]>> # None
      BY <3>1 DEF PathInv, Log
    <3> QED  BY <1>1, <3>1, <3>2, <3>3 DEF CreateLog
  <2> QED  BY <2>1, <2>2
<1>2. CASE captureLogs(p)
  <2>1. q # p /\ InUse(q) /\ InUse(p)
    BY <1>2 DEF captureLogs, InUse
  <2>2. log_path_[p] # log_path_[q] /\ log_path_[q] \in LogNames
    BY <2>1, NamesDiffer DEF PathInv
  <2> QED  BY <1>2, <2>1, <2>2 DEF captureLogs, LogIsOwn
<1>3. CASE cleanup(p)
  <2>1. InUse(q) /\ q # p /\ log_path_[q] \in LogNames /\ log_path_[p] = None
    BY <1>3 DEF cleanup, InUse, PathInv
  <2> QED  BY <1>3, <2>1 DEF cleanup, LogIsOwn
<1>4. CASE Fork(p) \/ Wait(p) \/ Exec(p) \/ Prints(p) \/ Exit(p)
  BY <1>4 DEF Fork, Wait, Exec, Prints, Exit, objectVars, LogIsOwn, InUse
<1>5. CASE Dispose(p)
  BY <1>5 DEF Dispose, LogIsOwn, InUse
<1> QED  BY <1>1, <1>2, <1>3, <1>4, <1>5 DEF Execute

\* Children come and go with the wait of their parent.
LEMMA ChildStep ==
  ASSUME ProcessInv, NEW p \in Procs, CreateLog(p) \/ Execute(p) \/ Dispose(p)
  PROVE  ChildIsWaitedFor'
<1> USE DEF ProcessInv, ProcessTypeOK, moves, ChildIsWaitedFor
<1>1. CASE CreateLog(p)  BY <1>1 DEF CreateLog
<1>2. CASE Fork(p)  BY <1>2 DEF Fork
<1>3. CASE Wait(p)  BY <1>3 DEF Wait
<1>4. CASE captureLogs(p)  BY <1>4 DEF captureLogs
<1>5. CASE cleanup(p)  BY <1>5 DEF cleanup
<1>6. CASE Exec(p) \/ Prints(p) \/ Exit(p)  BY <1>6 DEF Exec, Prints, Exit, objectVars
<1>7. CASE Dispose(p)  BY <1>7 DEF Dispose
<1> QED  BY <1>1, <1>2, <1>3, <1>4, <1>5, <1>6, <1>7 DEF Execute

\* A child that has been waited for prints no more, and nobody else writes
\* to its log.
LEMMA OutputStep ==
  ASSUME ProcessInv, NEW p \in Procs, CreateLog(p) \/ Execute(p) \/ Dispose(p)
  PROVE  OutputIsOwn'
<1> SUFFICES ASSUME NEW q \in Procs, step'[q] \in {"captured", "finished"}
             PROVE  /\ logOutput'[q] = [of |-> own(q)', text |-> AsRead[written'[own(q)']]]
                    /\ child'[q] = "none"
  BY DEF OutputIsOwn, own
<1> USE DEF ProcessInv, ProcessTypeOK, moves, own
<1>1. CASE captureLogs(p) /\ q = p
  <2>1. step[p] = "exited" /\ child[p] = "none" /\ tmp[log_path_[p]] = <<p, runs[p]>>
    BY <1>1 DEF captureLogs, ChildIsWaitedFor, LogIsOwn, InUse
  <2> QED  BY <1>1, <2>1 DEF captureLogs, readLog
<1>2. CASE Prints(p)
  <2>1. step[p] = "waiting" /\ q # p
    BY <1>2 DEF Prints, ChildIsWaitedFor, objectVars
  <2>2. <<q, runs[q]>> # <<p, runs[p]>> /\ <<q, runs[q]>> \in Log
    BY <1>2, <2>1 DEF Prints, objectVars, PathInv, Log
  <2> QED  BY <1>2, <2>1, <2>2 DEF Prints, objectVars, OutputIsOwn
<1>3. CASE Fork(p) \/ Wait(p) \/ cleanup(p) \/ (captureLogs(p) /\ q # p)
  BY <1>3 DEF Fork, Wait, cleanup, captureLogs, readLog, OutputIsOwn
<1>4. CASE Exec(p) \/ Exit(p)
  <2>1. step[p] = "waiting" /\ q # p
    BY <1>4 DEF Exec, Exit, ChildIsWaitedFor, objectVars
  <2> QED  BY <1>4, <2>1 DEF Exec, Exit, objectVars, OutputIsOwn
<1>5. CASE CreateLog(p) \/ Dispose(p)
  BY <1>5 DEF CreateLog, Dispose, OutputIsOwn
<1> QED  BY <1>1, <1>2, <1>3, <1>4, <1>5 DEF Execute

\* The invariant holds in every reachable state.
THEOREM ProcessInvariance == ProcessSpec => []ProcessInv
<1>1. ProcessInv /\ [ProcessNext]_processVars => ProcessInv'
  <2> SUFFICES ASSUME ProcessInv, [ProcessNext]_processVars  PROVE ProcessInv'
    OBVIOUS
  <2>1. CASE ProcessNext
    BY <2>1, TypeStep, PathStep, LogStep, ChildStep, OutputStep DEF ProcessNext, ProcessInv
  <2>2. CASE UNCHANGED processVars
    BY <2>2 DEF processVars, objectVars, ProcessInv, ProcessTypeOK, PathInv, LogIsOwn,
                OutputIsOwn, ChildIsWaitedFor, InUse, own
  <2> QED  BY <2>1, <2>2
<1> QED  BY <1>1, InitInv, PTL DEF ProcessSpec

\* While a process needs its log, no other process takes the log's name or
\* unlinks it, also after names have been given out again.
THEOREM LogsAreSeparate == ProcessSpec => []LogIsOwn
BY ProcessInvariance, PTL DEF ProcessInv

\* What execute() returns is what can be read, as C strings, of all that its
\* own child has printed: nothing of another child, and nothing left out but
\* what follows a NUL byte.
THEOREM OutputsAreOwn == ProcessSpec => []OutputIsOwn
BY ProcessInvariance, PTL DEF ProcessInv

\* There is a child exactly while its parent waits.
THEOREM ChildrenAreWaitedFor == ProcessSpec => []ChildIsWaitedFor
BY ProcessInvariance, PTL DEF ProcessInv

-----------------------------------------------------------------------------
(***************************************************************************)
(* The processes of the tools are those of ChildProcess.                   *)
(***************************************************************************)
USE RunConstants, LoadsAssumption

\* A step of a tool is a step of its process, or none of any process.
LEMMA ToolMovesProcess ==
  ASSUME NEW p \in Procs, Tool(p)
  PROVE  CreateLog(p) \/ Execute(p) \/ Dispose(p) \/ UNCHANGED processVars
BY DEF Tool, StartTool, Process, Report, Send, SendRest, SendFails, Catch, return

\* No other step of a run moves a process.
LEMMA RunKeepsProcesses ==
  ASSUME NEW r \in Requests, Run(r) \/ PeerLeaves(r)
  PROVE  UNCHANGED processVars
BY DEF Run, ConstructInvoker, NoAnalysisSelected, ResolveSources, WithoutAnalyzer, StartAnalyzer,
       RunAnalyzer, Deliver, DeliverToPeer, DeliverRest, Summarise, Answer, PeerLeaves

\* Whatever the runs of a server do, the processes of their tools behave as
\* ChildProcess says.
THEOREM ProcessRefinement == Spec => ProcessSpec
<1>1. Init => ProcessInit
  BY DEF Init
<1>2. [Next]_vars => [ProcessNext]_processVars
  <2> SUFFICES ASSUME [Next]_vars  PROVE [ProcessNext]_processVars
    OBVIOUS
  <2>1. CASE \E p \in Procs : Tool(p)
    BY <2>1, ToolMovesProcess DEF ProcessNext
  <2>2. CASE \E r \in Requests : Run(r) \/ PeerLeaves(r)
    BY <2>2, RunKeepsProcesses
  <2>3. CASE Ended \/ UNCHANGED vars
    BY <2>3 DEF Ended, vars
  <2> QED  BY <2>1, <2>2, <2>3 DEF Next
<1> QED  BY <1>1, <1>2, PTL DEF Spec, ProcessSpec

\* So the logs of all tools of all requests are separate.
THEOREM RunLogsAreSeparate == Spec => []LogIsOwn
BY ProcessRefinement, LogsAreSeparate, PTL

-----------------------------------------------------------------------------
(***************************************************************************)
(* Types.                                                                  *)
(***************************************************************************)

LEMMA Tools ==
  /\ Procs \subseteq AllTools
  /\ \A p \in Procs : p[1] \in Requests /\ p[2] \in ChildTools /\ p = <<p[1], p[2]>>
  /\ \A r \in Requests : SA(r) \in AllTools /\ SA(r) \notin Procs
BY DEF AllTools, SA, analyzer

\* The output of a finished process is a text, and its log is its own.
LEMMA OutputType ==
  ASSUME ProcessInv, NEW p \in Procs, step[p] = "finished"
  PROVE  /\ runs[p] \in 1..MaxRuns
         /\ logOutput[p] = [of |-> own(p), text |-> AsRead[written[own(p)]]]
         /\ logOutput[p].of \in AllTools \X Nat /\ logOutput[p].text \in Outputs
<1>1. runs[p] \in 1..MaxRuns /\ own(p) \in Log
  BY DEF ProcessInv, PathInv, InUse, own, Log
<1>2. logOutput[p] = [of |-> own(p), text |-> AsRead[written[own(p)]]]
      /\ AsRead[written[own(p)]] \in Content
  BY <1>1, ReadingAssumption DEF ProcessInv, OutputIsOwn, ProcessTypeOK
<1> QED  BY <1>1, <1>2, Tools DEF own, Outputs

LEMMA SayType ==
  ASSUME RunTypeOK, NEW q \in AllTools, NEW said \in Seq(LinesOf({"out", "err", "sarif"})),
         say(q, said)
  PROVE  lines' \in [AllTools -> Seq(LinesOf({"out", "err", "sarif"}))]
BY DEF RunTypeOK, say

LEMMA StreamType ==
  ASSUME RunTypeOK, NEW r \in Requests, NEW log \in AllTools \X Nat, NEW text \in Outputs,
         sendFirst(r, log, text) \/ sendRest(r, log, text)
  PROVE  /\ stream' \in [Requests -> Seq(LinesOf({"first", "rest"}))]
         /\ gone' = gone /\ socket' = socket /\ interrupted' \in [Requests -> BOOLEAN]
<1> DEFINE M == LinesOf({"first", "rest"})
<1>1. Line("first", log, text) \in M /\ Line("rest", log, text) \in M
  BY DEF Line, LinesOf
<1>2. stream \in [Requests -> Seq(M)] /\ interrupted \in [Requests -> BOOLEAN]
  BY DEF RunTypeOK
<1> HIDE DEF M
<1>3. \A m \in M : [stream EXCEPT ![r] = Append(@, m)] \in [Requests -> Seq(M)]
  BY <1>2
<1>4. stream' \in [Requests -> Seq(M)]
  BY <1>1, <1>2, <1>3 DEF sendFirst, sendRest
<1>5. gone' = gone /\ socket' = socket /\ interrupted' \in [Requests -> BOOLEAN]
  BY <1>2 DEF sendFirst, sendRest
<1> QED  BY <1>4, <1>5 DEF M

\* What does not change keeps its type.
LEMMA TypeFrame ==
  ASSUME RunTypeOK, UNCHANGED load,
         stage' \in [Requests -> Stages],
         UNCHANGED sending \/ sending' \in [AllTools -> BOOLEAN],
         UNCHANGED finished \/ finished' \in [AllTools -> Nat],
         UNCHANGED lines \/ lines' \in [AllTools -> Seq(LinesOf({"out", "err", "sarif"}))],
         UNCHANGED socket \/ socket' \in [Requests -> {"none", "open", "closed", "leaked"}],
         UNCHANGED gone \/ gone' \in [Requests -> BOOLEAN],
         UNCHANGED interrupted \/ interrupted' \in [Requests -> BOOLEAN],
         UNCHANGED stream \/ stream' \in [Requests -> Seq(LinesOf({"first", "rest"}))],
         UNCHANGED printed \/ printed' \in [Requests -> AnalyzerPrints \cup {None}],
         UNCHANGED captured \/ captured' \in [Requests -> Captures \cup {None}],
         UNCHANGED exit \/ exit' \in [Requests -> {"none", "ok", "failed", "threw"}]
  PROVE  RunTypeOK'
BY ZenonT(40) DEF RunTypeOK

\* The steps of tools keep the types.
LEMMA ToolType ==
  ASSUME ProcessInv, RunTypeOK, NEW p \in Procs, Tool(p), SendingInv(p)
  PROVE  RunTypeOK'
<1> DEFINE L == LinesOf({"out", "err", "sarif"})
<1>1. p \in AllTools /\ p[1] \in Requests
  BY Tools
<1>2. /\ stage \in [Requests -> Stages]
      /\ sending \in [AllTools -> BOOLEAN] /\ finished \in [AllTools -> Nat]
  BY DEF RunTypeOK
<1>3. return(p) => sending' \in [AllTools -> BOOLEAN] /\ finished' \in [AllTools -> Nat]
  BY <1>1, <1>2 DEF return
<1>4. error(p) \in L
  <2>1. own(p) \in AllTools \X Nat
    BY <1>1 DEF own, ProcessInv, ProcessTypeOK
  <2> QED  BY <2>1 DEF error, Line, LinesOf, Outputs, Content
<1>5. CASE StartTool(p) \/ Process(p)
  BY <1>2, <1>5, TypeFrame DEF StartTool, Process, toolVars, ipcVars, analyzerVars
<1>6. CASE Report(p)
  <2>1. output(p) \in L /\ [output(p) EXCEPT !.kind = "sarif"] \in L
    BY <1>6, OutputType DEF Report, output, Line, LinesOf
  <2> HIDE DEF L
  <2>2. /\ <<output(p), [output(p) EXCEPT !.kind = "sarif"]>> \in Seq(L)
        /\ <<output(p), error(p)>> \in Seq(L) /\ <<output(p)>> \in Seq(L)
    BY <1>4, <2>1
  <2>3. lines' \in [AllTools -> Seq(L)]
    BY <1>1, <1>6, <2>2, SayType DEF L, Report
  <2>4. /\ return(p) /\ UNCHANGED <<load, stage, socket, gone, interrupted, stream, printed, captured, exit>>
    BY <1>6 DEF Report, ipcVars, analyzerVars
  <2> QED  BY <1>2, <1>3, <2>3, <2>4, TypeFrame DEF L
<1>7. CASE Send(p) \/ SendRest(p)
  <2>1. step[p] = "finished"
    BY <1>7 DEF Send, SendRest, SendingInv
  <2>2. logOutput[p].of \in AllTools \X Nat /\ logOutput[p].text \in Outputs
    BY <2>1, OutputType
  <2>3. /\ stream' \in [Requests -> Seq(LinesOf({"first", "rest"}))]
        /\ gone' = gone /\ socket' = socket /\ interrupted' \in [Requests -> BOOLEAN]
    BY <1>1, <1>7, <2>2, StreamType DEF Send, SendRest
  <2>4. UNCHANGED <<load, stage, lines, printed, captured, exit>>
    BY <1>7 DEF Send, SendRest, analyzerVars
  <2>5. sending' \in [AllTools -> BOOLEAN] /\ finished' \in [AllTools -> Nat]
    BY <1>1, <1>2, <1>3, <1>7 DEF Send, SendRest
  <2> QED  BY <1>2, <2>3, <2>4, <2>5, TypeFrame
<1>8. CASE SendFails(p) \/ Catch(p)
  <2> HIDE DEF L
  <2>1. say(p, <<error(p)>>) \/ UNCHANGED lines
    BY <1>8 DEF SendFails, Catch, toolVars
  <2>2. lines \in [AllTools -> Seq(L)] /\ <<error(p)>> \in Seq(L)
    <3>1. lines \in [AllTools -> Seq(L)]
      BY DEF RunTypeOK, L
    <3> QED  BY <1>4, <3>1
  <2>3. lines' \in [AllTools -> Seq(L)]
    BY <1>1, <2>1, <2>2, SayType DEF L
  <2>4. stage' \in [Requests -> Stages]
    BY <1>1, <1>2, <1>8 DEF SendFails, Catch, goto, Stages, Ends
  <2>5. UNCHANGED <<load, socket, gone, interrupted, stream, printed, captured, exit>>
    BY <1>8 DEF SendFails, Catch, ipcVars, analyzerVars
  <2>6. sending' \in [AllTools -> BOOLEAN] /\ finished' \in [AllTools -> Nat]
    BY <1>2, <1>3, <1>8 DEF SendFails, Catch, toolVars
  <2> QED  BY <2>3, <2>4, <2>5, <2>6, TypeFrame DEF L
<1> QED  BY <1>5, <1>6, <1>7, <1>8 DEF Tool

\* What has been captured is output.
LEMMA CapturesAreOutputs ==
  ASSUME NEW r \in Requests, StageInv(r), stage[r] \in {"deliver", "sending", "summarise"}
  PROVE  captured[r] \in Captures /\ captured[r].out \in Outputs /\ captured[r].err \in Outputs
<1>1. captured[r] \in Captures
  BY DEF StageInv, Captures
<1> QED  BY <1>1 DEF Outputs

\* The output of the analyzer can be said and sent.
LEMMA AnalyzerLines ==
  ASSUME NEW r \in Requests, NEW text \in Outputs, NEW kind \in {"out", "err"}
  PROVE  /\ <<SA(r), 1>> \in AllTools \X Nat
         /\ <<Line(kind, <<SA(r), 1>>, text)>> \in Seq(LinesOf({"out", "err", "sarif"}))
         /\ entry(r, kind, text) \in Seq(LinesOf({"out", "err", "sarif"}))
<1>1. Line(kind, <<SA(r), 1>>, text) \in LinesOf({"out", "err", "sarif"})
  BY Tools DEF Line, LinesOf
<1> QED  BY <1>1, Tools DEF entry

\* So do the steps of runs.
LEMMA RunType ==
  ASSUME RunTypeOK, NEW r \in Requests, Run(r) \/ PeerLeaves(r), StageInv(r)
  PROVE  RunTypeOK'
<1> DEFINE L == LinesOf({"out", "err", "sarif"})
<1>1. /\ stage \in [Requests -> Stages] /\ SA(r) \in AllTools
      /\ socket \in [Requests -> {"none", "open", "closed", "leaked"}]
  BY Tools DEF RunTypeOK
<1>2. close(r) => socket' \in [Requests -> {"none", "open", "closed", "leaked"}]
  BY <1>1 DEF close
<1>3. \A s \in Stages : goto(r, s) => stage' \in [Requests -> Stages]
  BY <1>1 DEF goto
<1>4. Throw(r) => stage' \in [Requests -> Stages]
  BY <1>3 DEF Throw, Stages, Ends
<1>5. CASE ConstructInvoker(r)
  <2>1. stage' \in [Requests -> Stages]
    BY <1>3, <1>4, <1>5 DEF ConstructInvoker, Stages
  <2>2. UNCHANGED socket \/ socket' \in [Requests -> {"none", "open", "closed", "leaked"}]
    BY <1>1, <1>5 DEF ConstructInvoker
  <2> QED  BY <1>5, <2>1, <2>2, TypeFrame DEF ConstructInvoker, toolVars, analyzerVars
<1>6. CASE NoAnalysisSelected(r) \/ ResolveSources(r) \/ WithoutAnalyzer(r) \/ Answer(r)
  <2>1. stage' \in [Requests -> Stages]
    BY <1>3, <1>4, <1>6 DEF NoAnalysisSelected, ResolveSources, WithoutAnalyzer, Answer, Stages, Ends
  <2> QED
    BY <1>2, <1>6, <2>1, TypeFrame DEF NoAnalysisSelected, ResolveSources, WithoutAnalyzer, Answer,
       toolVars, analyzerVars, ipcVars
<1>7. Nothing \in Outputs
  BY DEF Outputs, Content
<1>8. CASE StartAnalyzer(r)
  <2>1. stage' \in [Requests -> Stages]
    BY <1>3, <1>8 DEF StartAnalyzer, Stages
  <2>2. UNCHANGED lines \/ lines' \in [AllTools -> Seq(L)]
    BY <1>1, <1>7, <1>8, AnalyzerLines, SayType DEF StartAnalyzer
  <2> QED  BY <1>8, <2>1, <2>2, TypeFrame DEF StartAnalyzer, ipcVars
<1>9. CASE RunAnalyzer(r)
  <2>1. stage' \in [Requests -> Stages]
    BY <1>3, <1>4, <1>9 DEF RunAnalyzer, Stages
  <2>2. /\ printed' \in [Requests -> AnalyzerPrints \cup {None}]
        /\ captured' \in [Requests -> Captures \cup {None}]
        /\ exit' \in [Requests -> {"none", "ok", "failed", "threw"}]
    <3>1. \A p \in AnalyzerPrints : {Streams(p), NotEnabled} \subseteq Captures
      BY DEF Captures
    <3> QED  BY <1>9, <3>1 DEF RunAnalyzer, RunTypeOK
  <2> QED  BY <1>2, <1>9, <2>1, <2>2, TypeFrame DEF RunAnalyzer, toolVars
<1>10. stage[r] \in {"deliver", "sending", "summarise"} =>
         captured[r].out \in Outputs /\ captured[r].err \in Outputs
  BY CapturesAreOutputs
<1>11. CASE Deliver(r)
  <2>1. stage' \in [Requests -> Stages]
    BY <1>3, <1>11 DEF Deliver, Stages
  <2>2. \A again \in Seq(L) : entry(r, "out", captured[r].out) \o again \o entry(r, "err", captured[r].err) \in Seq(L)
    BY <1>10, <1>11, AnalyzerLines DEF Deliver
  <2>3. <<Line("out", <<SA(r), 1>>, captured[r].out)>> \in Seq(L) /\ <<>> \in Seq(L)
    BY <1>10, <1>11, AnalyzerLines DEF Deliver
  <2>4. lines' \in [AllTools -> Seq(L)]
    BY <1>1, <1>11, <2>2, <2>3, SayType DEF Deliver
  <2> QED  BY <1>11, <2>1, <2>4, TypeFrame DEF Deliver, ipcVars, analyzerVars
<1>12. CASE DeliverToPeer(r)
  <2>1. stage' \in [Requests -> Stages]
    BY <1>3, <1>4, <1>12 DEF DeliverToPeer, Stages
  <2>2. lines' \in [AllTools -> Seq(L)]
    BY <1>1, <1>10, <1>12, AnalyzerLines, SayType DEF DeliverToPeer
  <2>3. \/ sendFirst(r, <<SA(r), 1>>, captured[r].out)
        \/ close(r) /\ gone' = gone /\ interrupted' = interrupted /\ stream' = stream
    <3> HIDE DEF L
    <3> QED  BY ONLY <1>12 DEF DeliverToPeer
  <2>4. sendFirst(r, <<SA(r), 1>>, captured[r].out) =>
          /\ stream' \in [Requests -> Seq(LinesOf({"first", "rest"}))]
          /\ gone' = gone /\ socket' = socket /\ interrupted' \in [Requests -> BOOLEAN]
    BY <1>10, <1>12, AnalyzerLines, StreamType DEF DeliverToPeer
  <2> QED  BY <1>2, <1>12, <2>1, <2>2, <2>3, <2>4, TypeFrame DEF DeliverToPeer, analyzerVars
<1>13. CASE DeliverRest(r)
  <2>1. stage' \in [Requests -> Stages]
    BY <1>3, <1>13 DEF DeliverRest, Stages
  <2>2. lines' \in [AllTools -> Seq(L)]
    BY <1>1, <1>10, <1>13, AnalyzerLines, SayType DEF DeliverRest
  <2>3. /\ stream' \in [Requests -> Seq(LinesOf({"first", "rest"}))]
        /\ gone' = gone /\ socket' = socket /\ interrupted' \in [Requests -> BOOLEAN]
    BY <1>10, <1>13, AnalyzerLines, StreamType DEF DeliverRest
  <2> QED  BY <1>13, <2>1, <2>2, <2>3, TypeFrame DEF DeliverRest, analyzerVars
<1>14. CASE Summarise(r)
  <2>1. stage' \in [Requests -> Stages]
    BY <1>3, <1>14 DEF Summarise, Stages
  <2>2. <<Line("err", <<SA(r), 1>>, Nothing)>> \in Seq(L) /\ <<>> \in Seq(L)
    BY <1>7, AnalyzerLines
  <2>3. lines' \in [AllTools -> Seq(L)]
    BY <1>1, <1>14, <2>2, SayType DEF Summarise
  <2> QED  BY <1>14, <2>1, <2>3, TypeFrame DEF Summarise, ipcVars
<1>15. CASE PeerLeaves(r)
  BY <1>1, <1>15, TypeFrame DEF PeerLeaves, RunTypeOK, toolVars, analyzerVars
<1> QED
  BY <1>5, <1>6, <1>8, <1>9, <1>11, <1>12, <1>13, <1>14, <1>15 DEF Run

-----------------------------------------------------------------------------
(***************************************************************************)
(* What is busy and what is open.                                          *)
(***************************************************************************)

\* The processes of other tools stand still.
LEMMA OthersKeepStep ==
  ASSUME ProcessInv, NEW p \in Procs, Tool(p), NEW q \in Procs \ {p}
  PROVE  step'[q] = step[q] /\ logOutput'[q] = logOutput[q] /\ runs'[q] = runs[q]
<1> USE DEF ProcessInv, ProcessTypeOK
<1>1. CASE CreateLog(p) \/ Dispose(p) \/ UNCHANGED processVars
  BY <1>1 DEF CreateLog, Dispose, processVars, objectVars
<1>2. CASE Execute(p)
  BY <1>2 DEF Execute, Fork, Wait, captureLogs, readLog, cleanup, Exec, Prints, Exit, moves, objectVars
<1> QED  BY <1>1, <1>2, ToolMovesProcess

\* A tool keeps within its own run, whose sources it leaves alone.
LEMMA ToolFrame ==
  ASSUME RunTypeOK, NEW p \in Procs, Tool(p)
  PROVE  /\ UNCHANGED <<load, sources, socket, gone, printed, captured, exit>>
         /\ stage[p[1]] = "tools"
         /\ stage' = stage \/ (~load[p[1]].api /\ stage' = [stage EXCEPT ![p[1]] = "died"])
         /\ \A q \in AllTools \ {p} : /\ finished'[q] = finished[q]
                                      /\ sending'[q] = sending[q] /\ lines'[q] = lines[q]
<1>1. UNCHANGED <<load, sources, socket, gone, printed, captured, exit>>
  BY DEF Tool, StartTool, Process, Report, Send, SendRest, SendFails, Catch,
         sendFirst, sendRest, ipcVars, analyzerVars
<1>2. stage[p[1]] = "tools"
  BY DEF Tool, StartTool, Process, Report, Send, SendRest, SendFails, Catch, Running
<1>3. stage' = stage \/ (~load[p[1]].api /\ stage' = [stage EXCEPT ![p[1]] = "died"])
  <2>1. CASE SendFails(p)  BY ONLY <2>1 DEF SendFails, goto
  <2>2. CASE ~SendFails(p)
    BY <2>2 DEF Tool, StartTool, Process, Report, Send, SendRest, Catch
  <2> QED  BY <2>1, <2>2
<1>4. UNCHANGED <<finished, sending>> \/ return(p) \/ (finished' = finished /\ sending' = [sending EXCEPT ![p] = TRUE])
  BY DEF Tool, StartTool, Process, Report, Send, SendRest, SendFails, Catch, toolVars
<1>5. lines' = lines \/ \E said : say(p, said)
  BY DEF Tool, StartTool, Process, Report, Send, SendRest, SendFails, Catch, toolVars
<1>6. sending \in [AllTools -> BOOLEAN] /\ finished \in [AllTools -> Nat] /\ DOMAIN lines = AllTools
  BY DEF RunTypeOK
<1>7. \A q \in AllTools \ {p} : finished'[q] = finished[q] /\ sending'[q] = sending[q]
  BY <1>4, <1>6 DEF return
<1>8. \A q \in AllTools \ {p} : lines'[q] = lines[q]
  BY <1>5, <1>6 DEF say
<1> QED  BY <1>1, <1>2, <1>3, <1>7, <1>8

LEMMA RunTypes ==
  ASSUME RunTypeOK
  PROVE  /\ stage \in [Requests -> Stages]
         /\ sending \in [AllTools -> BOOLEAN] /\ finished \in [AllTools -> Nat]
         /\ socket \in [Requests -> {"none", "open", "closed", "leaked"}]
         /\ gone \in [Requests -> BOOLEAN] /\ interrupted \in [Requests -> BOOLEAN]
BY DEF RunTypeOK

LEMMA BusyStep ==
  ASSUME ProcessInv, RunInv, NEW p \in Procs, Tool(p)
  PROVE  \A q \in Procs : BusyInv(q)' /\ SendingInv(q)'
<1>1. p \in AllTools /\ p[1] \in Requests /\ RunTypeOK /\ BusyInv(p) /\ SendingInv(p)
  BY Tools DEF RunInv
<1>2. step \in [Procs -> {"idle", "created", "waiting", "exited", "captured", "finished", "threw"}]
  BY DEF ProcessInv, ProcessTypeOK
<1>3. /\ stage \in [Requests -> Stages]
      /\ sending \in [AllTools -> BOOLEAN] /\ finished \in [AllTools -> Nat]
  BY <1>1, RunTypes
<1>4. /\ UNCHANGED <<load, sources>>
      /\ stage[p[1]] = "tools"
      /\ stage' = stage \/ stage' = [stage EXCEPT ![p[1]] = "died"]
  BY <1>1, ToolFrame
<1>5. ASSUME NEW q \in Procs \ {p}  PROVE BusyInv(q)' /\ SendingInv(q)'
  <2>1. q \in AllTools /\ q[1] \in Requests /\ BusyInv(q) /\ SendingInv(q)
    BY Tools DEF RunInv
  <2>2. finished'[q] = finished[q] /\ sending'[q] = sending[q] /\ step'[q] = step[q]
    BY <1>1, <2>1, ToolFrame, OthersKeepStep
  <2>3. stage'[q[1]] = stage[q[1]] \/ (q[1] = p[1] /\ stage'[q[1]] = "died" /\ ~sending[q])
    <3>1. CASE UNCHANGED stage  BY <3>1
    <3>2. CASE SendFails(p)
      <4>1. ~sending[p] /\ Writes(p)
        BY <3>2 DEF SendFails
      <4>2. sending[q] /\ q[1] = p[1] => q = p
        BY <2>1, <4>1, Tools DEF SendingInv, Writes
      <4> QED  BY <1>3, <1>4, <2>1, <4>2
    <3> QED
      BY <3>1, <3>2 DEF Tool, StartTool, Process, Report, Send, SendRest, Catch
  <2> QED
    BY <1>4, <2>1, <2>2, <2>3 DEF BusyInv, SendingInv, Children, Writes, standardIO
<1>6. /\ Children(p[1])' = Children(p[1]) /\ Writes(p)' = Writes(p) /\ UNCHANGED sources
      /\ stage'[p[1]] \in {"tools", "died"}
  BY <1>1, <1>3, <1>4 DEF Children, Writes, standardIO
<1>7. ASSUME StartTool(p)  PROVE BusyInv(p)' /\ SendingInv(p)'
  <2>1. p \in Children(p[1]) /\ finished[p] < Len(sources[p[1]]) /\ UNCHANGED <<finished, sending>>
        /\ step[p] = "idle"
    BY <1>7 DEF StartTool, Running, toolVars, CreateLog
  <2> QED  BY <1>1, <1>6, <2>1 DEF BusyInv, SendingInv
<1>11. ASSUME Process(p)  PROVE BusyInv(p)' /\ SendingInv(p)'
  <2>1. step[p] # "idle" /\ step[p] # "finished"
    BY <1>2, <1>11 DEF Process, Execute, Fork, Wait, captureLogs, cleanup, Exec, Prints, Exit, moves,
       ProcessInv, ChildIsWaitedFor
  <2>2. UNCHANGED <<finished, sending>>
    BY <1>11 DEF Process, toolVars
  <2> QED  BY <1>1, <1>6, <2>1, <2>2 DEF BusyInv, SendingInv
<1>8. ASSUME return(p)  PROVE BusyInv(p)' /\ SendingInv(p)'
  <2>1. step'[p] = "idle" /\ ~sending'[p]
    BY <1>1, <1>2, <1>3, <1>8 DEF return, Dispose
  <2> QED  BY <2>1 DEF BusyInv, SendingInv
<1>9. ASSUME Send(p), ~return(p)  PROVE BusyInv(p)' /\ SendingInv(p)'
  <2>1. step' = step /\ step[p] = "finished" /\ UNCHANGED <<finished, stage>> /\ Writes(p)
    BY <1>9 DEF Send, processVars, objectVars
  <2> QED  BY <1>1, <1>4, <1>6, <2>1 DEF BusyInv, SendingInv
<1>10. ASSUME SendFails(p), ~return(p)  PROVE BusyInv(p)' /\ SendingInv(p)'
  <2>1. step' = step /\ UNCHANGED <<finished, sending>> /\ ~sending[p]
    BY <1>10 DEF SendFails, processVars, objectVars, toolVars
  <2> QED  BY <1>1, <1>6, <2>1 DEF BusyInv, SendingInv
<1> QED
  <2>1. BusyInv(p)' /\ SendingInv(p)'
    BY <1>7, <1>8, <1>9, <1>10, <1>11 DEF Tool, Report, SendRest, Catch
  <2> QED  BY <1>5, <2>1

\* A step of a run leaves other runs and all tools alone.
LEMMA RunFrame ==
  ASSUME RunTypeOK, sources = [q \in Requests |-> sources[q]],
         NEW r \in Requests, Run(r) \/ PeerLeaves(r)
  PROVE  /\ UNCHANGED <<processVars, load, sending, finished>>
         /\ \A q \in Requests \ {r} :
              /\ stage'[q] = stage[q] /\ sources'[q] = sources[q] /\ socket'[q] = socket[q]
              /\ gone'[q] = gone[q] /\ printed'[q] = printed[q] /\ captured'[q] = captured[q] /\ exit'[q] = exit[q]
         /\ \A p \in Procs : lines'[p] = lines[p]
<1>1. UNCHANGED <<processVars, load, sending, finished>>
  BY DEF Run, ConstructInvoker, NoAnalysisSelected, ResolveSources, WithoutAnalyzer, StartAnalyzer,
         RunAnalyzer, Deliver, DeliverToPeer, DeliverRest, Summarise, Answer, PeerLeaves, toolVars
<1>2. stage' = stage \/ \E s : goto(r, s)
  BY DEF Run, ConstructInvoker, NoAnalysisSelected, ResolveSources, WithoutAnalyzer, StartAnalyzer,
         RunAnalyzer, Deliver, DeliverToPeer, DeliverRest, Summarise, Answer, PeerLeaves, Throw
<1>3. sources' = sources \/ \E s : sources' = [sources EXCEPT ![r] = s]
  BY DEF Run, ConstructInvoker, NoAnalysisSelected, ResolveSources, WithoutAnalyzer, StartAnalyzer,
         RunAnalyzer, Deliver, DeliverToPeer, DeliverRest, Summarise, Answer, PeerLeaves
<1>4. socket' = socket \/ \E s : socket' = [socket EXCEPT ![r] = s]
  BY DEF Run, ConstructInvoker, NoAnalysisSelected, ResolveSources, WithoutAnalyzer, StartAnalyzer,
         RunAnalyzer, Deliver, DeliverToPeer, DeliverRest, Summarise, Answer, PeerLeaves, close,
         ipcVars, sendFirst, sendRest
<1>5. gone' = gone \/ gone' = [gone EXCEPT ![r] = TRUE]
  BY DEF Run, ConstructInvoker, NoAnalysisSelected, ResolveSources, WithoutAnalyzer, StartAnalyzer,
         RunAnalyzer, Deliver, DeliverToPeer, DeliverRest, Summarise, Answer, PeerLeaves,
         ipcVars, sendFirst, sendRest
<1>6. \/ printed' = printed /\ captured' = captured /\ exit' = exit
      \/ \E p, c, e : /\ printed' = [printed EXCEPT ![r] = p] /\ captured' = [captured EXCEPT ![r] = c]
                    /\ exit' = [exit EXCEPT ![r] = e]
  BY DEF Run, ConstructInvoker, NoAnalysisSelected, ResolveSources, WithoutAnalyzer, StartAnalyzer,
         RunAnalyzer, Deliver, DeliverToPeer, DeliverRest, Summarise, Answer, PeerLeaves, analyzerVars
<1>7. lines' = lines \/ \E said : say(SA(r), said)
  BY DEF Run, ConstructInvoker, NoAnalysisSelected, ResolveSources, WithoutAnalyzer, StartAnalyzer,
         RunAnalyzer, Deliver, DeliverToPeer, DeliverRest, Summarise, Answer, PeerLeaves, toolVars
<1>8. /\ DOMAIN stage = Requests /\ DOMAIN socket = Requests /\ DOMAIN gone = Requests
      /\ DOMAIN printed = Requests /\ DOMAIN captured = Requests /\ DOMAIN exit = Requests /\ DOMAIN lines = AllTools
      /\ DOMAIN sources = Requests
  BY DEF RunTypeOK
<1>9. \A q \in Requests \ {r} : stage'[q] = stage[q]
  BY <1>2, <1>8 DEF goto
<1>10. \A q \in Requests \ {r} :
         /\ sources'[q] = sources[q] /\ socket'[q] = socket[q]
         /\ gone'[q] = gone[q] /\ printed'[q] = printed[q] /\ captured'[q] = captured[q] /\ exit'[q] = exit[q]
  BY <1>3, <1>4, <1>5, <1>6, <1>8
<1>11. \A p \in Procs : lines'[p] = lines[p]
  BY <1>7, <1>8, Tools DEF say
<1> QED  BY <1>1, <1>9, <1>10, <1>11

\* A run goes on only when its tools are done; its sources are resolved
\* before they begin.
LEMMA BusyRun ==
  ASSUME ProcessInv, RunInv, NEW r \in Requests, Run(r) \/ PeerLeaves(r)
  PROVE  \A q \in Procs : BusyInv(q)' /\ SendingInv(q)'
<1> SUFFICES ASSUME NEW q \in Procs  PROVE BusyInv(q)' /\ SendingInv(q)'
  OBVIOUS
<1>1. UNCHANGED <<processVars, load, sending, finished>>
  BY RunFrame DEF RunInv
<1>2. BusyInv(q) /\ SendingInv(q) /\ q \in AllTools /\ q[1] \in Requests /\ RunTypeOK
  BY Tools DEF RunInv
<1>3. CASE q[1] # r \/ PeerLeaves(r)
  <2>1. stage'[q[1]] = stage[q[1]] /\ sources'[q[1]] = sources[q[1]]
    BY <1>2, <1>3, RunFrame DEF RunInv, PeerLeaves
  <2> QED
    BY <1>1, <1>2, <2>1 DEF BusyInv, SendingInv, Children, processVars, objectVars, Writes, standardIO
<1>4. CASE q[1] = r /\ Run(r)
  <2>1. stage[r] # "died" /\ (stage[r] = "tools" => ToolsDone(r))
    BY <1>4 DEF Run, ConstructInvoker, NoAnalysisSelected, ResolveSources, WithoutAnalyzer,
       StartAnalyzer, RunAnalyzer, Deliver, DeliverToPeer, DeliverRest, Summarise, Answer, ToolsDone
  <2>2. finished[q] \in Nat
    BY <1>2, RunTypes
  <2>3. step[q] = "idle"
    BY <1>2, <1>4, <2>1, <2>2 DEF BusyInv, ToolsDone
  <2> QED  BY <1>1, <1>2, <2>3 DEF BusyInv, SendingInv, processVars, objectVars
<1> QED  BY <1>3, <1>4

\* The stages of a run, its socket and what it has printed go together.
LEMMA StageStep ==
  ASSUME RunInv, NEW p \in Procs, Tool(p), NEW r \in Requests
  PROVE  StageInv(r)'
<1>1. RunTypeOK /\ StageInv(r) /\ p[1] \in Requests /\ stage \in [Requests -> Stages]
  BY Tools, RunTypes DEF RunInv
<1>2. stage'[r] = stage[r] \/ (stage[r] = "tools" /\ stage'[r] = "died")
  BY <1>1, ToolFrame
<1>3. UNCHANGED <<load, sources, socket, printed, captured>>
  BY <1>1, ToolFrame
<1> QED  BY <1>1, <1>2, <1>3 DEF StageInv, Ends

LEMMA StageRun ==
  ASSUME RunInv, NEW r \in Requests, Run(r) \/ PeerLeaves(r), NEW q \in Requests
  PROVE  StageInv(q)' /\ sources' = [s \in Requests |-> sources'[s]]
<1>1. /\ RunTypeOK /\ StageInv(q) /\ StageInv(r) /\ sources = [s \in Requests |-> sources[s]]
      /\ stage \in [Requests -> Stages]
      /\ socket \in [Requests -> {"none", "open", "closed", "leaked"}]
      /\ printed \in [Requests -> AnalyzerPrints \cup {None}]
      /\ captured \in [Requests -> Captures \cup {None}]
  BY RunTypes DEF RunInv, RunTypeOK
<1>2. ASSUME q # r  PROVE StageInv(q)'
  BY <1>1, <1>2, RunFrame DEF StageInv
<1>3. ASSUME q = r  PROVE StageInv(q)'
  <2> USE <1>1, <1>3 DEF StageInv, Ends
  <2>1. CASE ConstructInvoker(r)  BY <2>1 DEF ConstructInvoker, goto, Throw
  <2>2. CASE NoAnalysisSelected(r)  BY <2>2 DEF NoAnalysisSelected, goto, ipcVars
  <2>3. CASE ResolveSources(r)  BY <2>3 DEF ResolveSources, goto, close
  <2>4. CASE WithoutAnalyzer(r) \/ StartAnalyzer(r)
    BY <2>4 DEF WithoutAnalyzer, StartAnalyzer, goto, ToolsDone, ipcVars
  <2>5. CASE RunAnalyzer(r)  BY <2>5 DEF RunAnalyzer, goto, Throw, close
  <2>6. CASE Deliver(r)  BY <2>6 DEF Deliver, goto, ipcVars, analyzerVars
  <2>7. CASE DeliverToPeer(r)
    BY <2>7 DEF DeliverToPeer, goto, Throw, close, sendFirst, analyzerVars
  <2>8. CASE DeliverRest(r)  BY <2>8 DEF DeliverRest, goto, sendRest, analyzerVars
  <2>9. CASE Summarise(r)  BY <2>9 DEF Summarise, goto, ipcVars
  <2>10. CASE Answer(r)  BY <2>10 DEF Answer, goto, Throw, close
  <2>11. CASE PeerLeaves(r)  BY <2>11 DEF PeerLeaves, analyzerVars
  <2> QED
    BY <2>1, <2>2, <2>3, <2>4, <2>5, <2>6, <2>7, <2>8, <2>9, <2>10, <2>11 DEF Run
<1>4. sources' = sources \/ \E s : sources' = [sources EXCEPT ![r] = s]
  BY DEF Run, ConstructInvoker, NoAnalysisSelected, ResolveSources, WithoutAnalyzer, StartAnalyzer,
         RunAnalyzer, Deliver, DeliverToPeer, DeliverRest, Summarise, Answer, PeerLeaves
<1> QED  BY <1>1, <1>2, <1>3, <1>4

-----------------------------------------------------------------------------
(***************************************************************************)
(* What is said, and the failures of requests.                             *)
(***************************************************************************)

\* Whatever has been printed stays in its log.
LEMMA WrittenStays ==
  ASSUME ProcessInv, NEW p \in Procs, Tool(p), NEW q \in Procs, NEW i \in 1..MaxRuns,
         AsRead[written[<<q, i>>]] = Binary
  PROVE  AsRead[written'[<<q, i>>]] = Binary
<1>1. written \in [Log -> Content] /\ <<q, i>> \in Log /\ Binary # Nothing
  BY DEF ProcessInv, ProcessTypeOK, Log
<1>2. UNCHANGED written \/ Prints(p)
  BY ToolMovesProcess DEF Execute, Fork, Wait, captureLogs, cleanup, Exec, Prints, Exit, CreateLog,
     Dispose, processVars
<1>3. CASE Prints(p)
  BY <1>1, <1>3, ReadingAssumption DEF Prints
<1> QED  BY <1>1, <1>2, <1>3

\* The elements of two sequences, one after the other.
LEMMA ConcatenationSet ==
  ASSUME NEW S, NEW s \in Seq(S), NEW t \in Seq(S)
  PROVE  ToSet(s \o t) = ToSet(s) \cup ToSet(t)
<1>1. DOMAIN s = 1..Len(s) /\ DOMAIN t = 1..Len(t) /\ Len(s) \in Nat /\ Len(t) \in Nat
  OBVIOUS
<1>2. DOMAIN (s \o t) = 1..(Len(s) + Len(t))
  OBVIOUS
<1>3. \A i \in DOMAIN s : i \in DOMAIN (s \o t) /\ (s \o t)[i] = s[i]
  BY <1>1, <1>2
<1>4. \A i \in DOMAIN t : Len(s) + i \in DOMAIN (s \o t) /\ (s \o t)[Len(s) + i] = t[i]
  BY <1>1, <1>2
<1>5. ASSUME NEW i \in DOMAIN (s \o t)
      PROVE  i \in DOMAIN s \/ (i - Len(s) \in DOMAIN t /\ i = Len(s) + (i - Len(s)))
  BY <1>1, <1>2
<1>6. \A i \in DOMAIN (s \o t) : (s \o t)[i] \in ToSet(s) \cup ToSet(t)
  BY <1>3, <1>4, <1>5 DEF ToSet
<1>7. ToSet(s) \subseteq ToSet(s \o t) /\ ToSet(t) \subseteq ToSet(s \o t)
  BY <1>3, <1>4 DEF ToSet
<1>8. ToSet(s \o t) \subseteq ToSet(s) \cup ToSet(t)
  BY <1>6 DEF ToSet
<1> QED  BY <1>7, <1>8

\* Lines are added at the end.
LEMMA SayAdds ==
  ASSUME RunTypeOK, NEW q \in AllTools, NEW said \in Seq(LinesOf({"out", "err", "sarif"})),
         say(q, said)
  PROVE  ToSet(lines'[q]) = ToSet(lines[q]) \cup ToSet(said)
<1> DEFINE L == LinesOf({"out", "err", "sarif"})
<1>1. lines[q] \in Seq(L) /\ lines'[q] = lines[q] \o said
  BY DEF RunTypeOK, say
<1> HIDE DEF L
<1> QED  BY <1>1, ConcatenationSet DEF L

\* What a tool says is its own output, or the report of an error.
LEMMA ToolSays ==
  ASSUME ProcessInv, RunInv, NEW p \in Procs, Tool(p)
  PROVE  /\ ToSet(lines[p]) \subseteq ToSet(lines'[p])
         /\ \A l \in ToSet(lines'[p]) \ ToSet(lines[p]) :
              \/ l = error(p)
              \/ step[p] = "finished" /\ l.text = logOutput[p].text
         /\ Catch(p) => error(p) \in ToSet(lines'[p])
<1> DEFINE L == LinesOf({"out", "err", "sarif"})
<1>1. p \in AllTools /\ RunTypeOK
  BY Tools DEF RunInv
<1>2. error(p) \in L
  <2>1. own(p) \in AllTools \X Nat
    BY <1>1 DEF own, ProcessInv, ProcessTypeOK
  <2> QED  BY <2>1 DEF error, Line, LinesOf, Outputs, Content
<1>3. CASE Report(p)
  <2>1. step[p] = "finished" /\ output(p) \in L /\ [output(p) EXCEPT !.kind = "sarif"] \in L
    BY <1>3, OutputType DEF Report, output, Line, LinesOf
  <2>2. output(p).text = logOutput[p].text /\ [output(p) EXCEPT !.kind = "sarif"].text = logOutput[p].text
    BY DEF output, Line
  <2> HIDE DEF L
  <2>3. /\ <<output(p), [output(p) EXCEPT !.kind = "sarif"]>> \in Seq(L)
        /\ <<output(p), error(p)>> \in Seq(L) /\ <<output(p)>> \in Seq(L)
    BY <1>2, <2>1
  <2>4. ASSUME NEW said \in Seq(L), say(p, said)
        PROVE  ToSet(lines'[p]) = ToSet(lines[p]) \cup ToSet(said)
    BY <1>1, <2>4, SayAdds DEF L
  <2>5. /\ ToSet(<<output(p), [output(p) EXCEPT !.kind = "sarif"]>>) = {output(p), [output(p) EXCEPT !.kind = "sarif"]}
        /\ ToSet(<<output(p), error(p)>>) = {output(p), error(p)}
        /\ ToSet(<<output(p)>>) = {output(p)}
    BY DEF ToSet
  <2>6. ~Catch(p)
    BY <2>1 DEF Catch
  <2> QED  BY <1>3, <2>1, <2>2, <2>3, <2>4, <2>5, <2>6 DEF Report
<1>4. CASE say(p, <<error(p)>>)
  <2> HIDE DEF L
  <2>1. <<error(p)>> \in Seq(L) /\ ToSet(<<error(p)>>) = {error(p)}
    BY <1>2 DEF ToSet
  <2>2. ToSet(lines'[p]) = ToSet(lines[p]) \cup {error(p)}
    BY <1>1, <1>4, <2>1, SayAdds DEF L
  <2> QED  BY <2>2
<1>5. CASE UNCHANGED lines /\ ~Catch(p)
  BY <1>5
<1>6. Report(p) \/ say(p, <<error(p)>>) \/ (UNCHANGED lines /\ ~Catch(p))
  <2>1. CASE Catch(p) \/ SendFails(p)
    BY <2>1 DEF Catch, SendFails, toolVars
  <2>2. CASE StartTool(p) \/ Process(p) \/ Send(p) \/ SendRest(p)
    BY <2>1, <2>2 DEF StartTool, Process, Send, SendRest, toolVars
  <2> QED  BY <2>1, <2>2 DEF Tool
<1> QED  BY <1>3, <1>4, <1>5, <1>6

\* The tools of a run are processes, and stay the same.
LEMMA ChildrenAreProcs ==
  ASSUME RunTypeOK, NEW r \in Requests, load[r] # None
  PROVE  Children(r) \subseteq Procs
BY DEF RunTypeOK, Children

\* Text that is not UTF-8 in a line comes from a child.
LEMMA LinesStep ==
  ASSUME ProcessInv, RunInv, NEW p \in Procs, Tool(p), NEW q \in Procs
  PROVE  LinesInv(q)'
<1>1. LinesInv(q) /\ q \in AllTools /\ RunTypeOK
  BY Tools DEF RunInv
<1> SUFFICES ASSUME NEW l \in ToSet(lines'[q]), l.text = Binary
             PROVE  \E i \in 1..MaxRuns : AsRead[written'[<<q, i>>]] = Binary
  BY DEF LinesInv
<1>2. CASE l \in ToSet(lines[q])
  BY <1>1, <1>2, WrittenStays DEF LinesInv
<1>3. CASE l \notin ToSet(lines[q])
  <2>1. q = p
    BY <1>1, <1>3, ToolFrame
  <2>2. l # error(p)
    <3>1. error(p).text = Nothing
      BY DEF error, Line
    <3> QED  BY <3>1
  <2>3. step[p] = "finished" /\ logOutput[p].text = Binary
    BY <1>3, <2>1, <2>2, ToolSays
  <2>4. runs[p] \in 1..MaxRuns /\ AsRead[written[<<p, runs[p]>>]] = Binary
    <3>1. runs[p] \in 1..MaxRuns /\ logOutput[p] = [of |-> own(p), text |-> AsRead[written[own(p)]]]
      BY <2>3, OutputType
    <3>2. AsRead[written[own(p)]] = Binary
      BY <2>3, <3>1
    <3> QED  BY <3>1, <3>2 DEF own
  <2> QED  BY <2>1, <2>4, WrittenStays
<1> QED  BY <1>2, <1>3

\* No failure of a tool makes a request fail.
LEMMA FailureStep ==
  ASSUME ProcessInv, RunInv, NEW p \in Procs, Tool(p)
  PROVE  FailuresContained'
<1>1. RunTypeOK /\ p[1] \in Requests /\ stage \in [Requests -> Stages]
  BY Tools, RunTypes DEF RunInv
<1> SUFFICES ASSUME NEW r \in Requests, stage'[r] = "rejected"
             PROVE  \/ ~standardIO(r)' /\ (sources'[r] = <<>> \/ gone'[r])
                    \/ exit'[r] = "threw"
                    \/ \E q \in Children(r)' : \E i \in 1..MaxRuns : AsRead[written'[<<q, i>>]] = Binary
  BY DEF FailuresContained
<1>2. stage[r] = "rejected" /\ UNCHANGED <<load, sources, gone, exit>>
  BY <1>1, ToolFrame
<1>3. Children(r)' = Children(r) /\ standardIO(r)' = standardIO(r)
  BY <1>2 DEF Children, standardIO
<1>4. Children(r) \subseteq Procs
  BY <1>1, <1>2, ChildrenAreProcs DEF RunInv, StageInv
<1>5. \/ ~standardIO(r) /\ (sources[r] = <<>> \/ gone[r])
      \/ exit[r] = "threw"
      \/ \E q \in Children(r) : \E i \in 1..MaxRuns : AsRead[written[<<q, i>>]] = Binary
  BY <1>2 DEF RunInv, FailuresContained
<1>6. \A q \in Children(r) : \A i \in 1..MaxRuns :
        AsRead[written[<<q, i>>]] = Binary => AsRead[written'[<<q, i>>]] = Binary
  BY <1>4, WrittenStays
<1> QED  BY <1>2, <1>3, <1>5, <1>6

LEMMA FailureRun ==
  ASSUME ProcessInv, RunInv, NEW r \in Requests, Run(r) \/ PeerLeaves(r)
  PROVE  FailuresContained'
<1>1. /\ RunTypeOK /\ StageInv(r) /\ FailuresContained
      /\ stage \in [Requests -> Stages] /\ gone \in [Requests -> BOOLEAN]
      /\ exit \in [Requests -> {"none", "ok", "failed", "threw"}]
  BY RunTypes DEF RunInv, RunTypeOK
<1> SUFFICES ASSUME NEW q \in Requests, stage'[q] = "rejected"
             PROVE  \/ ~standardIO(q)' /\ (sources'[q] = <<>> \/ gone'[q])
                    \/ exit'[q] = "threw"
                    \/ \E p \in Children(q)' : \E i \in 1..MaxRuns : AsRead[written'[<<p, i>>]] = Binary
  BY DEF FailuresContained
<1>2. UNCHANGED <<load, written>>
  BY RunFrame DEF RunInv, processVars
<1>3. Children(q)' = Children(q) /\ standardIO(q)' = standardIO(q)
  BY <1>2 DEF Children, standardIO
<1>4. CASE q # r
  <2>1. stage[q] = "rejected" /\ sources'[q] = sources[q] /\ gone'[q] = gone[q] /\ exit'[q] = exit[q]
    BY <1>4, RunFrame DEF RunInv
  <2> QED  BY <1>1, <1>2, <1>3, <2>1 DEF FailuresContained
<1>5. CASE q = r
  <2> USE <1>1, <1>5
  <2>1. CASE ConstructInvoker(r)
    BY <1>3, <2>1 DEF ConstructInvoker, goto, Throw, StageInv
  <2>2. CASE RunAnalyzer(r)  BY <2>2 DEF RunAnalyzer, goto, Throw
  <2>3. CASE DeliverToPeer(r)
    BY <1>3, <2>3 DEF DeliverToPeer, WritesReport, standardIO, goto, Throw, sendFirst
  <2>4. CASE Answer(r)
    <3>1. HasBinary(r)
      BY <2>4 DEF Answer, goto
    <3>2. PICK p \in Children(r) : \E l \in ToSet(lines[p]) : l.text = Binary
      BY <3>1 DEF HasBinary
    <3>3. p \in Procs
      BY <2>4, <3>2, ChildrenAreProcs DEF Answer, StageInv
    <3>4. \E i \in 1..MaxRuns : AsRead[written[<<p, i>>]] = Binary
      BY <3>2, <3>3 DEF RunInv, LinesInv
    <3> QED  BY <1>2, <1>3, <3>2, <3>4
  <2>5. CASE PeerLeaves(r)
    <3>1. stage[r] = "rejected" /\ UNCHANGED <<sources, exit>> /\ (gone[r] => gone'[r])
      BY <2>5 DEF PeerLeaves, analyzerVars
    <3> QED  BY <1>2, <1>3, <3>1 DEF FailuresContained
  <2>6. ~(NoAnalysisSelected(r) \/ ResolveSources(r) \/ WithoutAnalyzer(r) \/ StartAnalyzer(r)
          \/ Deliver(r) \/ DeliverRest(r) \/ Summarise(r))
    BY DEF NoAnalysisSelected, ResolveSources, WithoutAnalyzer, StartAnalyzer, Deliver, DeliverRest,
       Summarise, goto
  <2> QED  BY <2>1, <2>2, <2>3, <2>4, <2>5, <2>6 DEF Run
<1> QED  BY <1>4, <1>5

-----------------------------------------------------------------------------
(***************************************************************************)
(* The logs in /tmp.                                                       *)
(***************************************************************************)

\* Names are given to new logs only.
LEMMA NamesStep ==
  ASSUME ProcessInv, NamesInv, NEW p \in Procs, Tool(p)
  PROVE  NamesInv'
<1>1. /\ tmp \in [LogNames -> Log \cup {None}] /\ runs \in [Procs -> 0..MaxRuns]
      /\ None \notin Log
  BY DEF ProcessInv, ProcessTypeOK
<1>2. \A g \in Log : g[1] \in Procs /\ g[2] \in 1..MaxRuns
  BY DEF Log
<1>3. CASE CreateLog(p)
  <2>1. runs' = [runs EXCEPT ![p] = @ + 1]
    BY <1>3 DEF CreateLog
  <2>2. \A q \in Procs : runs[q] <= runs'[q]
    BY <1>1, <2>1
  <2>3. CASE UNCHANGED tmp
    BY <1>1, <1>2, <2>2, <2>3, <2>1 DEF NamesInv
  <2>4. CASE \E l \in LogNames : tmp' = [tmp EXCEPT ![l] = <<p, runs[p] + 1>>]
    <3>1. PICK l \in LogNames : tmp' = [tmp EXCEPT ![l] = <<p, runs[p] + 1>>]
      BY <2>4
    <3>2. \A m \in LogNames \ {l} : tmp[m] # None => tmp[m] # <<p, runs[p] + 1>>
      BY <1>1, <1>2 DEF NamesInv
    <3>3. runs'[p] = runs[p] + 1
      BY <1>1, <2>1
    <3>4. \A m \in LogNames \ {l} : tmp'[m] = tmp[m]
      BY <1>1, <3>1
    <3>5. tmp'[l] = <<p, runs[p] + 1>>
      BY <1>1, <3>1
    <3>6. \A m \in LogNames : tmp'[m] # None => tmp'[m][2] <= runs'[tmp'[m][1]]
      <4> SUFFICES ASSUME NEW m \in LogNames, tmp'[m] # None  PROVE tmp'[m][2] <= runs'[tmp'[m][1]]
        OBVIOUS
      <4>1. CASE m = l  BY <1>1, <3>3, <3>5, <4>1
      <4>2. CASE m # l
        <5>1. tmp'[m] = tmp[m] /\ tmp[m] \in Log /\ tmp[m][2] <= runs[tmp[m][1]]
          BY <1>1, <3>4, <4>2 DEF NamesInv
        <5> QED  BY <1>1, <1>2, <2>1, <2>2, <5>1
      <4> QED  BY <4>1, <4>2
    <3> QED  BY <3>2, <3>4, <3>5, <3>6 DEF NamesInv
  <2> QED  BY <1>3, <2>3, <2>4 DEF CreateLog
<1>4. CASE ~CreateLog(p)
  <2>1. UNCHANGED runs
    BY <1>4, ToolMovesProcess DEF Execute, Fork, Wait, captureLogs, readLog, cleanup, Exec, Prints,
       Exit, Dispose, objectVars, processVars
  <2>2. \A l \in LogNames : tmp'[l] = tmp[l] \/ tmp'[l] = None
    BY <1>1, <1>4, ToolMovesProcess DEF Execute, Fork, Wait, captureLogs, readLog, cleanup, Exec,
       Prints, Exit, Dispose, objectVars, processVars
  <2> QED  BY <2>1, <2>2 DEF NamesInv
<1> QED  BY <1>3, <1>4

\* A log that is left in /tmp is in use, or its tool has reported an error.
LEMMA LeftStep ==
  ASSUME ProcessInv, RunInv, NEW p \in Procs, Tool(p)
  PROVE  LeftInv'
<1>1. /\ tmp \in [LogNames -> Log \cup {None}] /\ runs \in [Procs -> 0..MaxRuns]
      /\ step \in [Procs -> {"idle", "created", "waiting", "exited", "captured", "finished", "threw"}]
      /\ None \notin Log
  BY DEF ProcessInv, ProcessTypeOK
<1>2. /\ RunTypeOK /\ LeftInv /\ NamesInv /\ p[1] \in Requests /\ stage \in [Requests -> Stages]
      /\ \A g \in Log : g[1] \in Procs /\ g[1] \in AllTools /\ g[1][1] \in Requests
  BY Tools, RunTypes DEF RunInv, Log
<1>0. tmp' \in [LogNames -> Log \cup {None}]
  BY ToolMovesProcess, TypeStep DEF ProcessInv, ProcessTypeOK, processVars
<1> SUFFICES ASSUME NEW l \in LogNames, NEW g \in Log, tmp'[l] = g  PROVE LogIsLeft(g)'
  BY <1>0 DEF LeftInv, LogIsLeft, own
<1> DEFINE used(q) == step[q] \in {"created", "waiting", "exited", "threw"}
<1>3. \A h \in Log : LogIsLeft(h) <=> \/ own(h[1]) = h /\ used(h[1])
                                      \/ \E m \in ToSet(lines[h[1]]) : m.kind = "err" /\ m.log = h
                                      \/ stage[h[1][1]] = "died"
  BY DEF LogIsLeft
<1>4. \A h \in Log : LogIsLeft(h)' <=> \/ own(h[1])' = h /\ used(h[1])'
                                       \/ \E m \in ToSet(lines'[h[1]]) : m.kind = "err" /\ m.log = h
                                       \/ stage'[h[1][1]] = "died"
  BY DEF LogIsLeft
<1>5. \A q \in Procs : ToSet(lines[q]) \subseteq ToSet(lines'[q])
  BY <1>2, ToolSays, ToolFrame, Tools, SMTT(20)
<1>6. \A r \in Requests : stage[r] = "died" => stage'[r] = "died"
  BY <1>2, ToolFrame
<1>7. \A q \in Procs \ {p} : own(q)' = own(q) /\ used(q)' = used(q)
  BY OthersKeepStep DEF own
<1>8. CASE tmp[l] = g /\ ~(own(p) = g /\ used(p))
  <2>1. g \in Log /\ LogIsLeft(g)
    BY <1>1, <1>2, <1>8 DEF LeftInv
  <2>2. g[1] \in Procs /\ g[1][1] \in Requests
    BY <1>2
  <2>3. CASE own(g[1]) = g /\ used(g[1])
    <3>1. g[1] # p
      BY <1>8, <2>3
    <3>2. own(g[1])' = g /\ used(g[1])'
      BY <1>7, <2>2, <2>3, <3>1
    <3> QED  BY <1>4, <3>2
  <2>4. CASE \E m \in ToSet(lines[g[1]]) : m.kind = "err" /\ m.log = g
    BY <1>4, <1>5, <2>2, <2>4
  <2>5. CASE stage[g[1][1]] = "died"
    BY <1>4, <1>6, <2>2, <2>5
  <2> QED  BY <1>3, <2>1, <2>3, <2>4, <2>5
<1>9. CASE tmp[l] = g /\ own(p) = g /\ used(p)
  <2>1. g \in Log /\ g[1] = p
    BY <1>1, <1>9 DEF own
  <2>2. CASE Process(p)
    <3>1. runs'[p] = runs[p]
      BY <2>2 DEF Process, Execute, Fork, Wait, captureLogs, cleanup, Exec, Prints, Exit, objectVars
    <3>2. used(p)'
      <4>1. CASE captureLogs(p)
        <5>1. InUse(p) /\ tmp[log_path_[p]] = own(p) /\ log_path_[p] \in LogNames
          BY <4>1 DEF captureLogs, moves, InUse, ProcessInv, LogIsOwn, PathInv, ProcessTypeOK
        <5>2. l = log_path_[p]
          BY <1>1, <1>2, <1>9, <2>1, <5>1 DEF NamesInv
        <5> QED  BY <1>1, <1>9, <2>1, <4>1, <5>2 DEF captureLogs, moves
      <4>2. CASE Fork(p) \/ Wait(p) \/ cleanup(p) \/ Exec(p) \/ Prints(p) \/ Exit(p)
        BY <1>1, <1>9, <4>2 DEF Fork, Wait, cleanup, Exec, Prints, Exit, moves, objectVars
      <4> QED  BY <2>2, <4>1, <4>2 DEF Process, Execute
    <3> QED  BY <1>4, <1>9, <2>1, <3>1, <3>2 DEF own
  <2>3. CASE Catch(p)
    <3>1. error(p).kind = "err" /\ error(p).log = g
      BY <1>9 DEF error, Line
    <3>2. error(p) \in ToSet(lines'[p])
      BY <2>3, ToolSays
    <3> QED  BY <1>4, <2>1, <3>1, <3>2
  <2>4. ~StartTool(p)
    BY <1>9 DEF StartTool, CreateLog
  <2>5. ~(Report(p) \/ Send(p) \/ SendFails(p))
    BY <1>9 DEF Report, Send, SendFails
  <2>6. ~SendRest(p)
    BY <1>9 DEF SendRest, RunInv, SendingInv
  <2> QED  BY <2>2, <2>3, <2>4, <2>5, <2>6 DEF Tool
<1>10. CASE tmp[l] # g
  <2>1. CreateLog(p)
    BY <1>1, <1>10, ToolMovesProcess DEF Execute, Fork, Wait, captureLogs, readLog, cleanup, Exec, Prints,
       Exit, Dispose, objectVars, processVars
  <2>2. /\ tmp' = [tmp EXCEPT ![l] = <<p, runs[p] + 1>>] /\ step' = [step EXCEPT ![p] = "created"]
        /\ runs' = [runs EXCEPT ![p] = @ + 1] /\ runs[p] + 1 \in 1..MaxRuns
    BY <1>1, <1>10, <2>1 DEF CreateLog
  <2>3. g = <<p, runs'[p]>> /\ step'[p] = "created" /\ g \in Log /\ g[1] = p
    BY <1>1, <2>2 DEF Log
  <2> QED  BY <1>4, <2>3 DEF own
<1> QED  BY <1>8, <1>9, <1>10

\* The steps of runs touch neither /tmp nor what tools have said.
LEMMA LeftRun ==
  ASSUME ProcessInv, RunInv, NEW r \in Requests, Run(r) \/ PeerLeaves(r)
  PROVE  LeftInv' /\ NamesInv' /\ \A q \in Procs : LinesInv(q)'
<1>1. RunTypeOK /\ UNCHANGED processVars /\ \A q \in Procs : lines'[q] = lines[q]
  BY RunFrame DEF RunInv
<1>2. \A q \in Requests : stage[q] = "died" => stage'[q] = "died"
  <2> SUFFICES ASSUME NEW q \in Requests, stage[q] = "died"  PROVE stage'[q] = "died"
    OBVIOUS
  <2>1. CASE q # r  BY <1>1, <2>1, RunFrame DEF RunInv
  <2>2. CASE q = r
    BY <2>2 DEF Run, ConstructInvoker, NoAnalysisSelected, ResolveSources, WithoutAnalyzer,
       StartAnalyzer, RunAnalyzer, Deliver, DeliverToPeer, DeliverRest, Summarise, Answer, PeerLeaves,
       ToolsDone
  <2> QED  BY <2>1, <2>2
<1>3. NamesInv' /\ \A q \in Procs : LinesInv(q)'
  BY <1>1 DEF RunInv, NamesInv, LinesInv, processVars, objectVars
<1>4. \A g \in Log : g[1] \in Procs /\ g[1][1] \in Requests
  BY Tools DEF Log
<1>5. \A l \in LogNames : tmp[l] # None => tmp[l] \in Log /\ LogIsLeft(tmp[l])
  BY DEF ProcessInv, ProcessTypeOK, RunInv, LeftInv
<1>6. \A g \in Log : LogIsLeft(g) => LogIsLeft(g)'
  BY <1>1, <1>2, <1>4 DEF LogIsLeft, own, processVars, objectVars
<1>7. \A l \in LogNames : tmp'[l] = tmp[l]
  BY <1>1 DEF processVars
<1> QED  BY <1>3, <1>5, <1>6, <1>7 DEF LeftInv

-----------------------------------------------------------------------------
(***************************************************************************)
(* The stream of the peer.                                                 *)
(***************************************************************************)
HalvesOf(r) == \A i \in DOMAIN stream[r] : Paired(stream[r], i, interrupted[r])

\* A first half may follow a whole message, or any after a signal.
LEMMA AppendFirst ==
  ASSUME NEW S, NEW s \in Seq(S), NEW m \in S, m.kind = "first", NEW cut \in BOOLEAN,
         \A i \in DOMAIN s : Paired(s, i, cut),
         s # <<>> /\ s[Len(s)].kind = "first" => cut
  PROVE  /\ \A i \in DOMAIN Append(s, m) : Paired(Append(s, m), i, cut)
         /\ Append(s, m) # <<>> /\ Append(s, m)[Len(Append(s, m))] = m
<1> DEFINE n == Len(s)
           t == Append(s, m)
<1>1. n \in Nat /\ DOMAIN s = 1..n /\ Len(t) = n + 1 /\ DOMAIN t = 1..(n + 1)
  OBVIOUS
<1>2. (\A i \in 1..n : t[i] = s[i]) /\ t[n + 1] = m /\ t # <<>>
  <2>1. (\A i \in 1..n : t[i] = s[i]) /\ t[n + 1] = m
    OBVIOUS
  <2> QED  BY <1>1, <2>1
<1> HIDE DEF t, n
<1>3. ASSUME NEW i \in 1..(n + 1)  PROVE Paired(t, i, cut)
  <2>1. CASE i \in 1..(n - 1)
    <3>1. Paired(s, i, cut) /\ t[i] = s[i] /\ t[i + 1] = s[i + 1] /\ (i > 1 => t[i - 1] = s[i - 1])
      BY <1>1, <1>2, <2>1
    <3> QED  BY <1>1, <2>1, <3>1 DEF Paired, n
  <2>2. CASE i = n
    <3>1. Paired(s, i, cut) /\ t[i] = s[i] /\ (i > 1 => t[i - 1] = s[i - 1]) /\ s # <<>>
      BY <1>1, <1>2, <1>3, <2>2
    <3>2. s[n].kind = "first" => cut
      BY <3>1 DEF n
    <3> QED  BY <1>1, <2>2, <3>1, <3>2 DEF Paired
  <2>3. CASE i = n + 1
    BY <1>1, <1>2, <2>3 DEF Paired
  <2> QED  BY <1>1, <1>3, <2>1, <2>2, <2>3
<1> QED  BY <1>1, <1>2, <1>3 DEF t

\* The rest of a message follows its first half.
LEMMA AppendRest ==
  ASSUME NEW S, NEW s \in Seq(S), NEW log, NEW text, Line("rest", log, text) \in S,
         NEW cut \in BOOLEAN, \A i \in DOMAIN s : Paired(s, i, cut),
         s # <<>>, s[Len(s)] = Line("first", log, text)
  PROVE  LET t == Append(s, Line("rest", log, text))
         IN  /\ \A i \in DOMAIN t : Paired(t, i, cut)
             /\ t # <<>> /\ t[Len(t)].kind = "rest"
<1> DEFINE n == Len(s)
           m == Line("rest", log, text)
           t == Append(s, m)
<1>0. m.kind = "rest" /\ s[n] = [m EXCEPT !.kind = "first"] /\ m = [s[n] EXCEPT !.kind = "rest"]
      /\ s[n].kind = "first"
  BY DEF Line
<1>1. n \in Nat /\ DOMAIN s = 1..n /\ Len(t) = n + 1 /\ DOMAIN t = 1..(n + 1)
  OBVIOUS
<1>2. (\A i \in 1..n : t[i] = s[i]) /\ t[n + 1] = m /\ t # <<>> /\ n > 0
  OBVIOUS
<1> HIDE DEF t, n, m
<1>3. ASSUME NEW i \in 1..(n + 1)  PROVE Paired(t, i, cut)
  <2>1. CASE i \in 1..(n - 1)
    <3>1. Paired(s, i, cut) /\ t[i] = s[i] /\ t[i + 1] = s[i + 1] /\ (i > 1 => t[i - 1] = s[i - 1])
      BY <1>1, <1>2, <2>1
    <3> QED  BY <1>1, <2>1, <3>1 DEF Paired, n
  <2>2. CASE i = n
    <3>1. t[i] = s[n] /\ t[i + 1] = m
      BY <1>1, <1>2, <2>2
    <3>2. t[i].kind = "first" /\ t[i + 1] = [t[i] EXCEPT !.kind = "rest"]
      BY <1>0, <3>1
    <3>3. t[i].kind # "rest"
      BY <3>2
    <3> QED  BY ONLY <3>2, <3>3 DEF Paired
  <2>3. CASE i = n + 1
    <3>1. t[i] = m /\ t[i - 1] = s[n] /\ i > 1
      BY <1>1, <1>2, <2>3
    <3> QED  BY <1>0, <3>1 DEF Paired
  <2> QED  BY <1>1, <1>3, <2>1, <2>2, <2>3
<1> QED  BY <1>0, <1>1, <1>2, <1>3 DEF t, m

isLast(r, log, text) ==
  stream[r] # <<>> /\ stream[r][Len(stream[r])] = Line("first", log, text)

HalfAtEnd(r) == stream[r] # <<>> /\ stream[r][Len(stream[r])].kind = "first"

LEMMA StreamTypes ==
  ASSUME RunInv, NEW r \in Requests
  PROVE  /\ stream \in [Requests -> Seq(LinesOf({"first", "rest"}))]
         /\ gone \in [Requests -> BOOLEAN] /\ interrupted \in [Requests -> BOOLEAN]
         /\ HalvesOf(r)
         /\ \A p \in Senders(r) : isLast(r, logOutput[p].of, logOutput[p].text)
         /\ stage[r] = "sending" => isLast(r, <<SA(r), 1>>, captured[r].out)
         /\ HalfAtEnd(r) => gone[r] \/ interrupted[r] \/ stage[r] = "sending" \/ Senders(r) # {}
BY DEF RunInv, RunTypeOK, StreamInv, PeerStreamIntact, HalvesOf, isLast, HalfAtEnd

\* A message is begun.
LEMMA StreamFirst ==
  ASSUME RunInv, NEW r \in Requests, NEW log \in AllTools \X Nat, NEW text \in Outputs \ {Nothing},
         sendFirst(r, log, text), Senders(r) = {}, stage[r] # "sending"
  PROVE  HalvesOf(r)' /\ isLast(r, log, text)'
<1> DEFINE M == LinesOf({"first", "rest"})
           m == Line("first", log, text)
<1>1. m \in M /\ m.kind = "first"
  BY DEF Line, LinesOf
<1>2. stream \in [Requests -> Seq(M)] /\ interrupted \in [Requests -> BOOLEAN]
  BY StreamTypes
<1> HIDE DEF M
<1>3. ~gone[r] /\ interrupted'[r] = interrupted[r]
  BY DEF sendFirst
<1>4. stream'[r] = Append(stream[r], m)
  BY <1>2 DEF sendFirst
<1>5. HalvesOf(r) /\ (HalfAtEnd(r) => interrupted[r])
  BY <1>3, StreamTypes
<1> HIDE DEF m
<1>6. /\ \A i \in DOMAIN stream'[r] : Paired(stream'[r], i, interrupted[r])
      /\ stream'[r] # <<>> /\ stream'[r][Len(stream'[r])] = m
  <2>1. \A i \in DOMAIN stream[r] : Paired(stream[r], i, interrupted[r])
    BY <1>5 DEF HalvesOf
  <2>2. stream[r] # <<>> /\ stream[r][Len(stream[r])].kind = "first" => interrupted[r]
    BY <1>5 DEF HalfAtEnd
  <2>3. stream[r] \in Seq(M) /\ interrupted[r] \in BOOLEAN
    BY <1>2
  <2>4. /\ \A i \in DOMAIN Append(stream[r], m) : Paired(Append(stream[r], m), i, interrupted[r])
        /\ Append(stream[r], m) # <<>> /\ Append(stream[r], m)[Len(Append(stream[r], m))] = m
    BY <1>1, <2>1, <2>2, <2>3, AppendFirst
  <2> QED  BY <1>4, <2>4
<1> QED  BY <1>3, <1>6 DEF HalvesOf, isLast, m

\* A message is completed or cut.
LEMMA StreamRest ==
  ASSUME RunInv, NEW r \in Requests, NEW log \in AllTools \X Nat, NEW text \in Outputs,
         sendRest(r, log, text), isLast(r, log, text)
  PROVE  HalvesOf(r)' /\ (HalfAtEnd(r)' => gone'[r] \/ interrupted'[r])
<1> DEFINE M == LinesOf({"first", "rest"})
<1>1. Line("rest", log, text) \in M
  BY DEF Line, LinesOf
<1>2. stream \in [Requests -> Seq(M)] /\ interrupted \in [Requests -> BOOLEAN] /\ HalvesOf(r)
  BY StreamTypes
<1> HIDE DEF M
<1>3. CASE gone[r] /\ UNCHANGED <<stream, interrupted, gone>>
  BY <1>2, <1>3 DEF HalvesOf
<1>4. CASE interrupted' = [interrupted EXCEPT ![r] = TRUE] /\ UNCHANGED stream
  BY <1>2, <1>4 DEF HalvesOf, Paired
<1>5. CASE UNCHANGED interrupted
           /\ stream' = [stream EXCEPT ![r] = Append(@, Line("rest", log, text))]
  <2>1. stream'[r] = Append(stream[r], Line("rest", log, text))
    BY <1>2, <1>5
  <2>2. /\ \A i \in DOMAIN stream'[r] : Paired(stream'[r], i, interrupted[r])
        /\ stream'[r] # <<>> /\ stream'[r][Len(stream'[r])].kind = "rest"
    <3>1. \A i \in DOMAIN stream[r] : Paired(stream[r], i, interrupted[r])
      BY <1>2 DEF HalvesOf
    <3>2. stream[r] # <<>> /\ stream[r][Len(stream[r])] = Line("first", log, text)
      BY DEF isLast
    <3> QED  BY <1>1, <1>2, <2>1, <3>1, <3>2, AppendRest
  <2> QED  BY <1>5, <2>2 DEF HalvesOf, HalfAtEnd
<1> QED  BY <1>3, <1>4, <1>5 DEF sendRest

\* A send concerns one stream.
LEMMA OtherStreams ==
  ASSUME RunInv, NEW r \in Requests, NEW log, NEW text,
         sendFirst(r, log, text) \/ sendRest(r, log, text), NEW q \in Requests \ {r}
  PROVE  stream'[q] = stream[q] /\ interrupted'[q] = interrupted[q] /\ gone' = gone
BY StreamTypes DEF sendFirst, sendRest

\* Tools keep the order of the stream.
LEMMA StreamStep ==
  ASSUME ProcessInv, RunInv, NEW p \in Procs, Tool(p), NEW r \in Requests
  PROVE  StreamInv(r)' /\ HalvesOf(r)'
<1>1. /\ RunTypeOK /\ p \in AllTools /\ p[1] \in Requests /\ SendingInv(p)
      /\ stage \in [Requests -> Stages] /\ sending \in [AllTools -> BOOLEAN]
  BY Tools, RunTypes DEF RunInv
<1>2. /\ stage[p[1]] = "tools" /\ UNCHANGED <<gone, captured>>
      /\ stage' = stage \/ stage' = [stage EXCEPT ![p[1]] = "died"]
      /\ \A q \in Procs \ {p} : sending'[q] = sending[q] /\ logOutput'[q] = logOutput[q]
  BY <1>1, ToolFrame, OthersKeepStep, Tools
<1>3. stage'[r] = "sending" <=> stage[r] = "sending"
  BY <1>1, <1>2
<1>4. stage'[r] = "sending" => r # p[1]
  BY <1>1, <1>2
<1> SUFFICES /\ HalvesOf(r)'
             /\ \A q \in Senders(r)' : isLast(r, logOutput[q].of, logOutput[q].text)'
             /\ stage'[r] = "sending" => isLast(r, <<SA(r), 1>>, captured[r].out)'
             /\ HalfAtEnd(r)' => gone'[r] \/ interrupted'[r] \/ stage'[r] = "sending" \/ Senders(r)' # {}
  BY DEF StreamInv, isLast, HalfAtEnd
<1>5. CASE stream'[r] = stream[r] /\ interrupted'[r] = interrupted[r] /\ Senders(r)' = Senders(r)
           /\ \A q \in Senders(r) : logOutput'[q] = logOutput[q]
  <2>1. HalvesOf(r)' /\ (HalfAtEnd(r)' <=> HalfAtEnd(r))
    BY <1>5, StreamTypes DEF HalvesOf, HalfAtEnd
  <2>2. \A q \in Senders(r)' : isLast(r, logOutput[q].of, logOutput[q].text)'
    BY <1>5, StreamTypes, ZenonT(40) DEF isLast
  <2>3. stage'[r] = "sending" => isLast(r, <<SA(r), 1>>, captured[r].out)'
    BY <1>2, <1>3, <1>5, StreamTypes DEF isLast
  <2>4. HalfAtEnd(r)' => gone'[r] \/ interrupted'[r] \/ stage'[r] = "sending" \/ Senders(r)' # {}
    BY <1>2, <1>3, <1>5, <2>1, StreamTypes
  <2> QED  BY <2>1, <2>2, <2>3, <2>4
<1>6. CASE ~(Send(p) \/ SendRest(p))
  <2>1. UNCHANGED <<stream, interrupted>>
    BY <1>6 DEF Tool, StartTool, Process, Report, SendFails, Catch, ipcVars
  <2>2. sending'[p] = sending[p] /\ (sending[p] => logOutput'[p] = logOutput[p])
    <3>1. CASE StartTool(p)
      BY <3>1 DEF StartTool, CreateLog, toolVars
    <3>2. CASE Process(p)
      <4>1. ~sending[p]
        BY <1>1, <3>2 DEF Process, Execute, Fork, Wait, captureLogs, cleanup, Exec, Prints, Exit, moves,
           SendingInv, ProcessInv, ChildIsWaitedFor
      <4> QED  BY <3>2, <4>1 DEF Process, toolVars
    <3>3. CASE Report(p) \/ SendFails(p) \/ Catch(p)
      <4>1. sending[p] = FALSE
        BY <1>1, <3>3 DEF Report, SendFails, Catch, SendingInv
      <4>2. sending'[p] = FALSE
        BY <1>1, <3>3, <4>1 DEF Report, SendFails, Catch, return, toolVars
      <4> QED  BY <4>1, <4>2
    <3> QED  BY <1>6, <3>1, <3>2, <3>3 DEF Tool
  <2>3. Senders(r)' = Senders(r)
    BY <1>2, <2>2 DEF Senders
  <2>4. \A q \in Senders(r) : logOutput'[q] = logOutput[q]
    BY <1>2, <2>2 DEF Senders
  <2> QED  BY <1>5, <2>1, <2>3, <2>4
<1>7. Writes(p) => \A q \in Senders(p[1]) : q = p
  BY Tools DEF Senders, RunInv, SendingInv, Writes
<1>8. CASE r # p[1] /\ (Send(p) \/ SendRest(p))
  <2>1. stream'[r] = stream[r] /\ interrupted'[r] = interrupted[r]
    BY <1>1, <1>8, OtherStreams DEF Send, SendRest
  <2>2. Senders(r)' = Senders(r) /\ \A q \in Senders(r) : logOutput'[q] = logOutput[q]
    BY <1>2, <1>8 DEF Senders
  <2> QED  BY <1>5, <2>1, <2>2
<1>9. CASE r = p[1] /\ Send(p)
  <2>1. step[p] = "finished" /\ Writes(p) /\ ~sending[p] /\ sendFirst(r, logOutput[p].of, logOutput[p].text)
    BY <1>9 DEF Send
  <2>2. Senders(r) = {}
    BY <1>7, <1>9, <2>1 DEF Senders
  <2>3. CASE logOutput[p].text = Nothing
    <3>1. UNCHANGED <<stream, interrupted>> /\ sending'[p] = FALSE
      BY <1>1, <1>9, <2>1, <2>3 DEF Send, sendFirst, return
    <3>2. Senders(r)' = {}
      BY <1>2, <2>2, <3>1 DEF Senders
    <3> QED  BY <1>5, <2>2, <3>1, <3>2
  <2>4. CASE logOutput[p].text # Nothing
    <3>1. sending' = [sending EXCEPT ![p] = TRUE] /\ logOutput' = logOutput
      BY <1>9, <2>4 DEF Send, processVars, objectVars
    <3>2. Senders(r)' = {p}
      BY <1>1, <1>2, <1>9, <2>2, <3>1 DEF Senders
    <3>3. HalvesOf(r)' /\ isLast(r, logOutput[p].of, logOutput[p].text)'
      <4>1. logOutput[p].of \in AllTools \X Nat /\ logOutput[p].text \in Outputs \ {Nothing}
        BY <2>1, <2>4, OutputType
      <4>2. stage[r] # "sending"
        BY <1>2, <1>9
      <4> QED  BY <2>1, <2>2, <3>1, <4>1, <4>2, StreamFirst DEF isLast
    <3> QED  BY <1>4, <1>9, <3>2, <3>3
  <2> QED  BY <2>3, <2>4
<1>10. CASE r = p[1] /\ SendRest(p)
  <2>1. sending[p] /\ Writes(p) /\ step[p] = "finished" /\ p \in Senders(r)
    BY <1>1, <1>10 DEF SendRest, SendingInv, Senders
  <2>2. isLast(r, logOutput[p].of, logOutput[p].text)
    BY <2>1, StreamTypes
  <2>3. HalvesOf(r)' /\ (HalfAtEnd(r)' => gone'[r] \/ interrupted'[r])
    BY <1>10, <2>1, <2>2, OutputType, StreamRest DEF SendRest
  <2>4. sending'[p] = FALSE
    BY <1>1, <1>10 DEF SendRest, return
  <2>5. Senders(r)' = {}
    BY <1>2, <1>7, <1>10, <2>1, <2>4 DEF Senders
  <2> QED  BY <1>4, <1>10, <2>3, <2>5
<1> QED  BY <1>6, <1>8, <1>9, <1>10

\* So do runs.
LEMMA StreamRun ==
  ASSUME ProcessInv, RunInv, NEW q \in Requests, Run(q) \/ PeerLeaves(q), NEW r \in Requests
  PROVE  StreamInv(r)' /\ HalvesOf(r)'
<1>1. RunTypeOK /\ StageInv(q) /\ stage \in [Requests -> Stages]
  BY RunTypes DEF RunInv
<1>2. Senders(r)' = Senders(r) /\ logOutput' = logOutput
  BY RunFrame DEF RunInv, Senders, processVars, objectVars
<1>3. Senders(r) # {} => stage[r] = "tools"
  BY DEF Senders, RunInv, SendingInv
<1> SUFFICES /\ HalvesOf(r)'
             /\ \A p \in Senders(r)' : isLast(r, logOutput[p].of, logOutput[p].text)'
             /\ stage'[r] = "sending" => isLast(r, <<SA(r), 1>>, captured[r].out)'
             /\ HalfAtEnd(r)' => gone'[r] \/ interrupted'[r] \/ stage'[r] = "sending" \/ Senders(r)' # {}
  BY DEF StreamInv, isLast, HalfAtEnd
<1>4. CASE /\ stream'[r] = stream[r] /\ interrupted'[r] = interrupted[r]
           /\ stage'[r] = "sending" => stage[r] = "sending" /\ captured'[r] = captured[r]
           /\ gone[r] => gone'[r]
           /\ stage[r] = "sending" => stage'[r] = "sending" \/ gone'[r]
  BY <1>2, <1>4, StreamTypes DEF HalvesOf, isLast, HalfAtEnd
<1>5. CASE r # q
  <2>1. stage'[r] = stage[r] /\ captured'[r] = captured[r] /\ gone'[r] = gone[r]
    BY <1>5, RunFrame DEF RunInv
  <2>2. stream'[r] = stream[r] /\ interrupted'[r] = interrupted[r]
    <3>1. UNCHANGED <<stream, interrupted>> \/ DeliverToPeer(q) \/ DeliverRest(q)
      BY DEF Run, ConstructInvoker, NoAnalysisSelected, ResolveSources, WithoutAnalyzer,
         StartAnalyzer, RunAnalyzer, Deliver, Summarise, Answer, PeerLeaves, ipcVars
    <3>2. CASE DeliverToPeer(q) \/ DeliverRest(q)
      BY <1>5, <3>2, OtherStreams DEF DeliverToPeer, DeliverRest
    <3> QED  BY <3>1, <3>2
  <2> QED  BY <1>4, <2>1, <2>2
<1>6. CASE r = q /\ ~(DeliverToPeer(q) \/ DeliverRest(q))
  <2>1. UNCHANGED <<stream, interrupted>>
    BY <1>6 DEF Run, ConstructInvoker, NoAnalysisSelected, ResolveSources, WithoutAnalyzer,
       StartAnalyzer, RunAnalyzer, Deliver, Summarise, Answer, PeerLeaves, ipcVars
  <2>2. gone[r] => gone'[r]
    BY <1>1, <1>6 DEF Run, ConstructInvoker, NoAnalysisSelected, ResolveSources, WithoutAnalyzer,
       StartAnalyzer, RunAnalyzer, Deliver, Summarise, Answer, PeerLeaves, ipcVars
  <2>3. PeerLeaves(q) \/ (stage[r] # "sending" /\ stage'[r] # "sending")
    BY <1>1, <1>6 DEF Run, ConstructInvoker, NoAnalysisSelected, ResolveSources, WithoutAnalyzer,
       StartAnalyzer, RunAnalyzer, Deliver, Summarise, Answer, ToolsDone, goto, Throw
  <2>4. PeerLeaves(q) => UNCHANGED <<stage, captured>>
    BY DEF PeerLeaves, analyzerVars
  <2> QED  BY <1>4, <2>1, <2>2, <2>3, <2>4
<1>7. CASE r = q /\ DeliverToPeer(q)
  <2>1. stage[r] = "deliver" /\ Senders(r) = {} /\ UNCHANGED captured
    BY <1>3, <1>7 DEF DeliverToPeer, analyzerVars
  <2>2. <<SA(r), 1>> \in AllTools \X Nat /\ captured[r].out \in Outputs \ {Nothing}
    <3>1. captured[r].out \in Outputs /\ SA(r) \in AllTools
      BY <1>1, <1>7, <2>1, CapturesAreOutputs, Tools
    <3>2. captured[r] # NotEnabled
      BY <1>7 DEF DeliverToPeer, WritesReport, IsEmpty, NotEnabled, Silence
    <3>3. captured[r] = Streams(printed[r]) /\ printed[r] \in AnalyzerPrints
      BY <1>1, <1>7, <2>1, <3>2 DEF StageInv
    <3>4. captured[r].out # Nothing
      BY <3>3 DEF Streams
    <3> QED  BY <3>1, <3>4
  <2>3. CASE sendFirst(r, <<SA(r), 1>>, captured[r].out) /\ goto(r, "sending")
    <3>1. HalvesOf(r)' /\ isLast(r, <<SA(r), 1>>, captured[r].out)'
      BY <2>1, <2>2, <2>3, StreamFirst DEF isLast
    <3>2. stage'[r] = "sending"
      BY <1>1, <2>3 DEF goto
    <3> QED  BY <1>2, <2>1, <3>1, <3>2
  <2>4. CASE gone[r] /\ Throw(r) /\ gone' = gone /\ interrupted' = interrupted /\ stream' = stream
    <3>1. stage'[r] # "sending"
      BY <1>1, <2>4 DEF Throw, goto
    <3> QED  BY <1>4, <2>1, <2>4, <3>1
  <2>5. \/ sendFirst(r, <<SA(r), 1>>, captured[r].out) /\ goto(r, "sending")
        \/ gone[r] /\ Throw(r) /\ gone' = gone /\ interrupted' = interrupted /\ stream' = stream
    BY ONLY <1>7 DEF DeliverToPeer
  <2> QED  BY <2>3, <2>4, <2>5
<1>8. CASE r = q /\ DeliverRest(q)
  <2>1. stage[r] = "sending" /\ stage'[r] = "summarise" /\ Senders(r) = {}
    BY <1>1, <1>3, <1>8 DEF DeliverRest, goto
  <2>2. <<SA(r), 1>> \in AllTools \X Nat /\ captured[r].out \in Outputs
    BY <1>1, <1>8, <2>1, CapturesAreOutputs, Tools
  <2>3. HalvesOf(r)' /\ (HalfAtEnd(r)' => gone'[r] \/ interrupted'[r])
    BY <1>8, <2>1, <2>2, StreamTypes, StreamRest DEF DeliverRest
  <2> QED  BY <1>2, <2>1, <2>3
<1> QED  BY <1>5, <1>6, <1>7, <1>8

-----------------------------------------------------------------------------
(***************************************************************************)
(* The theorems.                                                           *)
(***************************************************************************)
LEMMA InitRunInv == Init => RunInv
<1> SUFFICES ASSUME Init  PROVE RunInv
  OBVIOUS
<1>1. RunTypeOK
  BY DEF Init, RunTypeOK, Stages, Ends
<1>2. \A p \in Procs : BusyInv(p) /\ SendingInv(p)
  BY Tools DEF Init, ProcessInit, BusyInv, SendingInv
<1>3. \A p \in Procs : LinesInv(p)
  BY Tools DEF Init, LinesInv, ToSet
<1>4. \A r \in Requests : stage[r] \in {"absent", "begin"} /\ (stage[r] # "absent" => load[r] # None)
                          /\ socket[r] = "none" /\ sources[r] = <<>> /\ stream[r] = <<>>
  BY DEF Init
<1>5. \A r \in Requests : StageInv(r)
  BY <1>4 DEF StageInv, Ends
<1>6. \A r \in Requests : StreamInv(r)
  <2>1. \A r \in Requests : Senders(r) = {}
    BY Tools DEF Init, Senders
  <2> QED  BY <1>4, <2>1 DEF StreamInv
<1>7. NamesInv /\ LeftInv
  BY DEF Init, ProcessInit, NamesInv, LeftInv
<1>8. PeerStreamIntact /\ FailuresContained
  BY <1>4 DEF PeerStreamIntact, FailuresContained
<1>9. sources = [r \in Requests |-> sources[r]]
  BY DEF Init
<1> QED  BY <1>1, <1>2, <1>3, <1>5, <1>6, <1>7, <1>8, <1>9 DEF RunInv

\* When nothing changes the invariant stays.
LEMMA StutterInv ==
  ASSUME RunInv, UNCHANGED vars
  PROVE  RunInv'
<1> USE DEF vars, processVars, objectVars, toolVars, ipcVars, analyzerVars
<1>1. RunTypeOK' /\ sources' = [r \in Requests |-> sources'[r]]
  BY DEF RunInv, RunTypeOK
<1>2. \A p \in Procs : BusyInv(p)' /\ SendingInv(p)' /\ LinesInv(p)'
  BY DEF RunInv, BusyInv, SendingInv, LinesInv, Children, Writes, standardIO
<1>3. \A r \in Requests : StageInv(r)' /\ StreamInv(r)'
  BY DEF RunInv, StageInv, StreamInv, Senders
<1>4. NamesInv' /\ LeftInv'
  BY DEF RunInv, NamesInv, LeftInv, LogIsLeft, own
<1>5. PeerStreamIntact' /\ FailuresContained'
  BY DEF RunInv, PeerStreamIntact, FailuresContained, Children, standardIO
<1> QED  BY <1>1, <1>2, <1>3, <1>4, <1>5 DEF RunInv

LEMMA NextRunInv ==
  ASSUME ProcessInv, RunInv, [Next]_vars
  PROVE  RunInv'
<1>1. CASE \E p \in Procs : Tool(p)
  <2>1. PICK p \in Procs : Tool(p)
    BY <1>1
  <2>2. RunTypeOK' /\ sources' = [r \in Requests |-> sources'[r]]
    BY <2>1, ToolType, ToolFrame DEF RunInv
  <2>3. \A q \in Procs : BusyInv(q)' /\ SendingInv(q)' /\ LinesInv(q)'
    BY <2>1, BusyStep, LinesStep
  <2>4. \A r \in Requests : StageInv(r)' /\ StreamInv(r)' /\ HalvesOf(r)'
    BY <2>1, StageStep, StreamStep
  <2>5. NamesInv' /\ LeftInv' /\ FailuresContained'
    BY <2>1, NamesStep, LeftStep, FailureStep DEF RunInv
  <2> QED  BY <2>2, <2>3, <2>4, <2>5 DEF RunInv, PeerStreamIntact, HalvesOf
<1>2. CASE \E r \in Requests : Run(r) \/ PeerLeaves(r)
  <2>1. PICK r \in Requests : Run(r) \/ PeerLeaves(r)
    BY <1>2
  <2>2. RunTypeOK'
    BY <2>1, RunType DEF RunInv
  <2>3. \A q \in Requests : StageInv(q)' /\ sources' = [s \in Requests |-> sources'[s]]
    BY <2>1, StageRun
  <2>4. \A p \in Procs : BusyInv(p)' /\ SendingInv(p)' /\ LinesInv(p)'
    BY <2>1, BusyRun, LeftRun
  <2>5. \A q \in Requests : StreamInv(q)' /\ HalvesOf(q)'
    BY <2>1, StreamRun
  <2>6. NamesInv' /\ LeftInv' /\ FailuresContained'
    BY <2>1, LeftRun, FailureRun
  <2> QED
    BY <2>1, <2>2, <2>3, <2>4, <2>5, <2>6 DEF RunInv, PeerStreamIntact, HalvesOf
<1>3. CASE Ended \/ UNCHANGED vars
  BY <1>3, StutterInv DEF Ended
<1> QED  BY <1>1, <1>2, <1>3 DEF Next

\* The invariant holds in every reachable state.
THEOREM RunInvariance == Spec => [](ProcessInv /\ RunInv)
<1>1. Spec => []ProcessInv
  BY ProcessRefinement, ProcessInvariance, PTL
<1>2. ProcessInv /\ RunInv /\ [Next]_vars => RunInv'
  BY NextRunInv
<1> QED  BY <1>1, <1>2, InitRunInv, PTL DEF Spec

\* The halves of a message arrive next to each other, although several
\* tools write to the stream; one is missing only at the end or after a
\* signal.
THEOREM StreamIntact == Spec => []PeerStreamIntact
<1>1. RunInv => PeerStreamIntact
  BY DEF RunInv
<1> QED  BY <1>1, RunInvariance, PTL

\* A request fails as a whole only because of the socket, the analyzer or
\* text that is not UTF-8.
THEOREM FailuresStayContained == Spec => []FailuresContained
<1>1. RunInv => FailuresContained
  BY DEF RunInv
<1> QED  BY <1>1, RunInvariance, PTL

\* No run leaves a log, a child or an open socket behind, but for the log of
\* an execution that failed.
THEOREM NothingIsLeft == Spec => []NothingLeftBehind
<1>1. ProcessInv /\ RunInv => NothingLeftBehind
  <2> SUFFICES ASSUME ProcessInv, RunInv  PROVE NothingLeftBehind
    OBVIOUS
  <2>1. \A l \in LogNames : tmp[l] # None => LogIsLeft(tmp[l])
    BY DEF RunInv, LeftInv
  <2>2. ASSUME NEW r \in Requests, stage[r] \in Ends \ {"died"}
        PROVE  /\ socket[r] # "open"
               /\ \A t \in ChildTools : step[<<r, t>>] = "idle" /\ child[<<r, t>>] = "none"
    <3>1. socket[r] # "open"
      BY <2>2 DEF RunInv, StageInv
    <3>2. ASSUME NEW t \in ChildTools  PROVE step[<<r, t>>] = "idle" /\ child[<<r, t>>] = "none"
      <4>1. <<r, t>> \in Procs /\ BusyInv(<<r, t>>)
        BY DEF RunInv
      <4>2. step[<<r, t>>] = "idle"
        BY <2>2, <4>1 DEF BusyInv, Ends
      <4> QED  BY <4>1, <4>2 DEF ProcessInv, ChildIsWaitedFor
    <3> QED  BY <3>1, <3>2
  <2> QED  BY <2>1, <2>2 DEF NothingLeftBehind
<1> QED  BY <1>1, RunInvariance, PTL


-----------------------------------------------------------------------------
(***************************************************************************)
(* What tools have said and sent.                                          *)
(***************************************************************************)

\* t goes on from s with lines about one log.
Longer(s, t, log) ==
  /\ DOMAIN s \subseteq DOMAIN t
  /\ \A k \in DOMAIN s : t[k] = s[k]
  /\ \A m \in DOMAIN t \ DOMAIN s : t[m].log = log /\ \A k \in DOMAIN s : k < m

LEMMA SameIsLonger ==
  ASSUME NEW s, NEW log
  PROVE  Longer(s, s, log)
BY DEF Longer

LEMMA ConcatenatedIsLonger ==
  ASSUME NEW S, NEW s \in Seq(S), NEW t \in Seq(S), NEW log, \A k \in 1..Len(t) : t[k].log = log
  PROVE  /\ Longer(s, s \o t, log)
         /\ \A m \in DOMAIN (s \o t) \ DOMAIN s : m - Len(s) \in 1..Len(t) /\ m = Len(s) + (m - Len(s))
         /\ \A k \in 1..Len(t) : /\ Len(s) + k \in DOMAIN (s \o t) \ DOMAIN s
                                 /\ (s \o t)[Len(s) + k] = t[k]
<1>1. DOMAIN s = 1..Len(s) /\ DOMAIN t = 1..Len(t) /\ Len(s) \in Nat /\ Len(t) \in Nat
  OBVIOUS
<1>2. DOMAIN (s \o t) = 1..(Len(s) + Len(t))
  OBVIOUS
<1>3. \A k \in DOMAIN s : (s \o t)[k] = s[k]
  BY <1>1, <1>2
<1>4. \A k \in 1..Len(t) : (s \o t)[Len(s) + k] = t[k]
  BY <1>1, <1>2
<1>5. ASSUME NEW m \in DOMAIN (s \o t) \ DOMAIN s
      PROVE  m - Len(s) \in 1..Len(t) /\ m = Len(s) + (m - Len(s))
  BY <1>1, <1>2
<1>6. \A k \in 1..Len(t) : Len(s) + k \in DOMAIN (s \o t) \ DOMAIN s
  BY <1>1, <1>2
<1>7. ASSUME NEW m \in DOMAIN (s \o t) \ DOMAIN s
      PROVE  (s \o t)[m].log = log /\ \A k \in DOMAIN s : k < m
  <2>1. PICK k \in 1..Len(t) : m = Len(s) + k
    BY <1>5
  <2> QED  BY <1>1, <1>4, <2>1
<1>8. Longer(s, s \o t, log)
  BY <1>1, <1>2, <1>3, <1>7 DEF Longer
<1> QED  BY <1>4, <1>5, <1>6, <1>8

LEMMA AppendedIsLonger ==
  ASSUME NEW S, NEW s \in Seq(S), NEW m \in S
  PROVE  /\ Longer(s, Append(s, m), m.log)
         /\ DOMAIN Append(s, m) \ DOMAIN s = {Len(s) + 1}
         /\ Append(s, m)[Len(s) + 1] = m
<1>1. DOMAIN s = 1..Len(s) /\ Len(s) \in Nat /\ DOMAIN Append(s, m) = 1..(Len(s) + 1)
  OBVIOUS
<1>2. \A k \in DOMAIN s : Append(s, m)[k] = s[k]
  OBVIOUS
<1>3. Append(s, m)[Len(s) + 1] = m
  OBVIOUS
<1>4. DOMAIN Append(s, m) \ DOMAIN s = {Len(s) + 1}
  BY <1>1
<1> HIDE <1>4
<1>5. \A k \in DOMAIN s : k < Len(s) + 1
  BY <1>1
<1> QED  BY <1>1, <1>2, <1>3, <1>4, <1>5 DEF Longer

\* Messages about other logs are not touched.
LEMMA OtherMessages ==
  ASSUME NEW q, NEW i, NEW mark, mark # <<q, i>>, Longer(stream[q[1]], stream'[q[1]], mark)
  PROVE  /\ sentAbout(q, i)' = sentAbout(q, i)
         /\ \A k \in sentAbout(q, i) : stream'[q[1]][k] = stream[q[1]][k]
<1>1. ASSUME NEW k \in sentAbout(q, i)
      PROVE  k \in sentAbout(q, i)' /\ stream'[q[1]][k] = stream[q[1]][k]
  BY DEF sentAbout, Longer
<1>2. ASSUME NEW k \in sentAbout(q, i)'  PROVE k \in sentAbout(q, i)
  BY DEF sentAbout, Longer
<1> QED  BY <1>1, <1>2

\* What a tool has reported stays reported.
LEMMA ReportStays ==
  ASSUME NEW q \in Procs, NEW i, Reported(q, i), UNCHANGED load,
         NEW log, log # <<q, i>>, NEW mark, mark # <<q, i>>,
         Longer(lines[q], lines'[q], log), Longer(stream[q[1]], stream'[q[1]], mark),
         written'[<<q, i>>] = written[<<q, i>>]
  PROVE  Reported(q, i)'
<1>1. ASSUME NEW kind \in {"out", "err"}
      PROVE  /\ saidAbout(q, i, kind)' = saidAbout(q, i, kind)
             /\ \A k \in saidAbout(q, i, kind) : lines'[q][k] = lines[q][k]
  <2>1. ASSUME NEW k \in saidAbout(q, i, kind)
        PROVE  k \in saidAbout(q, i, kind)' /\ lines'[q][k] = lines[q][k]
    BY DEF saidAbout, Longer
  <2>2. ASSUME NEW k \in saidAbout(q, i, kind)'  PROVE k \in saidAbout(q, i, kind)
    BY DEF saidAbout, Longer
  <2> QED  BY <2>1, <2>2
<1>2. sentAbout(q, i)' = sentAbout(q, i)
  BY OtherMessages
<1>3. \A k \in sentAbout(q, i) : stream'[q[1]][k] = stream[q[1]][k]
  BY OtherMessages
<1>4. Writes(q)' = Writes(q)
  BY DEF Writes, standardIO
<1> QED  BY <1>1, <1>2, <1>3, <1>4 DEF Reported, AtMostOne

\* So does the rest of what is known of a tool that neither returns nor
\* begins to send.
LEMMA WorkFrame ==
  ASSUME NEW q \in Procs, WorkInv(q), UNCHANGED load,
         lines'[q] = lines[q], finished'[q] = finished[q], sending'[q] = sending[q],
         finished[q] \in Nat, finished[q] <= Len(sources'[q[1]]),
         runs'[q] = finished[q] + (IF step'[q] = "idle" THEN 0 ELSE 1),
         \A i \in 1..finished[q] : written'[<<q, i>>] = written[<<q, i>>],
         sending[q] => runs'[q] = runs[q] /\ written'[own(q)] = written[own(q)],
         NEW mark, mark[1] # q, Longer(stream[q[1]], stream'[q[1]], mark)
  PROVE  WorkInv(q)'
<1>1. runs'[q] = finished'[q] + (IF step'[q] = "idle" THEN 0 ELSE 1)
      /\ finished'[q] <= Len(sources'[q[1]])
  OBVIOUS
<1>2. FileByFile(q, finished[q])'
  BY DEF WorkInv, FileByFile
<1>3. ASSUME NEW i \in 1..finished'[q]  PROVE Reported(q, i)'
  <2>1. i \in 1..finished[q] /\ Reported(q, i) /\ mark # <<q, i>> /\ <<q, 0>> # <<q, i>>
    BY <1>3 DEF WorkInv
  <2> QED  BY <2>1, ReportStays, SameIsLonger
<1>4. ASSUME NEW k \in DOMAIN stream'[q[1]], stream'[q[1]][k].log[1] = q
      PROVE  \/ stream'[q[1]][k].log[2] \in 1..finished'[q]
             \/ sending'[q] /\ stream'[q[1]][k].log = own(q)'
  <2>1. k \in DOMAIN stream[q[1]] /\ stream'[q[1]][k] = stream[q[1]][k]
    BY <1>4 DEF Longer
  <2> QED  BY <1>4, <2>1 DEF WorkInv, own
<1>5. ASSUME sending'[q]
      PROVE  /\ sentAbout(q, runs[q])' # {} /\ AtMostOne(sentAbout(q, runs[q]))'
             /\ \A k \in sentAbout(q, runs[q])' : stream'[q[1]][k].text = AsRead[written'[own(q)']]
  <2>1. PICK i : i = runs[q]
    OBVIOUS
  <2>2. i = runs'[q] /\ own(q) = <<q, i>> /\ own(q)' = <<q, i>> /\ mark # <<q, i>>
    BY <1>5, <2>1 DEF own
  <2>3. sentAbout(q, i) # {} /\ AtMostOne(sentAbout(q, i))
        /\ \A k \in sentAbout(q, i) : stream[q[1]][k].text = AsRead[written[<<q, i>>]]
    BY <1>5, <2>1, <2>2 DEF WorkInv
  <2>4. sentAbout(q, i)' = sentAbout(q, i)
        /\ \A k \in sentAbout(q, i) : stream'[q[1]][k] = stream[q[1]][k]
    BY <2>2, OtherMessages, ZenonT(40)
  <2>5. sentAbout(q, runs[q])' = sentAbout(q, i)'
    BY <2>2 DEF sentAbout
  <2>6. written'[<<q, i>>] = written[<<q, i>>]
    BY <1>5, <2>2
  <2> QED  BY <2>2, <2>3, <2>4, <2>5, <2>6 DEF AtMostOne
<1> QED  BY <1>1, <1>2, <1>3, <1>4, <1>5 DEF WorkInv, FileByFile

\* A tool writes about the run it is in, to the log of its own child, and
\* only while it waits for it.
LEMMA ToolWrites ==
  ASSUME ProcessInv, NEW p \in Procs, Tool(p)
  PROVE  /\ \A g \in Log : g # own(p) => written'[g] = written[g]
         /\ step[p] # "waiting" => UNCHANGED written
<1>1. UNCHANGED written \/ (child[p] = "running" /\ \E t : written' = [written EXCEPT ![own(p)] = t])
  <2>1. CASE Execute(p)
    BY <2>1 DEF Execute, Fork, Wait, captureLogs, cleanup, Exec, Prints, Exit
  <2>2. CASE CreateLog(p) \/ Dispose(p) \/ UNCHANGED processVars
    BY <2>2 DEF CreateLog, Dispose, processVars
  <2> QED  BY <2>1, <2>2, ToolMovesProcess
<1>2. DOMAIN written = Log /\ (child[p] = "running" => step[p] = "waiting")
  BY DEF ProcessInv, ProcessTypeOK, ChildIsWaitedFor
<1> QED  BY <1>1, <1>2

\* What a tool says and sends is about the process it executes.
LEMMA ToolLines ==
  ASSUME ProcessInv, RunInv, NEW p \in Procs, Tool(p)
  PROVE  Longer(lines[p], lines'[p], own(p))
<1> DEFINE L == LinesOf({"out", "err", "sarif"})
<1>1. /\ p \in AllTools /\ p[1] \in Requests /\ lines \in [AllTools -> Seq(L)]
      /\ own(p) \in AllTools \X Nat
  BY Tools DEF RunInv, RunTypeOK, own, ProcessInv, ProcessTypeOK
<1>2. error(p) \in L /\ error(p).log = own(p)
  BY <1>1 DEF error, Line, LinesOf, Outputs, Content
<1>3. ASSUME step[p] = "finished"
      PROVE  /\ output(p) \in L /\ output(p).log = own(p)
             /\ [output(p) EXCEPT !.kind = "sarif"] \in L
             /\ [output(p) EXCEPT !.kind = "sarif"].log = own(p)
  <2>1. logOutput[p] = [of |-> own(p), text |-> AsRead[written[own(p)]]]
        /\ logOutput[p].of \in AllTools \X Nat /\ logOutput[p].text \in Outputs
    BY <1>3, OutputType
  <2> DEFINE g == logOutput[p].of
             t == logOutput[p].text
  <2>2. g \in AllTools \X Nat /\ t \in Outputs /\ g = own(p)
    BY <2>1
  <2>3. output(p) = [kind |-> "out", log |-> g, text |-> t]
    BY DEF output, Line
  <2> HIDE DEF g, t
  <2> QED  BY <2>2, <2>3 DEF LinesOf
<1> HIDE DEF L
<1>4. ASSUME NEW said \in Seq(L), \A k \in 1..Len(said) : said[k].log = own(p), say(p, said)
      PROVE  Longer(lines[p], lines'[p], own(p))
  <2>1. lines'[p] = lines[p] \o said /\ lines[p] \in Seq(L)
    BY <1>1, <1>4 DEF say
  <2> QED  BY <1>4, <2>1, ConcatenatedIsLonger
<1>5. ASSUME NEW l \in L, l.log = own(p), say(p, <<l>>)
      PROVE  Longer(lines[p], lines'[p], own(p))
  <2>1. <<l>> \in Seq(L) /\ \A k \in 1..Len(<<l>>) : <<l>>[k].log = own(p)
    BY <1>5
  <2> QED  BY <1>4, <1>5, <2>1
<1>6. ASSUME NEW l \in L, l.log = own(p), NEW m \in L, m.log = own(p), say(p, <<l, m>>)
      PROVE  Longer(lines[p], lines'[p], own(p))
  <2>1. <<l, m>> \in Seq(L) /\ \A k \in 1..Len(<<l, m>>) : <<l, m>>[k].log = own(p)
    BY <1>6
  <2> QED  BY <1>4, <1>6, <2>1
<1>7. CASE UNCHANGED lines  BY <1>7, SameIsLonger
<1>8. CASE Report(p)
  <2>1. \/ say(p, <<output(p), [output(p) EXCEPT !.kind = "sarif"]>>)
        \/ say(p, <<output(p), error(p)>>) \/ say(p, <<output(p)>>)
    BY <1>8 DEF Report
  <2>2. step[p] = "finished"
    BY <1>8 DEF Report
  <2> QED  BY <1>2, <1>3, <1>5, <1>6, <2>1, <2>2
<1>9. CASE say(p, <<error(p)>>)  BY <1>2, <1>5, <1>9
<1> QED
  <2>1. UNCHANGED lines \/ Report(p) \/ say(p, <<error(p)>>)
    BY DEF Tool, StartTool, Process, Send, SendRest, SendFails, Catch, toolVars
  <2> QED  BY <1>7, <1>8, <1>9, <2>1

\* A stream goes on with a message or without one.
LEMMA SendLengthens ==
  ASSUME RunInv, NEW r \in Requests, NEW log \in AllTools \X Nat, NEW text \in Outputs,
         sendFirst(r, log, text) \/ sendRest(r, log, text), NEW s \in Requests
  PROVE  Longer(stream[s], stream'[s], log)
<1> DEFINE M == LinesOf({"first", "rest"})
<1>1. stream \in [Requests -> Seq(M)]
  BY StreamTypes
<1>2. /\ Line("first", log, text) \in M /\ Line("first", log, text).log = log
      /\ Line("rest", log, text) \in M /\ Line("rest", log, text).log = log
  BY DEF Line, LinesOf
<1> HIDE DEF M
<1>3. \/ stream'[s] = stream[s]
      \/ stream'[s] = Append(stream[s], Line("first", log, text))
      \/ stream'[s] = Append(stream[s], Line("rest", log, text))
  BY <1>1 DEF sendFirst, sendRest
<1>4. \A m \in M : m.log = log => Longer(stream[s], Append(stream[s], m), log)
  BY <1>1, AppendedIsLonger
<1>5. Longer(stream[s], stream[s], log)
  BY SameIsLonger
<1> QED
  <2>1. CASE stream'[s] = stream[s]  BY <1>5, <2>1
  <2>2. CASE stream'[s] = Append(stream[s], Line("first", log, text))
    BY <1>2, <1>4, <2>2
  <2>3. CASE stream'[s] = Append(stream[s], Line("rest", log, text))
    BY <1>2, <1>4, <2>3
  <2> QED  BY <1>3, <2>1, <2>2, <2>3

LEMMA ToolStreams ==
  ASSUME ProcessInv, RunInv, NEW p \in Procs, Tool(p), NEW r \in Requests
  PROVE  Longer(stream[r], stream'[r], own(p))
<1>1. CASE Send(p) \/ SendRest(p)
  <2>1. step[p] = "finished"
    BY <1>1 DEF Send, SendRest, RunInv, SendingInv
  <2>2. logOutput[p].of = own(p) /\ logOutput[p].of \in AllTools \X Nat /\ logOutput[p].text \in Outputs
    <3>1. logOutput[p] = [of |-> own(p), text |-> AsRead[written[own(p)]]]
          /\ logOutput[p].of \in AllTools \X Nat /\ logOutput[p].text \in Outputs
      BY <2>1, OutputType
    <3> QED  BY <3>1
  <2>3. p[1] \in Requests
    BY Tools
  <2> QED  BY <1>1, <2>2, <2>3, SendLengthens DEF Send, SendRest
<1>2. CASE UNCHANGED stream  BY <1>2, SameIsLonger
<1> QED
  BY <1>1, <1>2 DEF Tool, StartTool, Process, Report, SendFails, Catch, ipcVars

\* The sources are a list whatever has been resolved.
LEMMA SourcesAreList ==
  ASSUME RunInv, NEW r \in Requests, load[r] # None, SourcesInv(r)
  PROVE  IsList(sources[r])
<1>1. IsArray(load[r].input.files)
  BY DEF RunInv, RunTypeOK
<1> QED  BY <1>1, ResolvedMentionedOnce DEF SourcesInv, IsList

\* The work of one tool is not touched by the others.
LEMMA OthersWork ==
  ASSUME ProcessInv, RunInv, NEW p \in Procs, Tool(p), NEW q \in Procs \ {p}, WorkInv(q)
  PROVE  WorkInv(q)'
<1>1. /\ q \in AllTools /\ q[1] \in Requests /\ finished[q] \in Nat
      /\ runs \in [Procs -> 0..MaxRuns] /\ RunTypeOK
  BY Tools DEF RunInv, RunTypeOK, ProcessInv, ProcessTypeOK
<1>2. step'[q] = step[q] /\ runs'[q] = runs[q]
  BY OthersKeepStep
<1>3. /\ UNCHANGED <<load, sources>> /\ finished'[q] = finished[q] /\ sending'[q] = sending[q]
      /\ lines'[q] = lines[q]
  BY <1>1, ToolFrame
<1>4. runs[q] = finished[q] + (IF step[q] = "idle" THEN 0 ELSE 1) /\ finished[q] <= Len(sources[q[1]])
  BY DEF WorkInv
<1>5. own(p)[1] = p /\ own(q)[1] = q
  BY DEF own
<1>6. \A i \in 1..finished[q] : written'[<<q, i>>] = written[<<q, i>>]
  <2> SUFFICES ASSUME NEW i \in 1..finished[q]  PROVE written'[<<q, i>>] = written[<<q, i>>]
    OBVIOUS
  <2>1. <<q, i>> \in Log /\ <<q, i>> # own(p)
    <3>1. runs[q] \in 0..MaxRuns /\ i \in Nat /\ i <= runs[q] /\ i > 0
      BY <1>1, <1>4
    <3> QED  BY <1>5, <3>1 DEF Log
  <2> QED  BY <2>1, ToolWrites
<1>7. sending[q] => written'[own(q)] = written[own(q)]
  <2>1. ASSUME sending[q]  PROVE own(q) \in Log
    <3>1. step[q] = "finished"
      BY <2>1 DEF RunInv, SendingInv
    <3> QED  BY <3>1 DEF ProcessInv, PathInv, own, Log
  <2> QED  BY <1>5, <2>1, ToolWrites
<1>8. Longer(stream[q[1]], stream'[q[1]], own(p))
  BY <1>1, ToolStreams
<1> QED  BY <1>1, <1>2, <1>3, <1>4, <1>5, <1>6, <1>7, <1>8, WorkFrame

-----------------------------------------------------------------------------
(***************************************************************************)
(* The work of a tool.                                                     *)
(***************************************************************************)

\* Before it returns a tool has said nothing about the file it works on, and
\* sent something only when it is sending.
LEMMA NothingSaidYet ==
  ASSUME RunInv, NEW p \in Procs, WorkInv(p), NEW i, i = finished[p] + 1, step[p] # "idle"
  PROVE  /\ own(p) = <<p, i>> /\ runs[p] = i /\ i \in Nat \ {0}
         /\ \A kind : saidAbout(p, i, kind) = {}
         /\ ~sending[p] => sentAbout(p, i) = {}
<1>1. finished[p] \in Nat
  BY Tools DEF RunInv, RunTypeOK
<1>2. runs[p] = i /\ own(p) = <<p, i>>
  BY DEF WorkInv, own
<1>3. \A k \in DOMAIN lines[p] : lines[p][k].log # <<p, i>>
  <2>1. \A j \in 1..finished[p] : j # i
    BY <1>1
  <2> QED  BY <2>1 DEF WorkInv, FileByFile
<1>4. ASSUME ~sending[p], NEW k \in DOMAIN stream[p[1]], stream[p[1]][k].log = <<p, i>>  PROVE FALSE
  <2>1. stream[p[1]][k].log[1] = p /\ stream[p[1]][k].log[2] = i
    BY <1>4
  <2>2. i \in 1..finished[p]
    BY <1>4, <2>1 DEF WorkInv
  <2> QED  BY <1>1, <2>2
<1> QED  BY <1>1, <1>2, <1>3, <1>4 DEF saidAbout, sentAbout

\* A tool that reports its output or an error has reported on its file.
LEMMA SaidReports ==
  ASSUME RunInv, NEW p \in Procs, NEW i,
         NEW a \in LinesOf({"out", "err"}), a.log = <<p, i>>,
         a.kind = "out" => a.text = AsRead[written'[<<p, i>>]],
         NEW said,
         \/ said = <<a>>
         \/ a.kind = "out" /\ \E b \in LinesOf({"err", "sarif"}) : said = <<a, b>> /\ b.log = <<p, i>>,
         say(p, said),
         \A kind : saidAbout(p, i, kind) = {}, sentAbout(p, i)' = {}
  PROVE  Reported(p, i)'
<1> DEFINE L == LinesOf({"out", "err", "sarif"})
           n == Len(lines[p])
<1>1. p \in AllTools /\ lines \in [AllTools -> Seq(L)] /\ n \in Nat
  BY Tools DEF RunInv, RunTypeOK
<1>2. a \in L /\ \A b \in LinesOf({"err", "sarif"}) : b \in L /\ b.kind # "out"
  BY DEF LinesOf
<1> HIDE DEF L
<1>3. /\ said \in Seq(L) /\ said[1] = a /\ Len(said) \in {1, 2}
      /\ \A k \in 1..Len(said) : said[k].log = <<p, i>>
      /\ \A k \in 1..Len(said) : said[k].kind = "out" => k = 1
      /\ a.kind = "err" => Len(said) = 1
  <2>1. CASE said = <<a>>
    BY <1>2, <2>1
  <2>2. ASSUME NEW b \in LinesOf({"err", "sarif"}), said = <<a, b>>, b.log = <<p, i>>, a.kind = "out"
        PROVE  <1>3!:
    <3>1. b \in L /\ b.kind # "out" /\ a.kind # "err"
      BY <1>2, <2>2
    <3> QED  BY <1>2, <2>2, <3>1
  <2> QED  BY <2>1, <2>2
<1>4. lines'[p] = lines[p] \o said /\ lines[p] \in Seq(L)
  BY <1>1 DEF say
<1>10. PICK g : g = <<p, i>>
  OBVIOUS
<1>11. /\ Longer(lines[p], lines'[p], g)
       /\ \A m \in DOMAIN lines'[p] \ DOMAIN lines[p] : m - n \in 1..Len(said) /\ m = n + (m - n)
       /\ \A k \in 1..Len(said) : n + k \in DOMAIN lines'[p] /\ lines'[p][n + k] = said[k]
  <2>1. \A k \in 1..Len(said) : said[k].log = g
    BY <1>3, <1>10
  <2>2. /\ Longer(lines[p], lines[p] \o said, g)
        /\ \A m \in DOMAIN (lines[p] \o said) \ DOMAIN lines[p] :
             m - Len(lines[p]) \in 1..Len(said) /\ m = Len(lines[p]) + (m - Len(lines[p]))
        /\ \A k \in 1..Len(said) :
             /\ Len(lines[p]) + k \in DOMAIN (lines[p] \o said) \ DOMAIN lines[p]
             /\ (lines[p] \o said)[Len(lines[p]) + k] = said[k]
    BY <1>3, <1>4, <2>1, ConcatenatedIsLonger
  <2> QED  BY <1>4, <2>2
<1> HIDE DEF n
<1>5. ASSUME NEW kind
      PROVE  /\ \A m \in saidAbout(p, i, kind)' : /\ m - n \in 1..Len(said) /\ m = n + (m - n)
                                                  /\ said[m - n].kind = kind
             /\ \A k \in 1..Len(said) : said[k].kind = kind => n + k \in saidAbout(p, i, kind)'
             /\ \A k \in 1..Len(said) : lines'[p][n + k] = said[k]
  <2>1. ASSUME NEW m \in saidAbout(p, i, kind)'
        PROVE  m - n \in 1..Len(said) /\ m = n + (m - n) /\ said[m - n].kind = kind
    <3>1. saidAbout(p, i, kind) = {}
      OBVIOUS
    <3>2. m \in DOMAIN lines'[p] \ DOMAIN lines[p] /\ lines'[p][m].kind = kind
      BY <1>10, <1>11, <2>1, <3>1 DEF saidAbout, Longer
    <3> QED  BY <1>11, <3>2
  <2>2. ASSUME NEW k \in 1..Len(said), said[k].kind = kind  PROVE n + k \in saidAbout(p, i, kind)'
    BY <1>3, <1>11, <2>2 DEF saidAbout
  <2> QED  BY <1>11, <2>1, <2>2
<1>6. saidAbout(p, i, "out")' \subseteq {n + 1}
  BY <1>3, <1>5
<1>7. AtMostOne(saidAbout(p, i, "err"))'
  <2>1. \A k, m \in 1..Len(said) : said[k].kind = "err" /\ said[m].kind = "err" => k = m
    <3>1. a.kind \in {"out", "err"}
      BY DEF LinesOf
    <3> QED  BY <1>3, <3>1
  <2> QED  BY <1>5, <2>1 DEF AtMostOne
<1>8. ASSUME NEW k \in saidAbout(p, i, "out")'  PROVE lines'[p][k].text = AsRead[written'[<<p, i>>]]
  <2>1. k = n + 1 /\ 1 \in 1..Len(said)
    BY <1>3, <1>6
  <2>2. lines'[p][k] = a
    BY <1>3, <1>5, <2>1
  <2> QED  BY <2>2 DEF saidAbout
<1>9. saidAbout(p, i, a.kind)' # {} /\ a.kind \in {"out", "err"}
  <2>1. 1 \in 1..Len(said) /\ said[1].kind = a.kind
    BY <1>3
  <2>2. a.kind \in {"out", "err"}
    BY DEF LinesOf
  <2>3. n + 1 \in saidAbout(p, i, a.kind)'
    BY <1>5, <2>1
  <2> QED  BY <2>2, <2>3
<1> QED  BY <1>6, <1>7, <1>8, <1>9 DEF Reported, AtMostOne

\* A tool that returns has reported on the file.
LEMMA ReturnReports ==
  ASSUME ProcessInv, RunInv, NEW p \in Procs, Tool(p), return(p), WorkInv(p),
         NEW i, i = finished[p] + 1
  PROVE  Reported(p, i)' /\ step[p] # "idle" /\ UNCHANGED <<load, runs, written>>
<1>1. /\ p \in AllTools /\ p[1] \in Requests /\ RunTypeOK
      /\ lines \in [AllTools -> Seq(LinesOf({"out", "err", "sarif"}))]
  BY Tools DEF RunInv, RunTypeOK
<1>2. step[p] \in {"finished", "threw"} /\ UNCHANGED <<load, runs, written>>
  BY <1>1, ToolFrame DEF return, Dispose
<1> SUFFICES Reported(p, i)'
  BY <1>2
<1>3. /\ own(p) = <<p, i>> /\ runs[p] = i /\ i \in Nat \ {0}
      /\ \A kind : saidAbout(p, i, kind) = {}
      /\ ~sending[p] => sentAbout(p, i) = {}
  <2>1. step[p] # "idle"
    BY <1>2
  <2> QED  BY ONLY RunInv, p \in Procs, WorkInv(p), i = finished[p] + 1, <2>1, NothingSaidYet
<1>4. Writes(p)' = Writes(p)
  BY <1>2 DEF Writes, standardIO
<1>5. error(p) \in LinesOf({"out", "err"}) /\ error(p).log = <<p, i>> /\ error(p).kind = "err"
  <2>1. own(p) \in AllTools \X Nat
    BY <1>1, <1>3
  <2> QED  BY <1>3, <2>1 DEF error, Line, LinesOf, Outputs, Content
<1>6. ASSUME step[p] = "finished"
      PROVE  /\ logOutput[p].of = <<p, i>> /\ logOutput[p].text = AsRead[written[<<p, i>>]]
             /\ output(p) = [kind |-> "out", log |-> <<p, i>>, text |-> AsRead[written[<<p, i>>]]]
             /\ output(p) \in LinesOf({"out", "err"})
  <2>1. logOutput[p] = [of |-> own(p), text |-> AsRead[written[own(p)]]]
        /\ logOutput[p].of \in AllTools \X Nat /\ logOutput[p].text \in Outputs
    BY <1>6, OutputType
  <2>2. logOutput[p].of = <<p, i>> /\ logOutput[p].text = AsRead[written[<<p, i>>]]
        /\ <<p, i>> \in AllTools \X Nat /\ AsRead[written[<<p, i>>]] \in Outputs
    BY <1>3, <2>1
  <2>3. output(p) = [kind |-> "out", log |-> <<p, i>>, text |-> AsRead[written[<<p, i>>]]]
    BY <2>2 DEF output, Line
  <2> QED  BY <2>2, <2>3 DEF LinesOf
<1>7. CASE say(p, <<error(p)>>) /\ UNCHANGED stream /\ ~sending[p]
  <2>1. PICK a : a = error(p)
    OBVIOUS
  <2>2. /\ a \in LinesOf({"out", "err"}) /\ a.log = <<p, i>> /\ a.kind # "out"
        /\ say(p, <<a>>)
    BY <1>5, <1>7, <2>1
  <2>3. sentAbout(p, i)' = {}
    BY <1>3, <1>7 DEF sentAbout
  <2> QED  BY <1>2, <1>3, <2>2, <2>3, SaidReports
<1>8. CASE Report(p)
  <2>1. step[p] = "finished" /\ UNCHANGED stream /\ ~sending[p]
    BY <1>8 DEF Report, ipcVars, RunInv, SendingInv
  <2>2. PICK a : a = output(p)
    OBVIOUS
  <2>3. /\ a \in LinesOf({"out", "err"}) /\ a.log = <<p, i>> /\ a.kind = "out"
        /\ a.text = AsRead[written'[<<p, i>>]]
    BY <1>2, <1>6, <2>1, <2>2
  <2>4. sentAbout(p, i)' = {}
    BY <1>3, <2>1 DEF sentAbout
  <2>5. \/ say(p, <<a>>)
        \/ say(p, <<a, [a EXCEPT !.kind = "sarif"]>>)
        \/ say(p, <<a, error(p)>>)
    BY <1>8, <2>2 DEF Report
  <2>6. CASE say(p, <<a>>)
    <3>1. PICK said : said = <<a>>
      OBVIOUS
    <3> QED  BY <1>3, <2>3, <2>4, <2>6, <3>1, SaidReports
  <2>7. ASSUME NEW b \in LinesOf({"err", "sarif"}), b.log = <<p, i>>, say(p, <<a, b>>)
        PROVE  Reported(p, i)'
    <3>1. PICK said : said = <<a, b>>
      OBVIOUS
    <3> QED  BY <1>3, <2>3, <2>4, <2>7, <3>1, SaidReports
  <2>8. /\ [a EXCEPT !.kind = "sarif"] \in LinesOf({"err", "sarif"})
        /\ [a EXCEPT !.kind = "sarif"].log = <<p, i>>
    BY <2>3 DEF LinesOf
  <2>9. PICK e : e = error(p)
    OBVIOUS
  <2>10. e \in LinesOf({"err", "sarif"}) /\ e.log = <<p, i>>
    BY <1>5, <2>9 DEF LinesOf
  <2> QED  BY <2>5, <2>6, <2>7, <2>8, <2>9, <2>10
<1>9. CASE (Send(p) \/ SendRest(p)) /\ UNCHANGED lines /\ Writes(p)
           /\ sentAbout(p, i)' = sentAbout(p, i)
           /\ \A k \in sentAbout(p, i) : stream'[p[1]][k] = stream[p[1]][k]
  <2>1. \A kind \in {"out", "err"} : saidAbout(p, i, kind)' = {}
    BY <1>3, <1>9 DEF saidAbout
  <2>2. step[p] = "finished"
    BY <1>9 DEF Send, SendRest, RunInv, SendingInv
  <2>3. CASE ~sending[p]
    <3>1. Send(p) /\ sending'[p] = FALSE
      BY <1>1, <1>9, <2>3 DEF SendRest, return, RunTypeOK
    <3>2. sending' # [sending EXCEPT ![p] = TRUE]
      BY <1>1, <3>1 DEF RunTypeOK
    <3>3. logOutput[p].text = Nothing
      BY ONLY <3>1, <3>2 DEF Send
    <3>4. AsRead[written'[<<p, i>>]] = Nothing /\ sentAbout(p, i)' = {}
      BY <1>2, <1>3, <1>6, <1>9, <2>2, <2>3, <3>3
    <3> QED  BY <1>4, <1>9, <2>1, <3>4 DEF Reported, AtMostOne
  <2>4. CASE sending[p]
    <3>1. sentAbout(p, i) # {} /\ AtMostOne(sentAbout(p, i))
          /\ \A k \in sentAbout(p, i) : stream[p[1]][k].text = AsRead[written[<<p, i>>]]
      BY <1>3, <2>4 DEF WorkInv
    <3> QED  BY <1>2, <1>9, <2>1, <3>1 DEF Reported, AtMostOne
  <2> QED  BY <2>3, <2>4
<1>10. ASSUME Send(p) \/ SendRest(p)
       PROVE  /\ UNCHANGED lines /\ Writes(p) /\ sentAbout(p, i)' = sentAbout(p, i)
              /\ \A k \in sentAbout(p, i) : stream'[p[1]][k] = stream[p[1]][k]
  <2>1. UNCHANGED lines /\ Writes(p)
    BY <1>10 DEF Send, SendRest, RunInv, SendingInv
  <2>2. CASE UNCHANGED stream
    BY <2>1, <2>2 DEF sentAbout
  <2>3. CASE ~UNCHANGED stream
    <3>1. step[p] = "finished"
      BY <1>10 DEF Send, SendRest, RunInv, SendingInv
    <3>2. ~Send(p)
      <4> SUFFICES ASSUME Send(p)  PROVE FALSE
        OBVIOUS
      <4>1. sending'[p] = FALSE
        BY <1>1 DEF return, RunTypeOK
      <4>2. sending' # [sending EXCEPT ![p] = TRUE]
        BY <1>1, <4>1 DEF RunTypeOK
      <4>3. logOutput[p].text = Nothing /\ sendFirst(p[1], logOutput[p].of, logOutput[p].text)
        BY <4>2 DEF Send
      <4> QED  BY <2>3, <4>3 DEF sendFirst
    <3>3. SendRest(p)
      BY <1>10, <3>2
    <3>4. /\ stream \in [Requests -> Seq(LinesOf({"first", "rest"}))]
          /\ Line("rest", logOutput[p].of, logOutput[p].text) \in LinesOf({"first", "rest"})
      BY <3>1, OutputType, StreamTypes, <1>1 DEF Line, LinesOf
    <3>5. PICK m : m = Line("rest", logOutput[p].of, logOutput[p].text)
      OBVIOUS
    <3>6. stream'[p[1]] = Append(stream[p[1]], m) /\ m.kind = "rest"
          /\ stream[p[1]] \in Seq(LinesOf({"first", "rest"})) /\ m \in LinesOf({"first", "rest"})
      BY <1>1, <2>3, <3>3, <3>4, <3>5 DEF SendRest, sendRest, Line
    <3> HIDE <2>3, <1>10
    <3>7. \A k \in DOMAIN stream[p[1]] : stream'[p[1]][k] = stream[p[1]][k]
      BY <3>6
    <3>8. DOMAIN stream'[p[1]] = DOMAIN stream[p[1]] \cup {Len(stream[p[1]]) + 1}
          /\ stream'[p[1]][Len(stream[p[1]]) + 1] = m
      BY <3>6
    <3> QED  BY <2>1, <3>6, <3>7, <3>8 DEF sentAbout
  <2> QED  BY <2>1, <2>2, <2>3
<1> QED
  <2>1. \/ say(p, <<error(p)>>) /\ UNCHANGED stream /\ ~sending[p]
        \/ Report(p) \/ Send(p) \/ SendRest(p)
    <3>1. ASSUME SendFails(p) \/ Catch(p)
          PROVE  say(p, <<error(p)>>) /\ UNCHANGED stream /\ ~sending[p]
      <4>1. step'[p] = "idle"
        BY DEF return, Dispose, ProcessInv, ProcessTypeOK
      <4>2. step' # step
        BY <1>2, <4>1
      <4>3. say(p, <<error(p)>>) /\ UNCHANGED stream
        BY <3>1, <4>2 DEF SendFails, Catch, processVars, objectVars, ipcVars
      <4>4. ~sending[p]
        BY <3>1 DEF SendFails, Catch, RunInv, SendingInv
      <4> QED  BY <4>3, <4>4
    <3>2. ~StartTool(p) /\ ~Process(p)
      <4>1. ~sending'[p] /\ finished'[p] = finished[p] + 1 /\ finished[p] \in Nat
        BY <1>1 DEF return, RunTypeOK
      <4> QED  BY <4>1 DEF StartTool, Process, toolVars
    <3> QED  BY <3>1, <3>2 DEF Tool
  <2> QED  BY <1>2, <1>7, <1>8, <1>9, <1>10, <2>1

\* A tool that returns has done one more file.
LEMMA ReturnWork ==
  ASSUME ProcessInv, RunInv, NEW p \in Procs, Tool(p), return(p), WorkInv(p),
         SourcesInv(p[1])
  PROVE  WorkInv(p)'
<1>1. /\ p \in AllTools /\ p[1] \in Requests /\ RunTypeOK
      /\ finished \in [AllTools -> Nat] /\ sending \in [AllTools -> BOOLEAN]
      /\ step \in [Procs -> {"idle", "created", "waiting", "exited", "captured", "finished", "threw"}]
  BY Tools DEF RunInv, RunTypeOK, ProcessInv, ProcessTypeOK
<1>2. PICK i : i = finished[p] + 1
  OBVIOUS
<1>3. Reported(p, i)' /\ step[p] # "idle" /\ UNCHANGED <<load, runs, written>>
  BY <1>2, ReturnReports
<1>4. /\ finished'[p] = i /\ ~sending'[p] /\ step'[p] = "idle" /\ UNCHANGED sources
      /\ runs[p] = i /\ i \in Nat \ {0} /\ own(p) = <<p, i>> /\ i = finished[p] + 1
  <2>1. finished'[p] = finished[p] + 1 /\ ~sending'[p]
    BY <1>1 DEF return
  <2>2. step'[p] = "idle"
    BY <1>1 DEF return, Dispose
  <2> QED  BY <1>1, <1>2, <1>3, <2>1, <2>2, NothingSaidYet, ToolFrame
<1>5. i <= Len(sources[p[1]])
  <2>1. finished[p] < Len(sources[p[1]]) /\ p \in Children(p[1]) /\ stage[p[1]] \in {"tools", "died"}
    BY <1>3 DEF RunInv, BusyInv
  <2>2. stage[p[1]] = "tools"
    BY <1>1, ToolFrame
  <2>3. load[p[1]] # None
    BY <1>1, <2>2 DEF RunInv, StageInv
  <2>4. Len(sources[p[1]]) \in Nat
    BY <1>1, <2>3, SourcesAreList DEF IsList
  <2> QED  BY <1>1, <1>2, <2>1, <2>4
<1>6. /\ Longer(lines[p], lines'[p], <<p, i>>)
      /\ Longer(stream[p[1]], stream'[p[1]], <<p, i>>)
  BY <1>1, <1>4, ToolLines, ToolStreams
<1>7. FileByFile(p, finished[p])'
  <2>1. FileByFile(p, finished[p])
    BY DEF WorkInv
  <2>2. ASSUME NEW k \in DOMAIN lines'[p]  PROVE \E j \in 1..i : lines'[p][k].log = <<p, j>>
    <3>1. CASE k \in DOMAIN lines[p]
      <4>1. PICK j \in 1..finished[p] : lines[p][k].log = <<p, j>>
        BY <2>1, <3>1 DEF FileByFile
      <4>2. j \in 1..i /\ lines'[p][k] = lines[p][k]
        BY <1>1, <1>4, <1>6, <3>1 DEF Longer
      <4> QED  BY <4>1, <4>2
    <3>2. CASE k \notin DOMAIN lines[p]
      <4>1. lines'[p][k].log = <<p, i>> /\ i \in 1..i
        BY <1>4, <1>6, <3>2 DEF Longer
      <4> QED  BY <4>1
    <3> QED  BY <3>1, <3>2
  <2>3. ASSUME NEW k \in DOMAIN lines'[p], NEW m \in DOMAIN lines'[p], k < m
        PROVE  lines'[p][k].log[2] <= lines'[p][m].log[2]
    <3>1. CASE m \in DOMAIN lines[p]
      <4>1. k \in DOMAIN lines[p]
        <5> SUFFICES ASSUME k \notin DOMAIN lines[p]  PROVE FALSE
          OBVIOUS
        <5>1. m < k
          BY <1>6, <3>1 DEF Longer
        <5>2. k \in Nat /\ m \in Nat
          <6>1. RunTypeOK'
            BY ToolType DEF RunInv
          <6>2. lines'[p] \in Seq(LinesOf({"out", "err", "sarif"})')
            BY <1>1, <6>1 DEF RunTypeOK
          <6>3. DOMAIN lines'[p] \subseteq Nat
            BY <6>2
          <6> QED  BY <6>3
        <5> QED  BY <2>3, <5>1, <5>2
      <4> QED  BY <1>6, <2>1, <2>3, <3>1, <4>1 DEF FileByFile, Longer
    <3>2. CASE m \notin DOMAIN lines[p]
      <4>1. lines'[p][m].log = <<p, i>>
        BY <1>6, <3>2 DEF Longer
      <4>2. PICK j \in 1..i : lines'[p][k].log = <<p, j>>
        BY <2>2
      <4> QED  BY <1>4, <4>1, <4>2
    <3> QED  BY <3>1, <3>2
  <2> QED  BY <1>4, <2>2, <2>3 DEF FileByFile
<1>8. ASSUME NEW j \in 1..finished'[p]  PROVE Reported(p, j)'
  <2>1. CASE j = i  BY <1>3, <2>1
  <2>2. CASE j # i
    <3>1. j \in 1..finished[p] /\ Reported(p, j)
      BY <1>1, <1>4, <2>2 DEF WorkInv
    <3>2. PICK g : g = <<p, i>>
      OBVIOUS
    <3>3. g # <<p, j>> /\ Longer(lines[p], lines'[p], g) /\ Longer(stream[p[1]], stream'[p[1]], g)
      BY <1>6, <2>2, <3>2
    <3> QED  BY <1>3, <3>1, <3>3, ReportStays
  <2> QED  BY <2>1, <2>2
<1>9. ASSUME NEW k \in DOMAIN stream'[p[1]], stream'[p[1]][k].log[1] = p
      PROVE  stream'[p[1]][k].log[2] \in 1..finished'[p]
  <2>1. CASE k \in DOMAIN stream[p[1]]
    <3>1. stream'[p[1]][k] = stream[p[1]][k]
      BY <1>6, <2>1 DEF Longer
    <3>2. stream[p[1]][k].log[2] \in 1..finished[p] \/ stream[p[1]][k].log = <<p, i>>
      BY <1>4, <1>9, <2>1, <3>1 DEF WorkInv
    <3> QED  BY <1>1, <1>4, <3>1, <3>2
  <2>2. CASE k \notin DOMAIN stream[p[1]]
    <3>1. stream'[p[1]][k].log = <<p, i>>
      BY <1>6, <2>2 DEF Longer
    <3> QED  BY <1>4, <3>1
  <2> QED  BY <2>1, <2>2
<1>10. runs'[p] = finished'[p] + (IF step'[p] = "idle" THEN 0 ELSE 1)
       /\ finished'[p] <= Len(sources'[p[1]])
  BY <1>3, <1>4, <1>5
<1> QED  BY <1>4, <1>7, <1>8, <1>9, <1>10 DEF WorkInv, FileByFile

\* A tool that begins to send has sent one message about the file.
LEMMA SendWork ==
  ASSUME ProcessInv, RunInv, NEW p \in Procs, Send(p), ~return(p), WorkInv(p)
  PROVE  WorkInv(p)'
<1>1. /\ p \in AllTools /\ p[1] \in Requests /\ RunTypeOK
      /\ finished \in [AllTools -> Nat] /\ sending \in [AllTools -> BOOLEAN]
      /\ stream \in [Requests -> Seq(LinesOf({"first", "rest"}))]
  BY Tools, StreamTypes DEF RunInv, RunTypeOK
<1>2. PICK i : i = finished[p] + 1
  OBVIOUS
<1>3. /\ step[p] = "finished" /\ ~sending[p] /\ sending'[p] = TRUE
      /\ UNCHANGED <<step, runs, written, finished, load, lines, sources>>
      /\ logOutput[p].text # Nothing /\ sendFirst(p[1], logOutput[p].of, logOutput[p].text)
  BY <1>1 DEF Send, processVars, objectVars
<1>4. /\ own(p) = <<p, i>> /\ runs[p] = i /\ i \in Nat \ {0} /\ sentAbout(p, i) = {}
  BY <1>2, <1>3, NothingSaidYet
<1>5. PICK m : m = Line("first", logOutput[p].of, logOutput[p].text)
  OBVIOUS
<1>6. /\ m \in LinesOf({"first", "rest"}) /\ m.kind = "first"
      /\ m.log = <<p, i>> /\ m.text = AsRead[written[<<p, i>>]]
  <2>1. /\ logOutput[p] = [of |-> own(p), text |-> AsRead[written[own(p)]]]
        /\ logOutput[p].of \in AllTools \X Nat /\ logOutput[p].text \in Outputs
    BY <1>3, OutputType
  <2>2. logOutput[p].of = <<p, i>> /\ logOutput[p].text = AsRead[written[<<p, i>>]]
    BY <1>4, <2>1
  <2> QED  BY <1>5, <2>1, <2>2 DEF Line, LinesOf
<1>7. stream'[p[1]] = Append(stream[p[1]], m) /\ stream[p[1]] \in Seq(LinesOf({"first", "rest"}))
  BY <1>1, <1>3, <1>5 DEF sendFirst
<1>8. PICK n : n = Len(stream[p[1]]) + 1
  OBVIOUS
<1>9. /\ DOMAIN stream'[p[1]] = DOMAIN stream[p[1]] \cup {n} /\ stream'[p[1]][n] = m
      /\ \A k \in DOMAIN stream[p[1]] : stream'[p[1]][k] = stream[p[1]][k]
  BY <1>6, <1>7, <1>8
<1>10. Longer(stream[p[1]], stream'[p[1]], <<p, i>>)
  <2>1. Tool(p)
    BY DEF Tool
  <2> QED  BY <1>1, <1>4, <2>1, ToolStreams
<1>11. runs'[p] = finished'[p] + (IF step'[p] = "idle" THEN 0 ELSE 1)
       /\ finished'[p] <= Len(sources'[p[1]])
  BY <1>3 DEF WorkInv
<1>12. FileByFile(p, finished[p])'
  BY <1>3 DEF WorkInv, FileByFile
<1>13. ASSUME NEW j \in 1..finished'[p]  PROVE Reported(p, j)'
  <2>1. j # i /\ Reported(p, j)
    BY <1>1, <1>2, <1>3 DEF WorkInv
  <2>2. PICK g : g = <<p, i>>
    OBVIOUS
  <2>3. g # <<p, j>> /\ Longer(stream[p[1]], stream'[p[1]], g) /\ Longer(lines[p], lines'[p], g)
    BY <1>3, <1>10, <2>1, <2>2, SameIsLonger
  <2> QED  BY <1>3, <2>1, <2>3, ReportStays
<1>14. ASSUME NEW k \in DOMAIN stream'[p[1]], stream'[p[1]][k].log[1] = p
       PROVE  \/ stream'[p[1]][k].log[2] \in 1..finished'[p]
              \/ stream'[p[1]][k].log = own(p)'
  <2>1. own(p)' = <<p, i>>
    BY <1>3, <1>4 DEF own
  <2>2. CASE k \in DOMAIN stream[p[1]]
    BY <1>3, <1>9, <1>14, <2>2 DEF WorkInv
  <2>3. CASE k = n
    BY <1>6, <1>9, <2>1, <2>3
  <2> QED  BY <1>9, <2>2, <2>3
<1>15. /\ sentAbout(p, runs[p])' # {} /\ AtMostOne(sentAbout(p, runs[p]))'
       /\ \A k \in sentAbout(p, runs[p])' : stream'[p[1]][k].text = AsRead[written'[own(p)']]
  <2>1. sentAbout(p, runs[p])' = {n}
    BY <1>3, <1>4, <1>6, <1>9 DEF sentAbout
  <2>2. own(p)' = <<p, i>>
    BY <1>3, <1>4 DEF own
  <2> QED  BY <1>3, <1>6, <1>9, <2>1, <2>2 DEF AtMostOne
<1> QED  BY <1>3, <1>11, <1>12, <1>13, <1>14, <1>15 DEF WorkInv, FileByFile

\* Whatever a tool does, its work stays accounted for.
LEMMA OwnWork ==
  ASSUME ProcessInv, RunInv, NEW p \in Procs, Tool(p), WorkInv(p), SourcesInv(p[1])
  PROVE  WorkInv(p)'
<1>1. /\ p \in AllTools /\ p[1] \in Requests /\ RunTypeOK
      /\ finished \in [AllTools -> Nat] /\ runs \in [Procs -> 0..MaxRuns]
      /\ step \in [Procs -> {"idle", "created", "waiting", "exited", "captured", "finished", "threw"}]
  BY Tools DEF RunInv, RunTypeOK, ProcessInv, ProcessTypeOK
<1>2. CASE return(p)  BY <1>2, ReturnWork
<1>3. CASE Send(p) /\ ~return(p)  BY <1>3, SendWork
<1>4. CASE ~return(p) /\ ~Send(p)
  <2>1. StartTool(p) \/ Process(p) \/ SendFails(p)
    BY <1>4 DEF Tool, Report, SendRest, Catch
  <2>2. UNCHANGED <<load, sources, lines, finished, sending, stream>>
    BY <1>4, <2>1 DEF StartTool, Process, SendFails, toolVars, ipcVars
  <2>3. runs'[p] = finished[p] + (IF step'[p] = "idle" THEN 0 ELSE 1)
    <3>1. CASE StartTool(p)
      <4>1. step[p] = "idle" /\ runs'[p] = runs[p] + 1 /\ step'[p] # "idle"
        BY <1>1, <3>1 DEF StartTool, CreateLog
      <4> QED  BY <1>1, <4>1 DEF WorkInv
    <3>2. CASE Process(p)
      <4>1. step[p] # "idle" /\ step'[p] # "idle" /\ runs' = runs
        BY <1>1, <3>2 DEF Process, Execute, Fork, Wait, captureLogs, cleanup, Exec, Prints, Exit,
           moves, objectVars, ProcessInv, ChildIsWaitedFor
      <4> QED  BY <4>1 DEF WorkInv
    <3>3. CASE SendFails(p)
      <4>1. step' = step /\ runs' = runs
        BY <1>4, <3>3 DEF SendFails, processVars, objectVars
      <4> QED  BY <4>1 DEF WorkInv
    <3> QED  BY <2>1, <3>1, <3>2, <3>3
  <2>4. \A i \in 1..finished[p] : written'[<<p, i>>] = written[<<p, i>>]
    <3> SUFFICES ASSUME NEW i \in 1..finished[p]  PROVE written'[<<p, i>>] = written[<<p, i>>]
      OBVIOUS
    <3>1. CASE step[p] = "waiting"
      <4>1. runs[p] = finished[p] + 1 /\ runs[p] \in 0..MaxRuns /\ finished[p] \in Nat
        BY <1>1, <3>1 DEF WorkInv
      <4>2. i # runs[p] /\ i \in 1..MaxRuns
        BY <4>1
      <4>3. <<p, i>> \in Log /\ <<p, i>> # own(p)
        BY <4>2 DEF own, Log
      <4> QED  BY <4>3, ToolWrites
    <3>2. CASE step[p] # "waiting"
      BY <3>2, ToolWrites
    <3> QED  BY <3>1, <3>2
  <2>5. sending[p] => runs'[p] = runs[p] /\ written'[own(p)] = written[own(p)]
    <3> SUFFICES ASSUME sending[p]  PROVE runs'[p] = runs[p] /\ written'[own(p)] = written[own(p)]
      OBVIOUS
    <3>1. step[p] = "finished"
      BY DEF RunInv, SendingInv
    <3>2. UNCHANGED written
      BY <3>1, ToolWrites
    <3>3. runs' = runs
      BY <2>1, <3>1, <1>4 DEF StartTool, CreateLog, Process, Execute, Fork, Wait, captureLogs, cleanup,
         Exec, Prints, Exit, objectVars, SendFails, processVars
    <3> QED  BY <3>2, <3>3
  <2>6. PICK mark : mark = <<SA(p[1]), 1>>
    OBVIOUS
  <2>7. mark[1] # p /\ Longer(stream[p[1]], stream'[p[1]], mark)
    BY <1>1, <2>2, <2>6, Tools, SameIsLonger
  <2>8. finished[p] <= Len(sources'[p[1]]) /\ finished[p] \in Nat
    BY <1>1, <2>2 DEF WorkInv
  <2> QED  BY <2>2, <2>3, <2>4, <2>5, <2>7, <2>8, WorkFrame
<1> QED  BY <1>2, <1>3, <1>4

\* Runs leave the work of their tools alone, and give them sources only
\* before they begin.
LEMMA RunWork ==
  ASSUME ProcessInv, RunInv, NEW r \in Requests, Run(r) \/ PeerLeaves(r), NEW q \in Procs, WorkInv(q)
  PROVE  WorkInv(q)'
<1>1. /\ q \in AllTools /\ q[1] \in Requests /\ RunTypeOK /\ finished[q] \in Nat
      /\ DOMAIN sources = Requests
  BY Tools DEF RunInv, RunTypeOK
<1>2. /\ UNCHANGED <<processVars, load, sending, finished>> /\ lines'[q] = lines[q]
  BY RunFrame DEF RunInv
<1>3. finished[q] <= Len(sources'[q[1]])
  <2>1. CASE sources' = sources
    BY <2>1 DEF WorkInv
  <2>2. CASE ResolveSources(r) /\ q[1] = r
    <3>1. stage[r] = "resolve" /\ load[r] # None /\ sources[r] = <<>>
      BY <2>2 DEF ResolveSources, RunInv, StageInv
    <3>2. finished[q] = 0
      BY <1>1, <2>2, <3>1 DEF WorkInv
    <3>3. sources'[r] = resolveSourceFiles(load[r].input)
      BY <1>1, <2>2 DEF ResolveSources
    <3>4. IsArray(load[r].input.files)
      BY <1>1, <3>1 DEF RunTypeOK
    <3>5. Len(sources'[r]) \in Nat
      BY <3>3, <3>4, ResolvedMentionedOnce DEF IsList
    <3> QED  BY <2>2, <3>2, <3>5
  <2>3. CASE ResolveSources(r) /\ q[1] # r
    BY <1>1, <2>3 DEF ResolveSources, WorkInv
  <2> QED
    BY <2>1, <2>2, <2>3 DEF Run, ConstructInvoker, NoAnalysisSelected, WithoutAnalyzer,
       StartAnalyzer, RunAnalyzer, Deliver, DeliverToPeer, DeliverRest, Summarise, Answer, PeerLeaves
<1>4. PICK mark : mark = <<SA(r), 1>>
  OBVIOUS
<1>5. Longer(stream[q[1]], stream'[q[1]], mark)
  <2>1. CASE UNCHANGED stream  BY <2>1, SameIsLonger
  <2>2. CASE DeliverToPeer(r) \/ DeliverRest(r)
    <3>1. mark \in AllTools \X Nat /\ captured[r].out \in Outputs
      <4>1. stage[r] \in {"deliver", "sending"}
        BY <2>2 DEF DeliverToPeer, DeliverRest
      <4>2. captured[r].out \in Outputs
        BY <4>1, CapturesAreOutputs DEF RunInv
      <4> QED  BY <1>4, <4>2, Tools
    <3>2. \/ stream' = stream
          \/ sendFirst(r, mark, captured[r].out) \/ sendRest(r, mark, captured[r].out)
      BY <1>4, <2>2 DEF DeliverToPeer, DeliverRest
    <3> QED  BY <1>1, <2>1, <3>1, <3>2, SendLengthens
  <2> QED
    BY <2>1, <2>2 DEF Run, ConstructInvoker, NoAnalysisSelected, ResolveSources, WithoutAnalyzer,
       StartAnalyzer, RunAnalyzer, Deliver, Summarise, Answer, PeerLeaves, ipcVars
<1>6. mark[1] # q
  BY <1>4, Tools
<1>7. /\ runs'[q] = finished[q] + (IF step'[q] = "idle" THEN 0 ELSE 1)
      /\ UNCHANGED <<runs, written, load>> /\ finished'[q] = finished[q] /\ sending'[q] = sending[q]
  BY <1>2 DEF processVars, objectVars, WorkInv
<1> QED  BY <1>1, <1>2, <1>3, <1>5, <1>6, <1>7, WorkFrame

\* A run has its sources from its configuration.
LEMMA SourcesStep ==
  ASSUME ProcessInv, RunInv, [Next]_vars, NEW r \in Requests, SourcesInv(r)
  PROVE  SourcesInv(r)'
<1>1. /\ RunTypeOK /\ stage \in [Requests -> Stages] /\ DOMAIN sources = Requests
      /\ sources = [q \in Requests |-> sources[q]]
  BY RunTypes DEF RunInv
<1>2. CASE load'[r] = load[r] /\ sources'[r] = sources[r] /\ (Resolved(r)' => Resolved(r))
  BY <1>2 DEF SourcesInv
<1>3. CASE \E p \in Procs : Tool(p)
  <2>1. PICK p \in Procs : Tool(p)
    BY <1>3
  <2>2. /\ UNCHANGED <<load, sources>> /\ p[1] \in Requests
        /\ stage' = stage \/ stage' = [stage EXCEPT ![p[1]] = "died"]
    BY <1>1, <2>1, ToolFrame, Tools
  <2>3. stage'[r] = stage[r] \/ stage'[r] = "died"
    BY <1>1, <2>2
  <2> QED  BY <1>2, <2>2, <2>3 DEF Resolved, Ends
<1>4. CASE \E q \in Requests \ {r} : Run(q) \/ PeerLeaves(q)
  <2>1. load' = load /\ sources'[r] = sources[r] /\ stage'[r] = stage[r]
    BY <1>1, <1>4, RunFrame
  <2> QED  BY <1>2, <2>1 DEF Resolved
<1>5. CASE ResolveSources(r)
  <2>1. sources'[r] = resolveSourceFiles(load[r].input) /\ load' = load
    BY <1>1, <1>5 DEF ResolveSources
  <2> QED  BY <2>1 DEF SourcesInv
<1>6. CASE ConstructInvoker(r) \/ NoAnalysisSelected(r)
  <2>1. stage'[r] \in Ends \cup {"resolve"} /\ UNCHANGED <<load, sources>>
    BY <1>1, <1>6 DEF ConstructInvoker, NoAnalysisSelected, goto, Throw, Ends
  <2> QED  BY <1>2, <2>1 DEF Resolved
<1>7. CASE \/ WithoutAnalyzer(r) \/ StartAnalyzer(r) \/ RunAnalyzer(r) \/ Deliver(r)
           \/ DeliverToPeer(r) \/ DeliverRest(r) \/ Summarise(r) \/ Answer(r)
  <2>1. Resolved(r) /\ UNCHANGED <<load, sources>>
    BY <1>7 DEF WithoutAnalyzer, StartAnalyzer, RunAnalyzer, Deliver, DeliverToPeer, DeliverRest,
       Summarise, Answer, ToolsDone, Resolved, Ends
  <2> QED  BY <1>2, <2>1
<1>8. CASE PeerLeaves(r) \/ Ended \/ UNCHANGED vars
  <2>1. UNCHANGED <<load, sources, stage>>
    BY <1>8 DEF PeerLeaves, Ended, vars
  <2> QED  BY <1>2, <2>1 DEF Resolved
<1> QED  BY <1>3, <1>4, <1>5, <1>6, <1>7, <1>8 DEF Next, Run

\* The analyzer and the answer come when all tools are done.
LEMMA DoneStep ==
  ASSUME ProcessInv, RunInv, [Next]_vars, NEW r \in Requests, DoneInv(r), SourcesInv(r)
  PROVE  DoneInv(r)'
<1> DEFINE late == {"analyzer", "deliver", "sending", "summarise", "answer", "ok"}
<1>1. /\ RunTypeOK /\ stage \in [Requests -> Stages]
      /\ sources = [q \in Requests |-> sources[q]]
      /\ SA(r) \in AllTools /\ SA(r) \notin Procs
  BY RunTypes, Tools DEF RunInv
<1>2. CASE \E p \in Procs : Tool(p)
  <2>1. PICK p \in Procs : Tool(p)
    BY <1>2
  <2>2. /\ UNCHANGED <<load, sources>> /\ p[1] \in Requests /\ stage[p[1]] = "tools"
        /\ stage' = stage \/ stage' = [stage EXCEPT ![p[1]] = "died"]
        /\ \A q \in AllTools \ {p} : finished'[q] = finished[q]
    BY <1>1, <2>1, ToolFrame, Tools
  <2>3. finished'[SA(r)] = 0
    BY <1>1, <2>1, <2>2 DEF DoneInv
  <2>4. ASSUME stage'[r] \in late, NEW q \in Children(r)'  PROVE finished'[q] = Len(sources'[r])
    <3>1. stage[r] \in late /\ p[1] # r
      BY <1>1, <2>2, <2>4
    <3>2. q \in Children(r) /\ q \in Procs /\ q # p
      <4>1. load[r] # None
        BY <3>1 DEF RunInv, StageInv
      <4>2. q \in Children(r)
        BY <2>2, <2>4 DEF Children
      <4>3. q \in Procs /\ q[1] = r
        BY <1>1, <4>1, <4>2, ChildrenAreProcs DEF Children
      <4> QED  BY <3>1, <4>2, <4>3
    <3> QED  BY <2>2, <3>1, <3>2, Tools DEF DoneInv
  <2> QED  BY <2>3, <2>4 DEF DoneInv
<1>3. CASE load' = load /\ finished' = finished /\ sources'[r] = sources[r]
           /\ (stage'[r] \in late => stage[r] \in late)
  BY <1>3 DEF DoneInv, Children
<1>4. CASE \E q \in Requests \ {r} : Run(q) \/ PeerLeaves(q)
  <2>1. load' = load /\ finished' = finished /\ sources'[r] = sources[r] /\ stage'[r] = stage[r]
    BY <1>1, <1>4, RunFrame
  <2> QED  BY <1>3, <2>1
<1>5. CASE ResolveSources(r) \/ ConstructInvoker(r) \/ NoAnalysisSelected(r)
  <2>1. stage'[r] \notin late /\ UNCHANGED finished
    BY <1>1, <1>5 DEF ResolveSources, ConstructInvoker, NoAnalysisSelected, goto, Throw, toolVars
  <2> QED  BY <2>1 DEF DoneInv
<1>6. CASE WithoutAnalyzer(r) \/ StartAnalyzer(r)
  <2>1. ToolsDone(r) /\ UNCHANGED <<load, sources, finished>>
    BY <1>6 DEF WithoutAnalyzer, StartAnalyzer, toolVars
  <2> QED  BY <2>1 DEF DoneInv, Children, ToolsDone
<1>7. CASE \/ RunAnalyzer(r) \/ Deliver(r) \/ DeliverToPeer(r) \/ DeliverRest(r)
           \/ Summarise(r) \/ Answer(r)
  <2>1. stage[r] \in late /\ UNCHANGED <<load, sources, finished>>
    BY <1>7 DEF RunAnalyzer, Deliver, DeliverToPeer, DeliverRest, Summarise, Answer, toolVars
  <2> QED  BY <1>3, <2>1
<1>8. CASE PeerLeaves(r) \/ Ended \/ UNCHANGED vars
  <2>1. UNCHANGED <<load, sources, finished, stage>>
    BY <1>8 DEF PeerLeaves, Ended, vars, toolVars
  <2> QED  BY <1>3, <2>1
<1> QED  BY <1>2, <1>4, <1>5, <1>6, <1>7, <1>8 DEF Next, Run

LEMMA InitOutputInv == Init => OutputInv
<1> SUFFICES ASSUME Init  PROVE OutputInv
  OBVIOUS
<1>1. ASSUME NEW r \in Requests  PROVE SourcesInv(r) /\ DoneInv(r)
  <2>1. stage[r] \in {"absent", "begin"} /\ sources[r] = <<>> /\ finished[SA(r)] = 0
    BY Tools DEF Init
  <2> QED  BY <2>1 DEF SourcesInv, DoneInv, Resolved, Ends
<1>2. ASSUME NEW p \in Procs  PROVE WorkInv(p)
  <2>1. /\ lines[p] = <<>> /\ stream[p[1]] = <<>> /\ sources[p[1]] = <<>> /\ finished[p] = 0
        /\ sending[p] = FALSE /\ step[p] = "idle" /\ runs[p] = 0
    BY Tools DEF Init, ProcessInit
  <2> QED  BY <2>1 DEF WorkInv, FileByFile
<1> QED  BY <1>1, <1>2 DEF OutputInv

LEMMA NextOutputInv ==
  ASSUME ProcessInv, RunInv, OutputInv, [Next]_vars
  PROVE  OutputInv'
<1>1. \A r \in Requests : SourcesInv(r)' /\ DoneInv(r)'
  BY SourcesStep, DoneStep DEF OutputInv
<1>2. CASE \E p \in Procs : Tool(p)
  <2>1. PICK p \in Procs : Tool(p)
    BY <1>2
  <2>2. WorkInv(p)'
    BY <2>1, OwnWork, Tools DEF OutputInv
  <2>3. \A q \in Procs \ {p} : WorkInv(q)'
    BY <2>1, OthersWork DEF OutputInv
  <2> QED  BY <1>1, <2>2, <2>3 DEF OutputInv
<1>3. CASE \E r \in Requests : Run(r) \/ PeerLeaves(r)
  BY <1>1, <1>3, RunWork DEF OutputInv
<1>4. CASE Ended \/ UNCHANGED vars
  <2>1. UNCHANGED vars
    BY <1>4 DEF Ended
  <2>2. ASSUME NEW p \in Procs  PROVE WorkInv(p)'
    <3>1. /\ WorkInv(p) /\ finished[p] \in Nat /\ SA(p[1])  # p
          /\ runs[p] = finished[p] + (IF step[p] = "idle" THEN 0 ELSE 1)
          /\ finished[p] <= Len(sources[p[1]])
      BY Tools DEF OutputInv, RunInv, RunTypeOK, WorkInv
    <3>2. /\ UNCHANGED <<load, sources, finished, sending, lines, stream, step, runs, written>>
          /\ own(p)' = own(p)
      BY <2>1 DEF vars, processVars, objectVars, toolVars, ipcVars, own
    <3>3. PICK mark : mark = <<SA(p[1]), 1>>
      OBVIOUS
    <3>4. mark[1] # p /\ Longer(stream[p[1]], stream'[p[1]], mark)
      BY <3>1, <3>2, <3>3, SameIsLonger
    <3> QED  BY <3>1, <3>2, <3>4, WorkFrame
  <2> QED  BY <1>1, <2>2 DEF OutputInv
<1> QED  BY <1>2, <1>3, <1>4 DEF Next

THEOREM OutputInvariance == Spec => [](ProcessInv /\ RunInv /\ OutputInv)
<1>1. ProcessInv /\ RunInv /\ OutputInv /\ [Next]_vars => OutputInv'
  BY NextOutputInv
<1> QED  BY <1>1, InitOutputInv, RunInvariance, PTL DEF Spec

\* A file that is mentioned several times, in whatever spelling and by
\* whatever entries, is analysed once, in the place of its first mention.
THEOREM SourcesAreRight == Spec => []SourcesRight
<1>1. RunInv /\ OutputInv => SourcesRight
  <2> SUFFICES ASSUME RunInv, OutputInv, NEW r \in Requests, Resolved(r)
               PROVE  MentionedOnce(load[r].input, sources[r])
    BY DEF SourcesRight
  <2>1. load[r] # None
    BY DEF Resolved, Ends, RunInv, StageInv
  <2>2. IsArray(load[r].input.files)
    BY <2>1 DEF RunInv, RunTypeOK
  <2> QED  BY <2>2, ResolvedMentionedOnce DEF OutputInv, SourcesInv
<1> QED  BY <1>1, OutputInvariance, PTL

\* Files of dependencies that a discovered database lists are analysed only
\* when they are asked for, unless the database is a single object or not a
\* .json file, which the code does not filter.
THEOREM DependenciesAreFiltered == Spec => []DependenciesFiltered
<1>1. RunInv /\ OutputInv => DependenciesFiltered
  <2> SUFFICES ASSUME RunInv, OutputInv, NEW r \in Requests, Resolved(r)
               PROVE  NoUnwantedDependency(load[r].input, sources[r])
    BY DEF DependenciesFiltered
  <2>1. load[r] # None
    BY DEF Resolved, Ends, RunInv, StageInv
  <2>2. IsArray(load[r].input.files)
    BY <2>1 DEF RunInv, RunTypeOK
  <2> QED  BY <2>2, ResolvedDependencies DEF OutputInv, SourcesInv
<1> QED  BY <1>1, OutputInvariance, PTL

\* A run that ends well has reported on every file with every tool, file
\* after file, each time with the whole output of the tool's own child.
THEOREM OutputsAreComplete == Spec => []OutputsComplete
<1>1. RunInv /\ OutputInv => OutputsComplete
  <2> SUFFICES ASSUME RunInv, OutputInv, NEW r \in Requests, stage[r] = "ok", NEW p \in Children(r)
               PROVE  /\ FileByFile(p, Len(sources[r]))
                      /\ \A i \in 1..Len(sources[r]) : Reported(p, i)
    BY DEF OutputsComplete
  <2>1. p \in Procs
    BY ChildrenAreProcs DEF RunInv, StageInv
  <2>2. finished[p] = Len(sources[r])
    BY DEF OutputInv, DoneInv
  <2> QED  BY <2>1, <2>2 DEF OutputInv, WorkInv
<1> QED  BY <1>1, OutputInvariance, PTL

-----------------------------------------------------------------------------
(***************************************************************************)
(* The summary, and with it all types.                                     *)
(***************************************************************************)

\* Whatever is captured of the analyzer gives a summary.
LEMMA CapturesHaveASummary ==
  ASSUME NEW print \in Captures
  PROVE  lastDiagnosticsSummary(print.out, print.err) \in Summaries
<1>1. IsPrinted(print.out) /\ IsPrinted(print.err)
  <2>1. CASE print = NotEnabled
    <3>1. print.out = Silence /\ print.err = Silence
      BY <2>1 DEF NotEnabled
    <3>2. Silence.lines = <<>> /\ Silence.doc.runs = <<>>
      BY DEF Silence
    <3>3. \A S : <<>> \in Seq(S)
      OBVIOUS
    <3> QED  BY <3>1, <3>2, <3>3 DEF IsPrinted
  <2>2. ASSUME NEW p \in AnalyzerPrints, print = Streams(p)
        PROVE  IsPrinted(print.out) /\ IsPrinted(print.err)
    <3>1. print.out = p.out /\ print.err = p.err
      BY <2>2 DEF Streams
    <3> QED  BY <3>1, PrintsAssumption
  <2> QED  BY <2>1, <2>2 DEF Captures
<1> DEFINE a == parseDiagnosticsSummaryFromText(print.out.lines)
           b == parseDiagnosticsSummaryFromStructuredOutput(print.out.doc)
           c == parseDiagnosticsSummaryFromText(print.err.lines)
           d == parseDiagnosticsSummaryFromStructuredOutput(print.err.doc)
<1>2. a \in Optional(Summaries) /\ c \in Optional(Summaries)
  BY <1>1, TextHasASummary DEF IsPrinted
<1>3. b \in Optional(Summaries) /\ d \in Optional(Summaries)
  BY <1>1, DocumentHasASummary DEF IsPrinted
<1>4. lastDiagnosticsSummary(print.out, print.err)
        = IF a \o b \o c \o d = <<>> THEN NoSummary ELSE Head(a \o b \o c \o d)
  BY DEF lastDiagnosticsSummary
<1> HIDE DEF a, b, c, d
<1>5. \A x \in Optional(Summaries) : x \in Seq(Summaries)
  <2>1. <<>> \in Seq(Summaries) /\ \A s \in Summaries : <<s>> \in Seq(Summaries)
    OBVIOUS
  <2> QED  BY <2>1 DEF Optional
<1>6. a \o b \o c \o d \in Seq(Summaries)
  BY <1>2, <1>3, <1>5
<1>7. a \o b \o c \o d # <<>> => Head(a \o b \o c \o d) \in Summaries
  BY <1>6
<1> QED  BY <1>4, <1>7, NothingIsASummary

\* A summary is made only at the end of an analysis.
LEMMA SummaryStep ==
  ASSUME RunInv, summary \in [Requests -> Summaries], Next
  PROVE  summary' \in [Requests -> Summaries]
<1>1. CASE \E p \in Procs : Tool(p)
  BY <1>1 DEF Tool, StartTool, Process, Report, Send, SendRest, SendFails, Catch, return, analyzerVars
<1>2. ASSUME NEW r \in Requests, Summarise(r)  PROVE summary' \in [Requests -> Summaries]
  <2>1. captured[r] \in Captures
    BY <1>2, CapturesAreOutputs DEF Summarise, RunInv
  <2>2. lastDiagnosticsSummary(captured[r].out, captured[r].err) \in Summaries
    BY <2>1, CapturesHaveASummary
  <2> QED  BY <1>2, <2>2 DEF Summarise
<1>3. ASSUME NEW r \in Requests, Run(r) \/ PeerLeaves(r), ~Summarise(r)
      PROVE  summary' = summary
  BY <1>3 DEF Run, ConstructInvoker, NoAnalysisSelected, ResolveSources, WithoutAnalyzer,
         StartAnalyzer, RunAnalyzer, Deliver, DeliverToPeer, DeliverRest, Answer, PeerLeaves,
         analyzerVars
<1>4. CASE Ended
  BY <1>4 DEF Ended, vars, analyzerVars
<1> QED  BY <1>1, <1>2, <1>3, <1>4 DEF Next

\* The values of the variables are those one expects; no tool is executed
\* on more files than there are.
THEOREM TypeCorrect == Spec => []TypeOK
<1> DEFINE SummaryOK == summary \in [Requests -> Summaries]
<1>1. Init => SummaryOK
  BY NothingIsASummary DEF Init
<1>2. RunInv /\ SummaryOK /\ [Next]_vars => SummaryOK'
  BY SummaryStep DEF vars, analyzerVars
<1>3. ProcessInv /\ RunInv /\ OutputInv /\ SummaryOK => TypeOK
  <2> SUFFICES ASSUME ProcessInv, RunInv, OutputInv, NEW q \in AllTools
               PROVE  finished[q] \in 0..MaxRuns /\ finished[q] <= Len(sources[q[1]])
    BY DEF TypeOK, ProcessInv, RunInv
  <2>1. CASE q \in Procs
    <3>1. WorkInv(q) /\ runs[q] \in 0..MaxRuns /\ finished[q] \in Nat
      BY <2>1 DEF OutputInv, ProcessInv, ProcessTypeOK, RunInv, RunTypeOK
    <3> QED  BY <3>1 DEF WorkInv
  <2>2. CASE q \notin Procs
    <3>1. PICK r \in Requests : q = SA(r)
      BY <2>2 DEF AllTools, SA
    <3>2. finished[q] = 0 /\ q[1] = r
      BY <3>1 DEF OutputInv, DoneInv, SA
    <3>3. Len(sources[r]) \in Nat
      <4>1. CASE load[r] = None
        <5>1. sources[r] = <<>>
          BY <4>1 DEF RunInv, StageInv
        <5> QED  BY <5>1
      <4>2. CASE load[r] # None
        BY <4>2, SourcesAreList DEF OutputInv, IsList
      <4> QED  BY <4>1, <4>2
    <3> QED  BY <3>2, <3>3
  <2> QED  BY <2>1, <2>2
<1> QED  BY <1>1, <1>2, <1>3, OutputInvariance, PTL DEF Spec

-----------------------------------------------------------------------------
(***************************************************************************)
(* The command line of the stack analyzer.                                 *)
(***************************************************************************)

\* The settings of a run are settings, whatever its files are called.
LEMMA SettingsAreSettings ==
  ASSUME NEW r \in Requests, load \in Loads, load[r] # None, NEW T,
         Seq(STRING) \subseteq T, fileName(load[r].input.compile_commands) \in T
  PROVE  IsSettings(settings(r), T)
<1> DEFINE chosen == load[r].settings
           name == fileName(load[r].input.compile_commands)
           all == settings(r)
<1>1. IsSettings(chosen, Seq(STRING))
  BY SettingsAssumption
<1>2. \A o \in DOMAIN all :
        \/ o \in DOMAIN chosen /\ all[o] = chosen[o]
        \/ o = "--compile-commands" /\ all[o] = name
        \/ o = "--include-compdb-deps"
  BY DEF settings
<1>3. /\ "--compile-commands" \notin Repeated \cup Joined \cup Switches \cup {"extra_args"}
      /\ "--include-compdb-deps" \notin Single \cup Repeated \cup Joined \cup Switches
           \cup {"--mode", "--format", "entry_points", "extra_args"}
  BY TheOptions DEF Single, Repeated, Joined
<1>4. \A s \in Seq(Seq(STRING)) : s \in Seq(T)
  OBVIOUS
<1>5. \A s \in Seq(Word(Seq(STRING))) : s \in Seq(Word(T))
  <2>1. Word(Seq(STRING)) \subseteq Word(T)
    BY DEF Word
  <2> QED  BY <2>1
<1> HIDE DEF chosen, name, all
<1>6. name \in T
  BY DEF name
<1>7. IsSettings(all, T)
  BY <1>1, <1>2, <1>3, <1>4, <1>5, <1>6 DEF IsSettings
<1> QED  BY <1>7 DEF all

\* What the analyzer reads of the command line that is built for a run.
LEMMA BuiltArgumentsArrive ==
  ASSUME RunInv, OutputInv, NEW r \in Requests, load[r] # None
  PROVE  ArgumentsArrive(inputFiles(r), settings(r), buildAnalyzerArgs(inputFiles(r), settings(r)))
<1> DEFINE name == fileName(load[r].input.compile_commands)
           inputs == inputFiles(r)
           T == Seq(STRING) \cup {NoText, <<"ir">>, <<"json">>, name}
                  \cup {inputs[i] : i \in DOMAIN inputs}
<1>1. load \in Loads
  BY DEF RunInv, RunTypeOK
<1>2. IsSettings(settings(r), T)
  BY <1>1, SettingsAreSettings
<1>3. inputs \in Seq(T)
  <2>1. IsList(sources[r])
    BY SourcesAreList DEF OutputInv
  <2>2. PICK N \in Nat : DOMAIN sources[r] = 1..N
    BY <2>1 DEF IsList
  <2>3. inputs \in [1..N -> T]
    BY <2>2 DEF inputFiles
  <2> HIDE DEF T, inputs
  <2> QED  BY <2>3, AFunctionIsASequence
<1>4. {NoText, <<"ir">>, <<"json">>} \cup Seq(STRING) \subseteq T
  OBVIOUS
<1> HIDE DEF T, inputs
<1>5. ArgumentsArrive(inputs, settings(r), buildAnalyzerArgs(inputs, settings(r)))
  BY <1>2, <1>3, <1>4, ArgumentsAreRead
<1> QED  BY <1>5 DEF inputs

\* The command line is built when the sources are resolved, and once.
LEMMA WordsStep ==
  ASSUME RunInv, WordsAreBuilt, Next
  PROVE  WordsAreBuilt'
<1>1. /\ RunTypeOK /\ sources = [q \in Requests |-> sources[q]]
      /\ stage \in [Requests -> Stages] /\ words = [q \in Requests |-> words[q]]
  BY DEF RunInv, RunTypeOK, WordsAreBuilt
<1>2. ASSUME NEW q \in Requests, words' = words \/ words'[q] = words[q],
             load' = load, sources'[q] = sources[q],
             stage'[q] \in {"absent", "begin", "resolve"} => stage[q] \in {"absent", "begin", "resolve"}
      PROVE  WordsInv(q)'
  <2>1. words'[q] = words[q] /\ WordsInv(q)
    BY <1>2 DEF WordsAreBuilt
  <2>2. inputFiles(q)' = inputFiles(q) /\ settings(q)' = settings(q)
    BY <1>2 DEF inputFiles, settings
  <2> QED  BY <1>2, <2>1, <2>2 DEF WordsInv
<1>3. CASE \E p \in Procs : Tool(p)
  <2>1. PICK p \in Procs : Tool(p)
    BY <1>3
  <2>2. words' = words
    BY <2>1 DEF Tool, StartTool, Process, Report, Send, SendRest, SendFails, Catch, analyzerVars
  <2>3. /\ UNCHANGED <<load, sources>> /\ p[1] \in Requests
        /\ stage' = stage \/ stage' = [stage EXCEPT ![p[1]] = "died"]
    BY <1>1, <2>1, ToolFrame, Tools
  <2>4. \A q \in Requests : stage'[q] = stage[q] \/ stage'[q] = "died"
    BY <1>1, <2>3
  <2>5. \A q \in Requests : WordsInv(q)'
    BY <1>2, <2>2, <2>3, <2>4
  <2> QED  BY <1>1, <2>2, <2>5 DEF WordsAreBuilt
<1>4. ASSUME NEW r \in Requests, Run(r) \/ PeerLeaves(r)  PROVE WordsAreBuilt'
  <2>1. /\ load' = load
        /\ \A q \in Requests \ {r} : stage'[q] = stage[q] /\ sources'[q] = sources[q]
    BY <1>1, <1>4, RunFrame
  <2>2. CASE StartAnalyzer(r)
    <3>1. /\ words' = [words EXCEPT ![r] = buildAnalyzerArgs(inputFiles(r), settings(r))]
          /\ UNCHANGED sources /\ stage'[r] \in {"analyzer", "answer"}
      BY <1>1, <2>2 DEF StartAnalyzer, goto
    <3>2. words' = [q \in Requests |-> words'[q]] /\ \A q \in Requests \ {r} : words'[q] = words[q]
      BY <1>1, <3>1
    <3>3. words'[r] = buildAnalyzerArgs(inputFiles(r), settings(r))
      BY <1>1, <3>1
    <3>4. inputFiles(r)' = inputFiles(r) /\ settings(r)' = settings(r)
      BY <2>1, <3>1 DEF inputFiles, settings
    <3>5. WordsInv(r)'
      BY <3>1, <3>3, <3>4 DEF WordsInv
    <3>6. \A q \in Requests \ {r} : WordsInv(q)'
      BY <1>2, <2>1, <3>2
    <3> QED  BY <3>2, <3>5, <3>6 DEF WordsAreBuilt
  <2>3. CASE ~StartAnalyzer(r)
    <3>1. words' = words
      BY <1>4, <2>3 DEF Run, ConstructInvoker, NoAnalysisSelected, ResolveSources, WithoutAnalyzer,
         RunAnalyzer, Deliver, DeliverToPeer, DeliverRest, Summarise, Answer, PeerLeaves, analyzerVars
    <3>2. WordsInv(r)'
      <4>1. CASE ResolveSources(r)
        <5>1. stage[r] = "resolve" /\ WordsInv(r)
          BY <4>1 DEF ResolveSources, WordsAreBuilt
        <5> QED  BY <3>1, <5>1 DEF WordsInv
      <4>2. CASE ConstructInvoker(r) \/ PeerLeaves(r)
        <5>1. UNCHANGED sources /\ (stage' = stage \/ stage[r] = "begin")
          BY <4>2 DEF ConstructInvoker, PeerLeaves
        <5> QED  BY <1>2, <2>1, <3>1, <5>1
      <4>3. CASE ~ResolveSources(r) /\ ~ConstructInvoker(r) /\ ~PeerLeaves(r)
        <5>1. UNCHANGED sources
              /\ stage'[r] \in (Ends \ {"absent"})
                                 \cup {"analyzer", "deliver", "sending", "summarise", "answer"}
          BY <1>1, <1>4, <2>3, <4>3 DEF Run, NoAnalysisSelected, WithoutAnalyzer, RunAnalyzer, Deliver,
             DeliverToPeer, DeliverRest, Summarise, Answer, goto, Throw, Ends
        <5> QED  BY <1>2, <2>1, <3>1, <5>1 DEF Ends
      <4> QED  BY <4>1, <4>2, <4>3
    <3>3. \A q \in Requests \ {r} : WordsInv(q)'
      BY <1>2, <2>1, <3>1
    <3> QED  BY <1>1, <3>1, <3>2, <3>3 DEF WordsAreBuilt
  <2> QED  BY <2>2, <2>3
<1>5. CASE Ended
  <2>1. UNCHANGED <<words, load, sources, stage>>
    BY <1>5 DEF Ended, vars, analyzerVars
  <2>2. \A q \in Requests : WordsInv(q)'
    BY <1>2, <2>1
  <2> QED  BY <1>1, <2>1, <2>2 DEF WordsAreBuilt
<1> QED  BY <1>3, <1>4, <1>5 DEF Next

\* The analyzer reads from its command line what the configuration says:
\* every option its value, and the resolved sources as its inputs.
THEOREM ArgumentsReachTheAnalyzer == Spec => []ArgumentsReachAnalyzer
<1>1. Init => WordsAreBuilt
  BY DEF Init, WordsAreBuilt, WordsInv
<1>2. RunInv /\ WordsAreBuilt /\ [Next]_vars => WordsAreBuilt'
  <2>1. CASE UNCHANGED vars
    BY <2>1 DEF vars, analyzerVars, WordsAreBuilt, WordsInv, inputFiles, settings
  <2> QED  BY <2>1, WordsStep
<1>3. RunInv /\ OutputInv /\ WordsAreBuilt => ArgumentsReachAnalyzer
  <2> SUFFICES ASSUME RunInv, OutputInv, WordsAreBuilt, NEW r \in Requests, words[r] # <<>>
               PROVE  ArgumentsArrive(inputFiles(r), settings(r), words[r])
    BY DEF ArgumentsReachAnalyzer
  <2>1. words[r] = buildAnalyzerArgs(inputFiles(r), settings(r)) /\ stage[r] # "absent"
    BY DEF WordsAreBuilt, WordsInv
  <2>2. load[r] # None
    BY <2>1 DEF RunInv, StageInv
  <2> QED  BY <2>1, <2>2, BuiltArgumentsArrive
<1> QED  BY <1>1, <1>2, <1>3, OutputInvariance, PTL DEF Spec

-----------------------------------------------------------------------------
(***************************************************************************)
(* The summary of the diagnostics.                                         *)
(***************************************************************************)

\* A step that leaves alone what the summary is made of.
LEMMA SummaryStays ==
  ASSUME NEW q \in Requests, SummaryInv(q),
         printed'[q] = printed[q], captured'[q] = captured[q], exit'[q] = exit[q], summary'[q] = summary[q],
         stage'[q] \in {"absent", "begin", "resolve", "tools", "analyzer"} =>
           stage[q] \in {"absent", "begin", "resolve", "tools", "analyzer"},
         stage'[q] \in {"answer", "ok"} =>
           stage[q] \in {"absent", "begin", "resolve", "tools", "analyzer", "answer", "ok"}
  PROVE  SummaryInv(q)'
BY DEF SummaryInv

\* The summary is made when the analyzer has ended, of what was captured.
LEMMA MadeStep ==
  ASSUME RunInv, summary \in [Requests -> Summaries], SummaryIsMade, Next
  PROVE  SummaryIsMade'
<1>1. /\ RunTypeOK /\ sources = [q \in Requests |-> sources[q]]
      /\ stage \in [Requests -> Stages]
      /\ printed \in [Requests -> AnalyzerPrints \cup {None}]
      /\ captured \in [Requests -> Captures \cup {None}]
      /\ exit \in [Requests -> {"none", "ok", "failed", "threw"}]
  BY DEF RunInv, RunTypeOK
<1>2. CASE \E p \in Procs : Tool(p)
  <2>1. PICK p \in Procs : Tool(p)
    BY <1>2
  <2>2. UNCHANGED <<printed, captured, exit, summary>>
    BY <2>1 DEF Tool, StartTool, Process, Report, Send, SendRest, SendFails, Catch, analyzerVars
  <2>3. p[1] \in Requests /\ (stage' = stage \/ stage' = [stage EXCEPT ![p[1]] = "died"])
    BY <1>1, <2>1, ToolFrame, Tools
  <2>4. \A q \in Requests : stage'[q] = stage[q] \/ stage'[q] = "died"
    BY <1>1, <2>3
  <2>5. ASSUME NEW q \in Requests  PROVE SummaryInv(q)'
    <3>1. SummaryInv(q)
      BY DEF SummaryIsMade
    <3> QED  BY <2>2, <2>4, <3>1, SummaryStays
  <2> QED  BY <2>5 DEF SummaryIsMade
<1>3. ASSUME NEW r \in Requests, Run(r) \/ PeerLeaves(r)  PROVE SummaryIsMade'
  <2>1. \A q \in Requests \ {r} : stage'[q] = stage[q]
    BY <1>1, <1>3, RunFrame
  <2>2. \A q \in Requests \ {r} :
          printed'[q] = printed[q] /\ captured'[q] = captured[q] /\ exit'[q] = exit[q] /\ summary'[q] = summary[q]
    <3>1. CASE RunAnalyzer(r)
      BY <1>1, <3>1 DEF RunAnalyzer
    <3>2. CASE Summarise(r)
      BY <3>2 DEF Summarise
    <3>3. CASE ~RunAnalyzer(r) /\ ~Summarise(r)
      BY <1>3, <3>3 DEF Run, ConstructInvoker, NoAnalysisSelected, ResolveSources, WithoutAnalyzer,
         StartAnalyzer, Deliver, DeliverToPeer, DeliverRest, Answer, PeerLeaves, analyzerVars
    <3> QED  BY <3>1, <3>2, <3>3
  <2>3. SummaryInv(r)
    BY DEF SummaryIsMade
  <2>4. SummaryInv(r)'
    <3>1. CASE RunAnalyzer(r)
      <4>1. stage'[r] \in {"rejected", "died", "deliver"}
        BY <1>1, <3>1 DEF RunAnalyzer, Throw, goto
      <4> QED  BY <4>1 DEF SummaryInv
    <3>2. CASE Summarise(r)
      <4>1. printed[r] \in AnalyzerPrints
        BY <3>2 DEF Summarise, RunInv, StageInv
      <4>2. /\ UNCHANGED <<printed, captured, exit>> /\ stage'[r] = "answer"
            /\ summary'[r] = lastDiagnosticsSummary(captured[r].out, captured[r].err)
        BY <1>1, <3>2 DEF Summarise, goto
      <4> QED  BY <4>1, <4>2 DEF SummaryInv
    <3>3. CASE ~RunAnalyzer(r) /\ ~Summarise(r)
      <4>1. UNCHANGED <<printed, captured, exit, summary>>
        BY <1>3, <3>3 DEF Run, ConstructInvoker, NoAnalysisSelected, ResolveSources, WithoutAnalyzer,
           StartAnalyzer, Deliver, DeliverToPeer, DeliverRest, Answer, PeerLeaves, analyzerVars
      <4>2. CASE ConstructInvoker(r) \/ NoAnalysisSelected(r) \/ ResolveSources(r)
                   \/ WithoutAnalyzer(r) \/ StartAnalyzer(r)
        <5>1. stage[r] \in {"begin", "resolve", "tools"}
          BY <4>2 DEF ConstructInvoker, NoAnalysisSelected, ResolveSources, WithoutAnalyzer,
             StartAnalyzer, ToolsDone
        <5> QED  BY <2>3, <4>1, <5>1, SummaryStays
      <4>3. CASE Deliver(r) \/ DeliverToPeer(r) \/ DeliverRest(r)
        <5>1. stage'[r] \in {"summarise", "sending", "rejected", "died"}
          BY <1>1, <4>3 DEF Deliver, DeliverToPeer, DeliverRest, goto, Throw
        <5> QED  BY <2>3, <4>1, <5>1, SummaryStays
      <4>4. CASE Answer(r)
        <5>1. stage[r] = "answer" /\ stage'[r] \in {"rejected", "died", "ok"}
          BY <1>1, <4>4 DEF Answer, goto, Throw
        <5> QED  BY <2>3, <4>1, <5>1, SummaryStays
      <4>5. CASE PeerLeaves(r)
        <5>1. stage' = stage
          BY <4>5 DEF PeerLeaves
        <5> QED  BY <2>3, <4>1, <5>1, SummaryStays
      <4> QED  BY <1>3, <3>3, <4>2, <4>3, <4>4, <4>5 DEF Run
    <3> QED  BY <3>1, <3>2, <3>3
  <2>5. ASSUME NEW q \in Requests \ {r}  PROVE SummaryInv(q)'
    <3>1. SummaryInv(q)
      BY DEF SummaryIsMade
    <3> QED  BY <2>1, <2>2, <3>1, SummaryStays
  <2> QED  BY <2>4, <2>5 DEF SummaryIsMade
<1>4. CASE Ended
  BY <1>4 DEF Ended, vars, analyzerVars, SummaryIsMade, SummaryInv
<1> QED  BY <1>2, <1>3, <1>4 DEF Next

\* The summary of an analysis whose output was captured counts every
\* diagnostic the analyzer has reported exactly once, in whatever format and
\* on whatever stream.
THEOREM TheSummaryIsTrue == Spec => []SummaryIsTrue
<1> DEFINE SummaryOK == summary \in [Requests -> Summaries]
<1>1. Init => SummaryOK /\ SummaryIsMade
  <2>1. Init => SummaryOK
    BY NothingIsASummary DEF Init
  <2>2. Init => \A r \in Requests : exit[r] = "none"
    BY DEF Init
  <2>3. Init => SummaryIsMade
    BY <2>2 DEF SummaryIsMade, SummaryInv
  <2> QED  BY <2>1, <2>3
<1>2. RunInv /\ SummaryOK /\ SummaryIsMade /\ [Next]_vars => SummaryOK' /\ SummaryIsMade'
  <2>1. CASE UNCHANGED vars
    BY <2>1 DEF vars, analyzerVars, SummaryIsMade, SummaryInv
  <2> QED  BY <2>1, SummaryStep, MadeStep
<1>3. SummaryIsMade => SummaryIsTrue
  <2> SUFFICES ASSUME SummaryIsMade, NEW r \in Requests, stage[r] = "ok", exit[r] # "none",
                      captured[r] = Streams(printed[r])
               PROVE  summary[r] = truth(printed[r].reports)
    BY DEF SummaryIsTrue
  <2>1. /\ printed[r] \in AnalyzerPrints
        /\ summary[r] = lastDiagnosticsSummary(captured[r].out, captured[r].err)
    BY DEF SummaryIsMade, SummaryInv
  <2>2. captured[r].out = printed[r].out /\ captured[r].err = printed[r].err
    BY DEF Streams
  <2>3. /\ IsPrinted(printed[r].out) /\ IsPrinted(printed[r].err) /\ Rendered(printed[r])
        /\ summary[r] = lastDiagnosticsSummary(printed[r].out, printed[r].err)
    BY <2>1, <2>2, PrintsAssumption
  <2> QED  BY <2>1, <2>3, TheSummaryIsTold
<1> QED  BY <1>1, <1>2, <1>3, RunInvariance, PTL DEF Spec
==============================================================================
