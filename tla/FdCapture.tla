------------------------------ MODULE FdCapture ------------------------------
(***************************************************************************)
(* StackAnalyzerToolImplementation::executeBatch and its ScopedFdCapture:  *)
(* descriptors 1 and 2 of the whole process point to temporary files while *)
(* the analyzer library runs, what it printed is read back, printed again  *)
(* and persisted as the report.                                            *)
(*                                                                         *)
(* A batch is one call of executeBatch.  Batches of one ToolInvoker have   *)
(* the lock of their tool in common; every request of the server has an    *)
(* invoker, and a lock, of its own.  Text is the set of the batches whose  *)
(* analyzer wrote it.  The output policy is standardIO.                    *)
(***************************************************************************)
EXTENDS FiniteSets

CONSTANTS
  Batches,   \* the calls of executeBatch in the life of the process
  lockOf,    \* the tool lock each of them holds
  MayFail,   \* the system calls that can fail: "dup", "mkstemp", "dup2", "open"
  Terminal,  \* where the descriptors point at the start
  NoFile     \* a descriptor that is not open

Streams == {"out", "err"}
Files == (Batches \cup {Terminal}) \X Streams

ASSUME LockAssumption == DOMAIN lockOf = Batches
ASSUME FileAssumption == Terminal \notin Batches /\ NoFile \notin Files

VARIABLES
  pc,        \* per batch: where it is
  held,      \* the tool locks that are held
  fd,        \* descriptors 1 and 2
  buffer,    \* what the analyzer printed to stdout and is not yet flushed
  text,      \* what has been written to each file
  saved,     \* per batch: originalStdoutFd_ and originalStderrFd_
  temp,      \* per batch: the temporary files it has open
  enabled,   \* per batch: enabled_
  outcome,   \* per batch: how the analyzer ended
  captured,  \* per batch: the text that has been read back
  report     \* per batch: the report file it has written, or NoFile

batchVars == <<saved, temp, enabled, outcome, captured, report>>
vars == <<pc, held, fd, buffer, text, batchVars>>

Init ==
  /\ pc = [b \in Batches |-> "start"]
  /\ held = {}
  /\ fd = [s \in Streams |-> <<Terminal, s>>]
  /\ buffer = {}
  /\ text = [f \in Files |-> {}]
  /\ saved = [b \in Batches |-> [s \in Streams |-> NoFile]]
  /\ temp = [b \in Batches |-> {}]
  /\ enabled = [b \in Batches |-> FALSE]
  /\ outcome = [b \in Batches |-> "none"]
  /\ captured = [b \in Batches |-> [s \in Streams |-> {}]]
  /\ report = [b \in Batches |-> NoFile]

goto(b, l) == pc' = [pc EXCEPT ![b] = l]

flushStreams ==
  /\ text' = [text EXCEPT ![fd["out"]] = @ \cup buffer]
  /\ buffer' = {}

-----------------------------------------------------------------------------
\* Faulty: the tool is executed without its lock.
Begin_unlocked(b) ==
  /\ pc[b] = "start"
  /\ \/ goto(b, "save") /\ held' = held \cup {lockOf[b]}
     \/ goto(b, "done") /\ UNCHANGED held
  /\ UNCHANGED <<fd, buffer, text, batchVars>>

\* The lock of the tool; arguments the analyzer refuses end the batch.
Begin(b) ==
  /\ pc[b] = "start"
  /\ lockOf[b] \notin held
  /\ \/ goto(b, "save") /\ held' = held \cup {lockOf[b]}
     \/ goto(b, "done") /\ UNCHANGED held
  /\ UNCHANGED <<fd, buffer, text, batchVars>>

\* dup of both descriptors.
Save(b) ==
  /\ pc[b] = "save"
  /\ flushStreams
  /\ \E ok \in SUBSET Streams :
       /\ ok = Streams \/ "dup" \in MayFail
       /\ saved' = [saved EXCEPT ![b] = [s \in Streams |-> IF s \in ok THEN fd[s] ELSE NoFile]]
       /\ goto(b, IF ok = Streams THEN "temp" ELSE "run")
  /\ UNCHANGED <<held, fd, temp, enabled, outcome, captured, report>>

\* mkstemp and unlink of both temporary files.
CreateTemp(b) ==
  /\ pc[b] = "temp"
  /\ \E ok \in SUBSET Streams :
       /\ ok = Streams \/ "mkstemp" \in MayFail
       /\ temp' = [temp EXCEPT ![b] = ok]
       /\ goto(b, IF ok = Streams THEN "redirectOut" ELSE "run")
  /\ UNCHANGED <<held, fd, buffer, text, saved, enabled, outcome, captured, report>>

\* dup2 of one stream; a failure leaves the capture disabled.
Redirect(b, s, from, to) ==
  /\ pc[b] = from
  /\ \/ fd' = [fd EXCEPT ![s] = <<b, s>>] /\ goto(b, to)
     \/ "dup2" \in MayFail /\ goto(b, "run") /\ UNCHANGED fd
  /\ UNCHANGED <<held, buffer, text, saved, temp, outcome, captured, report>>

RedirectOut(b) == Redirect(b, "out", "redirectOut", "redirectErr") /\ UNCHANGED enabled
RedirectErr(b) ==
  /\ Redirect(b, "err", "redirectErr", "run")
  /\ enabled' = [enabled EXCEPT ![b] = fd' # fd]

\* runAnalyzerApp prints to the buffered stdout and to stderr.
RunAnalyzer(b) ==
  /\ pc[b] = "run"
  /\ buffer' = buffer \cup {b}
  /\ text' = [text EXCEPT ![fd["err"]] = @ \cup {b}]
  /\ \E o \in {"ok", "failed", "threw"} : outcome' = [outcome EXCEPT ![b] = o]
  /\ goto(b, IF enabled[b] THEN "read" ELSE IF outcome'[b] = "threw" THEN "end" ELSE "persist")
  /\ UNCHANGED <<held, fd, saved, temp, enabled, captured, report>>

\* Faulty: the streams are not flushed before the files are read.
Read_unflushed(b) ==
  /\ pc[b] = "read"
  /\ captured' = [captured EXCEPT ![b] = [s \in Streams |-> text[<<b, s>>]]]
  /\ goto(b, "restore")
  /\ UNCHANGED <<held, fd, buffer, text, saved, temp, enabled, outcome, report>>

\* release(): flush, then read both temporary files.
Read(b) ==
  /\ pc[b] = "read"
  /\ flushStreams
  /\ captured' = [captured EXCEPT ![b] = [s \in Streams |-> text'[<<b, s>>]]]
  /\ goto(b, "restore")
  /\ UNCHANGED <<held, fd, saved, temp, enabled, outcome, report>>

\* Faulty: stderr is left on its temporary file.
Restore_outOnly(b) ==
  /\ pc[b] = "restore"
  /\ fd' = [fd EXCEPT !["out"] = saved[b]["out"]]
  /\ saved' = [saved EXCEPT ![b] = [s \in Streams |-> NoFile]]
  /\ temp' = [temp EXCEPT ![b] = {}]
  /\ goto(b, IF outcome[b] = "threw" THEN "end" ELSE "deliver")
  /\ UNCHANGED <<held, buffer, text, enabled, outcome, captured, report>>

\* Faulty: the duplicates and the temporary files are never closed.
Restore_leaks(b) ==
  /\ pc[b] = "restore"
  /\ fd' = saved[b]
  /\ goto(b, IF outcome[b] = "threw" THEN "end" ELSE "deliver")
  /\ UNCHANGED <<held, buffer, text, batchVars>>

\* restoreDescriptors and closeTempFiles; an exception passes on from here.
Restore(b) ==
  /\ pc[b] = "restore"
  /\ fd' = saved[b]
  /\ saved' = [saved EXCEPT ![b] = [s \in Streams |-> NoFile]]
  /\ temp' = [temp EXCEPT ![b] = {}]
  /\ goto(b, IF outcome[b] = "threw" THEN "end" ELSE "deliver")
  /\ UNCHANGED <<held, buffer, text, enabled, outcome, captured, report>>

\* Faulty: what was written to stderr is not passed on.
Deliver_outOnly(b) ==
  /\ pc[b] = "deliver"
  /\ text' = [text EXCEPT ![fd["out"]] = @ \cup captured[b]["out"]]
  /\ goto(b, "persist")
  /\ UNCHANGED <<held, fd, buffer, batchVars>>

\* The captured text is printed where the descriptors point now.
Deliver(b) ==
  /\ pc[b] = "deliver"
  /\ text' = [f \in Files |->
                text[f] \cup UNION {captured[b][s] : s \in {t \in Streams : fd[t] = f}}]
  /\ goto(b, "persist")
  /\ UNCHANGED <<held, fd, buffer, batchVars>>

writeReportToFile(b) ==
  \/ report' = [report EXCEPT ![b] = captured[b]["out"]]
  \/ "open" \in MayFail /\ UNCHANGED report

\* The report of a successful run is the captured stdout; that it cannot be
\* written is only logged.
Persist(b) ==
  /\ pc[b] = "persist"
  /\ IF outcome[b] = "ok" THEN writeReportToFile(b) ELSE UNCHANGED report
  /\ goto(b, "end")
  /\ UNCHANGED <<held, fd, buffer, text, saved, temp, enabled, outcome, captured>>

\* A capture that is not enabled is released by its destructor, which reads
\* nothing back and restores nothing; then the tool lock is given back.
End(b) ==
  /\ pc[b] = "end"
  /\ IF enabled[b] THEN UNCHANGED <<buffer, text>> ELSE flushStreams
  /\ temp' = [temp EXCEPT ![b] = {}]
  /\ held' = held \ {lockOf[b]}
  /\ goto(b, "done")
  /\ UNCHANGED <<fd, saved, enabled, outcome, captured, report>>

Batch(b) ==
  \/ Begin(b) \/ Save(b) \/ CreateTemp(b) \/ RedirectOut(b) \/ RedirectErr(b)
  \/ RunAnalyzer(b) \/ Read(b) \/ Restore(b) \/ Deliver(b) \/ Persist(b) \/ End(b)

Quiet == (\A b \in Batches : pc[b] = "done") /\ UNCHANGED vars

Next == (\E b \in Batches : Batch(b)) \/ Quiet

Spec == Init /\ [][Next]_vars

-----------------------------------------------------------------------------
Places == {"start", "save", "temp", "redirectOut", "redirectErr", "run", "read",
           "restore", "deliver", "persist", "end", "done"}

TypeOK ==
  /\ pc \in [Batches -> Places]
  /\ held = {lockOf[b] : b \in {c \in Batches : pc[c] \notin {"start", "done"}}}
  /\ fd \in [Streams -> Files]
  /\ buffer \in SUBSET Batches
  /\ text \in [Files -> SUBSET Batches]
  /\ saved \in [Batches -> [Streams -> Files \cup {NoFile}]]
  /\ temp \in [Batches -> SUBSET Streams]
  /\ enabled \in [Batches -> BOOLEAN]
  /\ outcome \in [Batches -> {"none", "ok", "failed", "threw"}]
  /\ captured \in [Batches -> [Streams -> SUBSET Batches]]
  /\ report \in [Batches -> (SUBSET Batches) \cup {NoFile}]

\* A successful batch whose capture was set up persists the stdout of its own
\* analyzer, all of it; no report holds what another analyzer has printed; and
\* a batch that fails or throws leaves the previous report alone.  What a
\* successful batch without a capture persists is finding 6.
PersistedReport ==
  \A b \in Batches :
    /\ pc[b] = "done" /\ outcome[b] = "ok" /\ enabled[b] =>
         report[b] = {b} \/ ("open" \in MayFail /\ report[b] = NoFile)
    /\ report[b] # NoFile => outcome[b] = "ok" /\ report[b] \subseteq {b}

\* With no batch under way, stdout and stderr are the terminal again, also
\* after a capture that could not be set up or an analyzer that threw.
StreamsRestored ==
  (\A b \in Batches : pc[b] \in {"start", "done"}) => fd = [s \in Streams |-> <<Terminal, s>>]

\* Whatever an analyzer that returned has printed reaches the terminal, on
\* the stream it was printed to, with and without a capture.
OutputDelivered ==
  \A b \in Batches : pc[b] = "done" /\ outcome[b] \in {"ok", "failed"} =>
    \A s \in Streams : b \in text[<<Terminal, s>>]

\* A capture that was set up leaves no descriptor open.
CaptureIsClosed ==
  \A b \in Batches : pc[b] = "done" /\ enabled[b] =>
    temp[b] = {} /\ \A s \in Streams : saved[b][s] = NoFile

-----------------------------------------------------------------------------
\* The inductive invariant for batches that share one lock.

OneLock == \A b, c \in Batches : lockOf[b] = lockOf[c]

Active(b) == pc[b] \notin {"start", "done"}

Installed(b) == pc[b] \in {"read", "restore"} \/ (pc[b] = "run" /\ enabled[b])
Redirected(b, s) == Installed(b) \/ (pc[b] = "redirectErr" /\ s = "out")

\* One batch at a time.
Exclusive == \A b, c \in Batches : Active(b) /\ Active(c) => b = c

\* Where the descriptors point.
DescriptorInv ==
  \A s \in Streams :
    /\ \A b \in Batches : Redirected(b, s) => fd[s] = <<b, s>>
    /\ (\A b \in Batches : ~Redirected(b, s)) => fd[s] = <<Terminal, s>>

\* What batch b has saved and opened.
CaptureInv(b) ==
  /\ pc[b] \in {"start", "save", "temp", "redirectOut", "redirectErr"} => ~enabled[b]
  /\ pc[b] \in {"read", "restore", "deliver"} => enabled[b]
  /\ Installed(b) \/ pc[b] \in {"temp", "redirectOut", "redirectErr"} =>
       saved[b] = [s \in Streams |-> <<Terminal, s>>]
  /\ pc[b] \in {"deliver", "persist", "end", "done"} /\ enabled[b] =>
       temp[b] = {} /\ saved[b] = [s \in Streams |-> NoFile]

\* Text waits in the buffer only while its batch is active.
BufferInv ==
  /\ (\A b \in Batches : pc[b] \notin {"read", "persist", "end"}) => buffer = {}
  /\ \A b \in Batches :
       /\ pc[b] = "read" => buffer = {b}
       /\ pc[b] \in {"persist", "end"} /\ enabled[b] => buffer = {}

AfterRead == {"restore", "deliver", "persist", "end", "done"}

\* Where the stdout of batch b is on its way to the report.
ReportInv(b) ==
  /\ captured[b]["out"] = IF enabled[b] /\ pc[b] \in AfterRead THEN {b} ELSE {}
  /\ pc[b] \notin AfterRead => text[<<b, "out">>] = {}
  /\ pc[b] \notin AfterRead \cup {"read"} => outcome[b] = "none"
  /\ pc[b] \notin {"end", "done"} \/ outcome[b] # "ok" => report[b] = NoFile
  /\ pc[b] \in {"end", "done"} /\ outcome[b] = "ok" =>
       \/ report[b] = captured[b]["out"]
       \/ "open" \in MayFail /\ report[b] = NoFile

\* Where the text of batch b is on its way to the terminal.
Delivered(b) == \A s \in Streams : b \in text[<<Terminal, s>>]
Returned(b) == outcome[b] \in {"ok", "failed"}

DeliverInv(b) ==
  /\ pc[b] = "read" => b \in text[<<b, "err">>]
  /\ enabled[b] /\ pc[b] \in AfterRead => b \in captured[b]["err"]
  /\ ~enabled[b] /\ pc[b] \in {"persist", "end"} =>
       b \in text[<<Terminal, "err">>] /\ b \in buffer \cup text[<<Terminal, "out">>]
  /\ enabled[b] /\ pc[b] \in {"persist", "end"} /\ Returned(b) => Delivered(b)
  /\ pc[b] = "done" /\ Returned(b) => Delivered(b)

IInv ==
  /\ TypeOK
  /\ Exclusive
  /\ DescriptorInv
  /\ BufferInv
  /\ \A b \in Batches : CaptureInv(b) /\ ReportInv(b)

\* docs/configuration.md:97, output.report_file: "stack analyzer stdout report
\* is persisted to this file by coretrace after a successful run."  Here only
\* for one of all runs, of which some have a capture and some have none.  That
\* is weaker, so a counterexample refutes the sentence for both kinds of run.
SomeReportPersisted ==
  /\ \A b \in Batches : pc[b] = "done" /\ outcome[b] = "ok"
  /\ {enabled[b] : b \in Batches} = BOOLEAN
  => \E b \in Batches : report[b] = {b}
==============================================================================
