-------------------------- MODULE FdCaptureProofs ----------------------------
(***************************************************************************)
(* Proofs about FdCapture: for any set of batches that share one tool      *)
(* lock, with system calls other than dup2 failing at will.                *)
(***************************************************************************)
EXTENDS FdCapture, TLAPS

USE FileAssumption DEF Streams, Files

\* The step of a batch that holds the lock, or takes it, is made alone.
LEMMA StepsAlone ==
  ASSUME OneLock, TypeOK, Exclusive, NEW b \in Batches, Batch(b)
  PROVE  \A c \in Batches \ {b} : pc[c] \in {"start", "done"}
<1>1. CASE pc[b] = "start"
  <2>1. lockOf[b] \notin held
    BY <1>1 DEF Batch, Begin, Save, CreateTemp, RedirectOut, RedirectErr, Redirect, RunAnalyzer,
                Read, Restore, Deliver, Persist, End
  <2>2. \A c \in Batches : pc[c] \notin {"start", "done"} => lockOf[c] \in held
    BY DEF TypeOK
  <2>3. QED
    BY <2>1, <2>2 DEF OneLock
<1>2. CASE pc[b] # "start"
  <2>1. pc[b] # "done"
    BY <1>2 DEF Batch, Begin, Save, CreateTemp, RedirectOut, RedirectErr, Redirect, RunAnalyzer,
                Read, Restore, Deliver, Persist, End
  <2>2. QED
    BY <1>2, <2>1 DEF Exclusive, Active
<1>3. QED
  BY <1>1, <1>2

-----------------------------------------------------------------------------
(***************************************************************************)
(* Types and mutual exclusion.                                             *)
(***************************************************************************)
\* A step moves one batch only.
LEMMA OthersStay ==
  ASSUME pc \in [Batches -> Places], NEW b \in Batches, Batch(b)
  PROVE  \A c \in Batches \ {b} : pc'[c] = pc[c]
<1>1. \E l : pc' = [pc EXCEPT ![b] = l]
  <2>1. CASE Begin(b)
    BY <2>1 DEF Begin, goto
  <2>2. CASE Save(b)
    BY <2>2 DEF Save, goto
  <2>3. CASE CreateTemp(b)
    BY <2>3 DEF CreateTemp, goto
  <2>4. CASE RedirectOut(b)
    BY <2>4 DEF RedirectOut, Redirect, goto
  <2>5. CASE RedirectErr(b)
    BY <2>5 DEF RedirectErr, Redirect, goto
  <2>6. CASE RunAnalyzer(b)
    BY <2>6 DEF RunAnalyzer, goto
  <2>7. CASE Read(b)
    BY <2>7 DEF Read, goto
  <2>8. CASE Restore(b)
    BY <2>8 DEF Restore, goto
  <2>9. CASE Deliver(b)
    BY <2>9 DEF Deliver, goto
  <2>10. CASE Persist(b)
    BY <2>10 DEF Persist, goto
  <2>11. CASE End(b)
    BY <2>11 DEF End, goto
  <2>12. QED
    BY <2>1, <2>2, <2>3, <2>4, <2>5, <2>6, <2>7, <2>8, <2>9, <2>10, <2>11 DEF Batch
<1>2. QED
  BY <1>1

LEMMA ExclusiveNext ==
  ASSUME OneLock, TypeOK, Exclusive, NEW b \in Batches, Batch(b)
  PROVE  Exclusive'
<1>1. \A c \in Batches \ {b} : pc'[c] = pc[c]
  BY OthersStay DEF TypeOK
<1>2. QED
  BY <1>1, StepsAlone DEF Exclusive, Active

\* The locks held are those of the active batches.
LEMMA HeldNext ==
  ASSUME OneLock, TypeOK, Exclusive, NEW b \in Batches, Batch(b)
  PROVE  held' = {lockOf[c] : c \in {d \in Batches : pc'[d] \notin {"start", "done"}}}
<1>1. \A c \in Batches \ {b} : pc[c] \in {"start", "done"} /\ pc'[c] = pc[c]
  BY StepsAlone, OthersStay DEF TypeOK
<1>2. /\ held = IF pc[b] \in {"start", "done"} THEN {} ELSE {lockOf[b]}
      /\ pc[b] \in Places
  BY <1>1 DEF TypeOK
<1>3. CASE Begin(b)
  BY <1>1, <1>2, <1>3 DEF Begin, goto, TypeOK
<1>4. CASE End(b)
  BY <1>1, <1>2, <1>4 DEF End, goto, TypeOK
<1>5. CASE ~Begin(b) /\ ~End(b)
  <2>1. UNCHANGED held /\ pc[b] \notin {"start", "done"} /\ pc'[b] \notin {"start", "done"}
    BY <1>5
    DEF TypeOK, goto, Batch, Save, CreateTemp, RedirectOut, RedirectErr, Redirect, RunAnalyzer,
        Read, Restore, Deliver, Persist
  <2>2. QED
    BY <1>1, <1>2, <2>1
<1>6. QED
  BY <1>3, <1>4, <1>5

LEMMA TypeNext ==
  ASSUME OneLock, TypeOK, Exclusive, NEW b \in Batches, CaptureInv(b), Batch(b)
  PROVE  TypeOK'
<1>1. held' = {lockOf[c] : c \in {d \in Batches : pc'[d] \notin {"start", "done"}}}
  BY HeldNext
<1> USE DEF TypeOK, Places, goto, batchVars, flushStreams
<1>2. CASE Begin(b)
  BY <1>1, <1>2 DEF Begin
<1>3. CASE Save(b)
  BY <1>1, <1>3 DEF Save
<1>4. CASE CreateTemp(b)
  BY <1>1, <1>4 DEF CreateTemp
<1>5. CASE RedirectOut(b)
  <2>1. \/ fd' = [fd EXCEPT !["out"] = <<b, "out">>] /\ pc' = [pc EXCEPT ![b] = "redirectErr"]
        \/ fd' = fd /\ pc' = [pc EXCEPT ![b] = "run"]
    BY <1>5 DEF RedirectOut, Redirect
  <2>2. UNCHANGED <<held, buffer, text, saved, temp, enabled, outcome, captured, report>>
    BY <1>5 DEF RedirectOut, Redirect
  <2>3. fd' \in [Streams -> Files]
    BY <2>1
  <2>4. pc' \in [Batches -> Places]
    BY <2>1
  <2>5. QED
    BY <1>1, <2>2, <2>3, <2>4
<1>6. CASE RedirectErr(b)
  BY <1>1, <1>6, SMTT(25) DEF RedirectErr, Redirect
<1>7. CASE RunAnalyzer(b)
  BY <1>1, <1>7 DEF RunAnalyzer
<1>8. CASE Read(b)
  BY <1>1, <1>8 DEF Read
<1>9. CASE Restore(b)
  <2>1. fd' = [s \in Streams |-> <<Terminal, s>>]
    BY <1>9 DEF Restore, CaptureInv, Installed
  <2>2. \E p \in {"end", "deliver"} : pc' = [pc EXCEPT ![b] = p]
    BY <1>9 DEF Restore
  <2>3. QED
    BY <1>1, <1>9, <2>1, <2>2 DEF Restore
<1>10. CASE Deliver(b)
  BY <1>1, <1>10 DEF Deliver
<1>11. CASE Persist(b)
  <2>1. report' = [report EXCEPT ![b] = captured[b]["out"]] \/ report' = report
    BY <1>11 DEF Persist, writeReportToFile
  <2>2. report' \in [Batches -> (SUBSET Batches) \cup {NoFile}]
    BY <2>1, SMTT(25)
  <2>3. pc' \in [Batches -> Places]
    BY <1>11 DEF Persist
  <2>4. UNCHANGED <<held, fd, buffer, text, saved, temp, enabled, outcome, captured>>
    BY <1>11 DEF Persist
  <2>5. QED
    BY <1>1, <2>2, <2>3, <2>4
<1>12. CASE End(b)
  BY <1>1, <1>12, SMTT(25) DEF End
<1>13. QED
  BY <1>2, <1>3, <1>4, <1>5, <1>6, <1>7, <1>8, <1>9, <1>10, <1>11, <1>12 DEF Batch

-----------------------------------------------------------------------------
(***************************************************************************)
(* The other batches wait or have ended, and a step leaves them alone.     *)
(***************************************************************************)
LEMMA Frame ==
  ASSUME OneLock, TypeOK, Exclusive, NEW b \in Batches, Batch(b)
  PROVE  \A c \in Batches \ {b} :
           /\ pc[c] \in {"start", "done"}
           /\ pc'[c] = pc[c]
           /\ saved'[c] = saved[c]
           /\ temp'[c] = temp[c]
           /\ enabled'[c] = enabled[c]
           /\ outcome'[c] = outcome[c]
           /\ captured'[c] = captured[c]
           /\ report'[c] = report[c]
<1>1. \A c \in Batches \ {b} : pc[c] \in {"start", "done"}
  BY StepsAlone
<1> USE DEF TypeOK, goto, batchVars
<1>2. CASE Begin(b)
  BY <1>1, <1>2 DEF Begin
<1>3. CASE Save(b)
  BY <1>1, <1>3 DEF Save
<1>4. CASE CreateTemp(b)
  BY <1>1, <1>4 DEF CreateTemp
<1>5. CASE RedirectOut(b)
  BY <1>1, <1>5 DEF RedirectOut, Redirect
<1>6. CASE RedirectErr(b)
  BY <1>1, <1>6 DEF RedirectErr, Redirect
<1>7. CASE RunAnalyzer(b)
  BY <1>1, <1>7 DEF RunAnalyzer
<1>8. CASE Read(b)
  BY <1>1, <1>8 DEF Read
<1>9. CASE Restore(b)
  BY <1>1, <1>9 DEF Restore
<1>10. CASE Deliver(b)
  BY <1>1, <1>10 DEF Deliver
<1>11. CASE Persist(b)
  BY <1>1, <1>11 DEF Persist, writeReportToFile
<1>12. CASE End(b)
  BY <1>1, <1>12 DEF End
<1>13. QED
  BY <1>2, <1>3, <1>4, <1>5, <1>6, <1>7, <1>8, <1>9, <1>10, <1>11, <1>12 DEF Batch

-----------------------------------------------------------------------------
(***************************************************************************)
(* The descriptors.                                                        *)
(***************************************************************************)
LEMMA DescriptorsOfOne ==
  ASSUME NEW b \in Batches, \A c \in Batches \ {b} : pc[c] \in {"start", "done"}
  PROVE  DescriptorInv <=>
           \A s \in Streams : fd[s] = IF Redirected(b, s) THEN <<b, s>> ELSE <<Terminal, s>>
BY DEF DescriptorInv, Redirected, Installed

LEMMA DescriptorNext ==
  ASSUME OneLock, TypeOK, Exclusive, DescriptorInv, "dup2" \notin MayFail,
         NEW b \in Batches, CaptureInv(b), Batch(b)
  PROVE  DescriptorInv' /\ CaptureInv(b)'
<1>1. \A s \in Streams : fd[s] = IF Redirected(b, s) THEN <<b, s>> ELSE <<Terminal, s>>
  BY Frame, DescriptorsOfOne
<1>2. /\ \A s \in Streams : fd'[s] = IF Redirected(b, s)' THEN <<b, s>> ELSE <<Terminal, s>>
      /\ CaptureInv(b)'
  <2> USE DEF TypeOK, goto, batchVars, CaptureInv, Redirected, Installed
  <2>1. CASE Begin(b)
    BY <1>1, <2>1 DEF Begin
  <2>2. CASE Save(b)
    BY <1>1, <2>2 DEF Save
  <2>3. CASE CreateTemp(b)
    BY <1>1, <2>3 DEF CreateTemp
  <2>4. CASE RedirectOut(b)
    <3>1. fd' = [fd EXCEPT !["out"] = <<b, "out">>] /\ pc' = [pc EXCEPT ![b] = "redirectErr"]
      BY <2>4 DEF RedirectOut, Redirect
    <3>2. pc[b] = "redirectOut" /\ UNCHANGED <<saved, temp, enabled>>
      BY <2>4 DEF RedirectOut, Redirect
    <3>3. QED
      BY <1>1, <3>1, <3>2
  <2>5. CASE RedirectErr(b)
    <3>1. fd' = [fd EXCEPT !["err"] = <<b, "err">>] /\ pc' = [pc EXCEPT ![b] = "run"]
      BY <2>5 DEF RedirectErr, Redirect
    <3>2. pc[b] = "redirectErr" /\ UNCHANGED <<saved, temp>>
      BY <2>5 DEF RedirectErr, Redirect
    <3>3. fd' # fd
      BY <1>1, <3>1, <3>2
    <3>4. enabled' = [enabled EXCEPT ![b] = TRUE]
      BY <2>5, <3>3 DEF RedirectErr
    <3>5. QED
      BY <1>1, <3>1, <3>2, <3>4
  <2>6. CASE RunAnalyzer(b)
    BY <1>1, <2>6 DEF RunAnalyzer
  <2>7. CASE Read(b)
    BY <1>1, <2>7 DEF Read
  <2>8. CASE Restore(b)
    BY <1>1, <2>8 DEF Restore
  <2>9. CASE Deliver(b)
    BY <1>1, <2>9 DEF Deliver
  <2>10. CASE Persist(b)
    BY <1>1, <2>10 DEF Persist, writeReportToFile
  <2>11. CASE End(b)
    BY <1>1, <2>11 DEF End
  <2>12. QED
    BY <2>1, <2>2, <2>3, <2>4, <2>5, <2>6, <2>7, <2>8, <2>9, <2>10, <2>11 DEF Batch
<1>3. DescriptorInv'
  BY Frame, <1>2 DEF DescriptorInv, Redirected, Installed
<1>4. QED
  BY <1>2, <1>3

-----------------------------------------------------------------------------
(***************************************************************************)
(* The text of the analyzers and the reports.                              *)
(***************************************************************************)
LEMMA ReportNext ==
  ASSUME OneLock, TypeOK, Exclusive, DescriptorInv, BufferInv, "dup2" \notin MayFail,
         \A c \in Batches : CaptureInv(c) /\ ReportInv(c), NEW b \in Batches, Batch(b)
  PROVE  BufferInv' /\ \A c \in Batches : ReportInv(c)'
<1>1. \A s \in Streams : fd[s] = IF Redirected(b, s) THEN <<b, s>> ELSE <<Terminal, s>>
  BY Frame, DescriptorsOfOne
<1>2. /\ pc[b] \notin {"read", "persist", "end"} => buffer = {}
      /\ pc[b] = "read" => buffer = {b}
      /\ pc[b] \in {"persist", "end"} /\ enabled[b] => buffer = {}
  BY Frame DEF BufferInv
<1>3. /\ pc'[b] \notin {"read", "persist", "end"} => buffer' = {}
      /\ pc'[b] = "read" => buffer' = {b}
      /\ pc'[b] \in {"persist", "end"} /\ enabled'[b] => buffer' = {}
  <2> USE DEF TypeOK, goto, batchVars, flushStreams, CaptureInv
  <2>1. CASE Begin(b)
    BY <1>2, <2>1 DEF Begin
  <2>2. CASE Save(b)
    BY <1>2, <2>2 DEF Save
  <2>3. CASE CreateTemp(b)
    BY <1>2, <2>3 DEF CreateTemp
  <2>4. CASE RedirectOut(b)
    BY <1>2, <2>4 DEF RedirectOut, Redirect
  <2>5. CASE RedirectErr(b)
    BY <1>2, <2>5 DEF RedirectErr, Redirect
  <2>6. CASE RunAnalyzer(b)
    BY <1>2, <2>6 DEF RunAnalyzer
  <2>7. CASE Read(b)
    BY <1>2, <2>7 DEF Read
  <2>8. CASE Restore(b)
    BY <1>2, <2>8 DEF Restore
  <2>9. CASE Deliver(b)
    BY <1>2, <2>9 DEF Deliver
  <2>10. CASE Persist(b)
    BY <1>2, <2>10 DEF Persist, writeReportToFile
  <2>11. CASE End(b)
    BY <1>2, <2>11 DEF End
  <2>12. QED
    BY <2>1, <2>2, <2>3, <2>4, <2>5, <2>6, <2>7, <2>8, <2>9, <2>10, <2>11 DEF Batch
<1>4. \A c \in Batches \ {b} : text'[<<c, "out">>] = text[<<c, "out">>]
  <2> USE DEF TypeOK, batchVars, flushStreams
  <2>1. CASE Begin(b)
    BY <1>1, <2>1 DEF Begin
  <2>2. CASE Save(b)
    BY <1>1, <2>2 DEF Save
  <2>3. CASE CreateTemp(b)
    BY <1>1, <2>3 DEF CreateTemp
  <2>4. CASE RedirectOut(b)
    BY <1>1, <2>4 DEF RedirectOut, Redirect
  <2>5. CASE RedirectErr(b)
    BY <1>1, <2>5 DEF RedirectErr, Redirect
  <2>6. CASE RunAnalyzer(b)
    BY <1>1, <2>6 DEF RunAnalyzer
  <2>7. CASE Read(b)
    BY <1>1, <2>7 DEF Read
  <2>8. CASE Restore(b)
    BY <1>1, <2>8 DEF Restore
  <2>9. CASE Deliver(b)
    <3>1. \A c \in Batches \ {b}, s \in Streams : fd[s] # <<c, "out">>
      BY <1>1
    <3>2. SUFFICES ASSUME NEW c \in Batches \ {b}
                   PROVE  text'[<<c, "out">>] = text[<<c, "out">>]
      OBVIOUS
    <3>3. {t \in Streams : fd[t] = <<c, "out">>} = {}
      BY <3>1
    <3>4. <<c, "out">> \in Files
      OBVIOUS
    <3>5. text'[<<c, "out">>] = text[<<c, "out">>] \cup
             UNION {captured[b][s] : s \in {t \in Streams : fd[t] = <<c, "out">>}}
      BY <2>9, <3>4, Zenon DEF Deliver
    <3>6. QED
      BY <3>3, <3>5
  <2>10. CASE Persist(b)
    BY <1>1, <2>10 DEF Persist, writeReportToFile
  <2>11. CASE End(b)
    BY <1>1, <2>11 DEF End
  <2>12. QED
    BY <2>1, <2>2, <2>3, <2>4, <2>5, <2>6, <2>7, <2>8, <2>9, <2>10, <2>11 DEF Batch
<1>5. ReportInv(b)'
  <2> USE DEF TypeOK, goto, batchVars, flushStreams, Redirected, Installed, CaptureInv, ReportInv,
              AfterRead
  <2>1. CASE Begin(b)
    BY <1>1, <1>2, <2>1 DEF Begin
  <2>2. CASE Save(b)
    BY <1>1, <1>2, <2>2 DEF Save
  <2>3. CASE CreateTemp(b)
    BY <1>1, <1>2, <2>3 DEF CreateTemp
  <2>4. CASE RedirectOut(b)
    BY <1>1, <1>2, <2>4 DEF RedirectOut, Redirect
  <2>5. CASE RedirectErr(b)
    BY <1>1, <1>2, <2>5 DEF RedirectErr, Redirect
  <2>6. CASE RunAnalyzer(b)
    <3>1. text'[<<b, "out">>] = text[<<b, "out">>]
      BY <1>1, <2>6 DEF RunAnalyzer
    <3>2. UNCHANGED <<enabled, captured, report>> /\ pc[b] = "run"
      BY <2>6 DEF RunAnalyzer
    <3>3. /\ enabled[b] => pc'[b] = "read"
          /\ pc'[b] \in {"read", "end", "persist"}
          /\ pc'[b] = "end" => outcome'[b] = "threw"
      BY <2>6 DEF RunAnalyzer
    <3>4. QED
      BY <3>1, <3>2, <3>3
  <2>7. CASE Read(b)
    BY <1>1, <1>2, <2>7 DEF Read
  <2>8. CASE Restore(b)
    BY <1>1, <1>2, <2>8 DEF Restore
  <2>9. CASE Deliver(b)
    BY <1>1, <1>2, <2>9 DEF Deliver
  <2>10. CASE Persist(b)
    BY <1>1, <1>2, <2>10 DEF Persist, writeReportToFile
  <2>11. CASE End(b)
    BY <1>1, <1>2, <2>11 DEF End
  <2>12. QED
    BY <2>1, <2>2, <2>3, <2>4, <2>5, <2>6, <2>7, <2>8, <2>9, <2>10, <2>11 DEF Batch
<1>6. BufferInv'
  BY Frame, <1>3 DEF BufferInv
<1>7. \A c \in Batches \ {b} : ReportInv(c)'
  <2> SUFFICES ASSUME NEW c \in Batches \ {b}
               PROVE  ReportInv(c)'
    OBVIOUS
  <2>1. ReportInv(c) /\ text'[<<c, "out">>] = text[<<c, "out">>]
    BY <1>4
  <2>2. /\ pc'[c] = pc[c] /\ enabled'[c] = enabled[c] /\ outcome'[c] = outcome[c]
        /\ captured'[c] = captured[c] /\ report'[c] = report[c]
    BY Frame
  <2>3. QED
    BY <2>1, <2>2 DEF ReportInv
<1>8. QED
  BY <1>5, <1>6, <1>7

-----------------------------------------------------------------------------
(***************************************************************************)
(* The inductive invariant and what follows from it.                       *)
(***************************************************************************)
LEMMA Inductive ==
  ASSUME OneLock, "dup2" \notin MayFail
  PROVE  Spec => []IInv
<1>1. Init => IInv
  <2> SUFFICES ASSUME Init PROVE IInv
    OBVIOUS
  <2>1. TypeOK
    BY DEF Init, TypeOK, Places
  <2>2. QED
    BY <2>1 DEF Init, IInv, Exclusive, Active, DescriptorInv, CaptureInv, BufferInv, ReportInv,
                Redirected, Installed, AfterRead
<1>2. IInv /\ [Next]_vars => IInv'
  <2> SUFFICES ASSUME IInv, [Next]_vars PROVE IInv'
    OBVIOUS
  <2>1. CASE UNCHANGED vars
    <3>1. TypeOK' /\ Exclusive' /\ DescriptorInv' /\ BufferInv'
      BY <2>1, SMTT(25)
      DEF vars, batchVars, IInv, TypeOK, Exclusive, Active, DescriptorInv, BufferInv, Redirected,
          Installed
    <3>2. \A b \in Batches : CaptureInv(b)' /\ ReportInv(b)'
      BY <2>1, SMTT(25) DEF vars, batchVars, IInv, CaptureInv, ReportInv, Installed, AfterRead
    <3>3. QED
      BY <3>1, <3>2 DEF IInv
  <2>2. ASSUME NEW b \in Batches, Batch(b)
        PROVE  IInv'
    <3>1. TypeOK' /\ Exclusive' /\ DescriptorInv' /\ CaptureInv(b)'
      BY <2>2, TypeNext, ExclusiveNext, DescriptorNext DEF IInv
    <3>2. \A c \in Batches \ {b} : CaptureInv(c)'
      BY <2>2, Frame, SMTT(25) DEF IInv, CaptureInv, Installed
    <3>3. BufferInv' /\ \A c \in Batches : ReportInv(c)'
      BY <2>2, ReportNext, SMTT(25) DEF IInv
    <3>4. QED
      BY <3>1, <3>2, <3>3 DEF IInv
  <2>3. QED
    BY <2>1, <2>2 DEF Next, Quiet
<1>3. QED
  BY <1>1, <1>2, PTL DEF Spec

\* Every variable keeps its type, and a tool lock is held exactly while its
\* batch is under way.
THEOREM TypeCorrect ==
  ASSUME OneLock, "dup2" \notin MayFail
  PROVE  Spec => []TypeOK
<1>1. IInv => TypeOK
  BY DEF IInv
<1>2. QED
  BY <1>1, Inductive, PTL

\* Descriptors 1 and 2 are the terminal's again when no batch is under way,
\* also when the analyzer throws or the capture could not be set up.
THEOREM DescriptorsGivenBack ==
  ASSUME OneLock, "dup2" \notin MayFail
  PROVE  Spec => []StreamsRestored
<1>1. IInv => StreamsRestored
  BY DEF IInv, TypeOK, StreamsRestored, DescriptorInv, Redirected, Installed
<1>2. QED
  BY <1>1, Inductive, PTL

\* A capture that was set up leaves no descriptor open, also when the
\* analyzer throws.
THEOREM CapturesAreClosed ==
  ASSUME OneLock, "dup2" \notin MayFail
  PROVE  Spec => []CaptureIsClosed
<1>1. ASSUME IInv, NEW b \in Batches, pc[b] = "done" /\ enabled[b]
      PROVE  temp[b] = {} /\ \A s \in Streams : saved[b][s] = NoFile
  <2>1. CaptureInv(b)
    BY <1>1 DEF IInv
  <2>2. QED
    BY <1>1, <2>1 DEF CaptureInv
<1>2. IInv => CaptureIsClosed
  BY <1>1 DEF CaptureIsClosed
<1>3. QED
  BY <1>2, Inductive, PTL

\* With a capture the report of a successful batch is what its own analyzer has
\* printed to stdout; no report holds foreign text or comes of a failure.
THEOREM ReportCorrect ==
  ASSUME OneLock, "dup2" \notin MayFail
  PROVE  Spec => []PersistedReport
<1>1. IInv => PersistedReport
  BY DEF IInv, PersistedReport, ReportInv, AfterRead
<1>2. QED
  BY <1>1, Inductive, PTL

-----------------------------------------------------------------------------
(***************************************************************************)
(* The way of the text to the terminal.                                    *)
(***************************************************************************)
\* Nothing that has been printed is taken back.
LEMMA TextGrows ==
  ASSUME TypeOK, NEW b \in Batches, Batch(b), NEW f \in Files
  PROVE  text[f] \subseteq text'[f]
<1> USE DEF TypeOK, batchVars, flushStreams
<1>1. CASE Deliver(b)
  BY <1>1, Zenon DEF Deliver
<1>2. CASE Save(b)
  BY <1>2 DEF Save
<1>3. CASE RunAnalyzer(b)
  BY <1>3 DEF RunAnalyzer
<1>4. CASE Read(b)
  BY <1>4 DEF Read
<1>5. CASE End(b)
  <2>1. text' = text \/ text' = [text EXCEPT ![fd["out"]] = @ \cup buffer]
    BY <1>5 DEF End
  <2>2. QED
    BY <2>1, SMTT(25)
<1>6. CASE Begin(b) \/ CreateTemp(b) \/ RedirectOut(b) \/ RedirectErr(b) \/ Restore(b) \/ Persist(b)
  <2>1. UNCHANGED text
    BY <1>6 DEF Begin, CreateTemp, RedirectOut, RedirectErr, Redirect, Restore, Persist
  <2>2. QED
    BY <2>1
<1>7. QED
  BY <1>1, <1>2, <1>3, <1>4, <1>5, <1>6 DEF Batch

LEMMA DeliverNext ==
  ASSUME OneLock, IInv, "dup2" \notin MayFail, NEW b \in Batches, DeliverInv(b), Batch(b)
  PROVE  DeliverInv(b)'
<1>1. \A s \in Streams : fd[s] = IF Redirected(b, s) THEN <<b, s>> ELSE <<Terminal, s>>
  BY Frame, DescriptorsOfOne DEF IInv
<1>2. \A f \in Files : text[f] \subseteq text'[f]
  BY TextGrows DEF IInv
<1>3. TypeOK /\ CaptureInv(b) /\ ReportInv(b)
  BY DEF IInv
<1> USE DEF TypeOK, goto, batchVars, flushStreams, AfterRead, Delivered, Returned
<1>4. CASE Begin(b)
  BY <1>3, <1>4 DEF Begin, DeliverInv, CaptureInv, ReportInv
<1>5. CASE Save(b) \/ CreateTemp(b) \/ RedirectOut(b) \/ RedirectErr(b)
  <2>1. /\ pc'[b] \in {"temp", "redirectOut", "redirectErr", "run"}
    BY <1>3, <1>5 DEF Save, CreateTemp, RedirectOut, RedirectErr, Redirect
  <2>2. QED
    BY <2>1 DEF DeliverInv
<1>6. CASE RunAnalyzer(b)
  <2>1. /\ UNCHANGED enabled
        /\ pc'[b] = "read" <=> enabled[b]
        /\ pc'[b] \in {"read", "persist", "end"}
        /\ b \in buffer'
        /\ b \in text'[fd["err"]]
    BY <1>3, <1>6 DEF RunAnalyzer
  <2>2. fd["err"] = IF enabled[b] THEN <<b, "err">> ELSE <<Terminal, "err">>
    BY <1>1, <1>6 DEF RunAnalyzer, Redirected, Installed
  <2>3. QED
    BY <2>1, <2>2 DEF DeliverInv
<1>7. CASE Read(b)
  <2>1. pc[b] = "read" /\ pc'[b] = "restore" /\ UNCHANGED enabled
    BY <1>3, <1>7 DEF Read
  <2>2. captured'[b]["err"] = text'[<<b, "err">>]
    BY <1>3, <1>7 DEF Read
  <2>3. b \in text'[<<b, "err">>]
    BY <1>2, <2>1 DEF DeliverInv
  <2>4. enabled[b]
    BY <1>3, <2>1 DEF CaptureInv
  <2>5. QED
    BY <2>1, <2>2, <2>3, <2>4 DEF DeliverInv
<1>8. CASE Restore(b)
  <2>1. /\ pc[b] = "restore" /\ UNCHANGED <<enabled, captured, outcome>>
        /\ pc'[b] = IF outcome[b] = "threw" THEN "end" ELSE "deliver"
    BY <1>3, <1>8 DEF Restore
  <2>2. enabled[b]
    BY <1>3, <2>1 DEF CaptureInv
  <2>3. QED
    BY <2>1, <2>2 DEF DeliverInv
<1>9. CASE Deliver(b)
  <2>1. pc[b] = "deliver" /\ pc'[b] = "persist" /\ UNCHANGED <<enabled, captured, outcome>>
    BY <1>3, <1>9 DEF Deliver
  <2>2. enabled[b] /\ \A s \in Streams : b \in captured[b][s]
    BY <1>3, <2>1 DEF CaptureInv, ReportInv, DeliverInv
  <2>3. ASSUME NEW s \in Streams PROVE b \in text'[<<Terminal, s>>]
    <3>1. fd[s] = <<Terminal, s>>
      BY <1>1, <2>1 DEF Redirected, Installed
    <3>2. <<Terminal, s>> \in Files
      OBVIOUS
    <3>3. text'[<<Terminal, s>>] = text[<<Terminal, s>>] \cup
            UNION {captured[b][t] : t \in {u \in Streams : fd[u] = <<Terminal, s>>}}
      BY <1>9, <3>2, Zenon DEF Deliver
    <3>4. QED
      BY <2>2, <3>1, <3>3
  <2>4. QED
    BY <2>1, <2>2, <2>3 DEF DeliverInv
<1>10. CASE Persist(b)
  <2>1. /\ pc[b] = "persist" /\ pc'[b] = "end"
        /\ UNCHANGED <<text, buffer, enabled, captured, outcome>>
    BY <1>3, <1>10 DEF Persist
  <2>2. QED
    BY <2>1 DEF DeliverInv
<1>11. CASE End(b)
  <2>1. pc[b] = "end" /\ pc'[b] = "done" /\ UNCHANGED <<enabled, captured, outcome>>
    BY <1>3, <1>11 DEF End
  <2>2. CASE enabled[b]
    BY <1>2, <2>1, <2>2 DEF DeliverInv
  <2>3. CASE ~enabled[b]
    <3>1. fd["out"] = <<Terminal, "out">>
      BY <1>1, <2>1 DEF Redirected, Installed
    <3>2. text' = [text EXCEPT ![fd["out"]] = @ \cup buffer]
      BY <1>11, <2>3 DEF End
    <3>3. b \in text'[<<Terminal, "out">>]
      BY <1>3, <2>1, <2>3, <3>1, <3>2 DEF DeliverInv
    <3>4. b \in text'[<<Terminal, "err">>]
      BY <1>2, <2>1, <2>3 DEF DeliverInv
    <3>5. QED
      BY <2>1, <2>3, <3>3, <3>4 DEF DeliverInv
  <2>4. QED
    BY <2>2, <2>3
<1>12. QED
  BY <1>4, <1>5, <1>6, <1>7, <1>8, <1>9, <1>10, <1>11 DEF Batch

\* What the others have printed, and what they have captured, stays.
LEMMA DeliverOthers ==
  ASSUME OneLock, IInv, NEW b \in Batches, Batch(b), NEW c \in Batches \ {b}, DeliverInv(c)
  PROVE  DeliverInv(c)'
<1>1. /\ pc[c] \in {"start", "done"} /\ pc'[c] = pc[c]
      /\ enabled'[c] = enabled[c] /\ outcome'[c] = outcome[c] /\ captured'[c] = captured[c]
  BY Frame DEF IInv
<1>2. \A f \in Files : text[f] \subseteq text'[f]
  BY TextGrows DEF IInv
<1>3. QED
  BY <1>1, <1>2 DEF DeliverInv, Delivered, Returned, AfterRead

\* Whatever an analyzer that returned has printed reaches the terminal, on
\* the stream it was printed to, with and without a capture.
THEOREM OutputIsDelivered ==
  ASSUME OneLock, "dup2" \notin MayFail
  PROVE  Spec => []OutputDelivered
<1> DEFINE AllDelivered == \A b \in Batches : DeliverInv(b)
<1>1. Init => AllDelivered
  BY DEF Init, DeliverInv, AfterRead
<1>2. IInv /\ AllDelivered /\ [Next]_vars => AllDelivered'
  <2> SUFFICES ASSUME IInv, AllDelivered, [Next]_vars PROVE AllDelivered'
    OBVIOUS
  <2>1. CASE UNCHANGED vars
    BY <2>1 DEF vars, batchVars, DeliverInv, Delivered, Returned, AfterRead
  <2>2. ASSUME NEW b \in Batches, Batch(b)
        PROVE  AllDelivered'
    BY <2>2, DeliverNext, DeliverOthers
  <2>3. QED
    BY <2>1, <2>2 DEF Next, Quiet
<1>3. AllDelivered => OutputDelivered
  BY DEF OutputDelivered, DeliverInv, Delivered, Returned
<1>4. QED
  BY <1>1, <1>2, <1>3, Inductive, PTL DEF Spec
==============================================================================
