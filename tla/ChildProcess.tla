----------------------------- MODULE ChildProcess ----------------------------
(***************************************************************************)
(* The class UnixProcess of LinuxProcess.hpp, driven by Process::execute:  *)
(* prepare(), run(), cleanup().  run() makes a temporary log in /tmp,      *)
(* forks, lets the child write its output into the log, waits for it and   *)
(* reads the log back.  Several threads execute processes at once and      *)
(* share /tmp; a name that has been unlinked may be given out again.       *)
(*                                                                         *)
(* A member of Procs is a thread of execution that runs one process after  *)
(* another; <<p, n>> stands for the n-th log made by p.                    *)
(***************************************************************************)
EXTENDS Naturals

CONSTANTS
  Procs,     \* who executes processes
  MaxRuns,   \* bound on the processes each of them executes
  LogNames,  \* the names mkstemp can make up
  Texts,     \* what a child may print
  Nothing,   \* an empty log
  AsRead,    \* what fgets and += make of a text, see readLog
  None       \* no name, no log, no output

Log == Procs \X (1..MaxRuns)

ASSUME ProcessConstants ==
  /\ MaxRuns \in Nat
  /\ None \notin LogNames /\ None \notin Log /\ Nothing \notin Texts

Content == Texts \cup {Nothing}

\* What has been read holds no NUL byte, and so is read again as it is.
ASSUME ReadingAssumption ==
  /\ AsRead \in [Content -> Content] /\ AsRead[Nothing] = Nothing
  /\ \A text \in Content : AsRead[AsRead[text]] = AsRead[text]

VARIABLES
  step,       \* where execute() stands
  runs,       \* processes executed or begun so far
  log_path_,  \* the member of that name
  logOutput,  \* the member of that name, with the log it was read from
  child,      \* the child of the process
  tmp,        \* the directory /tmp: which log a name denotes
  written     \* the content of every log

objectVars == <<step, runs, log_path_, logOutput>>
processVars == <<objectVars, child, tmp, written>>

own(p) == <<p, runs[p]>>

ProcessTypeOK ==
  /\ step \in [Procs -> {"idle", "created", "waiting", "exited", "captured",
                         "finished", "threw"}]
  /\ runs \in [Procs -> 0..MaxRuns]
  /\ log_path_ \in [Procs -> LogNames \cup {None}]
  /\ logOutput \in [Procs -> [of : Log, text : Content] \cup {None}]
  /\ child \in [Procs -> {"none", "forked", "running", "zombie"}]
  /\ tmp \in [LogNames -> Log \cup {None}]
  /\ written \in [Log -> Content]

ProcessInit ==
  /\ step = [p \in Procs |-> "idle"]
  /\ runs = [p \in Procs |-> 0]
  /\ log_path_ = [p \in Procs |-> None]
  /\ logOutput = [p \in Procs |-> None]
  /\ child = [p \in Procs |-> "none"]
  /\ tmp = [l \in LogNames |-> None]
  /\ written = [g \in Log |-> Nothing]

moves(p, from, to) == step[p] = from /\ step' = [step EXCEPT ![p] = to]

-----------------------------------------------------------------------------
\* The parent.

\* mkstemp makes a file with a name that is free, or fails.
CreateLog(p) ==
  /\ step[p] = "idle"
  /\ runs[p] < MaxRuns
  /\ runs' = [runs EXCEPT ![p] = @ + 1]
  /\ \/ \E l \in LogNames :
          /\ tmp[l] = None
          /\ tmp' = [tmp EXCEPT ![l] = <<p, runs[p] + 1>>]
          /\ log_path_' = [log_path_ EXCEPT ![p] = l]
          /\ step' = [step EXCEPT ![p] = "created"]
     \/ /\ step' = [step EXCEPT ![p] = "threw"]
        /\ UNCHANGED <<tmp, log_path_>>
  /\ UNCHANGED <<logOutput, child, written>>

\* A failed fork leaves the log behind: the exception skips cleanup().
Fork(p) ==
  /\ \/ moves(p, "created", "waiting") /\ child' = [child EXCEPT ![p] = "forked"]
     \/ moves(p, "created", "threw") /\ UNCHANGED child
  /\ UNCHANGED <<runs, log_path_, logOutput, tmp, written>>

\* Faulty: the log is read without waiting for the child.
Wait_not(p) ==
  /\ moves(p, "waiting", "exited")
  /\ UNCHANGED <<runs, log_path_, logOutput, child, tmp, written>>

\* waitpid; nobody looks at the status.
Wait(p) ==
  /\ child[p] = "zombie"
  /\ moves(p, "waiting", "exited")
  /\ child' = [child EXCEPT ![p] = "none"]
  /\ UNCHANGED <<runs, log_path_, logOutput, tmp, written>>

\* fgets reads a line, or what fits into its buffer, and += appends it as a C
\* string: what follows a NUL byte in it is lost.
readLog(p) ==
  LET g == tmp[log_path_[p]]
  IN  /\ g # None
      /\ logOutput' = [logOutput EXCEPT ![p] = [of |-> g, text |-> AsRead[written[g]]]]

\* Faulty: the name is kept, so that cleanup() unlinks it once more.
captureLogs_keepsPath(p) ==
  /\ \/ /\ moves(p, "exited", "captured")
        /\ readLog(p)
        /\ tmp' = [tmp EXCEPT ![log_path_[p]] = None]
        /\ UNCHANGED log_path_
     \/ moves(p, "exited", "threw") /\ UNCHANGED <<logOutput, tmp, log_path_>>
  /\ UNCHANGED <<runs, child, written>>

\* Faulty: the log is neither unlinked nor left to cleanup().
captureLogs_noUnlink(p) ==
  /\ \/ /\ moves(p, "exited", "captured")
        /\ readLog(p)
        /\ log_path_' = [log_path_ EXCEPT ![p] = None]
        /\ UNCHANGED tmp
     \/ moves(p, "exited", "threw") /\ UNCHANGED <<logOutput, tmp, log_path_>>
  /\ UNCHANGED <<runs, child, written>>

\* The log is read and unlinked, or cannot be opened.
captureLogs(p) ==
  /\ \/ /\ moves(p, "exited", "captured")
        /\ readLog(p)
        /\ tmp' = [tmp EXCEPT ![log_path_[p]] = None]
        /\ log_path_' = [log_path_ EXCEPT ![p] = None]
     \/ moves(p, "exited", "threw") /\ UNCHANGED <<logOutput, tmp, log_path_>>
  /\ UNCHANGED <<runs, child, written>>

cleanup(p) ==
  /\ moves(p, "captured", "finished")
  /\ tmp' = [l \in LogNames |-> IF l = log_path_[p] THEN None ELSE tmp[l]]
  /\ log_path_' = [log_path_ EXCEPT ![p] = None]
  /\ UNCHANGED <<runs, logOutput, child, written>>

\* The tool has used the output or caught the exception; the object goes.
Dispose(p) ==
  /\ step[p] \in {"finished", "threw"}
  /\ step' = [step EXCEPT ![p] = "idle"]
  /\ log_path_' = [log_path_ EXCEPT ![p] = None]
  /\ logOutput' = [logOutput EXCEPT ![p] = None]
  /\ UNCHANGED <<runs, child, tmp, written>>

-----------------------------------------------------------------------------
\* The child.

\* execvp, or _exit when the command cannot be executed.
Exec(p) ==
  /\ child[p] = "forked"
  /\ \E s \in {"running", "zombie"} : child' = [child EXCEPT ![p] = s]
  /\ UNCHANGED <<objectVars, tmp, written>>

Prints(p) ==
  /\ child[p] = "running"
  /\ written[own(p)] = Nothing
  /\ \E t \in Texts : written' = [written EXCEPT ![own(p)] = t]
  /\ UNCHANGED <<objectVars, child, tmp>>

Exit(p) ==
  /\ child[p] = "running"
  /\ child' = [child EXCEPT ![p] = "zombie"]
  /\ UNCHANGED <<objectVars, tmp, written>>

Execute(p) == \/ Fork(p) \/ Wait(p) \/ captureLogs(p) \/ cleanup(p)
              \/ Exec(p) \/ Prints(p) \/ Exit(p)

ProcessNext == \E p \in Procs : CreateLog(p) \/ Execute(p) \/ Dispose(p)

ProcessSpec == ProcessInit /\ [][ProcessNext]_processVars

-----------------------------------------------------------------------------
InUse(p) == step[p] \in {"created", "waiting", "exited"}

\* While a process needs its log, the name it remembers denotes that log,
\* whatever the processes of other threads unlink in the meantime.
LogIsOwn == \A p \in Procs : InUse(p) => tmp[log_path_[p]] = own(p)

\* What execute() returns is what can be read, as C strings, of all that its
\* own child has printed, and the child has been waited for.  A text without
\* NUL bytes is returned whole.
OutputIsOwn ==
  \A p \in Procs : step[p] \in {"captured", "finished"} =>
    /\ logOutput[p] = [of |-> own(p), text |-> AsRead[written[own(p)]]]
    /\ child[p] = "none"

\* A child exists exactly while its parent waits for it: none is left
\* behind, whatever fails.
ChildIsWaitedFor == \A p \in Procs : child[p] # "none" <=> step[p] = "waiting"

-----------------------------------------------------------------------------
\* The inductive invariant.

\* A process in use has begun a run and remembers a name; one that has read
\* its log, or does nothing, remembers none.
PathInv(p) ==
  /\ InUse(p) => log_path_[p] # None
  /\ step[p] \in {"idle", "captured", "finished"} => log_path_[p] = None
  /\ InUse(p) \/ step[p] \in {"captured", "finished"} => runs[p] \in 1..MaxRuns

ProcessInv ==
  /\ ProcessTypeOK
  /\ \A p \in Procs : PathInv(p)
  /\ LogIsOwn
  /\ OutputIsOwn
  /\ ChildIsWaitedFor
=============================================================================
