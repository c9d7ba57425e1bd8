------------------------------ MODULE ToolPlan -------------------------------
(***************************************************************************)
(* Which tools ToolInvoker runs on which files, in which order and where:  *)
(* the branches of runToolList, for a run's configuration c with the       *)
(* fields async (the launch policy), static and dynamic (whether the       *)
(* analysis is selected), specific (the sequence of --invoke names), files *)
(* and throws, the tools whose execution may throw.                        *)
(*                                                                         *)
(* A job is one execution of a tool: the list of tools it comes from, the  *)
(* round of that list (one per file and a last one for the tools that take *)
(* all files at once) and the tool's index in the list.                    *)
(***************************************************************************)
EXTENDS Sequences, SequencesExt, Naturals

\* The table of registered tools and the two fixed lists.
static_tools == <<"cppcheck", "flawfinder", "tscancode", "ikos", "ctrace_stack_analyzer">>
dynamic_tools == <<"dyn_tools_1", "dyn_tools_2", "dyn_tools_3">>
tools == ToSet(static_tools) \cup ToSet(dynamic_tools)

supportsBatchExecution(t) == t = "ctrace_stack_analyzer"
requiresExclusiveProcessCapture(t) == t = "ctrace_stack_analyzer"

\* run_cli_analysis and run_analysis: static, dynamic, then specific tools.
Lists == {"static", "dynamic", "specific"}
ListOrder == [static |-> 1, dynamic |-> 2, specific |-> 3]
names(c, l) ==
  [static   |-> IF c.static THEN static_tools ELSE <<>>,
   dynamic  |-> IF c.dynamic THEN dynamic_tools ELSE <<>>,
   specific |-> c.specific][l]

\* resolveSourceFiles lists no file twice.
ConfigShaped(c) ==
  /\ c.async \in BOOLEAN /\ c.static \in BOOLEAN /\ c.dynamic \in BOOLEAN
  /\ c.specific \in Seq(STRING)
  /\ c.files \in Seq(STRING)
  /\ \A m, n \in DOMAIN c.files : c.files[m] = c.files[n] => m = n

Job == [list : Lists, round : Nat, index : Nat]

tool(c, j) == names(c, j.list)[j.index]
inBatch(c, j) == j.round = Len(c.files) + 1
filesOf(c, j) == IF inBatch(c, j) THEN ToSet(c.files) ELSE {c.files[j.round]}

\* Faulty: a tool that is named twice runs twice.
deduplicateToolNames_none(ts) == DOMAIN ts

\* The indices of the names that are kept.
deduplicateToolNames(ts) == {k \in DOMAIN ts : \A m \in 1..(k - 1) : ts[m] # ts[k]}

\* runToolList: unknown names are only reported, the other tools go file by
\* file, and the batch tools come last with all files.
runToolList(c, l) ==
  LET kept == IF l = "specific" THEN deduplicateToolNames(names(c, l))
                                ELSE DOMAIN names(c, l)
  IN  {j \in [list : {l}, round : 1..(Len(c.files) + 1), index : kept] :
         /\ c.files # <<>>
         /\ tool(c, j) \in tools
         /\ supportsBatchExecution(tool(c, j)) <=> inBatch(c, j)}

Plan(c) == UNION {runToolList(c, l) : l \in Lists}

\* A file's tools go through the pool when there are two or more of them; a
\* tool that captures the process's output would run alone, after them.
Pooled(c, j) ==
  /\ c.async
  /\ ~inBatch(c, j)
  /\ \E m \in runToolList(c, j.list) : m # j /\ m.round = j.round
  /\ ~requiresExclusiveProcessCapture(tool(c, j))

SameRound(p, q) == p.list = q.list /\ p.round = q.round

\* The order in which the jobs of a plan are begun.
Before(c, p, q) ==
  \/ ListOrder[p.list] < ListOrder[q.list]
  \/ p.list = q.list /\ p.round < q.round
  \/ SameRound(p, q) /\ Pooled(c, p) /\ ~Pooled(c, q)
  \/ SameRound(p, q) /\ Pooled(c, p) = Pooled(c, q) /\ p.index < q.index

FirstOf(c, S, j) == j \in S /\ \A m \in S \ {j} : Before(c, j, m)

-----------------------------------------------------------------------------
\* What a run is asked for, independently of the order of execution: list l
\* names tool t, which exists.
Requested(c, l, t) ==
  /\ t \in tools
  /\ \/ l = "static" /\ c.static /\ t \in ToSet(static_tools)
     \/ l = "dynamic" /\ c.dynamic /\ t \in ToSet(dynamic_tools)
     \/ l = "specific" /\ t \in ToSet(c.specific)
==============================================================================
