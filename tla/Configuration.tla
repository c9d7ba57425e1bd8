---------------------------- MODULE Configuration ----------------------------
(***************************************************************************)
(* How CoreTrace arrives at its ProgramConfig: the defaults, a JSON file   *)
(* (applyToolConfigFile) and the command line (buildConfig) or the fields  *)
(* of a POST /api request (build_config_from_params).                      *)
(*                                                                         *)
(* A place is an object of the file that holds settings.  What matters of  *)
(* a value is whether it is there, empty, of the right type and allowed;   *)
(* what matters of a field of ProgramConfig is which place wrote it last   *)
(* and with what sort of value.                                            *)
(***************************************************************************)
EXTENDS Naturals, Sequences

CONSTANT Inputs   \* the inputs considered, see WellFormed

-----------------------------------------------------------------------------
\* The settings, by type.

Flags == {"static", "dynamic", "verbose", "quiet", "demangle", "sarif_format",
          "include_compdb_deps", "timing", "async", "resource_cross_tu",
          "no_resource_cross_tu"}
Lists == {"input", "invoke", "entry_points", "only_functions", "smt_rules", "extra_args"}
Numbers == {"smt_timeout_ms", "smt_budget_nodes", "stack_limit", "port",
            "shutdown_timeout_ms"}
Strings == {"compile_commands", "report_file", "output_file", "ipc", "ipc_path", "host",
            "shutdown_token", "mode", "output_format", "analysis_profile", "smt",
            "smt_backend", "smt_mode", "resource_model"}
Settings == Flags \cup Lists \cup Numbers \cup Strings

\* The settings each place of the file may hold.  stack_analyzer and tools
\* are two places for the same section.
AnalyzerKeys ==
  {"mode", "output_format", "extra_args", "compile_commands", "resource_model", "demangle",
   "verbose", "timing", "include_compdb_deps", "quiet", "stack_limit", "analysis_profile",
   "smt", "smt_backend", "smt_mode", "smt_timeout_ms", "smt_budget_nodes", "smt_rules",
   "only_functions", "entry_points", "resource_cross_tu", "no_resource_cross_tu"}
Keys == [ stack_analyzer |-> AnalyzerKeys,
          tools    |-> AnalyzerKeys,
          root     |-> {"invoke", "input"},
          analysis |-> {"static", "dynamic", "invoke"},
          files    |-> {"input", "entry_points", "compile_commands", "include_compdb_deps"},
          output   |-> {"sarif_format", "report_file", "output_file", "verbose", "quiet",
                        "demangle"},
          runtime  |-> {"async", "ipc", "ipc_path"},
          server   |-> {"host", "port", "shutdown_token", "shutdown_timeout_ms"} ]
Places == DOMAIN Keys

\* The settings whose value is checked where they are read from the file.
Validated == {"mode", "output_format", "analysis_profile", "smt", "smt_mode",
              "smt_timeout_ms", "invoke", "ipc", "port", "shutdown_timeout_ms"}

\* The command-line options and the request fields that set something.
Options == Settings \ {"mode", "output_format", "extra_args", "only_functions",
                       "resource_cross_tu", "no_resource_cross_tu"}
Params == Settings \ {"host", "port", "shutdown_token", "shutdown_timeout_ms",
                      "only_functions", "resource_cross_tu", "no_resource_cross_tu"}

\* What may stand behind a key that is there and not null.  "disallowed" has
\* the right type but is no tool, no such mode, or out of range; "serve" is
\* the value of ipc that starts the server.
Values == {"empty", "ok", "serve", "disallowed", "mistyped"}

\* An input is a front end, the options or fields it brings with their values,
\* and a file: which places it has and what stands behind their keys.  A
\* place that is malformed is no object or has a key that is not known; for
\* root this includes a file that cannot be read, is no JSON, or has another
\* schema version, and absent means that no file is named.  An option of the
\* command line is text: only a number can be mistyped.
Shapes == {"absent", "object", "malformed"}
WellFormed(i) ==
  /\ i.front \in {"cli", "request"}
  /\ DOMAIN i.args \subseteq (IF i.front = "cli" THEN Options ELSE Params)
  /\ \A o \in DOMAIN i.args : i.args[o] \in Values
  /\ i.front = "cli" => \A o \in DOMAIN i.args \ Numbers : i.args[o] # "mistyped"
  /\ i.shape \in [Places -> Shapes]
  /\ DOMAIN i.file \subseteq Places \X Settings
  /\ \A p \in Places, k \in Settings : <<p, k>> \in DOMAIN i.file =>
       i.shape[p] = "object" /\ k \in Keys[p] /\ i.file[<<p, k>>] \in Values
ASSUME InputsShaped == \A i \in Inputs : WellFormed(i)

VARIABLES
  input,     \* the input of this run
  pc,        \* the next step of reading it
  pending,   \* command-line options not yet applied
  config,    \* ProgramConfig::global: per field who wrote it last, and what
  files,     \* ProgramConfig::files: who contributed, in order
  outcome    \* "running", "configured", "rejected" or "crashed"

vars == <<input, pc, pending, config, files, outcome>>

Fields == Settings \ {"input", "no_resource_cross_tu"}
Value(place, what) == [by |-> place, is |-> what]
Stages == {"params", "load", "analyzer", "root", "analysis", "files", "output", "runtime",
           "server", "options", "strings", "numbers", "lists", "ipc", "end"}

TypeOK ==
  /\ WellFormed(input)
  /\ pc \in Stages
  /\ pending \subseteq Options
  /\ config \in [Fields -> [by : Places \cup {"default", "args"},
                            is : (Values \ {"mistyped"}) \cup {"unset", "wrapped"}]]
  /\ files \in Seq(Places \cup {"args"})
  /\ outcome \in {"running", "configured", "rejected", "crashed"}

Init ==
  /\ input \in Inputs
  /\ pc = IF input.front = "cli" THEN "load" ELSE "params"
  /\ pending = {o \in DOMAIN input.args : input.front = "cli" /\ input.args[o] # "empty"}
  /\ config = [f \in Fields |-> Value("default", "unset")]
  /\ files = <<>>
  /\ outcome = "running"

-----------------------------------------------------------------------------
\* The configuration file.

given(place, k) == <<place, k>> \in DOMAIN input.file
valueOf(place, k) == input.file[<<place, k>>]

reject == outcome' = "rejected" /\ pc' = "end" /\ UNCHANGED <<config, files>>

\* A value that may stand behind key k of the file.  The empty string is no
\* valid value of smt, which is read as a truth value.
acceptable(k, what) ==
  /\ what # "mistyped"
  /\ k \in Validated => what # "disallowed"
  /\ k = "smt" => what # "empty"

\* Faulty: enumerated strings are checked, the types of values are not.
readable_untyped(place) ==
  /\ input.shape[place] # "malformed"
  /\ \A k \in Keys[place] \cap Validated : given(place, k) => valueOf(place, k) # "disallowed"

\* An error ends the reading of the file at once; what was written before it
\* is thrown away with the ProgramConfig.
readable(place) ==
  /\ input.shape[place] # "malformed"
  /\ \A k \in Keys[place] : given(place, k) => acceptable(k, valueOf(place, k))

\* Two fields of the analyzer section are written by two keys, in this order.
lastKey(place, f) ==
  IF f = "only_functions" /\ place \in {"stack_analyzer", "tools"}
       /\ given(place, "entry_points") THEN "entry_points"
  ELSE IF f = "resource_cross_tu" /\ given(place, "no_resource_cross_tu")
       THEN "no_resource_cross_tu"
  ELSE f

\* Faulty: a field that a legacy place has set is left alone.
apply_firstWins(place) ==
  config' = [f \in Fields |->
               LET k == lastKey(place, f)
               IN IF given(place, k) /\ config[f].by \in {"default", "args"}
                  THEN Value(place, valueOf(place, k)) ELSE config[f]]

apply(place) ==
  config' = [f \in Fields |->
               LET k == lastKey(place, f)
               IN IF given(place, k) THEN Value(place, valueOf(place, k)) ELSE config[f]]

\* Faulty: the files of a later place are added.
assignInputFiles_appends(place) ==
  files' = IF given(place, "input") /\ valueOf(place, "input") # "empty"
           THEN Append(files, place) ELSE files

\* Input files of the file replace those of an earlier place, an empty list too.
assignInputFiles(place) ==
  files' = IF ~given(place, "input") THEN files
           ELSE IF valueOf(place, "input") = "empty" THEN <<>> ELSE <<place>>

readPlace(place, next) ==
  IF ~readable(place) THEN reject
  ELSE apply(place) /\ assignInputFiles(place) /\ pc' = next /\ UNCHANGED outcome

afterFile == IF input.front = "cli" THEN "options" ELSE "strings"

LoadFile ==
  /\ pc = "load"
  /\ IF input.shape["root"] = "malformed" THEN reject
     ELSE /\ pc' = IF input.shape["root"] = "absent" THEN afterFile ELSE "analyzer"
          /\ UNCHANGED <<config, files, outcome>>
  /\ UNCHANGED <<input, pending>>

\* Faulty: a stack_analyzer that is no object is passed over.
analyzerPlace_lenient == IF input.shape["stack_analyzer"] = "object" THEN "stack_analyzer" ELSE "tools"

\* findStackAnalyzerSection: the first place that is there hides the other.
analyzerPlace == IF input.shape["stack_analyzer"] # "absent" THEN "stack_analyzer" ELSE "tools"

applyStackAnalyzerSection ==
  /\ pc = "analyzer"
  /\ readPlace(analyzerPlace, "root")
  /\ UNCHANGED <<input, pending>>

applyLegacyRootInvokeAndInput ==
  /\ pc = "root"
  /\ readPlace("root", "analysis")
  /\ UNCHANGED <<input, pending>>

applyAnalysisSection ==
  /\ pc = "analysis"
  /\ readPlace("analysis", "files")
  /\ UNCHANGED <<input, pending>>

applyFilesSection ==
  /\ pc = "files"
  /\ readPlace("files", "output")
  /\ UNCHANGED <<input, pending>>

applyOutputSection ==
  /\ pc = "output"
  /\ readPlace("output", "runtime")
  /\ UNCHANGED <<input, pending>>

applyRuntimeSection ==
  /\ pc = "runtime"
  /\ readPlace("runtime", "server")
  /\ UNCHANGED <<input, pending>>

applyServerSection ==
  /\ pc = "server"
  /\ readPlace("server", afterFile)
  /\ UNCHANGED <<input, pending>>

-----------------------------------------------------------------------------
\* The command line.  ConfigProcessor::process goes through its options in
\* the order of a hash table: any order.

arg(o) == IF o \in DOMAIN input.args THEN input.args[o] ELSE "absent"

write(o, what) == config' = [config EXCEPT ![o] = Value("args", what)]

\* A tool or an ipc that does not exist, or a number that is none, ends the
\* program; std::stoi of port and shutdown_timeout_ms throws instead, and
\* nothing catches it.  smt_timeout_ms is cut down to 32 bits.
Command(o) ==
  /\ pc = "options"
  /\ o \in pending
  /\ pending' = pending \ {o}
  /\ \/ /\ o = "input"
        /\ files' = Append(files, "args")
        /\ UNCHANGED <<pc, config, outcome>>
     \/ /\ o \in {"invoke", "ipc"} /\ arg(o) = "disallowed"
        /\ reject
     \/ /\ o \in Numbers /\ arg(o) = "mistyped"
        /\ outcome' = IF o \in {"port", "shutdown_timeout_ms"} THEN "crashed" ELSE "rejected"
        /\ pc' = "end"
        /\ UNCHANGED <<config, files>>
     \/ /\ o = "shutdown_timeout_ms" /\ arg(o) = "disallowed"
        /\ outcome' = "crashed"
        /\ pc' = "end"
        /\ UNCHANGED <<config, files>>
     \/ /\ o \notin {"input"}
        /\ ~(o \in {"invoke", "ipc", "shutdown_timeout_ms"} /\ arg(o) = "disallowed")
        /\ ~(o \in Numbers /\ arg(o) = "mistyped")
        /\ write(o, IF o = "smt_timeout_ms" /\ arg(o) = "disallowed" THEN "wrapped" ELSE arg(o))
        /\ UNCHANGED <<pc, files, outcome>>
  /\ UNCHANGED input

\* --serve-host and --serve-port need --ipc=serve, on the command line too.
serverOptionsConsistent ==
  arg("ipc") = "serve" \/ \A o \in {"host", "port"} : arg(o) \in {"absent", "empty"}

FinishOptions ==
  /\ pc = "options"
  /\ pending = {}
  /\ pc' = "end"
  /\ outcome' = IF serverOptionsConsistent THEN "configured" ELSE "rejected"
  /\ UNCHANGED <<input, pending, config, files>>

-----------------------------------------------------------------------------
\* The fields of a request.

applyParams(params, next) ==
  IF \E k \in params : arg(k) = "mistyped" THEN reject
  ELSE /\ config' = [f \in Fields |-> IF f \in params /\ arg(f) # "absent"
                                      THEN Value("args", arg(f)) ELSE config[f]]
       /\ pc' = next
       /\ UNCHANGED <<files, outcome>>

\* The boolean fields, async among them, are read before the file.
ApplyBoolFields ==
  /\ pc = "params"
  /\ applyParams(Params \cap Flags, "load")
  /\ UNCHANGED <<input, pending>>

ApplyStringFields ==
  /\ pc = "strings"
  /\ applyParams((Params \cap Strings) \ {"ipc"}, "numbers")
  /\ UNCHANGED <<input, pending>>

ApplyUint64Fields ==
  /\ pc = "numbers"
  /\ IF arg("smt_timeout_ms") = "disallowed" THEN reject
     ELSE applyParams(Params \cap Numbers, "lists")
  /\ UNCHANGED <<input, pending>>

\* Lists that are empty are passed over; the input files are added.
ApplyListParams ==
  /\ pc = "lists"
  /\ IF \E k \in Params \cap Lists : arg(k) = "mistyped" THEN reject
     ELSE /\ config' = [f \in Fields |->
                          IF f \in Params \cap Lists /\ arg(f) \notin {"absent", "empty"}
                          THEN Value("args", arg(f)) ELSE config[f]]
          /\ files' = IF arg("input") \in {"absent", "empty"} THEN files
                      ELSE Append(files, "args")
          /\ pc' = "ipc"
          /\ UNCHANGED outcome
  /\ UNCHANGED <<input, pending>>

\* The server does not start another one: "serve" becomes standardIO.
apply_ipc_field ==
  /\ pc = "ipc"
  /\ IF arg("ipc") \in {"mistyped", "disallowed"} THEN reject
     ELSE /\ pc' = "end"
          /\ outcome' = "configured"
          /\ IF arg("ipc") \in {"absent", "empty"} THEN UNCHANGED config ELSE write("ipc", "ok")
          /\ UNCHANGED files
  /\ UNCHANGED <<input, pending>>

Done == pc = "end" /\ UNCHANGED vars

applyToolConfigFile ==
  \/ LoadFile \/ applyStackAnalyzerSection \/ applyLegacyRootInvokeAndInput
  \/ applyAnalysisSection \/ applyFilesSection \/ applyOutputSection
  \/ applyRuntimeSection \/ applyServerSection

process == (\E o \in Options : Command(o)) \/ FinishOptions

build_config_from_params ==
  \/ ApplyBoolFields \/ ApplyStringFields \/ ApplyUint64Fields \/ ApplyListParams
  \/ apply_ipc_field

Next == applyToolConfigFile \/ process \/ build_config_from_params \/ Done

Spec == Init /\ [][Next]_vars

-----------------------------------------------------------------------------
\* What the analyzer is given of the configuration: the functions it looks
\* at are only_functions, and entry_points only when that list is empty.
onlyFunctionsFilter ==
  IF config["only_functions"].is \notin {"unset", "empty"} THEN config["only_functions"]
  ELSE config["entry_points"]

-----------------------------------------------------------------------------
\* Reference definitions: the rules, without the order in which they are read.

configured == outcome = "configured"

\* Any stack_analyzer hides tools.
hidden(place) == place = "tools" /\ input.shape["stack_analyzer"] # "absent"

fileGives(place, f) ==
  /\ input.shape["root"] = "object"
  /\ ~hidden(place)
  /\ \/ given(place, f)
     \/ f = "only_functions" /\ place # "files" /\ given(place, "entry_points")
     \/ f = "resource_cross_tu" /\ given(place, "no_resource_cross_tu")

Rank == [stack_analyzer |-> 1, tools |-> 1, root |-> 2, analysis |-> 3, files |-> 3,
         output |-> 3, runtime |-> 3, server |-> 3]

strongestPlace(f) ==
  LET givers == {p \in Places : fileGives(p, f)}
  IN IF givers = {} THEN "default"
     ELSE CHOOSE p \in givers : \A q \in givers : Rank[q] <= Rank[p]

\* An empty option is as good as none, and so is an empty list or ipc of a
\* request; an empty string of a request does count.
argsGive(f) ==
  IF input.front = "cli" THEN f \in Options /\ arg(f) \notin {"absent", "empty"}
  ELSE f \in Params /\ arg(f) \notin (IF f \in Lists \cup {"ipc"} THEN {"absent", "empty"}
                                      ELSE {"absent"})

\* The boolean fields of a request are the only ones that the file overrides.
argsWin(f) ==
  argsGive(f) /\ (input.front = "request" /\ f \in Flags => strongestPlace(f) = "default")

fileValid ==
  input.shape["root"] = "object" =>
    \A p \in {q \in Places : ~hidden(q)} :
      /\ input.shape[p] # "malformed"
      /\ \A k \in Keys[p] : given(p, k) => acceptable(k, valueOf(p, k))

\* The checks that the front end makes.
argsPass ==
  /\ arg("ipc") # "disallowed"
  /\ IF input.front = "cli"
     THEN /\ arg("invoke") # "disallowed" /\ arg("shutdown_timeout_ms") # "disallowed"
          /\ \A k \in Numbers : arg(k) # "mistyped"
          /\ serverOptionsConsistent
     ELSE /\ \A k \in Params : arg(k) # "mistyped"
          /\ arg("smt_timeout_ms") # "disallowed"

\* Whatever the order in which options are applied, each field ends with the
\* value of its strongest source: command line or request, canonical section,
\* legacy key of the root, analyzer section, default (buildConfig,
\* build_config_from_params, applyToolConfigFile).
Precedence ==
  configured =>
    \A f \in Fields :
      LET winner == IF argsWin(f) THEN "args" ELSE strongestPlace(f)
      IN /\ config[f].by = winner
         /\ winner = "args" /\ f \notin {"smt_timeout_ms", "ipc"} => config[f].is = arg(f)
         /\ winner \in Places /\ f \notin {"only_functions", "resource_cross_tu"} =>
              config[f].is = valueOf(winner, f)

\* What docs/configuration.md allows is narrower, see CliValuesAllowed.
argsAllowed == argsPass /\ \A k \in DOMAIN input.args : input.args[k] # "disallowed"

\* A configuration comes only of a file whose consulted parts are well
\* formed, known, of the right type and allowed, and of arguments that pass
\* the checks of their front end; and no input is rejected that the
\* documentation allows, whatever stands in a part that nobody reads.  Of
\* arguments that pass though they are not allowed nothing is said
\* (applyToolConfigFile, ConfigProcessor, apply_*_fields).
AcceptsOnlyChecked ==
  pc = "end" =>
    /\ configured => input.shape["root"] # "malformed" /\ fileValid /\ argsPass
    /\ input.shape["root"] # "malformed" /\ fileValid /\ argsAllowed => configured

\* The input files of the file are those of one place at most, the strongest
\* that names any; those of the command line or of the request come in once
\* and last.  Whether they replace those of the file or stand behind them is
\* left open, see CliInputWins (assignInputFiles, ProgramConfig::addFile).
InputFiles ==
  configured =>
    LET p == IF fileGives("files", "input") THEN "files" ELSE "root"
        fromFile == IF fileGives(p, "input") /\ valueOf(p, "input") # "empty"
                    THEN <<p>> ELSE <<>>
    IN IF argsGive("input") THEN files \in {<<"args">>, Append(fromFile, "args")}
       ELSE files = fromFile

-----------------------------------------------------------------------------
\* What is true of a configuration that is not yet complete; with TypeOK it
\* is inductive and gives the three properties above.

underway == outcome \in {"running", "configured"}

\* The steps in their order, and the one that reads a place or a parameter.
Step == [ params |-> 0, load |-> 1, analyzer |-> 2, root |-> 3, analysis |-> 4, files |-> 5,
          output |-> 6, runtime |-> 7, server |-> 8, options |-> 9, strings |-> 9,
          numbers |-> 10, lists |-> 11, ipc |-> 12, end |-> 13 ]
StepOf == [ stack_analyzer |-> 2, tools |-> 2, root |-> 3, analysis |-> 4, files |-> 5,
            output |-> 6, runtime |-> 7, server |-> 8 ]
stepOfParam(k) ==
  IF k = "ipc" THEN Step["ipc"] ELSE IF k \in Flags THEN Step["params"]
  ELSE IF k \in Numbers THEN Step["numbers"] ELSE IF k \in Lists THEN Step["lists"]
  ELSE Step["strings"]

consulted(p) == input.shape["root"] = "object" /\ ~hidden(p) /\ StepOf[p] < Step[pc]
argRead(k) == IF input.front = "cli" THEN k \notin pending ELSE stepOfParam(k) < Step[pc]

argValid(k) ==
  IF input.front = "cli"
  THEN /\ k \in {"invoke", "ipc", "shutdown_timeout_ms"} => arg(k) # "disallowed"
       /\ k \in Numbers => arg(k) # "mistyped"
  ELSE /\ k \in {"ipc", "smt_timeout_ms"} => arg(k) # "disallowed"
       /\ arg(k) # "mistyped"

Progress ==
  /\ outcome = "running" <=> pc # "end"
  /\ input.front = "cli" => pc \notin {"params", "strings", "numbers", "lists", "ipc"}
  /\ input.front = "request" => pc # "options" /\ pending = {}
  /\ pc \in {"analyzer", "root", "analysis", "files", "output", "runtime", "server"} =>
       input.shape["root"] = "object"
  /\ input.front = "cli" =>
       /\ pending \subseteq {o \in DOMAIN input.args : input.args[o] # "empty"}
       /\ pc \notin {"options", "end"} =>
            pending = {o \in DOMAIN input.args : input.args[o] # "empty"}
  /\ input.front = "cli" /\ configured => pending = {} /\ serverOptionsConsistent

\* What has been read was valid, and what has not been accepted was not.
ReadIsValid ==
  /\ underway /\ pc \notin {"params", "load"} => input.shape["root"] # "malformed"
  /\ underway => \A p \in Places : consulted(p) => readable(p)
  /\ underway => \A k \in DOMAIN input.args :
       argRead(k) /\ ~(input.front = "cli" /\ arg(k) = "empty") => argValid(k)
  /\ ~underway => input.shape["root"] = "malformed" \/ ~fileValid \/ ~argsPass

\* A field follows the command line or the request if they have come to it,
\* else the strongest place consulted that gives it, else what stood there
\* before the file: a default, or a boolean field of a request.
gives(p, f) == consulted(p) /\ given(p, lastKey(p, f))

fromParams(f) == input.front = "request" /\ f \in Flags
overridden(f) == argsGive(f) /\ argRead(f) /\ ~fromParams(f)

followsArgs(f) ==
  /\ config[f].by = "args"
  /\ f \notin {"smt_timeout_ms", "ipc"} => config[f].is = arg(f)

followsPlace(p, f) ==
  /\ gives(p, f)
  /\ config[f] = Value(p, valueOf(p, lastKey(p, f)))
  /\ \A q \in Places : gives(q, f) => Rank[q] <= Rank[p]

followsNoPlace(f) ==
  /\ \A p \in Places : ~gives(p, f)
  /\ config[f] = IF fromParams(f) /\ argsGive(f) /\ argRead(f) THEN Value("args", arg(f))
                 ELSE Value("default", "unset")

followsSource(f) ==
  IF overridden(f) THEN followsArgs(f)
  ELSE (\E p \in Places : followsPlace(p, f)) \/ followsNoPlace(f)

FieldsFollow == underway => \A f \in Fields : followsSource(f)

FilesFollow ==
  underway =>
    LET p == IF gives("files", "input") THEN "files" ELSE "root"
        fromFile == IF gives(p, "input") /\ valueOf(p, "input") # "empty"
                    THEN <<p>> ELSE <<>>
    IN files = IF argsGive("input") /\ argRead("input") THEN Append(fromFile, "args")
               ELSE fromFile

IInv == TypeOK /\ Progress /\ ReadIsValid /\ FieldsFollow /\ FilesFollow

-----------------------------------------------------------------------------
\* What docs/configuration.md says of the command line.

\* Line 11: "CLI values always override config file values."  Entry points
\* given with --entry-points are the filter the analyzer gets ...
CliEntryPointsWin == argsGive("entry_points") => onlyFunctionsFilter.by = "args"

\* ... and files given with --input, the option of files.input (line 56), are
\* analysed in place of those of the file.
CliInputWins == argsGive("input") => files = <<"args">>

\* Line 261: the SMT timeout of a query is one of 0..UINT32_MAX; line 327:
\* "Enum-like values (`ipc`, `analysis_profile`, `smt_mode`) are validated
\* explicitly."  At least one of three values is validated.
CliValuesAllowed ==
  \E k \in {"smt_timeout_ms", "analysis_profile", "smt_mode"} : arg(k) # "disallowed"

\* At least one of these promises is kept in every configuration of a command
\* line.  This is weaker than each of them, so the one input that breaks it
\* refutes them all.
SomeCliPromiseKept ==
  configured /\ input.front = "cli" => CliEntryPointsWin \/ CliInputWins \/ CliValuesAllowed
==============================================================================
