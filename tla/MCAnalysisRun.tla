---------------------------- MODULE MCAnalysisRun ----------------------------
(***************************************************************************)
(* Small instances of AnalysisRun for TLC.                                 *)
(***************************************************************************)
EXTENDS AnalysisRun, TLC

CONSTANTS r1, r2, text, binary, withNul

MCRequests == {r1, r2}
MCChildTools == {"cppcheck", "flawfinder", "tscancode"}
MCProcs == MCRequests \X MCChildTools
MCTexts == {text, binary, withNul}
MCAsRead == [t \in Content |-> IF t = withNul THEN text ELSE t]
LogSymmetry == Permutations(LogNames)

-----------------------------------------------------------------------------
\* Files and manifests.

str(path) == [kind |-> "string", value |-> path]
obj(fields) == [kind |-> "object", value |-> fields]

a == Rel(<<"a.c">>)
b == Rel(<<"src", "b.c">>)
dep == Rel(<<"_deps", "d.c">>)

\* A compilation database, with a dependency named by its directory, and
\* names of one file in several spellings.
database ==
  << obj([file |-> Rel(<<"..", "a.c">>), directory |-> Rel(<<"src">>)]),
     obj([file |-> Rel(<<"d.c">>), directory |-> Rel(<<"..", "_deps">>)]),
     obj([path |-> Abs(<<"w", ".", "a.c">>)]),
     obj([file |-> Rel(<<"_deps", "..", "..", "src", "b.c">>)]) >>

MCDisk ==
  [ p \in {a, b, dep, Rel(<<"build">>), Rel(<<"build", "compile_commands.json">>),
           Rel(<<"m", "list.json">>), Rel(<<"m", "object.json">>),
           Rel(<<"m", "one.json">>), Rel(<<"m", "broken.json">>), Rel(<<"build.txt">>)} |->
    CASE p \in {a, b, dep} -> [kind |-> "text"]
      [] p = Rel(<<"build">>) -> [kind |-> "directory"]
      [] p = Rel(<<"build", "compile_commands.json">>) -> [kind |-> "array", value |-> database]
      [] p = Rel(<<"m", "list.json">>) ->
           [kind |-> "array", value |-> <<str(Rel(<<"..", "a.c">>)), [kind |-> "other"],
                                          str(Rel(<<".", "..", "src", "b.c">>)), str(Empty)>>]
      [] p = Rel(<<"m", "object.json">>) ->
           [kind |-> "object",
            value |-> [sources |-> <<obj([src_file |-> Rel(<<"c.c">>)]), obj([other |-> Empty]),
                                     str(Rel(<<"..", "_deps", "d.c">>))>>,
                       compile_commands |-> <<str(a)>>]]
      [] p = Rel(<<"m", "one.json">>) ->
           [kind |-> "object", value |-> [file |-> Rel(<<"..", "_deps", "d.c">>),
                                          directory |-> Rel(<<"..">>)]]
      [] OTHER -> [kind |-> "text"] ]

MCJsonNames == {"compile_commands.json", "list.json", "object.json", "one.json",
                "broken.json", "nosuch.json"}

manifest(name) == Rel(<<"m", name>>)
Entries == {a, b, Rel(<<".", "src", "..", "a.c">>), Rel(<<"..", "..", "x.c">>), dep, Empty,
            Abs(<<"..", "a.c">>),
            manifest("list.json"), manifest("object.json"), manifest("one.json"),
            manifest("broken.json"), manifest("nosuch.json")}
Databases == {Empty, Rel(<<"build">>), Rel(<<"build", ".", "compile_commands.json">>),
              manifest("one.json"), manifest("object.json"), Rel(<<"build.txt">>),
              Rel(<<"nosuch">>)}

input(files, database_, deps) ==
  [files |-> files, compile_commands |-> database_, include_compdb_deps |-> deps]

Inputs ==
  { input(<<x, y>>, d, FALSE) : x \in Entries, y \in Entries, d \in {Rel(<<"build">>)} }
  \cup { input(<<>>, d, i) : d \in Databases, i \in BOOLEAN }
  \cup { input(<<x>>, Empty, i) : x \in Entries, i \in BOOLEAN }

-----------------------------------------------------------------------------
\* Settings of the analyzer: none, one field at a time, all together.

txt == <<"x">>
commas == <<"x", "y">>
OneByOne ==
  { [f \in {o} |-> v] : o \in (ToSet(Values) \cup ToSet(Numbers) \cup {"--config"})
                                 \ {"--compile-commands"},
                        v \in {txt, commas, NoText} }
  \cup { [f \in {o} |-> txt] : o \in {"--mode", "--format", "entry_points"} }
  \cup { [f \in {o} |-> v] : o \in {t.on : t \in ToSet(Toggles)}, v \in BOOLEAN }
  \cup { [f \in {o} |-> TRUE] : o \in (ToSet(Modes) \cup {"--timing", "--print-effective-config"})
                                         \ {"--include-compdb-deps"} }
  \cup { [f \in {o} |-> v] : o \in ToSet(Filters) \cup {"-I", "-D", "--compile-arg"},
                             v \in {<<txt>>, <<txt, NoText, commas>>} }
  \cup { [f \in {o} |-> v] : o \in Joined, v \in {<<txt>>, <<txt, commas>>} }
  \cup { [f \in {"extra_args"} |-> v] :
           v \in {<<Text(txt)>>, <<Opt("--jobs"), Text(txt), Text(NoText)>>,
                  <<Opt("--quiet"), Opt("--jobs")>>, <<Text(NoText)>>} }

Together ==
  [ f \in {"--smt", "--only-file", "--quiet", "sarif_format", "entry_points", "-D",
           "--resource-cross-tu", "--smt-rules", "--smt-timeout-ms", "extra_args"} |->
    CASE f \in {"--smt", "entry_points", "--smt-timeout-ms"} -> txt
      [] f \in {"--only-file", "-D", "--smt-rules"} -> <<txt, NoText>>
      [] f = "--resource-cross-tu" -> FALSE
      [] f = "extra_args" -> <<Opt("--only-dir"), Text(txt)>>
      [] OTHER -> TRUE ]

NoSettings == [f \in {} |-> TRUE]
Sarif == [f \in {"sarif_format"} |-> TRUE]

-----------------------------------------------------------------------------
\* What the analyzer prints about two files, one with two warnings and one
\* with an error and a note.

counts(info, warning, error_) == [info |-> info, warning |-> warning, error |-> error_]
reports == <<<<"warning", "warning">>, <<"error", "info">>>>
graded == <<<<"warning", "warning">>, <<"other", "error", "info">>>>

total(sum) == [kind |-> "total", sum |-> sum, fits |-> TRUE]
perFile(sum) == [kind |-> "file", sum |-> sum, fits |-> TRUE]
noise == [kind |-> "other", sum |-> NoSummary, fits |-> TRUE]
tooLong == [kind |-> "total", sum |-> NoSummary, fits |-> FALSE]

nothing == [kind |-> "none", runs |-> <<>>]
doc(kind, runs_) == [kind |-> kind, runs |-> runs_]
textOnly(lines_) == [lines |-> lines_, doc |-> nothing]
docOnly(d) == [lines |-> <<>>, doc |-> d]
silent == textOnly(<<>>)

prints(out, err, reports_) == [out |-> out, err |-> err, reports |-> reports_]
files == <<perFile(counts(0, 2, 0)), noise, perFile(counts(1, 0, 1))>>

MCAnalyzerPrints ==
  { prints(textOnly(files \o <<total(counts(1, 2, 1))>>), silent, reports),
    prints(textOnly(<<tooLong>> \o files), silent, reports),
    prints(textOnly(<<noise>>), textOnly(<<noise, total(counts(1, 2, 1))>>), reports),
    prints(docOnly(doc("diagnostics", <<<<"warning", "WARNING">>, <<"ERROR?", "Error", "note">>>>)),
           silent, graded),
    prints(docOnly(doc("sarif", <<<<NoLevel, "warning">>, <<"none", "error", "note">>>>)),
           textOnly(<<noise>>), graded),
    prints(docOnly(doc("sarif", <<<<>>>>)), silent, <<<<>>, <<>>>>),
    prints(silent, silent, <<>>) }

-----------------------------------------------------------------------------
\* The runs.

task(api, tools_, async, ipc, input_, settings_) ==
  [api |-> api, selected |-> TRUE, tools |-> tools_, async |-> async, ipc |-> ipc,
   input |-> input_, settings |-> settings_]

one_ == input(<<a>>, Empty, FALSE)
two == input(<<b, Rel(<<"src", "..", "a.c">>), b>>, Empty, FALSE)

only(load1) == [r \in MCRequests |-> IF r = r1 THEN load1 ELSE None]
both(load1, load2) == [r \in MCRequests |-> IF r = r1 THEN load1 ELSE load2]

Resolving == { only(task(FALSE, <<>>, FALSE, "standardIO", i, NoSettings)) : i \in Inputs }

Analyzing ==
  { only(task(TRUE, <<analyzer>>, FALSE, "standardIO", two, s)) :
      s \in OneByOne \cup {Together, NoSettings} }
  \cup { only(task(TRUE, <<analyzer>>, FALSE, "standardIO", i, NoSettings)) :
      i \in {input(<<a>>, d, TRUE) : d \in Databases} }

all == <<"cppcheck", "flawfinder", analyzer>>
Working ==
  { only([task(TRUE, <<>>, FALSE, "socket", one_, NoSettings) EXCEPT !.selected = FALSE]),
    only(task(TRUE, <<"flawfinder", "tscancode">>, TRUE, "standardIO", one_, Sarif)),
    only(task(TRUE, <<"cppcheck", "flawfinder">>, FALSE, "standardIO", two, NoSettings)),
    only(task(FALSE, <<"flawfinder", analyzer>>, TRUE, "socket", one_, NoSettings)),
    only(task(TRUE, <<"flawfinder", analyzer>>, TRUE, "socket", two, NoSettings)),
    only(task(TRUE, all, TRUE, "serve", one_, NoSettings)),
    both(task(TRUE, <<"cppcheck">>, FALSE, "standardIO", two, NoSettings),
         task(TRUE, <<"tscancode">>, FALSE, "standardIO", one_, Sarif)),
    both(task(TRUE, <<"cppcheck">>, FALSE, "standardIO", one_, NoSettings),
         task(TRUE, <<"flawfinder">>, FALSE, "socket", one_, NoSettings)) }

AllLoads == Resolving \cup Analyzing \cup Working
=============================================================================
