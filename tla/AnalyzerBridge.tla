---------------------------- MODULE AnalyzerBridge ---------------------------
(***************************************************************************)
(* How the stack analyzer is driven (StackAnalyzerToolImplementation.cpp): *)
(* buildAnalyzerArgs turns the settings of a configuration into the words  *)
(* of a command line, and two parsers turn what the analyzer has printed   *)
(* into a summary of diagnostics.                                          *)
(*                                                                         *)
(* A text is the sequence of its parts between commas.  The settings are a *)
(* function from those fields that differ from their default (no text,     *)
(* FALSE, no list, 0, not set); a field has the name of its option.        *)
(***************************************************************************)
EXTENDS Naturals, Sequences, SequencesExt

NoText == <<"">>
NoOption == "none"

\* A word of the command line: an option, an option and its value in one
\* word, or text.
Opt(option) == [kind |-> "option", option |-> option, text |-> NoText]
Glued(option, text) == [kind |-> "glued", option |-> option, text |-> text]
Text(text) == [kind |-> "text", option |-> NoOption, text |-> text]

is(settings, field) == field \in DOMAIN settings
get(settings, field, default) == IF is(settings, field) THEN settings[field] ELSE default

\* Concat(f, s) puts the sequences f(s[1]), f(s[2]), ... together.
Concat(Piece(_), s) == FlattenSeq([i \in DOMAIN s |-> Piece(s[i])])

\* The elements of s that are not empty.
filled(s, empty) == Concat(LAMBDA x : IF x = empty THEN <<>> ELSE <<x>>, s)

-----------------------------------------------------------------------------
\* buildAnalyzerArgs.

\* Faulty: an empty value leaves its option without one.
appendValueOption_bare(option, text) ==
  IF text = NoText THEN <<Opt(option)>> ELSE <<Opt(option), Text(text)>>

appendValueOption(option, text) ==
  IF text = NoText THEN <<>> ELSE <<Opt(option), Text(text)>>

appendFlagOption(option, enabled) == IF enabled THEN <<Opt(option)>> ELSE <<>>

joinCsv(items) == FlattenSeq(items)

appendCsv(option, items) ==
  IF items = <<>> THEN <<>> ELSE <<Opt(option), Text(joinCsv(items))>>

Modes == <<"--verbose", "--demangle", "--quiet", "--include-compdb-deps", "--compdb-fast",
           "--STL", "--warnings-only", "--dump-filter">>
Values == <<"--analysis-profile", "--compile-commands", "--jobs",
            "--resource-summary-cache-dir", "--compile-ir-cache-dir", "--compile-ir-format",
            "--dump-ir", "--base-dir", "--resource-model", "--escape-model",
            "--buffer-model", "--smt", "--smt-backend", "--smt-secondary-backend",
            "--smt-mode">>
Filters == <<"--only-file", "--only-dir", "--exclude-dir">>
Toggles == <<[on |-> "--resource-cross-tu", off |-> "--no-resource-cross-tu"],
             [on |-> "--uninitialized-cross-tu", off |-> "--no-uninitialized-cross-tu"]>>
Numbers == <<"--stack-limit", "--smt-timeout-ms", "--smt-budget-nodes">>

Format(settings) ==
  IF is(settings, "--format") THEN <<Glued("--format", settings["--format"])>>
  ELSE IF is(settings, "sarif_format") THEN <<Glued("--format", <<"json">>)>> ELSE <<>>

\* A list of functions takes the place of the entry points.
FunctionFilter(settings) ==
  IF is(settings, "--only-func")
  THEN appendCsv("--only-func", settings["--only-func"])
  ELSE appendValueOption("--only-function", get(settings, "entry_points", NoText))

\* An optional flag has an option for either value.
toggle(settings, t) ==
  IF is(settings, t.on) THEN <<Opt(IF settings[t.on] THEN t.on ELSE t.off)>> ELSE <<>>

extraArguments(settings) == filled(get(settings, "extra_args", <<>>), Text(NoText))

buildAnalyzerArgs(inputFiles, settings) ==
  LET flag(o) == appendFlagOption(o, is(settings, o))
      value(o) == appendValueOption(o, get(settings, o, NoText))
      filter(o) == Concat(LAMBDA t : appendValueOption(o, t), get(settings, o, <<>>))
      glued(o) == Concat(LAMBDA t : IF t = NoText THEN <<>> ELSE <<Glued(o, t)>>,
                         get(settings, o, <<>>))
  IN  <<Glued("--mode", get(settings, "--mode", <<"ir">>))>>
      \o value("--config") \o flag("--print-effective-config") \o Format(settings)
      \o Concat(flag, Modes) \o Concat(value, Values) \o Concat(filter, Filters)
      \o FunctionFilter(settings) \o glued("-I") \o glued("-D") \o filter("--compile-arg")
      \o flag("--timing") \o flag("--resource-summary-cache-memory-only")
      \o Concat(LAMBDA t : toggle(settings, t), Toggles) \o Concat(value, Numbers)
      \o appendCsv("--smt-rules", get(settings, "--smt-rules", <<>>))
      \o extraArguments(settings) \o [i \in DOMAIN inputFiles |-> Text(inputFiles[i])]

-----------------------------------------------------------------------------
\* The analyzer's own reading of its command line: an option that takes a
\* value takes the next word, whatever it is; other text is an input file.
\* What it has read of one option are the texts that came with it.

TakesValue ==
  ToSet(Values) \cup ToSet(Filters) \cup ToSet(Numbers)
    \cup {"--config", "--compile-arg", "--only-func", "--only-function", "--smt-rules"}

Reading(waiting, texts, inputs) == [waiting |-> waiting, texts |-> texts, inputs |-> inputs]

readWord(o, read, w) ==
  LET with(option) == IF option = o THEN Append(read.texts, w.text) ELSE read.texts
  IN  CASE read.waiting # NoOption -> Reading(NoOption, with(read.waiting), read.inputs)
        [] read.waiting = NoOption /\ w.kind = "option" /\ w.option \in TakesValue ->
             Reading(w.option, read.texts, read.inputs)
        [] read.waiting = NoOption /\ w.kind = "text" ->
             Reading(NoOption, read.texts, Append(read.inputs, w.text))
        [] OTHER -> Reading(NoOption, with(w.option), read.inputs)

\* Reading on from what has been read before.
readOn(o, read, words) ==
  LET after[i \in 0..Len(words)] ==
        IF i = 0 THEN read ELSE readWord(o, after[i - 1], words[i])
  IN  after[Len(words)]

parseArguments(o, words) == readOn(o, Reading(NoOption, <<>>, <<>>), words)

-----------------------------------------------------------------------------
\* What the settings mean to the analyzer.

Flags == ToSet(Modes) \cup {"--print-effective-config", "--timing",
                            "--resource-summary-cache-memory-only"}
Single == ToSet(Values) \cup ToSet(Numbers) \cup {"--config"}
Repeated == ToSet(Filters) \cup {"-I", "-D", "--compile-arg"}
Joined == {"--only-func", "--smt-rules"}
Switches == UNION {{t.on, t.off} : t \in ToSet(Toggles)}
AnalyzerOptions ==
  Flags \cup Single \cup Repeated \cup Joined \cup Switches
    \cup {"--mode", "--format", "--only-function"}

Meant(settings, o) ==
  CASE o \in Flags -> IF is(settings, o) THEN <<NoText>> ELSE <<>>
    [] o \in Single -> filled(<<get(settings, o, NoText)>>, NoText)
    [] o \in Repeated -> filled(get(settings, o, <<>>), NoText)
    [] o \in Joined ->
         LET items == get(settings, o, <<>>) IN IF items = <<>> THEN <<>> ELSE <<joinCsv(items)>>
    [] o \in Switches ->
         IF \E t \in ToSet(Toggles) : is(settings, t.on) /\ o = IF settings[t.on] THEN t.on ELSE t.off
         THEN <<NoText>> ELSE <<>>
    [] o = "--mode" -> <<get(settings, "--mode", <<"ir">>)>>
    [] o = "--format" ->
         IF is(settings, "--format") THEN <<settings["--format"]>>
         ELSE IF is(settings, "sarif_format") THEN <<<<"json">>>> ELSE <<>>
    [] o = "--only-function" ->
         IF is(settings, "--only-func") THEN <<>>
         ELSE filled(<<get(settings, "entry_points", NoText)>>, NoText)

\* Settings whose texts, or those of their lists, are some texts.
Word(texts) == [kind : {"option", "glued", "text"}, option : STRING, text : texts]

IsSettings(settings, texts) ==
  \A o \in DOMAIN settings :
    /\ o \in Single \cup {"--mode", "--format", "entry_points"} => settings[o] \in texts
    /\ o \in Repeated => settings[o] \in Seq(texts)
    /\ o \in Joined => settings[o] \in Seq(Seq(STRING))
    /\ o \in Switches => settings[o] \in BOOLEAN
    /\ o = "extra_args" => settings[o] \in Seq(Word(texts))

\* The analyzer finds every setting under its option, in the order of its
\* list, no option without its value, what extra arguments add behind it,
\* and exactly the resolved sources as its inputs, unless the last extra
\* argument that is not empty takes a value and swallows the first of them.
ArgumentsArrive(inputFiles, settings, words) ==
  \A o \in AnalyzerOptions :
    LET read == parseArguments(o, words)
        added == parseArguments(o, extraArguments(settings))
    IN  added.waiting = NoOption =>
          read = Reading(NoOption, Meant(settings, o) \o added.texts, added.inputs \o inputFiles)

-----------------------------------------------------------------------------
\* The summary of what has been printed.  A line is a total, the summary of
\* one file or something else; a number that does not fit is no summary.

Severities == {"info", "warning", "error"}
Summaries == [Severities -> Nat]
NoSummary == [severity \in Severities |-> 0]
plus(s, t) == [severity \in Severities |-> s[severity] + t[severity]]

\* What the analyzer can print: lines, and the severities of a document.
PrintedLine == [kind : STRING, sum : Summaries, fits : BOOLEAN]
IsPrinted(text) ==
  /\ text.lines \in Seq(PrintedLine)
  /\ text.doc.runs \in Seq(Seq(STRING))

\* The sum over the lines at some places.
sumOver(lines, places) ==
  LET sum[i \in 0..Len(lines)] ==
        IF i = 0 THEN NoSummary
        ELSE IF i \in places THEN plus(sum[i - 1], lines[i].sum) ELSE sum[i - 1]
  IN  sum[Len(lines)]

valid(lines, kind) == {i \in DOMAIN lines : lines[i].kind = kind /\ lines[i].fits}

\* Faulty: totals are added to the summaries of the files.
parseDiagnosticsSummaryFromText_addsTotals(lines) ==
  LET places == valid(lines, "total") \cup valid(lines, "file")
  IN  IF places = {} THEN <<>> ELSE <<sumOver(lines, places)>>

\* An optional summary: the last total, else the sum over the files.
parseDiagnosticsSummaryFromText(lines) ==
  IF valid(lines, "total") # {} THEN <<lines[Max(valid(lines, "total"))].sum>>
  ELSE IF valid(lines, "file") # {} THEN <<sumOver(lines, valid(lines, "file"))>> ELSE <<>>

\* The names of the severities, compared in lower case.
Spelt == [info |-> {"info", "information", "note"},
          warning |-> {"warning", "warn", "WARNING"},
          error |-> {"error", "Error"}]

\* The places of all entries of some lists.
entries(lists) == UNION {{i} \X DOMAIN lists[i] : i \in DOMAIN lists}

\* A document of diagnostics, or of SARIF runs, where a result without a
\* level is a warning; SARIF without results is no summary.
NoLevel == "no level"

parseDiagnosticsSummaryFromStructuredOutput(doc) ==
  LET results == entries(doc.runs)
      level(m) == LET given == doc.runs[m[1]][m[2]]
                  IN  IF doc.kind = "sarif" /\ given = NoLevel THEN "warning" ELSE given
      counted(severity) == Cardinality({m \in results : level(m) \in Spelt[severity]})
  IN  IF doc.kind = "diagnostics" \/ (doc.kind = "sarif" /\ results # {})
      THEN <<[severity \in Severities |-> counted(severity)]>> ELSE <<>>

\* Each stream as text first, then as a document; standard output first.
lastDiagnosticsSummary(out, err) ==
  LET found == parseDiagnosticsSummaryFromText(out.lines)
               \o parseDiagnosticsSummaryFromStructuredOutput(out.doc)
               \o parseDiagnosticsSummaryFromText(err.lines)
               \o parseDiagnosticsSummaryFromStructuredOutput(err.doc)
  IN  IF found = <<>> THEN NoSummary ELSE Head(found)

-----------------------------------------------------------------------------
\* What the analyzer reports, the severities of the diagnostics of each
\* file, and how it prints that.  A summary counts no "other" diagnostics.

IsReport(reports) == reports \in Seq(Seq(Severities \cup {"other"}))

ofFile(report) ==
  [severity \in Severities |-> Cardinality({j \in DOMAIN report : report[j] = severity})]
truth(reports) ==
  [severity \in Severities |->
     Cardinality({m \in entries(reports) : reports[m[1]][m[2]] = severity})]

\* As text, the summary of every file, the total, or both.
InLines(lines, reports) ==
  /\ valid(lines, "total") \cup valid(lines, "file") # {}
  /\ \A i \in valid(lines, "total") : lines[i].sum = truth(reports)
  /\ valid(lines, "total") = {} =>
       \E at \in Bijection(DOMAIN reports, valid(lines, "file")) :
         \A i \in DOMAIN reports : lines[at[i]].sum = ofFile(reports[i])

\* As a document, in which each severity is spelt in one of its ways; in
\* SARIF a warning may do without.
StandsFor(kind, word, severity) ==
  word \in Spelt[severity] \/ (kind = "sarif" /\ word = NoLevel /\ severity = "warning")

InDocument(doc, reports) ==
  /\ doc.kind = "diagnostics" \/ (doc.kind = "sarif" /\ entries(reports) # {})
  /\ DOMAIN doc.runs = DOMAIN reports
  /\ \A i \in DOMAIN reports :
       /\ DOMAIN doc.runs[i] = DOMAIN reports[i]
       /\ \A j \in DOMAIN reports[i], severity \in Severities :
            StandsFor(doc.kind, doc.runs[i][j], severity) <=> reports[i][j] = severity

NoLines(lines) == valid(lines, "total") = {} /\ valid(lines, "file") = {}
Tells(text, reports) ==
  InLines(text.lines, reports) \/ (NoLines(text.lines) /\ InDocument(text.doc, reports))
IsSilent(text) ==
  /\ NoLines(text.lines)
  /\ text.doc.kind = "none" \/ (text.doc.kind = "sarif" /\ entries(text.doc.runs) = {})

\* It tells on one stream, or has nothing to tell.
Rendered(print) ==
  /\ IsReport(print.reports)
  /\ \/ Tells(print.out, print.reports)
     \/ IsSilent(print.out) /\ Tells(print.err, print.reports)
     \/ IsSilent(print.out) /\ IsSilent(print.err) /\ entries(print.reports) = {}
=============================================================================
