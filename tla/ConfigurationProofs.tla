------------------------- MODULE ConfigurationProofs -------------------------
(***************************************************************************)
(* Proofs about Configuration for any set of well-formed inputs.           *)
(***************************************************************************)
EXTENDS Configuration, TLAPS

-----------------------------------------------------------------------------
(***************************************************************************)
(* Places, keys and the steps that read them.                              *)
(***************************************************************************)
LEMMA PlacesAre ==
  Places = {"stack_analyzer", "tools", "root", "analysis", "files", "output", "runtime", "server"}
BY DEF Places, Keys

\* Only what the file has stands in a place, and the place may hold it.
LEMMA GivenShaped ==
  ASSUME WellFormed(input), NEW p, NEW k, given(p, k)
  PROVE  /\ p \in Places /\ input.shape[p] = "object" /\ k \in Keys[p]
         /\ valueOf(p, k) \in Values
<1>1. <<p, k>> \in DOMAIN input.file
  BY DEF given
<1>2. <<p, k>> \in Places \X Settings
  BY <1>1 DEF WellFormed
<1>3. p \in Places /\ k \in Settings
  BY <1>2
<1>4. QED
  BY <1>1, <1>3 DEF WellFormed, valueOf

\* The steps of the places, and the strength of places that may set one field.
LEMMA RanksAre ==
  /\ \A p \in Places : StepOf[p] \in 2..8 /\ Rank[p] \in 1..3
  /\ \A p, q \in Places : StepOf[p] <= StepOf[q] => Rank[p] <= Rank[q]
  /\ \A p, q \in Places : StepOf[p] = StepOf[q] /\ p # q => {p, q} = {"stack_analyzer", "tools"}
BY PlacesAre DEF StepOf, Rank

\* The key of a place that has the last word on a field.
LEMMA LastKeyIs ==
  ASSUME NEW p, NEW f
  PROVE  \/ lastKey(p, f) = f
         \/ /\ f = "only_functions" /\ lastKey(p, f) = "entry_points"
            /\ p \in {"stack_analyzer", "tools"}
         \/ f = "resource_cross_tu" /\ lastKey(p, f) = "no_resource_cross_tu"
BY DEF lastKey

\* The sections of the file set different fields.
LEMMA SectionsAreDisjoint ==
  \A p, q \in Places : Rank[p] = 3 /\ Rank[q] = 3 /\ p # q => Keys[p] \cap Keys[q] = {}
<1>1. SUFFICES ASSUME NEW p \in {"analysis", "files", "output", "runtime", "server"},
                      NEW q \in {"analysis", "files", "output", "runtime", "server"}, p # q
               PROVE  Keys[p] \cap Keys[q] = {}
  BY PlacesAre DEF Rank
<1> DEFINE Section(k) ==
      IF k \in {"static", "dynamic", "invoke"} THEN "analysis"
      ELSE IF k \in {"input", "entry_points", "compile_commands", "include_compdb_deps"}
           THEN "files"
      ELSE IF k \in {"async", "ipc", "ipc_path"} THEN "runtime"
      ELSE IF k \in {"host", "port", "shutdown_token", "shutdown_timeout_ms"} THEN "server"
      ELSE "output"
<1>2. ASSUME NEW r \in {"analysis", "files", "output", "runtime", "server"}, NEW k \in Keys[r]
      PROVE  Section(k) = r
  BY <1>2 DEF Keys
<1>3. QED
  BY <1>1, <1>2

\* Two places that give a field and are equally strong are one.
LEMMA GiversDiffer ==
  ASSUME WellFormed(input), NEW p, NEW q, NEW f \in Fields,
         given(p, lastKey(p, f)), ~hidden(p), given(q, lastKey(q, f)), ~hidden(q),
         Rank[p] = Rank[q]
  PROVE  p = q
<1> DEFINE k == lastKey(p, f)
           l == lastKey(q, f)
<1>1. /\ p \in Places /\ input.shape[p] = "object" /\ k \in Keys[p]
      /\ q \in Places /\ input.shape[q] = "object" /\ l \in Keys[q]
  BY GivenShaped
<1>2. CASE Rank[p] = 1
  <2>1. p \in {"stack_analyzer", "tools"} /\ q \in {"stack_analyzer", "tools"}
    BY <1>1, <1>2, PlacesAre DEF Rank
  <2>2. QED
    BY <1>1, <2>1 DEF hidden
<1>3. CASE Rank[p] = 2
  BY <1>1, <1>3, PlacesAre DEF Rank
<1>4. CASE Rank[p] = 3
  <2>1. /\ p \in {"analysis", "files", "output", "runtime", "server"}
        /\ q \in {"analysis", "files", "output", "runtime", "server"}
    BY <1>1, <1>4, PlacesAre DEF Rank
  <2>2. k = f /\ l = f
    <3>1. /\ "no_resource_cross_tu" \notin Keys[p]
          /\ "no_resource_cross_tu" \notin Keys[q]
      BY <2>1 DEF Keys
    <3>2. QED
      BY <1>1, <2>1, <3>1, LastKeyIs
  <2>3. QED
    BY <1>1, <1>4, <2>2, SectionsAreDisjoint
<1>5. QED
  BY <1>1, <1>2, <1>3, <1>4, RanksAre

-----------------------------------------------------------------------------
(***************************************************************************)
(* What depends on the input alone never changes.                          *)
(***************************************************************************)
LEMMA SameInput ==
  ASSUME input' = input
  PROVE  /\ WellFormed(input)' <=> WellFormed(input)
         /\ \A p, k : (given(p, k)' <=> given(p, k)) /\ valueOf(p, k)' = valueOf(p, k)
         /\ \A p, f : lastKey(p, f)' = lastKey(p, f)
         /\ \A p : (hidden(p)' <=> hidden(p)) /\ (readable(p)' <=> readable(p))
         /\ \A k : arg(k)' = arg(k)
         /\ \A k : (argsGive(k)' <=> argsGive(k)) /\ (argValid(k)' <=> argValid(k))
         /\ \A f : fromParams(f)' <=> fromParams(f)
         /\ (fileValid' <=> fileValid) /\ (argsPass' <=> argsPass)
         /\ serverOptionsConsistent' <=> serverOptionsConsistent
<1>1. \A p, k : (given(p, k)' <=> given(p, k)) /\ valueOf(p, k)' = valueOf(p, k)
  BY DEF given, valueOf
<1>2. \A p, f : lastKey(p, f)' = lastKey(p, f)
  BY <1>1 DEF lastKey
<1>3. \A p : (hidden(p)' <=> hidden(p)) /\ (readable(p)' <=> readable(p))
  BY <1>1 DEF hidden, readable
<1>4. \A k : arg(k)' = arg(k)
  BY DEF arg
<1>5. \A k : (argsGive(k)' <=> argsGive(k)) /\ (argValid(k)' <=> argValid(k))
  BY <1>4 DEF argsGive, argValid
<1>6. serverOptionsConsistent' <=> serverOptionsConsistent
  BY <1>4 DEF serverOptionsConsistent
<1>7. (fileValid' <=> fileValid) /\ (argsPass' <=> argsPass)
  BY <1>1, <1>3, <1>4, <1>6 DEF fileValid, argsPass
<1>8. WellFormed(input)' <=> WellFormed(input)
  OBVIOUS
<1>9. \A f : fromParams(f)' <=> fromParams(f)
  BY DEF fromParams
<1>10. QED
  BY <1>1, <1>2, <1>3, <1>4, <1>5, <1>6, <1>7, <1>8, <1>9

-----------------------------------------------------------------------------
(***************************************************************************)
(* The inductive invariant holds at first.                                 *)
(***************************************************************************)
LEMMA InvInit == Init => IInv
<1> SUFFICES ASSUME Init PROVE IInv
  OBVIOUS
<1> USE DEF Init
<1>1. WellFormed(input)
  BY InputsShaped
<1>2. input.front \in {"cli", "request"} /\ pc \in {"load", "params"}
  BY <1>1 DEF WellFormed
<1>3. \A p \in Places : ~consulted(p)
  BY <1>2, RanksAre DEF consulted, Step
<1>4. \A k : input.front = "request" => ~argRead(k)
  BY <1>2 DEF argRead, Step, stepOfParam
<1>5. \A k : input.front = "cli" /\ argsGive(k) => ~argRead(k)
  BY DEF argsGive, argRead, arg
<1>6. TypeOK
  <2>1. pending \subseteq Options
    BY <1>1 DEF WellFormed
  <2>2. pc \in Stages
    BY <1>2 DEF Stages
  <2>3. config \in [Fields -> [by : Places \cup {"default", "args"},
                               is : (Values \ {"mistyped"}) \cup {"unset", "wrapped"}]]
    BY DEF Value
  <2>4. QED
    BY <1>1, <2>1, <2>2, <2>3 DEF TypeOK
<1>7. Progress
  BY <1>1, <1>2 DEF Progress, configured
<1>8. ReadIsValid
  BY <1>1, <1>2, <1>3, <1>4, <1>5 DEF ReadIsValid, underway, argRead, arg, WellFormed
<1>9. FieldsFollow
  <2>1. \A f \in Fields : ~overridden(f) /\ (fromParams(f) => ~argRead(f))
    BY <1>1, <1>2, <1>4, <1>5 DEF overridden, fromParams
  <2>2. QED
    BY <1>3, <2>1 DEF FieldsFollow, followsSource, followsNoPlace, gives
<1>10. FilesFollow
  <2>1. "files" \in Places /\ "root" \in Places
    BY PlacesAre
  <2>2. ~gives("files", "input") /\ ~gives("root", "input")
    BY <1>3, <2>1 DEF gives
  <2>3. ~(argsGive("input") /\ argRead("input"))
    BY <1>2, <1>4, <1>5
  <2>4. QED
    BY <2>2, <2>3 DEF FilesFollow
<1>11. QED
  BY <1>6, <1>7, <1>8, <1>9, <1>10 DEF IInv

-----------------------------------------------------------------------------
(***************************************************************************)
(* Steps of any kind.                                                      *)
(***************************************************************************)
\* A configuration is given up for good reason.
LEMMA GivingUp ==
  ASSUME IInv, input' = input, pending' \subseteq pending, pc' = "end",
         outcome' \in {"rejected", "crashed"}, UNCHANGED <<config, files>>,
         input.shape["root"] = "malformed" \/ ~fileValid \/ ~argsPass
  PROVE  IInv'
<1>1. TypeOK'
  BY SameInput DEF IInv, TypeOK, Stages
<1>2. Progress'
  BY DEF IInv, Progress, configured
<1>3. ~underway'
  BY DEF underway
<1>4. QED
  BY <1>1, <1>2, <1>3, SameInput DEF IInv, ReadIsValid, FieldsFollow, FilesFollow

\* A field that nobody writes and whose sources stay as they are follows them.
LEMMA FieldKept ==
  ASSUME IInv, underway, NEW f \in Fields, input' = input, config'[f] = config[f],
         \A p \in Places : gives(p, f)' <=> gives(p, f),
         argsGive(f) => (argRead(f)' <=> argRead(f))
  PROVE  followsSource(f)'
<1>1. followsSource(f)
  BY DEF IInv, FieldsFollow
<1>2. overridden(f)' <=> overridden(f)
  BY SameInput DEF overridden
<1>3. followsArgs(f) => followsArgs(f)'
  BY SameInput DEF followsArgs
<1>4. \A p \in Places : followsPlace(p, f) => followsPlace(p, f)'
  BY SameInput DEF followsPlace, Value
<1>5. followsNoPlace(f) => followsNoPlace(f)'
  BY SameInput DEF followsNoPlace, Value
<1>6. QED
  BY <1>1, <1>2, <1>3, <1>4, <1>5 DEF followsSource

\* So do the input files.
LEMMA FilesKept ==
  ASSUME IInv, underway, input' = input, files' = files,
         \A p \in Places : gives(p, "input")' <=> gives(p, "input"),
         argsGive("input") => (argRead("input")' <=> argRead("input"))
  PROVE  FilesFollow'
<1>1. "root" \in Places /\ "files" \in Places
  BY PlacesAre
<1>2. /\ gives("files", "input")' <=> gives("files", "input")
      /\ gives("root", "input")' <=> gives("root", "input")
      /\ valueOf("files", "input")' = valueOf("files", "input")
      /\ valueOf("root", "input")' = valueOf("root", "input")
      /\ argsGive("input")' <=> argsGive("input")
  BY <1>1, SameInput
<1>3. QED
  BY <1>2 DEF IInv, FilesFollow

\* Parts that are found valid when they are read can be relied on later.
LEMMA ReadIsValidNext ==
  ASSUME IInv, underway, underway', input' = input,
         \A p \in Places : consulted(p)' <=> consulted(p),
         pc' \notin {"params", "load"} => input.shape["root"] # "malformed",
         \A k \in DOMAIN input.args : argRead(k)' => argRead(k) \/ argValid(k)
  PROVE  ReadIsValid'
<1>1. \A p \in Places : consulted(p)' => readable(p)'
  BY SameInput DEF IInv, ReadIsValid
<1>2. \A k \in DOMAIN input.args :
        argRead(k)' /\ ~(input.front = "cli" /\ arg(k) = "empty") => argValid(k)
  BY DEF IInv, ReadIsValid
<1>3. QED
  BY <1>1, <1>2, SameInput DEF ReadIsValid

-----------------------------------------------------------------------------
(***************************************************************************)
(* Reading a place of the file.                                            *)
(***************************************************************************)
\* Consulting the next place adds it to the places consulted, and it is the
\* strongest of them.
LEMMA ConsultedNext ==
  ASSUME input' = input, input.shape["root"] = "object", NEW p \in Places, ~hidden(p),
         p = "stack_analyzer" => input.shape[p] # "absent",
         Step[pc] = StepOf[p], Step[pc'] = StepOf[p] + 1
  PROVE  /\ consulted(p)'
         /\ \A q \in Places : consulted(q) => consulted(q)' /\ Rank[q] <= Rank[p]
         /\ \A q \in Places : consulted(q)' => consulted(q) \/ q = p \/ input.shape[q] = "absent"
<1>1. \A q \in Places : hidden(q)' <=> hidden(q)
  BY SameInput
<1>2. \A q \in Places : StepOf[q] \in Nat
  BY RanksAre
<1>3. consulted(p)'
  BY <1>1, <1>2 DEF consulted
<1>4. ASSUME NEW q \in Places, consulted(q)
      PROVE  consulted(q)' /\ Rank[q] <= Rank[p]
  BY <1>1, <1>2, <1>4, RanksAre DEF consulted
<1>5. ASSUME NEW q \in Places, consulted(q)', ~consulted(q), q # p
      PROVE  input.shape[q] = "absent"
  <2>1. StepOf[q] = StepOf[p] /\ ~hidden(q)
    BY <1>1, <1>2, <1>5 DEF consulted
  <2>2. {p, q} = {"stack_analyzer", "tools"}
    BY <1>5, <2>1, RanksAre
  <2>3. QED
    BY <1>5, <2>1, <2>2 DEF hidden
<1>6. QED
  BY <1>3, <1>4, <1>5

\* While the file is read, nothing of the command line is, and of a request
\* no more than the boolean fields are.
LEMMA ArgsWhileReading ==
  ASSUME IInv, input' = input, pending' = pending, pc # "params",
         pc \notin {"options", "end"}, Step[pc] <= 8, Step[pc'] \in 1..9
  PROVE  \A k : /\ argsGive(k) /\ argRead(k) => fromParams(k)
                /\ argsGive(k) => (argRead(k)' <=> argRead(k))
<1> SUFFICES ASSUME NEW k, argsGive(k)
             PROVE  /\ argRead(k) => fromParams(k)
                    /\ argRead(k)' <=> argRead(k)
  OBVIOUS
<1>1. input.front \in {"cli", "request"} /\ pc \in Stages
  BY DEF IInv, TypeOK, WellFormed
<1>2. CASE input.front = "cli"
  <2>1. k \in DOMAIN input.args /\ input.args[k] # "empty"
    BY <1>2 DEF argsGive, arg
  <2>2. k \in pending
    BY <1>2, <2>1 DEF IInv, Progress
  <2>3. QED
    BY <1>2, <2>2 DEF argRead
<1>3. CASE input.front = "request"
  <2>1. Step[pc] \in 1..8
    BY <1>1 DEF Step, Stages
  <2>2. stepOfParam(k) \in {0, 9, 10, 11, 12} /\ (stepOfParam(k) = 0 => k \in Flags)
    BY DEF stepOfParam, Step
  <2>3. QED
    BY <1>3, <2>1, <2>2 DEF argRead, fromParams
<1>4. QED
  BY <1>1, <1>2, <1>3

LEMMA ReadPlaceNext ==
  ASSUME IInv, NEW p \in Places, NEW n \in Stages, input.shape["root"] = "object", ~hidden(p),
         p = "stack_analyzer" => input.shape[p] # "absent",
         pc \in {"analyzer", "root", "analysis", "files", "output", "runtime", "server"},
         Step[pc] = StepOf[p], Step[n] = StepOf[p] + 1,
         n = "options" => input.front = "cli", n = "strings" => input.front = "request",
         readPlace(p, n), UNCHANGED <<input, pending>>
  PROVE  IInv'
<1>1. Step[pc] \in 2..8 /\ Step[n] \in 3..9
  BY RanksAre
<1>2. n \notin {"params", "load", "numbers", "lists", "ipc", "end"}
  BY <1>1 DEF Step
<1>3. outcome = "running" /\ WellFormed(input)
  BY DEF IInv, Progress, TypeOK
<1>4. CASE ~readable(p)
  <2>1. reject
    BY <1>4 DEF readPlace
  <2>2. ~fileValid
    BY <1>4 DEF readable, fileValid
  <2>3. QED
    BY <2>1, <2>2, GivingUp DEF reject
<1>5. CASE readable(p)
  <2>1. apply(p) /\ assignInputFiles(p) /\ pc' = n /\ outcome' = outcome
    BY <1>5 DEF readPlace
  <2>2. /\ consulted(p)'
        /\ \A q \in Places : consulted(q) => consulted(q)' /\ Rank[q] <= Rank[p]
        /\ \A q \in Places : consulted(q)' => consulted(q) \/ q = p \/ input.shape[q] = "absent"
    BY <2>1, ConsultedNext
  <2>3. \A q \in Places : \A f : gives(q, f)' <=> gives(q, f) \/ (q = p /\ given(p, lastKey(p, f)))
    BY <1>3, <2>2, SameInput, GivenShaped DEF gives
  <2>4. \A k : /\ argsGive(k) /\ argRead(k) => fromParams(k)
               /\ argsGive(k) => (argRead(k)' <=> argRead(k))
    BY <1>1, <2>1, ArgsWhileReading DEF Step
  <2>5. ASSUME NEW k, given(p, k)
        PROVE  valueOf(p, k) \in Values \ {"mistyped"}
    BY <1>3, <1>5, <2>5, GivenShaped DEF readable, acceptable, valueOf
  <2>6. TypeOK'
    <3>1. config' \in [Fields -> [by : Places \cup {"default", "args"},
                                  is : (Values \ {"mistyped"}) \cup {"unset", "wrapped"}]]
      BY <2>1, <2>5 DEF apply, Value, IInv, TypeOK
    <3>2. files' \in Seq(Places \cup {"args"})
      <4>1. p \in Places \cup {"args"}
        OBVIOUS
      <4>2. <<>> \in Seq(Places \cup {"args"}) /\ <<p>> \in Seq(Places \cup {"args"})
        BY <4>1
      <4>3. files' \in {files, <<>>, <<p>>}
        BY <2>1 DEF assignInputFiles
      <4>4. QED
        BY <4>2, <4>3 DEF IInv, TypeOK
    <3>3. QED
      BY <2>1, <3>1, <3>2, SameInput DEF IInv, TypeOK
  <2>7. Progress'
    BY <1>2, <1>3, <2>1 DEF IInv, Progress, configured
  <2>8. ReadIsValid'
    <3>1. \A q \in Places : consulted(q)' => readable(q)'
      <4>1. SUFFICES ASSUME NEW q \in Places, consulted(q)'
                     PROVE  readable(q)
        BY SameInput
      <4>2. CASE consulted(q)
        BY <1>3, <4>2 DEF IInv, ReadIsValid, underway
      <4>3. CASE q = p
        BY <1>5, <4>3
      <4>4. CASE input.shape[q] = "absent"
        BY <1>3, <4>4, GivenShaped DEF readable
      <4>5. QED
        BY <2>2, <4>1, <4>2, <4>3, <4>4
    <3>2. ASSUME NEW k \in DOMAIN input.args, argRead(k)',
                 ~(input.front = "cli" /\ arg(k) = "empty")
          PROVE  argValid(k)
      <4>1. argRead(k)' <=> argRead(k)
        <5>1. CASE input.front = "cli"
          BY <5>1 DEF argRead
        <5>2. CASE input.front # "cli"
          BY <1>1, <2>1, <5>2 DEF argRead, stepOfParam, Step
        <5>3. QED
          BY <5>1, <5>2
      <4>2. QED
        BY <1>3, <3>2, <4>1 DEF IInv, ReadIsValid, underway
    <3>3. underway'
      BY <1>3, <2>1 DEF underway
    <3>4. QED
      BY <3>1, <3>2, <3>3, SameInput DEF ReadIsValid
  <2>9. FieldsFollow'
    <3>1. SUFFICES ASSUME NEW f \in Fields PROVE followsSource(f)'
      BY DEF FieldsFollow
    <3>2. CASE given(p, lastKey(p, f))
      <4>1. config'[f] = Value(p, valueOf(p, lastKey(p, f)))
        BY <2>1, <3>2 DEF apply
      <4>2. followsPlace(p, f)'
        BY <2>2, <2>3, <3>2, <4>1, SameInput, RanksAre DEF followsPlace, Value, gives
      <4>3. ~overridden(f)'
        BY <2>4, SameInput DEF overridden
      <4>4. QED
        BY <4>2, <4>3 DEF followsSource
    <3>3. CASE ~given(p, lastKey(p, f))
      <4>1. config'[f] = config[f]
        BY <2>1, <3>3 DEF apply
      <4>2. QED
        BY <1>3, <2>3, <2>4, <3>3, <4>1, FieldKept DEF underway
    <3>4. QED
      BY <3>2, <3>3
  <2>10. FilesFollow'
    <3>1. \A q \in Places : lastKey(q, "input") = "input"
      BY LastKeyIs
    <3>2. ~(argsGive("input") /\ argRead("input"))
      BY <2>4 DEF fromParams, Flags
    <3>3. ~(argsGive("input")' /\ argRead("input")')
      BY <2>4, <3>2, SameInput
    <3>4. "root" \in Places /\ "files" \in Places
      BY PlacesAre
    <3>5. files = IF gives("files", "input")
                  THEN IF valueOf("files", "input") # "empty" THEN <<"files">> ELSE <<>>
                  ELSE IF gives("root", "input") /\ valueOf("root", "input") # "empty"
                       THEN <<"root">> ELSE <<>>
      BY <1>3, <3>2 DEF IInv, FilesFollow, underway
    <3>6. SUFFICES
            files' = IF gives("files", "input")'
                     THEN IF valueOf("files", "input") # "empty" THEN <<"files">> ELSE <<>>
                     ELSE IF gives("root", "input")' /\ valueOf("root", "input") # "empty"
                          THEN <<"root">> ELSE <<>>
      BY <3>3, SameInput DEF FilesFollow
    <3>7. CASE ~given(p, "input")
      BY <2>1, <2>3, <3>1, <3>4, <3>5, <3>7 DEF assignInputFiles
    <3>8. CASE given(p, "input")
      <4>1. p \in {"root", "files"}
        BY <1>3, <3>8, GivenShaped, PlacesAre DEF Keys, AnalyzerKeys
      <4>2. p = "root" => ~gives("files", "input")
        BY <1>1 DEF gives, consulted, StepOf
      <4>3. gives(p, "input")'
        BY <2>3, <3>1, <3>8
      <4>4. p = "root" => ~gives("files", "input")'
        BY <2>3, <3>4, <4>2
      <4>5. QED
        BY <2>1, <3>8, <4>1, <4>3, <4>4 DEF assignInputFiles
    <3>9. QED
      BY <3>7, <3>8
  <2>11. QED
    BY <2>6, <2>7, <2>8, <2>9, <2>10 DEF IInv
<1>6. QED
  BY <1>4, <1>5

LEMMA LoadFileNext == IInv /\ LoadFile => IInv'
<1> SUFFICES ASSUME IInv, LoadFile PROVE IInv'
  OBVIOUS
<1>1. pc = "load" /\ outcome = "running" /\ WellFormed(input) /\ UNCHANGED <<input, pending>>
  BY DEF LoadFile, IInv, Progress, TypeOK
<1>2. CASE input.shape["root"] = "malformed"
  BY <1>1, <1>2, GivingUp DEF LoadFile, reject
<1>3. CASE input.shape["root"] # "malformed"
  <2>1. /\ pc' = IF input.shape["root"] = "absent" THEN afterFile ELSE "analyzer"
        /\ UNCHANGED <<config, files, outcome>>
    BY <1>3 DEF LoadFile
  <2>2. input.shape["root"] \in {"absent", "object"} /\ input.front \in {"cli", "request"}
    BY <1>1, <1>3, PlacesAre DEF WellFormed, Shapes
  <2>3. /\ pc' \in {"analyzer", "options", "strings"}
        /\ pc' = "analyzer" <=> input.shape["root"] = "object"
        /\ pc' = "options" => input.front = "cli"
        /\ pc' = "strings" => input.front = "request"
    BY <2>1, <2>2 DEF afterFile
  <2>4. \A p \in Places : ~consulted(p) /\ ~consulted(p)'
    BY <1>1, <2>3, RanksAre DEF consulted, Step
  <2>5. \A p \in Places : \A f : gives(p, f)' <=> gives(p, f)
    BY <2>4 DEF gives
  <2>6. \A k : argsGive(k) => (argRead(k)' <=> argRead(k))
    BY <1>1, <2>3, ArgsWhileReading DEF Step
  <2>7. underway /\ underway'
    BY <1>1, <2>1 DEF underway
  <2>8. TypeOK'
    BY <1>1, <2>1, <2>3, SameInput DEF IInv, TypeOK, Stages
  <2>9. Progress'
    BY <1>1, <2>1, <2>3 DEF IInv, Progress, configured
  <2>10. ReadIsValid'
    <3>1. \A k : argRead(k)' => argRead(k)
      BY <1>1, <2>3 DEF argRead, stepOfParam, Step
    <3>2. QED
      BY <1>1, <1>3, <2>4, <2>7, <3>1, ReadIsValidNext
  <2>11. FieldsFollow'
    BY <1>1, <2>1, <2>5, <2>6, <2>7, FieldKept DEF FieldsFollow
  <2>12. FilesFollow'
    BY <1>1, <2>1, <2>5, <2>6, <2>7, FilesKept
  <2>13. QED
    BY <2>8, <2>9, <2>10, <2>11, <2>12 DEF IInv
<1>4. QED
  BY <1>2, <1>3

LEMMA FileNext == IInv /\ applyToolConfigFile => IInv'
<1> SUFFICES ASSUME IInv, applyToolConfigFile PROVE IInv'
  OBVIOUS
<1>1. input.front \in {"cli", "request"}
  BY DEF IInv, TypeOK, WellFormed
<1>2. pc \in {"analyzer", "root", "analysis", "files", "output", "runtime", "server"} =>
        input.shape["root"] = "object"
  BY DEF IInv, Progress
<1>3. CASE LoadFile
  BY <1>3, LoadFileNext
<1>4. CASE applyStackAnalyzerSection
  <2>1. analyzerPlace \in {"stack_analyzer", "tools"} /\ readPlace(analyzerPlace, "root")
    BY <1>4 DEF applyStackAnalyzerSection, analyzerPlace
  <2>2. /\ "stack_analyzer" \in Places /\ "tools" \in Places /\ "root" \in Stages
        /\ ~hidden(analyzerPlace)
        /\ analyzerPlace = "stack_analyzer" => input.shape["stack_analyzer"] # "absent"
        /\ Step["analyzer"] = 2 /\ Step["root"] = 3
        /\ StepOf["stack_analyzer"] = 2 /\ StepOf["tools"] = 2
    BY PlacesAre DEF Stages, hidden, analyzerPlace, Step, StepOf
  <2>3. pc = "analyzer" /\ UNCHANGED <<input, pending>>
    BY <1>4 DEF applyStackAnalyzerSection
  <2>4. CASE analyzerPlace = "stack_analyzer"
    BY <1>2, <2>1, <2>2, <2>3, <2>4, ReadPlaceNext
  <2>5. CASE analyzerPlace = "tools"
    BY <1>2, <2>1, <2>2, <2>3, <2>5, ReadPlaceNext
  <2>6. QED
    BY <2>1, <2>4, <2>5
<1>5. CASE applyLegacyRootInvokeAndInput
  <2>1. /\ "root" \in Places /\ "analysis" \in Stages /\ ~hidden("root")
        /\ Step["root"] = 3 /\ Step["analysis"] = 4 /\ StepOf["root"] = 3
    BY PlacesAre DEF Stages, hidden, Step, StepOf
  <2>2. QED
    BY <1>2, <1>5, <2>1, ReadPlaceNext DEF applyLegacyRootInvokeAndInput
<1>6. CASE applyAnalysisSection
  <2>1. /\ "analysis" \in Places /\ "files" \in Stages /\ ~hidden("analysis")
        /\ Step["analysis"] = 4 /\ Step["files"] = 5 /\ StepOf["analysis"] = 4
    BY PlacesAre DEF Stages, hidden, Step, StepOf
  <2>2. QED
    BY <1>2, <1>6, <2>1, ReadPlaceNext DEF applyAnalysisSection
<1>7. CASE applyFilesSection
  <2>1. /\ "files" \in Places /\ "output" \in Stages /\ ~hidden("files")
        /\ Step["files"] = 5 /\ Step["output"] = 6 /\ StepOf["files"] = 5
    BY PlacesAre DEF Stages, hidden, Step, StepOf
  <2>2. QED
    BY <1>2, <1>7, <2>1, ReadPlaceNext DEF applyFilesSection
<1>8. CASE applyOutputSection
  <2>1. /\ "output" \in Places /\ "runtime" \in Stages /\ ~hidden("output")
        /\ Step["output"] = 6 /\ Step["runtime"] = 7 /\ StepOf["output"] = 6
    BY PlacesAre DEF Stages, hidden, Step, StepOf
  <2>2. QED
    BY <1>2, <1>8, <2>1, ReadPlaceNext DEF applyOutputSection
<1>9. CASE applyRuntimeSection
  <2>1. /\ "runtime" \in Places /\ "server" \in Stages /\ ~hidden("runtime")
        /\ Step["runtime"] = 7 /\ Step["server"] = 8 /\ StepOf["runtime"] = 7
    BY PlacesAre DEF Stages, hidden, Step, StepOf
  <2>2. QED
    BY <1>2, <1>9, <2>1, ReadPlaceNext DEF applyRuntimeSection
<1>10. CASE applyServerSection
  <2>1. /\ "server" \in Places /\ ~hidden("server") /\ Step["server"] = 8
        /\ StepOf["server"] = 8
    BY PlacesAre DEF hidden, Step, StepOf
  <2>2. pc = "server" /\ readPlace("server", afterFile) /\ UNCHANGED <<input, pending>>
    BY <1>10 DEF applyServerSection
  <2>3. /\ "options" \in Stages /\ "strings" \in Stages
        /\ Step["options"] = 9 /\ Step["strings"] = 9
    BY DEF Stages, Step
  <2>4. CASE input.front = "cli"
    <3>1. afterFile = "options"
      BY <2>4 DEF afterFile
    <3>2. readPlace("server", "options")
      BY <2>2, <3>1
    <3>3. QED
      BY <1>2, <2>1, <2>2, <2>3, <2>4, <3>2, ReadPlaceNext
  <2>5. CASE input.front = "request"
    <3>1. afterFile = "strings"
      BY <2>5 DEF afterFile
    <3>2. readPlace("server", "strings")
      BY <2>2, <3>1
    <3>3. QED
      BY <1>2, <2>1, <2>2, <2>3, <2>5, <3>2, ReadPlaceNext
  <2>6. QED
    BY <1>1, <2>4, <2>5
<1>11. QED
  BY <1>3, <1>4, <1>5, <1>6, <1>7, <1>8, <1>9, <1>10 DEF applyToolConfigFile

-----------------------------------------------------------------------------
(***************************************************************************)
(* The command line.                                                       *)
(***************************************************************************)
\* After the file its places remain as they are.
LEMMA ConsultedAll ==
  ASSUME input' = input, Step[pc] \in 9..13, Step[pc'] \in 9..13
  PROVE  /\ \A p \in Places : consulted(p)' <=> consulted(p)
         /\ \A p \in Places : \A f : gives(p, f)' <=> gives(p, f)
<1>1. \A p \in Places : consulted(p)' <=> consulted(p)
  BY SameInput, RanksAre DEF consulted
<1>2. QED
  BY <1>1, SameInput DEF gives

\* An option that is accepted.
LEMMA WriteOption ==
  ASSUME IInv, NEW o \in Options, input.front = "cli", pc = "options", o \in pending,
         pending' = pending \ {o}, input' = input, UNCHANGED <<pc, outcome>>, argValid(o),
         \/ o = "input" /\ files' = Append(files, "args") /\ config' = config
         \/ /\ o # "input" /\ files' = files
            /\ write(o, IF o = "smt_timeout_ms" /\ arg(o) = "disallowed" THEN "wrapped"
                        ELSE arg(o))
  PROVE  IInv'
<1>1. outcome = "running" /\ WellFormed(input)
  BY DEF IInv, Progress, TypeOK
<1>2. Step[pc] = 9 /\ Step[pc'] = 9
  BY DEF Step
<1>3. /\ \A p \in Places : consulted(p)' <=> consulted(p)
      /\ \A p \in Places : \A f : gives(p, f)' <=> gives(p, f)
  BY <1>2, ConsultedAll
<1>4. o \in DOMAIN input.args /\ input.args[o] \in Values \ {"empty"} /\ arg(o) = input.args[o]
  BY <1>1 DEF IInv, Progress, WellFormed, arg
<1>5. argsGive(o) /\ ~argRead(o) /\ argRead(o)'
  BY <1>4 DEF argsGive, argRead, Values
<1>6. \A k : k # o => (argRead(k)' <=> argRead(k))
  BY DEF argRead
<1>7. arg(o) # "mistyped"
  BY <1>1, <1>4 DEF argValid, WellFormed
<1>8. o # "input" => o \in Fields
  BY DEF Fields, Options, Settings, Flags
<1>9. underway /\ underway'
  BY <1>1 DEF underway
<1>10. TypeOK'
  <2>1. config' \in [Fields -> [by : Places \cup {"default", "args"},
                                is : (Values \ {"mistyped"}) \cup {"unset", "wrapped"}]]
    BY <1>4, <1>7, <1>8 DEF write, Value, IInv, TypeOK
  <2>2. files' \in Seq(Places \cup {"args"})
    BY DEF IInv, TypeOK
  <2>3. QED
    BY <2>1, <2>2, SameInput DEF IInv, TypeOK
<1>11. Progress'
  BY <1>1 DEF IInv, Progress, configured
<1>12. ReadIsValid'
  <2>1. input.shape["root"] # "malformed"
    BY <1>1, <1>9 DEF IInv, ReadIsValid
  <2>2. QED
    BY <1>3, <1>6, <1>9, <2>1, ReadIsValidNext
<1>13. FieldsFollow'
  <2>1. SUFFICES ASSUME NEW f \in Fields PROVE followsSource(f)'
    BY DEF FieldsFollow
  <2>2. CASE f = o
    <3>1. o # "input" /\ config'[o] = Value("args", IF o = "smt_timeout_ms" /\ arg(o) = "disallowed"
                                                THEN "wrapped" ELSE arg(o))
      BY <2>2 DEF Fields, write, IInv, TypeOK
    <3>2. followsArgs(o)'
      BY <3>1, SameInput DEF followsArgs, Value
    <3>3. overridden(o)'
      BY <1>5, SameInput DEF overridden, fromParams
    <3>4. QED
      BY <2>2, <3>2, <3>3 DEF followsSource
  <2>3. CASE f # o
    <3>1. config'[f] = config[f]
      BY <2>3 DEF write, IInv, TypeOK
    <3>2. QED
      BY <1>3, <1>6, <1>9, <2>3, <3>1, FieldKept
  <2>4. QED
    BY <2>2, <2>3
<1>14. FilesFollow'
  <2>1. CASE o # "input"
    BY <1>3, <1>6, <1>9, <2>1, FilesKept
  <2>2. CASE o = "input"
    <3>1. "root" \in Places /\ "files" \in Places
      BY PlacesAre
    <3>2. /\ gives("files", "input")' <=> gives("files", "input")
          /\ gives("root", "input")' <=> gives("root", "input")
          /\ valueOf("files", "input")' = valueOf("files", "input")
          /\ valueOf("root", "input")' = valueOf("root", "input")
          /\ argsGive("input")'
      BY <1>3, <1>5, <2>2, <3>1, SameInput
    <3>3. QED
      BY <1>5, <1>9, <2>2, <3>2 DEF IInv, FilesFollow
  <2>3. QED
    BY <2>1, <2>2
<1>15. QED
  BY <1>10, <1>11, <1>12, <1>13, <1>14 DEF IInv

LEMMA CommandNext ==
  ASSUME IInv, NEW o \in Options, Command(o)
  PROVE  IInv'
<1>1. /\ pc = "options" /\ o \in pending /\ pending' = pending \ {o} /\ input' = input
      /\ outcome = "running" /\ WellFormed(input)
  BY DEF Command, IInv, Progress, TypeOK
<1>2. input.front = "cli"
  BY <1>1 DEF IInv, Progress, WellFormed
<1>3. CASE o \in {"invoke", "ipc"} /\ arg(o) = "disallowed" /\ reject
  <2>1. ~argsPass
    BY <1>2, <1>3 DEF argsPass
  <2>2. QED
    BY <1>1, <1>3, <2>1, GivingUp DEF reject
<1>4. CASE /\ \/ o \in Numbers /\ arg(o) = "mistyped"
              \/ o = "shutdown_timeout_ms" /\ arg(o) = "disallowed"
           /\ outcome' \in {"rejected", "crashed"} /\ pc' = "end" /\ UNCHANGED <<config, files>>
  <2>1. ~argsPass
    BY <1>2, <1>4 DEF argsPass
  <2>2. QED
    BY <1>1, <1>4, <2>1, GivingUp
<1>5. CASE /\ UNCHANGED <<pc, outcome>> /\ argValid(o)
           /\ \/ o = "input" /\ files' = Append(files, "args") /\ config' = config
              \/ /\ o # "input" /\ files' = files
                 /\ write(o, IF o = "smt_timeout_ms" /\ arg(o) = "disallowed" THEN "wrapped"
                             ELSE arg(o))
  BY <1>1, <1>2, <1>5, WriteOption
<1>6. QED
  <2>1. "input" \notin Numbers
    BY DEF Numbers
  <2>2. QED
    BY <1>1, <1>2, <1>3, <1>4, <1>5, <2>1 DEF Command, argValid

LEMMA FinishNext == IInv /\ FinishOptions => IInv'
<1> SUFFICES ASSUME IInv, FinishOptions PROVE IInv'
  OBVIOUS
<1>1. /\ pc = "options" /\ pc' = "end" /\ pending = {} /\ outcome = "running"
      /\ WellFormed(input) /\ UNCHANGED <<input, pending, config, files>>
  BY DEF FinishOptions, IInv, Progress, TypeOK
<1>2. input.front = "cli"
  BY <1>1 DEF IInv, Progress, WellFormed
<1>3. CASE ~serverOptionsConsistent
  <2>1. ~argsPass
    BY <1>2, <1>3 DEF argsPass
  <2>2. QED
    BY <1>1, <1>3, <2>1, GivingUp DEF FinishOptions
<1>4. CASE serverOptionsConsistent
  <2>1. outcome' = "configured"
    BY <1>4 DEF FinishOptions
  <2>2. Step[pc] = 9 /\ Step[pc'] = 13
    BY <1>1 DEF Step
  <2>3. /\ \A p \in Places : consulted(p)' <=> consulted(p)
        /\ \A p \in Places : \A f : gives(p, f)' <=> gives(p, f)
    BY <1>1, <2>2, ConsultedAll
  <2>4. \A k : argRead(k)' <=> argRead(k)
    BY <1>1, <1>2 DEF argRead
  <2>5. underway /\ underway'
    BY <1>1, <2>1 DEF underway
  <2>6. TypeOK'
    BY <1>1, <2>1, SameInput DEF IInv, TypeOK, Stages
  <2>7. Progress'
    BY <1>1, <1>2, <1>4, <2>1, SameInput DEF IInv, Progress
  <2>8. ReadIsValid'
    <3>1. input.shape["root"] # "malformed"
      BY <1>1, <2>5 DEF IInv, ReadIsValid
    <3>2. QED
      BY <1>1, <2>3, <2>4, <2>5, <3>1, ReadIsValidNext
  <2>9. FieldsFollow'
    BY <1>1, <2>3, <2>4, <2>5, FieldKept DEF FieldsFollow
  <2>10. FilesFollow'
    BY <1>1, <2>3, <2>4, <2>5, FilesKept
  <2>11. QED
    BY <2>6, <2>7, <2>8, <2>9, <2>10 DEF IInv
<1>5. QED
  BY <1>3, <1>4

-----------------------------------------------------------------------------
(***************************************************************************)
(* The fields of a request.                                                *)
(***************************************************************************)
\* The fields by type.
LEMMA ParamsByStep ==
  /\ \A k \in Params \cap Flags : stepOfParam(k) = 0
  /\ \A k \in (Params \cap Strings) \ {"ipc"} : stepOfParam(k) = 9
  /\ \A k \in Params \cap Numbers : stepOfParam(k) = 10
  /\ \A k \in Params \cap Lists : stepOfParam(k) = 11
  /\ stepOfParam("ipc") = 12
  /\ \A k \in Params : \/ k \in Flags \/ k \in Strings \ {"ipc"} \/ k \in Numbers \/ k \in Lists
                       \/ k = "ipc"
  /\ "ipc" \notin Flags \cup Numbers \cup Lists /\ "smt_timeout_ms" \in Params \cap Numbers
<1>1. Flags \cap Strings = {} /\ Flags \cap Numbers = {} /\ Flags \cap Lists = {}
  BY DEF Flags, Strings, Numbers, Lists
<1>2. Strings \cap Numbers = {} /\ Strings \cap Lists = {} /\ Numbers \cap Lists = {}
  BY DEF Strings, Numbers, Lists
<1>3. "ipc" \in Strings
  BY DEF Strings
<1>4. "smt_timeout_ms" \in Params \cap Numbers
  BY DEF Params, Settings, Numbers
<1>5. \A k \in Params : k \in Flags \cup Strings \cup Numbers \cup Lists
  BY DEF Params, Settings
<1>6. Step["params"] = 0 /\ Step["strings"] = 9 /\ Step["numbers"] = 10 /\ Step["lists"] = 11
      /\ Step["ipc"] = 12
  BY DEF Step
<1>7. QED
  BY <1>1, <1>2, <1>3, <1>4, <1>5, <1>6 DEF stepOfParam

\* A group of fields that are of their types and allowed.
LEMMA ParamsNext ==
  ASSUME IInv, input.front = "request", UNCHANGED <<input, pending, outcome>>,
         pc \in {"strings", "numbers", "lists"}, pc' \in {"numbers", "lists", "ipc"},
         Step[pc'] = Step[pc] + 1,
         \A k \in Params : stepOfParam(k) = Step[pc] => argValid(k),
         config' = [f \in Fields |-> IF argsGive(f) /\ stepOfParam(f) = Step[pc]
                                     THEN Value("args", arg(f)) ELSE config[f]],
         files' = IF argsGive("input") /\ stepOfParam("input") = Step[pc]
                  THEN Append(files, "args") ELSE files
  PROVE  IInv'
<1>1. outcome = "running" /\ WellFormed(input) /\ underway /\ underway'
  BY DEF IInv, Progress, TypeOK, underway
<1>2. Step[pc] \in {9, 10, 11}
  BY DEF Step
<1>3. /\ \A p \in Places : consulted(p)' <=> consulted(p)
      /\ \A p \in Places : \A f : gives(p, f)' <=> gives(p, f)
  BY <1>2, ConsultedAll
<1>4. \A k : stepOfParam(k) \in {0, 9, 10, 11, 12}
  BY DEF stepOfParam, Step
<1>5. \A k : argRead(k)' <=> argRead(k) \/ stepOfParam(k) = Step[pc]
  BY <1>2, <1>4 DEF argRead
<1>6. \A k : stepOfParam(k) = Step[pc] => ~argRead(k)
  BY <1>2, <1>4 DEF argRead
<1>7. \A k : argsGive(k) => k \in Params /\ k \in DOMAIN input.args /\ arg(k) \in Values
  BY <1>1 DEF argsGive, arg, WellFormed
<1>8. TypeOK'
  <2>1. ASSUME NEW f \in Fields, argsGive(f), stepOfParam(f) = Step[pc]
        PROVE  arg(f) \in Values \ {"mistyped"}
    BY <1>7, <2>1 DEF argValid
  <2>2. config' \in [Fields -> [by : Places \cup {"default", "args"},
                                is : (Values \ {"mistyped"}) \cup {"unset", "wrapped"}]]
    BY <2>1 DEF Value, IInv, TypeOK
  <2>3. files' \in Seq(Places \cup {"args"})
    BY DEF IInv, TypeOK
  <2>4. QED
    BY <2>2, <2>3, SameInput DEF IInv, TypeOK, Stages
<1>9. Progress'
  BY <1>1 DEF IInv, Progress, configured
<1>10. ReadIsValid'
  <2>1. input.shape["root"] # "malformed"
    BY <1>1 DEF IInv, ReadIsValid
  <2>2. \A k \in DOMAIN input.args : k \in Params
    BY <1>1 DEF WellFormed
  <2>3. QED
    BY <1>1, <1>3, <1>5, <2>1, <2>2, ReadIsValidNext
<1>11. FieldsFollow'
  <2>1. SUFFICES ASSUME NEW f \in Fields PROVE followsSource(f)'
    BY DEF FieldsFollow
  <2>2. CASE argsGive(f) /\ stepOfParam(f) = Step[pc]
    <3>1. config'[f] = Value("args", arg(f))
      BY <2>2
    <3>2. f \notin Flags
      BY <1>2, <1>7, <2>2, ParamsByStep
    <3>3. overridden(f)'
      BY <1>5, <2>2, <3>2, SameInput DEF overridden, fromParams
    <3>4. followsArgs(f)'
      BY <3>1, SameInput DEF followsArgs, Value
    <3>5. QED
      BY <3>3, <3>4 DEF followsSource
  <2>3. CASE ~(argsGive(f) /\ stepOfParam(f) = Step[pc])
    <3>1. config'[f] = config[f]
      BY <2>3
    <3>2. QED
      BY <1>1, <1>3, <1>5, <2>3, <3>1, FieldKept
  <2>4. QED
    BY <2>2, <2>3
<1>12. FilesFollow'
  <2>1. CASE ~(argsGive("input") /\ stepOfParam("input") = Step[pc])
    BY <1>1, <1>3, <1>5, <2>1, FilesKept
  <2>2. CASE argsGive("input") /\ stepOfParam("input") = Step[pc]
    <3>1. "root" \in Places /\ "files" \in Places
      BY PlacesAre
    <3>2. /\ gives("files", "input")' <=> gives("files", "input")
          /\ gives("root", "input")' <=> gives("root", "input")
          /\ valueOf("files", "input")' = valueOf("files", "input")
          /\ valueOf("root", "input")' = valueOf("root", "input")
          /\ argsGive("input")' /\ argRead("input")' /\ ~argRead("input")
      BY <1>3, <1>5, <1>6, <2>2, <3>1, SameInput
    <3>3. QED
      BY <1>1, <2>2, <3>2 DEF IInv, FilesFollow
  <2>3. QED
    BY <2>1, <2>2
<1>13. QED
  BY <1>8, <1>9, <1>10, <1>11, <1>12 DEF IInv

LEMMA BoolFieldsNext == IInv /\ ApplyBoolFields => IInv'
<1> SUFFICES ASSUME IInv, ApplyBoolFields PROVE IInv'
  OBVIOUS
<1>1. /\ pc = "params" /\ outcome = "running" /\ WellFormed(input)
      /\ UNCHANGED <<input, pending>> /\ applyParams(Params \cap Flags, "load")
  BY DEF ApplyBoolFields, IInv, Progress, TypeOK
<1>2. input.front = "request"
  BY <1>1 DEF IInv, Progress, WellFormed
<1>3. CASE \E k \in Params \cap Flags : arg(k) = "mistyped"
  <2>1. ~argsPass
    BY <1>2, <1>3 DEF argsPass
  <2>2. QED
    BY <1>1, <1>3, <2>1, GivingUp DEF applyParams, reject
<1>4. CASE ~\E k \in Params \cap Flags : arg(k) = "mistyped"
  <2>1. /\ config' = [f \in Fields |-> IF f \in Params \cap Flags /\ arg(f) # "absent"
                                       THEN Value("args", arg(f)) ELSE config[f]]
        /\ pc' = "load" /\ UNCHANGED <<files, outcome>>
    BY <1>1, <1>4 DEF applyParams
  <2>2. underway /\ underway'
    BY <1>1, <2>1 DEF underway
  <2>3. \A p \in Places : ~consulted(p) /\ ~consulted(p)'
    BY <1>1, <2>1, RanksAre DEF consulted, Step
  <2>4. \A p \in Places : \A f : ~gives(p, f) /\ ~gives(p, f)'
    BY <2>3 DEF gives
  <2>5. \A k : ~argRead(k) /\ (argRead(k)' <=> k \in Flags)
    <3>1. "ipc" \notin Flags
      BY DEF Flags
    <3>2. QED
      BY <1>1, <1>2, <2>1, <3>1 DEF argRead, stepOfParam, Step
  <2>6. \A k \in Flags : argsGive(k) <=> k \in Params /\ arg(k) # "absent"
    BY <1>2 DEF argsGive, Flags, Lists
  <2>7. TypeOK'
    <3>1. ASSUME NEW f \in Params \cap Flags, arg(f) # "absent"
          PROVE  arg(f) \in Values \ {"mistyped"}
      BY <1>1, <1>4, <3>1 DEF arg, WellFormed
    <3>2. config' \in [Fields -> [by : Places \cup {"default", "args"},
                                  is : (Values \ {"mistyped"}) \cup {"unset", "wrapped"}]]
      BY <2>1, <3>1 DEF Value, IInv, TypeOK
    <3>3. QED
      BY <1>1, <2>1, <3>2, SameInput DEF IInv, TypeOK, Stages
  <2>8. Progress'
    BY <1>1, <1>2, <2>1 DEF IInv, Progress, configured
  <2>9. ReadIsValid'
    <3>1. \A k \in DOMAIN input.args : argRead(k)' => argValid(k)
      BY <1>1, <1>2, <1>4, <2>5 DEF argValid, WellFormed, Flags
    <3>2. QED
      BY <1>1, <2>1, <2>2, <2>3, <3>1, ReadIsValidNext
  <2>10. FieldsFollow'
    <3>1. SUFFICES ASSUME NEW f \in Fields PROVE followsSource(f)'
      BY DEF FieldsFollow
    <3>2. ~overridden(f)' /\ ~overridden(f)
      BY <1>1, <1>2, <2>5, SameInput DEF overridden, fromParams
    <3>3. config[f] = Value("default", "unset")
      BY <2>2, <2>4, <2>5, <3>2 DEF IInv, FieldsFollow, followsSource, followsPlace, followsNoPlace
    <3>4. config'[f] = IF fromParams(f) /\ argsGive(f) /\ argRead(f)'
                       THEN Value("args", arg(f)) ELSE Value("default", "unset")
      BY <1>2, <2>1, <2>5, <2>6, <3>3 DEF fromParams
    <3>5. followsNoPlace(f)'
      BY <1>1, <2>4, <3>4, SameInput DEF followsNoPlace, Value
    <3>6. QED
      BY <3>2, <3>5 DEF followsSource
  <2>11. FilesFollow'
    <3>1. "input" \notin Flags
      BY DEF Flags
    <3>2. QED
      BY <1>1, <2>1, <2>2, <2>4, <2>5, <3>1, FilesKept
  <2>12. QED
    BY <2>7, <2>8, <2>9, <2>10, <2>11 DEF IInv
<1>5. QED
  BY <1>3, <1>4

\* argsGive by type.
LEMMA RequestGives ==
  ASSUME input.front = "request"
  PROVE  /\ \A k \in Params : k \notin Lists \cup {"ipc"} => (argsGive(k) <=> arg(k) # "absent")
         /\ \A k \in Params : k \in Lists \cup {"ipc"} =>
              (argsGive(k) <=> arg(k) \notin {"absent", "empty"})
         /\ \A k : argsGive(k) => k \in Params
BY DEF argsGive

LEMMA StringFieldsNext == IInv /\ ApplyStringFields => IInv'
<1> SUFFICES ASSUME IInv, ApplyStringFields PROVE IInv'
  OBVIOUS
<1> DEFINE G == (Params \cap Strings) \ {"ipc"}
<1>1. /\ pc = "strings" /\ outcome = "running" /\ WellFormed(input)
      /\ UNCHANGED <<input, pending>> /\ applyParams(G, "numbers")
  BY DEF ApplyStringFields, IInv, Progress, TypeOK
<1>2. input.front = "request"
  BY <1>1 DEF IInv, Progress, WellFormed
<1>3. CASE \E k \in G : arg(k) = "mistyped"
  <2>1. ~argsPass
    BY <1>2, <1>3 DEF argsPass
  <2>2. QED
    BY <1>1, <1>3, <2>1, GivingUp DEF applyParams, reject
<1>4. CASE ~\E k \in G : arg(k) = "mistyped"
  <2>1. /\ config' = [f \in Fields |-> IF f \in G /\ arg(f) # "absent"
                                       THEN Value("args", arg(f)) ELSE config[f]]
        /\ pc' = "numbers" /\ UNCHANGED <<files, outcome>>
    BY <1>1, <1>4 DEF applyParams
  <2>2. \A k \in Params : stepOfParam(k) = Step[pc] <=> k \in G
    BY <1>1, ParamsByStep DEF Step
  <2>3. "input" \notin Strings
    BY DEF Strings
  <2>4. \A f : argsGive(f) /\ stepOfParam(f) = Step[pc] <=> f \in G /\ arg(f) # "absent"
    <3>1. \A f \in G : f \notin Lists \cup {"ipc"}
      BY DEF Strings, Lists
    <3>2. QED
      BY <1>2, <2>2, <3>1, RequestGives
  <2>5. config' = [f \in Fields |-> IF argsGive(f) /\ stepOfParam(f) = Step[pc]
                                    THEN Value("args", arg(f)) ELSE config[f]]
    BY <2>1, <2>4
  <2>6. \A k \in Params : stepOfParam(k) = Step[pc] => argValid(k)
    BY <1>2, <1>4, <2>2, ParamsByStep DEF argValid, Strings, Numbers
  <2>7. files' = IF argsGive("input") /\ stepOfParam("input") = Step[pc]
                 THEN Append(files, "args") ELSE files
    BY <2>1, <2>3, <2>4
  <2>8. Step[pc'] = Step[pc] + 1
    BY <1>1, <2>1 DEF Step
  <2>9. QED
    BY <1>1, <1>2, <2>1, <2>5, <2>6, <2>7, <2>8, ParamsNext
<1>5. QED
  BY <1>3, <1>4

LEMMA Uint64FieldsNext == IInv /\ ApplyUint64Fields => IInv'
<1> SUFFICES ASSUME IInv, ApplyUint64Fields PROVE IInv'
  OBVIOUS
<1> DEFINE G == Params \cap Numbers
<1>1. /\ pc = "numbers" /\ outcome = "running" /\ WellFormed(input)
      /\ UNCHANGED <<input, pending>>
  BY DEF ApplyUint64Fields, IInv, Progress, TypeOK
<1>2. input.front = "request"
  BY <1>1 DEF IInv, Progress, WellFormed
<1>3. CASE arg("smt_timeout_ms") = "disallowed" \/ \E k \in G : arg(k) = "mistyped"
  <2>1. ~argsPass
    BY <1>2, <1>3 DEF argsPass
  <2>2. reject
    BY <1>3 DEF ApplyUint64Fields, applyParams
  <2>3. QED
    BY <1>1, <2>1, <2>2, GivingUp DEF reject
<1>4. CASE arg("smt_timeout_ms") # "disallowed" /\ ~\E k \in G : arg(k) = "mistyped"
  <2>1. /\ config' = [f \in Fields |-> IF f \in G /\ arg(f) # "absent"
                                       THEN Value("args", arg(f)) ELSE config[f]]
        /\ pc' = "lists" /\ UNCHANGED <<files, outcome>>
    BY <1>4 DEF ApplyUint64Fields, applyParams
  <2>2. \A k \in Params : stepOfParam(k) = Step[pc] <=> k \in G
    BY <1>1, ParamsByStep DEF Step
  <2>3. "input" \notin Numbers
    BY DEF Numbers
  <2>4. \A f : argsGive(f) /\ stepOfParam(f) = Step[pc] <=> f \in G /\ arg(f) # "absent"
    <3>1. \A f \in G : f \notin Lists \cup {"ipc"}
      BY DEF Numbers, Lists
    <3>2. QED
      BY <1>2, <2>2, <3>1, RequestGives
  <2>5. config' = [f \in Fields |-> IF argsGive(f) /\ stepOfParam(f) = Step[pc]
                                    THEN Value("args", arg(f)) ELSE config[f]]
    BY <2>1, <2>4
  <2>6. \A k \in Params : stepOfParam(k) = Step[pc] => argValid(k)
    BY <1>2, <1>4, <2>2, ParamsByStep DEF argValid
  <2>7. files' = IF argsGive("input") /\ stepOfParam("input") = Step[pc]
                 THEN Append(files, "args") ELSE files
    BY <2>1, <2>3, <2>4
  <2>8. Step[pc'] = Step[pc] + 1
    BY <1>1, <2>1 DEF Step
  <2>9. QED
    BY <1>1, <1>2, <2>1, <2>5, <2>6, <2>7, <2>8, ParamsNext
<1>5. QED
  BY <1>3, <1>4

LEMMA ListParamsNext == IInv /\ ApplyListParams => IInv'
<1> SUFFICES ASSUME IInv, ApplyListParams PROVE IInv'
  OBVIOUS
<1> DEFINE G == Params \cap Lists
<1>1. /\ pc = "lists" /\ outcome = "running" /\ WellFormed(input)
      /\ UNCHANGED <<input, pending>>
  BY DEF ApplyListParams, IInv, Progress, TypeOK
<1>2. input.front = "request"
  BY <1>1 DEF IInv, Progress, WellFormed
<1>3. CASE \E k \in G : arg(k) = "mistyped"
  <2>1. ~argsPass
    BY <1>2, <1>3 DEF argsPass
  <2>2. QED
    BY <1>1, <1>3, <2>1, GivingUp DEF ApplyListParams, reject
<1>4. CASE ~\E k \in G : arg(k) = "mistyped"
  <2>1. /\ config' = [f \in Fields |-> IF f \in G /\ arg(f) \notin {"absent", "empty"}
                                       THEN Value("args", arg(f)) ELSE config[f]]
        /\ files' = IF arg("input") \in {"absent", "empty"} THEN files
                    ELSE Append(files, "args")
        /\ pc' = "ipc" /\ outcome' = outcome
    BY <1>4 DEF ApplyListParams
  <2>2. \A k \in Params : stepOfParam(k) = Step[pc] <=> k \in G
    BY <1>1, ParamsByStep DEF Step
  <2>3. "input" \in G
    BY DEF Lists, Params, Settings
  <2>4. \A f : argsGive(f) /\ stepOfParam(f) = Step[pc]
                 <=> f \in G /\ arg(f) \notin {"absent", "empty"}
    BY <1>2, <2>2, RequestGives
  <2>5. config' = [f \in Fields |-> IF argsGive(f) /\ stepOfParam(f) = Step[pc]
                                    THEN Value("args", arg(f)) ELSE config[f]]
    BY <2>1, <2>4
  <2>6. \A k \in Params : stepOfParam(k) = Step[pc] => argValid(k)
    BY <1>2, <1>4, <2>2, ParamsByStep DEF argValid, Lists, Numbers
  <2>7. files' = IF argsGive("input") /\ stepOfParam("input") = Step[pc]
                 THEN Append(files, "args") ELSE files
    BY <2>1, <2>3, <2>4
  <2>8. Step[pc'] = Step[pc] + 1
    BY <1>1, <2>1 DEF Step
  <2>9. QED
    BY <1>1, <1>2, <2>1, <2>5, <2>6, <2>7, <2>8, ParamsNext
<1>5. QED
  BY <1>3, <1>4

LEMMA IpcFieldNext == IInv /\ apply_ipc_field => IInv'
<1> SUFFICES ASSUME IInv, apply_ipc_field PROVE IInv'
  OBVIOUS
<1>1. /\ pc = "ipc" /\ outcome = "running" /\ WellFormed(input)
      /\ UNCHANGED <<input, pending>>
  BY DEF apply_ipc_field, IInv, Progress, TypeOK
<1>2. input.front = "request"
  BY <1>1 DEF IInv, Progress, WellFormed
<1>3. "ipc" \in Params /\ "ipc" \in Fields /\ "ipc" \notin Flags
  BY DEF Params, Fields, Settings, Strings, Flags
<1>4. CASE arg("ipc") \in {"mistyped", "disallowed"}
  <2>1. ~argsPass
    BY <1>2, <1>3, <1>4 DEF argsPass
  <2>2. QED
    BY <1>1, <1>4, <2>1, GivingUp DEF apply_ipc_field, reject
<1>5. CASE arg("ipc") \notin {"mistyped", "disallowed"}
  <2>1. /\ pc' = "end" /\ outcome' = "configured" /\ files' = files
        /\ IF arg("ipc") \in {"absent", "empty"} THEN config' = config ELSE write("ipc", "ok")
    BY <1>5 DEF apply_ipc_field
  <2>2. underway /\ underway'
    BY <1>1, <2>1 DEF underway
  <2>3. Step[pc] = 12 /\ Step[pc'] = 13
    BY <1>1, <2>1 DEF Step
  <2>4. /\ \A p \in Places : consulted(p)' <=> consulted(p)
        /\ \A p \in Places : \A f : gives(p, f)' <=> gives(p, f)
    BY <1>1, <2>3, ConsultedAll
  <2>5. /\ argRead("ipc")' /\ ~argRead("ipc")
        /\ \A k \in Params : k # "ipc" => argRead(k) /\ argRead(k)'
    BY <1>1, <1>2, <2>3, ParamsByStep DEF argRead
  <2>6. argsGive("ipc") <=> arg("ipc") \notin {"absent", "empty"}
    BY <1>2, <1>3, RequestGives
  <2>7. TypeOK'
    <3>1. config' \in [Fields -> [by : Places \cup {"default", "args"},
                                  is : (Values \ {"mistyped"}) \cup {"unset", "wrapped"}]]
      BY <1>3, <2>1 DEF write, Value, Values, IInv, TypeOK
    <3>2. QED
      BY <1>1, <2>1, <3>1, SameInput DEF IInv, TypeOK, Stages
  <2>8. Progress'
    BY <1>1, <1>2, <2>1 DEF IInv, Progress
  <2>9. ReadIsValid'
    <3>1. \A k \in DOMAIN input.args : argRead(k)' => argRead(k) \/ argValid(k)
      BY <1>1, <1>2, <1>5, <2>5 DEF argValid, WellFormed
    <3>2. input.shape["root"] # "malformed"
      BY <1>1, <2>2 DEF IInv, ReadIsValid
    <3>3. QED
      BY <1>1, <2>2, <2>4, <3>1, <3>2, ReadIsValidNext
  <2>10. FieldsFollow'
    <3>1. SUFFICES ASSUME NEW f \in Fields PROVE followsSource(f)'
      BY DEF FieldsFollow
    <3>2. CASE f = "ipc" /\ argsGive("ipc")
      <4>1. config'["ipc"] = Value("args", "ok")
        BY <1>3, <2>1, <2>6, <3>2 DEF write, IInv, TypeOK
      <4>2. followsArgs("ipc")'
        BY <4>1 DEF followsArgs, Value
      <4>3. overridden("ipc")'
        BY <1>1, <1>3, <2>5, <3>2, SameInput DEF overridden, fromParams
      <4>4. QED
        BY <3>2, <4>2, <4>3 DEF followsSource
    <3>3. CASE ~(f = "ipc" /\ argsGive("ipc"))
      <4>1. config'[f] = config[f]
        BY <2>1, <2>6, <3>3 DEF write, IInv, TypeOK
      <4>2. argsGive(f) => (argRead(f)' <=> argRead(f))
        BY <1>2, <2>5, <3>3, RequestGives
      <4>3. QED
        BY <1>1, <2>2, <2>4, <4>1, <4>2, FieldKept
    <3>4. QED
      BY <3>2, <3>3
  <2>11. FilesFollow'
    <3>1. argsGive("input") => (argRead("input")' <=> argRead("input"))
      BY <1>2, <2>5, RequestGives
    <3>2. QED
      BY <1>1, <2>1, <2>2, <2>4, <3>1, FilesKept
  <2>12. QED
    BY <2>7, <2>8, <2>9, <2>10, <2>11 DEF IInv
<1>6. QED
  BY <1>4, <1>5

-----------------------------------------------------------------------------
(***************************************************************************)
(* The invariant is inductive, and what it says when all is read.          *)
(***************************************************************************)
LEMMA InvNext == IInv /\ [Next]_vars => IInv'
<1> SUFFICES ASSUME IInv, [Next]_vars PROVE IInv'
  OBVIOUS
<1>1. CASE applyToolConfigFile
  BY <1>1, FileNext
<1>2. CASE process
  BY <1>2, CommandNext, FinishNext DEF process
<1>3. CASE build_config_from_params
  BY <1>3, BoolFieldsNext, StringFieldsNext, Uint64FieldsNext, ListParamsNext, IpcFieldNext
     DEF build_config_from_params
<1>4. CASE UNCHANGED vars
  <2>1. UNCHANGED <<input, pc, pending, config, files, outcome>>
    BY <1>4 DEF vars
  <2>2. /\ \A p \in Places : consulted(p)' <=> consulted(p)
        /\ \A k : argRead(k)' <=> argRead(k)
    BY <2>1, SameInput DEF consulted, argRead
  <2>3. \A p \in Places : \A f : gives(p, f)' <=> gives(p, f)
    BY <2>1, <2>2, SameInput DEF gives
  <2>4. TypeOK' /\ Progress'
    BY <2>1, SameInput DEF IInv, TypeOK, Progress, configured
  <2>5. underway' <=> underway
    BY <2>1 DEF underway
  <2>6. ReadIsValid'
    BY <2>1, <2>2, <2>5, SameInput DEF IInv, ReadIsValid
  <2>7. FieldsFollow'
    BY <2>1, <2>2, <2>3, <2>5, FieldKept DEF FieldsFollow
  <2>8. FilesFollow'
    <3>1. CASE underway
      BY <2>1, <2>2, <2>3, <3>1, FilesKept
    <3>2. CASE ~underway
      BY <2>5, <3>2 DEF FilesFollow
    <3>3. QED
      BY <3>1, <3>2
  <2>9. QED
    BY <2>4, <2>6, <2>7, <2>8 DEF IInv
<1>5. QED
  BY <1>1, <1>2, <1>3, <1>4 DEF Next, Done

LEMMA Inductive == Spec => []IInv
BY InvInit, InvNext, PTL DEF Spec

\* All places that matter and all arguments have been read.
LEMMA AllIsRead ==
  ASSUME IInv, configured
  PROVE  /\ pc = "end" /\ underway /\ WellFormed(input) /\ input.front \in {"cli", "request"}
         /\ \A p \in Places : consulted(p) <=> input.shape["root"] = "object" /\ ~hidden(p)
         /\ \A k \in DOMAIN input.args : argRead(k)
         /\ \A k : argsGive(k) => argRead(k)
<1>1. pc = "end" /\ underway /\ WellFormed(input) /\ input.front \in {"cli", "request"}
  BY DEF configured, underway, IInv, Progress, TypeOK, WellFormed
<1>2. Step[pc] = 13
  BY <1>1 DEF Step
<1>3. \A p \in Places : consulted(p) <=> input.shape["root"] = "object" /\ ~hidden(p)
  BY <1>2, RanksAre DEF consulted
<1>4. \A k : argRead(k)
  <2>1. input.front = "cli" => pending = {}
    BY DEF IInv, Progress
  <2>2. \A k : stepOfParam(k) \in {0, 9, 10, 11, 12}
    BY DEF stepOfParam, Step
  <2>3. QED
    BY <1>2, <2>1, <2>2 DEF argRead
<1>5. QED
  BY <1>1, <1>3, <1>4

\* Then a place is the source of just the fields that it gives.
LEMMA GivesIsFileGives ==
  ASSUME IInv, configured, NEW p \in Places, NEW f
  PROVE  gives(p, f) <=> fileGives(p, f)
<1>1. WellFormed(input) /\ (consulted(p) <=> input.shape["root"] = "object" /\ ~hidden(p))
  BY AllIsRead
<1>2. given(p, "entry_points") => p \in {"stack_analyzer", "tools", "files"}
  <2>1. given(p, "entry_points") => "entry_points" \in Keys[p]
    BY <1>1, GivenShaped
  <2>2. QED
    BY <2>1, PlacesAre DEF Keys
<1>3. QED
  BY <1>1, <1>2 DEF gives, fileGives, lastKey

\* The strongest place is the one that the field follows.
LEMMA StrongestIs ==
  ASSUME IInv, configured, NEW f \in Fields
  PROVE  /\ \A p \in Places : followsPlace(p, f) => strongestPlace(f) = p
         /\ followsNoPlace(f) => strongestPlace(f) = "default"
<1> DEFINE givers == {p \in Places : fileGives(p, f)}
<1>1. WellFormed(input)
  BY AllIsRead
<1>2. \A p \in Places : p \in givers <=> gives(p, f)
  BY GivesIsFileGives
<1>3. ASSUME NEW p \in Places, followsPlace(p, f)
      PROVE  strongestPlace(f) = p
  <2>1. p \in givers /\ \A q \in givers : Rank[q] <= Rank[p]
    BY <1>2, <1>3 DEF followsPlace
  <2>2. strongestPlace(f) = CHOOSE r \in givers : \A q \in givers : Rank[q] <= Rank[r]
    BY <2>1 DEF strongestPlace
  <2>3. PICK s : s = strongestPlace(f)
    OBVIOUS
  <2>4. s \in givers /\ \A q \in givers : Rank[q] <= Rank[s]
    BY <2>1, <2>2, <2>3
  <2>5. s \in Places /\ Rank[s] = Rank[p]
    BY <2>1, <2>4, RanksAre
  <2>6. gives(s, f) /\ gives(p, f)
    BY <1>2, <2>1, <2>4, <2>5
  <2>7. s = p
    BY <1>1, <2>5, <2>6, GiversDiffer DEF gives, consulted
  <2>8. QED
    BY <2>3, <2>7
<1>4. ASSUME followsNoPlace(f)
      PROVE  strongestPlace(f) = "default"
  <2>1. givers = {}
    BY <1>2, <1>4 DEF followsNoPlace
  <2>2. QED
    BY <2>1 DEF strongestPlace
<1>5. QED
  BY <1>3, <1>4

-----------------------------------------------------------------------------
(***************************************************************************)
(* The theorems.                                                           *)
(***************************************************************************)
\* Whatever the inputs, the fields of a configuration hold values of their
\* kinds, and a value of the wrong type is never among them (ProgramConfig).
THEOREM TypeCorrect == Spec => []TypeOK
<1>1. IInv => TypeOK
  BY DEF IInv
<1>2. QED
  BY Inductive, <1>1, PTL

\* Each field of a configuration comes from the strongest source that gives
\* it, in whatever order the options of the command line are applied
\* (buildConfig, build_config_from_params, applyToolConfigFile).
THEOREM StrongestSourceWins == Spec => []Precedence
<1>1. ASSUME IInv PROVE Precedence
  <2> SUFFICES ASSUME configured, NEW f \in Fields
               PROVE  LET winner == IF argsWin(f) THEN "args" ELSE strongestPlace(f)
                      IN /\ config[f].by = winner
                         /\ winner = "args" /\ f \notin {"smt_timeout_ms", "ipc"} =>
                              config[f].is = arg(f)
                         /\ winner \in Places
                            /\ f \notin {"only_functions", "resource_cross_tu"} =>
                              config[f].is = valueOf(winner, f)
    BY DEF Precedence
  <2> DEFINE winner == IF argsWin(f) THEN "args" ELSE strongestPlace(f)
  <2>1. "args" \notin Places /\ "default" \notin Places
    BY PlacesAre
  <2>2. argsGive(f) => argRead(f)
    BY <1>1, AllIsRead
  <2>3. followsSource(f)
    BY <1>1, AllIsRead DEF IInv, FieldsFollow
  <2>4. CASE overridden(f)
    <3>1. winner = "args"
      BY <2>4 DEF overridden, argsWin, fromParams
    <3>2. followsArgs(f)
      BY <2>3, <2>4 DEF followsSource
    <3>3. QED
      BY <2>1, <3>1, <3>2 DEF followsArgs
  <2>5. ASSUME ~overridden(f), NEW p \in Places, followsPlace(p, f)
        PROVE  /\ winner = p /\ config[f].by = p
               /\ f \notin {"only_functions", "resource_cross_tu"} =>
                    config[f].is = valueOf(p, f)
    <3>1. strongestPlace(f) = p
      BY <1>1, <2>5, StrongestIs
    <3>2. ~argsWin(f)
      BY <2>1, <2>2, <2>5, <3>1 DEF overridden, argsWin, fromParams
    <3>3. f \notin {"only_functions", "resource_cross_tu"} => lastKey(p, f) = f
      BY LastKeyIs
    <3>4. QED
      BY <2>5, <3>1, <3>2, <3>3 DEF followsPlace, Value
  <2>6. CASE ~overridden(f) /\ followsNoPlace(f)
    <3>1. strongestPlace(f) = "default"
      BY <1>1, <2>6, StrongestIs
    <3>2. argsWin(f) <=> fromParams(f) /\ argsGive(f) /\ argRead(f)
      BY <2>2, <2>6, <3>1 DEF overridden, argsWin, fromParams
    <3>3. QED
      BY <2>1, <2>6, <3>1, <3>2 DEF followsNoPlace, Value
  <2>7. QED
    BY <2>1, <2>3, <2>4, <2>5, <2>6 DEF followsSource
<1>2. QED
  BY Inductive, <1>1, PTL

\* An input is accepted only if every part of the file that is consulted is in
\* order and the arguments pass their checks, and what the documentation
\* allows is accepted (applyToolConfigFile, ConfigProcessor, apply_*_fields).
THEOREM RejectsOnlyInvalid == Spec => []AcceptsOnlyChecked
<1>1. ASSUME IInv PROVE AcceptsOnlyChecked
  <2>1. CASE configured
    <3>1. /\ pc = "end" /\ underway /\ WellFormed(input) /\ input.front \in {"cli", "request"}
          /\ \A p \in Places : consulted(p) <=> input.shape["root"] = "object" /\ ~hidden(p)
          /\ \A k \in DOMAIN input.args : argRead(k)
      BY <1>1, <2>1, AllIsRead
    <3>2. input.shape["root"] # "malformed"
      BY <1>1, <3>1 DEF IInv, ReadIsValid
    <3>3. fileValid
      BY <1>1, <3>1 DEF IInv, ReadIsValid, readable, fileValid
    <3>4. \A k : argValid(k)
      <4>1. ASSUME NEW k \in DOMAIN input.args PROVE argValid(k)
        <5>1. CASE input.front = "cli" /\ arg(k) = "empty"
          BY <5>1 DEF argValid
        <5>2. CASE ~(input.front = "cli" /\ arg(k) = "empty")
          BY <1>1, <3>1, <4>1, <5>2 DEF IInv, ReadIsValid
        <5>3. QED
          BY <5>1, <5>2
      <4>2. ASSUME NEW k, k \notin DOMAIN input.args PROVE argValid(k)
        BY <4>2 DEF argValid, arg
      <4>3. QED
        BY <4>1, <4>2
    <3>5. input.front = "cli" => serverOptionsConsistent
      BY <1>1, <2>1 DEF IInv, Progress
    <3>6. argsPass
      BY <3>1, <3>4, <3>5 DEF argsPass, argValid
    <3>7. QED
      BY <2>1, <3>2, <3>3, <3>6 DEF AcceptsOnlyChecked
  <2>2. CASE ~configured
    <3>1. pc = "end" => ~underway
      BY <1>1, <2>2 DEF IInv, Progress, underway, configured
    <3>2. QED
      BY <1>1, <2>2, <3>1 DEF IInv, ReadIsValid, AcceptsOnlyChecked, argsAllowed
  <2>3. QED
    BY <2>1, <2>2
<1>2. QED
  BY Inductive, <1>1, PTL

\* The input files of the file are those of one place, and those of the
\* command line or of the request come in once and last, with or without them
\* (assignInputFiles, addFile).
THEOREM InputFilesOfOnePlace == Spec => []InputFiles
<1>1. ASSUME IInv PROVE InputFiles
  <2>1. SUFFICES ASSUME configured PROVE InputFiles
    BY DEF InputFiles
  <2>2. "root" \in Places /\ "files" \in Places
    BY PlacesAre
  <2>3. /\ gives("files", "input") <=> fileGives("files", "input")
        /\ gives("root", "input") <=> fileGives("root", "input")
    BY <1>1, <2>1, <2>2, GivesIsFileGives
  <2>4. underway /\ (argsGive("input") => argRead("input"))
    BY <1>1, <2>1, AllIsRead
  <2>5. QED
    BY <1>1, <2>3, <2>4 DEF IInv, FilesFollow, InputFiles
<1>2. QED
  BY Inductive, <1>1, PTL
=============================================================================
