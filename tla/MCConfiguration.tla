--------------------------- MODULE MCConfiguration ---------------------------
(***************************************************************************)
(* Inputs that exercise a few settings at a time: each group in Groups     *)
(* with every combination of what the file and the front end may say of    *)
(* it, all other settings absent.                                          *)
(***************************************************************************)
EXTENDS Configuration

CONSTANT Groups   \* sets of settings

Partial(D, V) == UNION {[E -> V] : E \in SUBSET D}

\* The sorts of value the kind of the setting has.
valuesOf(k) ==
  {"ok", "mistyped"}
    \cup (IF k \in Lists \cup Strings THEN {"empty"} ELSE {})
    \cup (IF k \in Validated THEN {"disallowed"} ELSE {})
    \cup (IF k = "ipc" THEN {"serve"} ELSE {})

\* An option is text: only a number can be no number.
optionsOf(k) == IF k \in Numbers THEN valuesOf(k) ELSE valuesOf(k) \ {"mistyped"}

argsAbout(G, front) ==
  IF front = "cli"
  THEN {a \in Partial(G \cap Options, Values) : \A k \in DOMAIN a : a[k] \in optionsOf(k)}
  ELSE {a \in Partial(G \cap Params, Values) : \A k \in DOMAIN a : a[k] \in valuesOf(k)}

\* The file need only have the places of the group; without the root it has none.
shapesAbout(G) ==
  LET about == {p \in Places : G \cap Keys[p] # {}}
  IN
     {[p \in Places |-> IF p = "root" THEN r
                        ELSE IF p \in about /\ r = "object" THEN s[p] ELSE "absent"] :
        s \in [about -> Shapes], r \in Shapes}

entriesAbout(G, shape) ==
  {f \in Partial(UNION {{<<p, k>> : k \in G \cap Keys[p]} : p \in {q \in Places : shape[q] = "object"}},
                 UNION {valuesOf(k) : k \in G}) :
     \A e \in DOMAIN f : f[e] \in valuesOf(e[2])}

MCInputs ==
  UNION {[front : {front}, args : argsAbout(G, front), shape : {shape},
          file : entriesAbout(G, shape)] :
           <<G, front, shape>> \in
             UNION {{H} \X {"cli", "request"} \X shapesAbout(H) : H \in Groups}}

AllGroups ==
  {{"verbose"}, {"input"}, {"invoke"}, {"entry_points", "only_functions"}, {"compile_commands"},
   {"ipc", "port"}, {"smt_timeout_ms"}, {"shutdown_timeout_ms"}, {"async"}, {"smt"},
   {"smt_mode"}, {"resource_cross_tu", "no_resource_cross_tu"}}

\* A file with analyzer section and files section, and a command line that
\* sets the same and values that are out of range.
CliOptions == {"entry_points", "input", "smt_timeout_ms", "analysis_profile", "smt_mode"}
CliInputs ==
  [front : {"cli"},
   args : {a \in Partial(CliOptions, {"ok", "disallowed"}) :
             \A k \in DOMAIN a : a[k] \in optionsOf(k)},
   shape : {[p \in Places |-> IF p \in {"root", "stack_analyzer", "files"} THEN "object" ELSE "absent"]},
   file : Partial({<<"stack_analyzer", "entry_points">>, <<"files", "input">>}, {"ok", "empty"})]
==============================================================================
