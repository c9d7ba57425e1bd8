--------------------------- MODULE ToolPlanProofs ----------------------------
(***************************************************************************)
(* Proofs about the plan of a run: it holds every execution that was asked *)
(* for, once.                                                              *)
(***************************************************************************)
EXTENDS ToolPlan, Integers, WellFoundedInduction, TLAPS

\* Every set of naturals has a least element.
LEMMA LeastNumber ==
  ASSUME NEW S \in SUBSET Nat, S # {}
  PROVE  \E n \in S : \A m \in S : n <= m
<1> DEFINE R == {ss \in Nat \X Nat : ss[1] < ss[2]}
<1>1. IsWellFoundedOn(R, Nat)
  BY NatLessThanWellFounded DEF OpToRel
<1>2. PICK n \in S : \A m \in S : ~(<<m, n>> \in R)
  <2> HIDE DEF R
  <2>1. QED
    BY <1>1, WFMin
<1>3. ASSUME NEW m \in S, m < n
      PROVE  FALSE
  <2>1. <<m, n>> \in Nat \X Nat
    OBVIOUS
  <2>2. <<m, n>>[1] < <<m, n>>[2]
    BY <1>3
  <2>3. QED
    BY <1>2, <2>1, <2>2
<1>4. QED
  BY <1>3

LEMMA NamesShaped ==
  ASSUME NEW c, ConfigShaped(c), NEW l \in Lists
  PROVE  \E n \in Nat : DOMAIN names(c, l) = 1..n
<1>1. DOMAIN static_tools = 1..5 /\ DOMAIN dynamic_tools = 1..3 /\ DOMAIN <<>> = 1..0
  BY DEF static_tools, dynamic_tools
<1>2. Len(c.specific) \in Nat /\ DOMAIN c.specific = 1..Len(c.specific)
  BY DEF ConfigShaped
<1>3. CASE l = "static"
  BY <1>1, <1>3 DEF names
<1>4. CASE l = "dynamic"
  BY <1>1, <1>4 DEF names
<1>5. CASE l = "specific"
  BY <1>2, <1>5 DEF names
<1>6. QED
  BY <1>3, <1>4, <1>5 DEF Lists

\* deduplicateToolNames keeps the first mention of every name: each name
\* once, and none is lost.
LEMMA FirstMentionIsKept ==
  ASSUME NEW ts, NEW len \in Nat, DOMAIN ts = 1..len, NEW k \in DOMAIN ts
  PROVE  \E m \in deduplicateToolNames(ts) : ts[m] = ts[k]
<1> DEFINE S == {m \in DOMAIN ts : ts[m] = ts[k]}
<1>1. S \in SUBSET Nat /\ S # {}
  OBVIOUS
<1>2. PICK m \in S : \A n \in S : m <= n
  BY <1>1, LeastNumber
<1>3. ASSUME NEW n \in 1..(m - 1), ts[n] = ts[m]
      PROVE  FALSE
  <2>1. n \in S /\ n < m
    BY <1>3
  <2>2. QED
    BY <1>2, <2>1
<1>4. QED
  BY <1>2, <1>3 DEF deduplicateToolNames

LEMMA KeptOnce ==
  ASSUME NEW ts, NEW len \in Nat, DOMAIN ts = 1..len,
         NEW m \in deduplicateToolNames(ts), NEW n \in deduplicateToolNames(ts),
         ts[m] = ts[n]
  PROVE  m = n
<1>1. m \in 1..len /\ n \in 1..len
  BY DEF deduplicateToolNames
<1>2. ~(m \in 1..(n - 1)) /\ ~(n \in 1..(m - 1))
  BY DEF deduplicateToolNames
<1>3. QED
  BY <1>1, <1>2

LEMMA PlanShaped ==
  ASSUME NEW c, ConfigShaped(c), NEW j \in Plan(c)
  PROVE  /\ j \in Job /\ j.list \in Lists
         /\ j \in runToolList(c, j.list)
         /\ c.files # <<>>
         /\ j.round \in 1..(Len(c.files) + 1)
         /\ j.index \in DOMAIN names(c, j.list)
         /\ tool(c, j) \in tools
<1>1. PICK l \in Lists : j \in runToolList(c, l)
  BY DEF Plan
<1>2. DOMAIN names(c, l) \subseteq Nat /\ Len(c.files) \in Nat
  BY NamesShaped DEF ConfigShaped
<1>3. j.list = l /\ j.index \in DOMAIN names(c, l)
  BY <1>1 DEF runToolList, deduplicateToolNames
<1>4. QED
  BY <1>1, <1>2, <1>3 DEF runToolList, Job

\* What a run is asked for is what its plan contains.
LEMMA PlannedIsRequested ==
  ASSUME NEW c, ConfigShaped(c), NEW j \in Plan(c)
  PROVE  Requested(c, j.list, tool(c, j))
<1>1. j.list \in Lists /\ j.index \in DOMAIN names(c, j.list) /\ tool(c, j) \in tools
  BY PlanShaped
<1>2. tool(c, j) \in ToSet(names(c, j.list))
  BY <1>1 DEF tool, ToSet
<1>3. ToSet(<<>>) = {}
  BY DEF ToSet
<1>4. QED
  BY <1>1, <1>2, <1>3 DEF Requested, names, Lists

\* No two jobs of a plan have a tool of the same list analyse the same file,
\* though --invoke may name a tool twice (deduplicateToolNames, runToolList).
THEOREM PlannedOnce ==
  ASSUME NEW c, ConfigShaped(c), NEW j \in Plan(c), NEW m \in Plan(c),
         j.list = m.list, tool(c, j) = tool(c, m),
         NEW f, f \in filesOf(c, j), f \in filesOf(c, m)
  PROVE  j = m
<1>1. inBatch(c, j) <=> inBatch(c, m)
  BY PlanShaped DEF runToolList
<1>2. j.round = m.round
  <2>1. CASE inBatch(c, j)
    BY <1>1, <2>1 DEF inBatch
  <2>2. CASE ~inBatch(c, j)
    <3>1. j.round \in DOMAIN c.files /\ m.round \in DOMAIN c.files
      BY <1>1, <2>2, PlanShaped DEF inBatch, ConfigShaped
    <3>2. c.files[j.round] = c.files[m.round]
      BY <1>1, <2>2 DEF filesOf
    <3>3. QED
      BY <3>1, <3>2 DEF ConfigShaped
  <2>3. QED
    BY <2>1, <2>2
<1>3. j.index = m.index
  <2>1. names(c, j.list)[j.index] = names(c, j.list)[m.index]
    BY DEF tool
  <2>2. CASE j.list = "specific"
    <3>1. /\ j.index \in deduplicateToolNames(names(c, j.list))
          /\ m.index \in deduplicateToolNames(names(c, j.list))
      BY <2>2, PlanShaped DEF runToolList
    <3>2. QED
      BY <2>1, <2>2, <3>1, KeptOnce, NamesShaped, PlanShaped
  <2>3. CASE j.list \in {"static", "dynamic"}
    <3>1. names(c, j.list) \in {static_tools, dynamic_tools, <<>>}
      BY <2>3 DEF names
    <3>2. j.index \in DOMAIN names(c, j.list) /\ m.index \in DOMAIN names(c, j.list)
      BY PlanShaped
    <3>3. QED
      BY <2>1, <3>1, <3>2 DEF static_tools, dynamic_tools
  <2>4. QED
    BY <2>2, <2>3, PlanShaped DEF Lists
<1>4. QED
  BY <1>2, <1>3, PlanShaped DEF Job

\* Every tool asked for has a job for every file, with the others or alone
\* (runToolList).
THEOREM RequestedIsPlanned ==
  ASSUME NEW c, ConfigShaped(c), NEW l \in Lists, NEW t \in tools, Requested(c, l, t),
         NEW f \in ToSet(c.files)
  PROVE  \E j \in Plan(c) : j.list = l /\ tool(c, j) = t /\ f \in filesOf(c, j)
<1> DEFINE kept == IF l = "specific" THEN deduplicateToolNames(names(c, l))
                                     ELSE DOMAIN names(c, l)
<1>1. t \in ToSet(names(c, l))
  BY DEF Requested, names, Lists
<1>2. PICK k \in kept : names(c, l)[k] = t
  <2>1. PICK m \in DOMAIN names(c, l) : names(c, l)[m] = t
    BY <1>1 DEF ToSet
  <2>2. QED
    BY <2>1, FirstMentionIsKept, NamesShaped
<1>3. PICK n \in DOMAIN c.files : c.files[n] = f
  BY DEF ToSet
<1>4. Len(c.files) \in Nat /\ DOMAIN c.files = 1..Len(c.files) /\ c.files # <<>>
  BY <1>3 DEF ConfigShaped
<1> DEFINE r == IF supportsBatchExecution(t) THEN Len(c.files) + 1 ELSE n
           j == [list |-> l, round |-> r, index |-> k]
<1>5. r \in 1..(Len(c.files) + 1)
  BY <1>4
<1>6. tool(c, j) = t /\ (inBatch(c, j) <=> supportsBatchExecution(t))
  BY <1>2, <1>4 DEF tool, inBatch
<1>7. j \in runToolList(c, l)
  BY <1>4, <1>5, <1>6 DEF runToolList
<1>8. f \in filesOf(c, j)
  BY <1>3, <1>6 DEF filesOf
<1>9. QED
  BY <1>6, <1>7, <1>8 DEF Plan
=============================================================================
