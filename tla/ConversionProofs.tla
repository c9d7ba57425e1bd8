--------------------------- MODULE ConversionProofs --------------------------
(***************************************************************************)
(* Lemmas about the two conversions an analysis begins with, entries to    *)
(* sources (SourceFiles) and settings to the words of a command line       *)
(* (AnalyzerBridge), and about the summaries it ends with.                 *)
(***************************************************************************)
EXTENDS SourceFiles, AnalyzerBridge, Integers, FiniteSetTheorems, SequenceTheorems, WellFoundedInduction, TLAPS

-----------------------------------------------------------------------------
(***************************************************************************)
(* The resolution of sources.                                              *)
(***************************************************************************)

\* Counting up from 0 one comes to every number.
LEMMA CountUp ==
  ASSUME NEW N \in Nat, NEW G, 0 \in G, \A n \in 0..(N - 1) : n \in G => n + 1 \in G
  PROVE  \A n \in 0..N : n \in G
<1> DEFINE S == {n \in 0..N : n \notin G}
           R == {ss \in Nat \X Nat : ss[1] < ss[2]}
<1> SUFFICES ASSUME S # {}  PROVE FALSE
  OBVIOUS
<1>1. IsWellFoundedOn(R, Nat)
  BY NatLessThanWellFounded DEF OpToRel
<1>2. S \subseteq Nat
  OBVIOUS
<1>3. PICK n \in S : \A m \in S : ~(<<m, n>> \in R)
  <2> HIDE DEF R, S
  <2> QED  BY <1>1, <1>2, WFMin
<1>4. n \in 0..N /\ n \notin G /\ n # 0
  OBVIOUS
<1>5. n - 1 \in 0..(N - 1) /\ n - 1 \in 0..N /\ (n - 1) + 1 = n
  BY <1>4
<1>6. n - 1 \in G
  <2>1. <<n - 1, n>> \in R
    BY <1>4
  <2> QED  BY <1>3, <1>5, <2>1
<1> QED  BY <1>4, <1>5, <1>6

\* What is known of a list of unknown elements.
IsList(v) == Len(v) \in Nat /\ DOMAIN v = 1..Len(v)

LEMMA ArraysAreLists ==
  ASSUME NEW v, IsArray(v)
  PROVE  IsList(v)
BY DEF IsArray, IsList

LEMMA MappedList ==
  ASSUME NEW v, IsList(v), NEW dir
  PROVE  IsList(appendFromArray(v, dir))
<1> DEFINE w == appendFromArray(v, dir)
<1>1. w = [i \in 1..Len(v) |-> fromItem(v[i], dir)]
  BY DEF appendFromArray, IsList
<1>2. w \in Seq({fromItem(v[i], dir) : i \in 1..Len(v)})
  BY <1>1 DEF IsList
<1> QED  BY <1>2 DEF IsList

LEMMA EntriesAreLists ==
  ASSUME NEW name
  PROVE  IsList(fromEntry(name))
<1> DEFINE dir == parent_path(name)
           content == Disk[lexically_normal(name)]
<1>1. IsList(<<>>) /\ \A c : IsList(<<c>>)
  BY DEF IsList
<1>2. ASSUME kindOf(name) \in {"array", "object"}
      PROVE  lexically_normal(name) \in DOMAIN Disk /\ kindOf(name) = content.kind
  BY <1>2 DEF kindOf
<1>3. CASE kindOf(name) = "array" /\ isManifest(name)
  <2>1. IsArray(content.value)
    BY <1>2, <1>3, DiskShaped
  <2> QED  BY <1>3, <2>1, ArraysAreLists, MappedList DEF fromEntry
<1>4. CASE kindOf(name) = "object" /\ isManifest(name)
  <2> DEFINE obj == content.value
  <2>1. listKey(obj) # "none" => IsList(obj[listKey(obj)])
    <3>1. listKey(obj) # "none" =>
            listKey(obj) \in DOMAIN obj \cap {"files", "sources", "compile_commands"}
      BY DEF listKey, firstKey
    <3>2. lexically_normal(name) \in DOMAIN Disk /\ content.kind = "object"
      BY <1>2, <1>4
    <3>3. listKey(obj) # "none" => IsArray(obj[listKey(obj)])
      BY <3>1, <3>2, DiskShaped
    <3> QED  BY <3>3, ArraysAreLists
  <2>2. IsList(fromObject(obj, dir))
    BY <1>1, <2>1, MappedList DEF fromObject
  <2> QED  BY <1>4, <2>2 DEF fromEntry
<1>5. CASE ~isManifest(name) \/ kindOf(name) \notin {"array", "object"}
  BY <1>1, <1>5 DEF fromEntry
<1> QED  BY <1>3, <1>4, <1>5

\* What is appended while the names of an entry are gone through.
LEMMA NamesOneByOne ==
  ASSUME NEW input, NEW files, NEW names, Len(names) \in Nat
  PROVE  \E after :
           /\ after[0] = files
           /\ \A k \in 1..Len(names) :
                after[k] = IF shouldSkipDependencyEntry(input, names[k]) THEN after[k - 1]
                           ELSE appendResolved(after[k - 1], names[k])
           /\ appendNames(input, files, names) = after[Len(names)]
<1> DEFINE N == Len(names)
           next(x, k) == IF shouldSkipDependencyEntry(input, names[k]) THEN x
                         ELSE appendResolved(x, names[k])
           Fits(f, n) == f = [k \in 0..n |-> IF k = 0 THEN files ELSE next(f[k - 1], k)]
           G == {n \in Nat : \E f : Fits(f, n)}
<1>1. 0 \in G
  <2>1. Fits([k \in 0..0 |-> files], 0)
    OBVIOUS
  <2> QED  BY <2>1
<1>2. ASSUME NEW n \in 0..(N - 1), n \in G  PROVE n + 1 \in G
  <2>1. PICK f : Fits(f, n)
    BY <1>2
  <2> HIDE DEF next
  <2> DEFINE g == [k \in 0..(n + 1) |-> IF k = n + 1 THEN next(f[n], n + 1) ELSE f[k]]
  <2>2. ASSUME NEW k \in 0..(n + 1)
        PROVE  g[k] = IF k = 0 THEN files ELSE next(g[k - 1], k)
    <3>1. CASE k = n + 1  BY <3>1
    <3>2. CASE k # n + 1 /\ k # 0
      <4>1. k \in 0..n /\ k - 1 \in 0..n
        BY <3>2
      <4>2. f[k] = next(f[k - 1], k)
        BY <2>1, <3>2, <4>1
      <4> QED  BY <3>2, <4>1, <4>2
    <3>3. CASE k # n + 1 /\ k = 0
      BY <2>1, <3>3
    <3> QED  BY <3>1, <3>2, <3>3
  <2>3. Fits(g, n + 1) /\ n + 1 \in Nat
    BY <2>2
  <2> HIDE DEF Fits, g
  <2> QED  BY <2>3
<1>3. N \in G
  <2> HIDE DEF G
  <2>1. \A n \in 0..N : n \in G
    BY <1>1, <1>2, CountUp
  <2> QED  BY <2>1
<1>4. appendNames(input, files, names) = (CHOOSE f : Fits(f, N))[N]
  BY DEF appendNames
<1>5. Fits(CHOOSE f : Fits(f, N), N)
  BY <1>3
<1>6. PICK after : Fits(after, N) /\ appendNames(input, files, names) = after[N]
  <2> HIDE DEF Fits
  <2> QED  BY <1>4, <1>5
<1>7. after[0] = files /\ \A k \in 1..N : after[k] = next(after[k - 1], k)
  <2> HIDE DEF next
  <2> QED  BY <1>6
<1> QED  BY <1>6, <1>7

\* The same for the entries of an input.
LEMMA EntriesOneByOne ==
  ASSUME NEW input, Len(fileEntries(input)) \in Nat
  PROVE  \E after :
           /\ after[0] = <<>>
           /\ \A i \in 1..Len(fileEntries(input)) :
                after[i] = appendNames(input, after[i - 1], fromEntry(fileEntries(input)[i]))
           /\ resolveSourceFiles(input) = after[Len(fileEntries(input))]
<1> DEFINE N == Len(fileEntries(input))
           next(x, i) == appendNames(input, x, fromEntry(fileEntries(input)[i]))
           Fits(f, n) == f = [i \in 0..n |-> IF i = 0 THEN <<>> ELSE next(f[i - 1], i)]
           G == {n \in Nat : \E f : Fits(f, n)}
<1>1. 0 \in G
  <2>1. Fits([k \in 0..0 |-> <<>>], 0)
    OBVIOUS
  <2> QED  BY <2>1
<1>2. ASSUME NEW n \in 0..(N - 1), n \in G  PROVE n + 1 \in G
  <2>1. PICK f : Fits(f, n)
    BY <1>2
  <2> HIDE DEF next
  <2> DEFINE g == [k \in 0..(n + 1) |-> IF k = n + 1 THEN next(f[n], n + 1) ELSE f[k]]
  <2>2. ASSUME NEW k \in 0..(n + 1)
        PROVE  g[k] = IF k = 0 THEN <<>> ELSE next(g[k - 1], k)
    <3>1. CASE k = n + 1  BY <3>1
    <3>2. CASE k # n + 1 /\ k # 0
      <4>1. k \in 0..n /\ k - 1 \in 0..n
        BY <3>2
      <4>2. f[k] = next(f[k - 1], k)
        BY <2>1, <3>2, <4>1
      <4> QED  BY <3>2, <4>1, <4>2
    <3>3. CASE k # n + 1 /\ k = 0
      BY <2>1, <3>3
    <3> QED  BY <3>1, <3>2, <3>3
  <2>3. Fits(g, n + 1) /\ n + 1 \in Nat
    BY <2>2
  <2> HIDE DEF Fits, g
  <2> QED  BY <2>3
<1>3. N \in G
  <2> HIDE DEF G
  <2>1. \A n \in 0..N : n \in G
    BY <1>1, <1>2, CountUp
  <2> QED  BY <2>1
<1>4. resolveSourceFiles(input) = (CHOOSE f : Fits(f, N))[N]
  BY DEF resolveSourceFiles
<1>5. Fits(CHOOSE f : Fits(f, N), N)
  BY <1>3
<1>6. PICK after : Fits(after, N) /\ resolveSourceFiles(input) = after[N]
  <2> HIDE DEF Fits
  <2> QED  BY <1>4, <1>5
<1>7. after[0] = <<>> /\ \A k \in 1..N : after[k] = next(after[k - 1], k)
  <2> HIDE DEF next
  <2> QED  BY <1>6
<1> QED  BY <1>6, <1>7

\* The files of a set of mentions, in the order of their first mention.
Listing(input, files, M) ==
  /\ files \in Seq({file(input, m) : m \in Names(input)})
  /\ ToSet(files) = {file(input, m) : m \in M}
  /\ \A i, j \in DOMAIN files : i < j =>
       \E m \in M : /\ file(input, m) = files[i]
                    /\ \A n \in M : file(input, n) = files[j] => earlier(m, n)

\* A list stays such a list when a later name is appended.
LEMMA ListingStep ==
  ASSUME NEW input, NEW files, NEW M, Listing(input, files, M),
         NEW m \in Names(input), \A n \in M : earlier(n, m), nameAt(input, m).name # Empty
  PROVE  Listing(input, appendResolved(files, nameAt(input, m)), M \cup {m})
<1> DEFINE new == file(input, m)
           F == {file(input, n) : n \in Names(input)}
<1>1. files \in Seq(F) /\ new \in F
  BY DEF Listing
<1>2. ToSet(files) = {file(input, n) : n \in M}
  BY DEF Listing
<1>3. {file(input, n) : n \in M \cup {m}} = ToSet(files) \cup {new}
  BY <1>2
<1>4. \A i, j \in DOMAIN files : i < j =>
        \E n1 \in M : /\ file(input, n1) = files[i]
                      /\ \A n \in M : file(input, n) = files[j] => earlier(n1, n)
  BY DEF Listing
<1>5. CASE new \in ToSet(files)
  <2>1. appendResolved(files, nameAt(input, m)) = files
    BY <1>5 DEF appendResolved, file
  <2>2. \A i, j \in DOMAIN files : i < j =>
          \E n1 \in M \cup {m} : /\ file(input, n1) = files[i]
                                 /\ \A n \in M \cup {m} : file(input, n) = files[j] => earlier(n1, n)
    BY <1>4
  <2>3. {file(input, n) : n \in M \cup {m}} = ToSet(files)
    BY <1>3, <1>5
  <2> QED  BY <1>1, <2>1, <2>2, <2>3 DEF Listing
<1>6. CASE new \notin ToSet(files)
  <2> DEFINE more == Append(files, new)
  <2>1. appendResolved(files, nameAt(input, m)) = more
    BY <1>6 DEF appendResolved, file
  <2> HIDE DEF F, new
  <2>2. /\ more \in Seq(F) /\ DOMAIN more = 1..(Len(files) + 1) /\ DOMAIN files = 1..Len(files)
        /\ Len(files) \in Nat
        /\ \A i \in 1..Len(files) : more[i] = files[i]
        /\ more[Len(files) + 1] = new
    BY <1>1
  <2>3. \A i \in DOMAIN files : files[i] \in ToSet(files)
    BY DEF ToSet
  <2>4. ToSet(more) = ToSet(files) \cup {new}
    <3> HIDE DEF more
    <3>1. \A i \in DOMAIN more : more[i] \in ToSet(files) \cup {new}
      BY <2>2, <2>3
    <3>2. \A i \in DOMAIN files : files[i] \in ToSet(more)
      BY <2>2 DEF ToSet
    <3>3. new \in ToSet(more)
      BY <2>2 DEF ToSet
    <3> QED  BY <3>1, <3>2, <3>3 DEF ToSet
  <2> HIDE DEF more
  <2>5. ASSUME NEW i \in DOMAIN more, NEW j \in DOMAIN more, i < j
        PROVE  \E n1 \in M \cup {m} :
                 /\ file(input, n1) = more[i]
                 /\ \A n \in M \cup {m} : file(input, n) = more[j] => earlier(n1, n)
    <3>1. i \in DOMAIN files /\ more[i] = files[i]
      BY <2>2, <2>5
    <3>2. CASE j \in DOMAIN files
      <4>1. more[j] = files[j] /\ files[j] # file(input, m)
        BY <1>6, <2>2, <2>3, <3>2 DEF new
      <4>2. PICK n1 \in M : /\ file(input, n1) = files[i]
                            /\ \A n \in M : file(input, n) = files[j] => earlier(n1, n)
        BY <1>4, <2>5, <3>1, <3>2
      <4> QED  BY <3>1, <4>1, <4>2
    <3>3. CASE j \notin DOMAIN files
      <4>1. more[j] = file(input, m)
        BY <2>2, <3>3 DEF new
      <4>2. PICK n1 \in M : file(input, n1) = files[i]
        BY <1>2, <2>3, <3>1
      <4>3. \A n \in M : file(input, n) # file(input, m)
        BY <1>2, <1>6 DEF new
      <4> QED  BY <3>1, <4>1, <4>2, <4>3
    <3> QED  BY <3>2, <3>3
  <2>6. more \in Seq({file(input, n) : n \in Names(input)})
    BY <2>2 DEF F
  <2>7. ToSet(more) = {file(input, n) : n \in M \cup {m}}
    BY <1>3, <2>4
  <2> QED  BY <2>1, <2>5, <2>6, <2>7 DEF Listing
<1> QED  BY <1>5, <1>6

\* The names of an input by their places.
LEMMA NamesByPlace ==
  ASSUME NEW input, IsList(fileEntries(input))
  PROVE  /\ \A m \in Names(input) :
              /\ m = <<m[1], m[2]>> /\ m[1] \in 1..Len(fileEntries(input))
              /\ m[2] \in 1..Len(fromEntry(fileEntries(input)[m[1]]))
         /\ \A i \in 1..Len(fileEntries(input)) :
              \A k \in 1..Len(fromEntry(fileEntries(input)[i])) : <<i, k>> \in Names(input)
<1>1. \A i \in DOMAIN fileEntries(input) :
        DOMAIN fromEntry(fileEntries(input)[i]) = 1..Len(fromEntry(fileEntries(input)[i]))
  BY EntriesAreLists DEF IsList
<1>2. DOMAIN fileEntries(input) = 1..Len(fileEntries(input))
  BY DEF IsList
<1> QED  BY <1>1, <1>2 DEF Names

\* The mentions of the entries before the i-th and of its first k names.
Upto(input, i, k) == {m \in Mentions(input) : m[1] < i \/ (m[1] = i /\ m[2] <= k)}

LEMMA EntryStep ==
  ASSUME NEW input, IsList(fileEntries(input)), NEW i \in 1..Len(fileEntries(input)),
         NEW files, Listing(input, files, Upto(input, i, 0))
  PROVE  Listing(input, appendNames(input, files, fromEntry(fileEntries(input)[i])),
                 Upto(input, i + 1, 0))
<1> DEFINE names == fromEntry(fileEntries(input)[i])
           N == Len(names)
<1>0. N \in Nat /\ i \in Nat
  BY EntriesAreLists DEF IsList
<1>1. PICK after :
        /\ after[0] = files
        /\ \A k \in 1..N :
             after[k] = IF shouldSkipDependencyEntry(input, names[k]) THEN after[k - 1]
                        ELSE appendResolved(after[k - 1], names[k])
        /\ appendNames(input, files, names) = after[N]
  BY <1>0, NamesOneByOne
<1> DEFINE G == {k \in 0..N : Listing(input, after[k], Upto(input, i, k))}
<1>2. 0 \in G
  BY <1>0, <1>1
<1>3. ASSUME NEW k \in 0..(N - 1), k \in G  PROVE k + 1 \in G
  <2> DEFINE m == <<i, k + 1>>
             c == names[k + 1]
  <2>1. k \in Nat /\ k + 1 \in 1..N /\ Listing(input, after[k], Upto(input, i, k))
    BY <1>0, <1>3
  <2>2. m \in Names(input) /\ nameAt(input, m) = c
    BY <1>0, <2>1, NamesByPlace DEF nameAt
  <2>3. after[k + 1] = IF shouldSkipDependencyEntry(input, c) THEN after[k]
                       ELSE appendResolved(after[k], c)
    BY <1>0, <1>1, <2>1
  <2>4. \A n \in Names(input) : n[1] \in Nat /\ n[2] \in Nat /\ n = <<n[1], n[2]>>
    BY <1>0, NamesByPlace, EntriesAreLists DEF IsList
  <2>5. CASE c.name = Empty \/ shouldSkipDependencyEntry(input, c)
    <3>1. m \notin Mentions(input)
      BY <2>2, <2>5 DEF Mentions
    <3>2. \A n \in Mentions(input) : (n[1] = i /\ n[2] <= k + 1) <=> (n[1] = i /\ n[2] <= k)
      <4> SUFFICES ASSUME NEW n \in Mentions(input), n[1] = i, n[2] <= k + 1  PROVE n[2] <= k
        BY <2>1, <2>4 DEF Mentions
      <4>1. n \in Names(input) /\ n # m
        BY <3>1 DEF Mentions
      <4> QED  BY <2>1, <2>4, <4>1
    <3>3. Upto(input, i, k + 1) = Upto(input, i, k)
      BY <3>2 DEF Upto
    <3>4. after[k + 1] = after[k]
      BY <2>3, <2>5 DEF appendResolved
    <3> QED  BY <1>0, <2>1, <3>3, <3>4
  <2>6. CASE c.name # Empty /\ ~shouldSkipDependencyEntry(input, c)
    <3>1. m \in Mentions(input)
      BY <2>2, <2>6 DEF Mentions
    <3>2. ASSUME NEW n \in Mentions(input)
          PROVE  (n[1] = i /\ n[2] <= k + 1) <=> (n[1] = i /\ n[2] <= k) \/ n = m
      <4>1. n \in Names(input)
        BY DEF Mentions
      <4> QED  BY <1>0, <2>1, <2>4, <4>1
    <3>3. Upto(input, i, k + 1) = Upto(input, i, k) \cup {m}
      BY <1>0, <3>1, <3>2 DEF Upto
    <3>4. \A n \in Upto(input, i, k) : earlier(n, m)
      <4> SUFFICES ASSUME NEW n \in Mentions(input), n[1] < i \/ (n[1] = i /\ n[2] <= k)
                   PROVE  earlier(n, m)
        BY DEF Upto
      <4>1. n[1] \in Nat /\ n[2] \in Nat
        BY <2>4 DEF Mentions
      <4> QED  BY <1>0, <2>1, <4>1 DEF earlier
    <3>5. Listing(input, appendResolved(after[k], nameAt(input, m)), Upto(input, i, k) \cup {m})
      <4> HIDE DEF m
      <4> QED  BY <2>1, <2>2, <2>6, <3>4, ListingStep
    <3>6. after[k + 1] = appendResolved(after[k], nameAt(input, m))
      BY <2>2, <2>3, <2>6
    <3>7. Listing(input, after[k + 1], Upto(input, i, k + 1))
      BY <3>3, <3>5, <3>6
    <3> QED  BY <1>0, <2>1, <3>7
  <2> QED  BY <2>5, <2>6
<1>4. N \in G
  <2> HIDE DEF G, N
  <2>1. \A k \in 0..N : k \in G
    BY <1>0, <1>2, <1>3, CountUp
  <2> QED  BY <1>0, <2>1
<1>5. Upto(input, i, N) = Upto(input, i + 1, 0)
  <2>1. \A m \in Mentions(input) : m[1] \in Nat /\ m[2] \in Nat /\ m[2] > 0
                                   /\ (m[1] = i => m[2] <= N)
    BY <1>0, NamesByPlace, EntriesAreLists DEF Mentions, IsList
  <2> QED  BY <1>0, <2>1 DEF Upto
<1> QED  BY <1>1, <1>4, <1>5

\* The resolved sources are the files that are mentioned.
LEMMA ResolvedListing ==
  ASSUME NEW input, IsList(fileEntries(input))
  PROVE  Listing(input, resolveSourceFiles(input), Mentions(input))
<1> DEFINE all == fileEntries(input)
           N == Len(all)
<1>0. N \in Nat
  BY DEF IsList
<1>1. PICK after :
        /\ after[0] = <<>>
        /\ \A i \in 1..N : after[i] = appendNames(input, after[i - 1], fromEntry(all[i]))
        /\ resolveSourceFiles(input) = after[N]
  BY <1>0, EntriesOneByOne
<1>2. \A m \in Mentions(input) : m[1] \in 1..N /\ m[2] \in Nat /\ m[2] > 0
  BY <1>0, NamesByPlace, EntriesAreLists DEF Mentions, IsList
<1> DEFINE G == {i \in 0..N : Listing(input, after[i], Upto(input, i + 1, 0))}
<1>3. 0 \in G
  <2>1. after[0] = <<>>
    BY <1>0, <1>1
  <2>2. Upto(input, 1, 0) = {}
    BY <1>0, <1>2 DEF Upto
  <2>3. Listing(input, <<>>, {})
    BY DEF Listing, ToSet
  <2>4. 0 \in 0..N /\ 0 + 1 = 1
    BY <1>0
  <2>5. Listing(input, after[0], Upto(input, 0 + 1, 0))
    BY ONLY <2>1, <2>2, <2>3, <2>4
  <2> QED  BY <2>4, <2>5
<1>4. ASSUME NEW i \in 0..(N - 1), i \in G  PROVE i + 1 \in G
  <2>1. i + 1 \in 1..N /\ i + 1 \in 0..N /\ (i + 1) - 1 = i /\ i + 1 # 0
    BY <1>0
  <2>2. after[i + 1] = appendNames(input, after[i], fromEntry(all[i + 1]))
    BY <1>1, <2>1
  <2>3. Listing(input, after[i], Upto(input, i + 1, 0))
    BY <1>4
  <2>4. Listing(input, after[i + 1], Upto(input, (i + 1) + 1, 0))
    <3> HIDE DEF Listing
    <3> QED  BY <2>1, <2>2, <2>3, EntryStep
  <2> QED  BY <2>1, <2>4
<1>5. N \in G
  <2> HIDE DEF G, N
  <2>1. \A i \in 0..N : i \in G
    BY <1>0, <1>3, <1>4, CountUp
  <2> QED  BY <1>0, <2>1
<1>6. Upto(input, N + 1, 0) = Mentions(input)
  BY <1>0, <1>2 DEF Upto
<1> QED  BY <1>1, <1>5, <1>6

\* The all of an input are a list, whether they are given or discovered.
LEMMA EntriesGiven ==
  ASSUME NEW input, IsArray(input.files)
  PROVE  IsList(fileEntries(input))
<1>1. IsList(<<lexically_normal(compdbPath(input))>>)
  BY DEF IsList
<1> QED  BY <1>1, ArraysAreLists DEF fileEntries

\* Each file is there once, in the place of its first mention.
LEMMA ResolvedMentionedOnce ==
  ASSUME NEW input, IsArray(input.files)
  PROVE  /\ MentionedOnce(input, resolveSourceFiles(input))
         /\ IsList(resolveSourceFiles(input))
<1>1. Listing(input, resolveSourceFiles(input), Mentions(input))
  BY EntriesGiven, ResolvedListing
<1> DEFINE files == resolveSourceFiles(input)
<1>2. IsList(files)
  BY <1>1 DEF Listing, IsList
<1>3. ASSUME NEW i \in DOMAIN files, NEW j \in DOMAIN files, i < j
      PROVE  \E m \in {n \in Mentions(input) : file(input, n) = files[i]} :
               \A n \in {q \in Mentions(input) : file(input, q) = files[j]} : earlier(m, n)
  BY <1>1, <1>3 DEF Listing
<1> QED  BY <1>1, <1>2, <1>3 DEF Listing, MentionedOnce

\* No file of a dependency comes in through a filtered database.
LEMMA ResolvedDependencies ==
  ASSUME NEW input, IsArray(input.files)
  PROVE  NoUnwantedDependency(input, resolveSourceFiles(input))
<1> DEFINE files == resolveSourceFiles(input)
           database == lexically_normal(compdbPath(input))
<1> SUFFICES ASSUME NEW s \in DOMAIN files, hasPathSegment(files[s], "_deps"),
                    input.files = <<>>, ~input.include_compdb_deps, isManifest(database)
             PROVE  kindOf(database) = "object"
                    /\ listKey(Disk[lexically_normal(database)].value) = "none"
  BY DEF NoUnwantedDependency
<1>1. IsList(fileEntries(input)) /\ Listing(input, files, Mentions(input))
  BY EntriesGiven, ResolvedListing
<1>2. files[s] \in ToSet(files)
  BY DEF ToSet
<1>3. PICK m \in Mentions(input) : files[s] = file(input, m)
  BY <1>1, <1>2 DEF Listing
<1>4. m[1] \in 1..Len(fileEntries(input)) /\ m[2] \in DOMAIN fromEntry(fileEntries(input)[m[1]])
  BY <1>1, NamesByPlace, EntriesAreLists DEF Mentions, IsList
<1>5. autoDiscovered(input)
  <2>1. SUFFICES ASSUME ~autoDiscovered(input)  PROVE FALSE
    OBVIOUS
  <2>2. fileEntries(input) = <<>>
    BY <2>1 DEF fileEntries
  <2> QED  BY <1>4, <2>2
<1>6. fileEntries(input) = <<database>> /\ m[1] = 1
  <2>1. fileEntries(input) = <<database>>
    BY <1>5 DEF fileEntries
  <2> QED  BY <1>4, <2>1
<1> DEFINE c == fromEntry(database)[m[2]]
<1>7. ~c.looked
  <2>1. nameAt(input, m) = c
    BY <1>6 DEF nameAt
  <2>2. hasPathSegment(resolved(c), "_deps")
    BY <1>3, <2>1 DEF file
  <2>3. ~shouldSkipDependencyEntry(input, c)
    BY <2>1 DEF Mentions
  <2> QED  BY <1>5, <2>2, <2>3 DEF shouldSkipDependencyEntry, filterDependencyEntries
<1>8. m[2] \in DOMAIN fromEntry(database)
  BY <1>4, <1>6
<1>9. \A v, dir : \A k \in DOMAIN appendFromArray(v, dir) : appendFromArray(v, dir)[k].looked = TRUE
  BY DEF appendFromArray, fromItem, nameless, candidate
<1> DEFINE content == Disk[lexically_normal(database)]
           dir == parent_path(database)
<1>10. CASE kindOf(database) = "array"
  <2>1. fromEntry(database) = appendFromArray(content.value, dir)
    BY <1>10 DEF fromEntry
  <2> QED  BY <1>7, <1>8, <1>9, <2>1
<1>11. CASE kindOf(database) = "object" /\ listKey(content.value) # "none"
  <2>1. fromEntry(database) = appendFromArray(content.value[listKey(content.value)], dir)
    BY <1>11 DEF fromEntry, fromObject
  <2> QED  BY <1>7, <1>8, <1>9, <2>1
<1>12. CASE kindOf(database) \notin {"array", "object"}
  <2>1. fromEntry(database) = <<>>
    BY <1>12 DEF fromEntry
  <2> QED  BY <1>8, <2>1
<1> QED  BY <1>10, <1>11, <1>12

-----------------------------------------------------------------------------
(***************************************************************************)
(* The summary.                                                            *)
(***************************************************************************)

\* The last of some places.
LEMMA LastPlace ==
  ASSUME NEW N \in Nat, NEW S \in SUBSET (1..N), S # {}
  PROVE  Max(S) \in S
<1> DEFINE G == {n \in Nat : S \cap (1..n) = {} \/ \E x \in S : \A y \in S \cap (1..n) : x >= y}
<1>1. 0 \in G
  OBVIOUS
<1>2. ASSUME NEW n \in 0..(N - 1), n \in G  PROVE n + 1 \in G
  <2>1. CASE n + 1 \in S
    <3>1. \A y \in S \cap (1..(n + 1)) : n + 1 >= y
      OBVIOUS
    <3> QED  BY <2>1, <3>1
  <2>2. CASE n + 1 \notin S
    <3>1. S \cap (1..(n + 1)) = S \cap (1..n)
      BY <2>2
    <3> QED  BY <1>2, <3>1
  <2> QED  BY <2>1, <2>2
<1>3. N \in G
  <2> HIDE DEF G
  <2> QED  BY <1>1, <1>2, CountUp
<1>4. \E x \in S : \A y \in S : x >= y
  BY <1>3
<1> QED  BY <1>4 DEF Max

LEMMA SumsAdd ==
  ASSUME NEW s \in Summaries, NEW t \in Summaries
  PROVE  plus(s, t) \in Summaries
BY DEF Summaries, plus

LEMMA NothingIsASummary == NoSummary \in Summaries
BY DEF Summaries, NoSummary

\* Adding up the lines at some places, one after the other.
LEMMA LinesOneByOne ==
  ASSUME NEW ls, Len(ls) \in Nat, NEW places
  PROVE  \E sum :
           /\ sum[0] = NoSummary
           /\ \A k \in 1..Len(ls) :
                sum[k] = IF k \in places THEN plus(sum[k - 1], ls[k].sum) ELSE sum[k - 1]
           /\ sumOver(ls, places) = sum[Len(ls)]
<1> DEFINE N == Len(ls)
           next(x, k) == IF k \in places THEN plus(x, ls[k].sum) ELSE x
           Fits(f, n) == f = [k \in 0..n |-> IF k = 0 THEN NoSummary ELSE next(f[k - 1], k)]
           G == {n \in Nat : \E f : Fits(f, n)}
<1>1. 0 \in G
  <2>1. Fits([k \in 0..0 |-> NoSummary], 0)
    OBVIOUS
  <2> QED  BY <2>1
<1>2. ASSUME NEW n \in 0..(N - 1), n \in G  PROVE n + 1 \in G
  <2>1. PICK f : Fits(f, n)
    BY <1>2
  <2> HIDE DEF next
  <2> DEFINE g == [k \in 0..(n + 1) |-> IF k = n + 1 THEN next(f[n], n + 1) ELSE f[k]]
  <2>2. ASSUME NEW k \in 0..(n + 1)
        PROVE  g[k] = IF k = 0 THEN NoSummary ELSE next(g[k - 1], k)
    <3>1. CASE k = n + 1  BY <3>1
    <3>2. CASE k # n + 1 /\ k # 0
      <4>1. k \in 0..n /\ k - 1 \in 0..n
        BY <3>2
      <4>2. f[k] = next(f[k - 1], k)
        BY <2>1, <3>2, <4>1
      <4> QED  BY <3>2, <4>1, <4>2
    <3>3. CASE k # n + 1 /\ k = 0
      BY <2>1, <3>3
    <3> QED  BY <3>1, <3>2, <3>3
  <2>3. Fits(g, n + 1) /\ n + 1 \in Nat
    BY <2>2
  <2> HIDE DEF Fits, g
  <2> QED  BY <2>3
<1>3. N \in G
  <2> HIDE DEF G
  <2>1. \A n \in 0..N : n \in G
    BY <1>1, <1>2, CountUp
  <2> QED  BY <2>1
<1>4. sumOver(ls, places) = (CHOOSE f : Fits(f, N))[N]
  BY DEF sumOver
<1>5. Fits(CHOOSE f : Fits(f, N), N)
  BY <1>3
<1>6. PICK sum : Fits(sum, N) /\ sumOver(ls, places) = sum[N]
  <2> HIDE DEF Fits
  <2> QED  BY <1>4, <1>5
<1>7. sum[0] = NoSummary /\ \A k \in 1..N : sum[k] = next(sum[k - 1], k)
  <2> HIDE DEF next
  <2> QED  BY <1>6
<1> QED  BY <1>6, <1>7


LEMMA PrintedLines ==
  ASSUME NEW ls \in Seq(PrintedLine)
  PROVE  Len(ls) \in Nat /\ \A k \in 1..Len(ls) : ls[k].sum \in Summaries
<1>1. Len(ls) \in Nat /\ \A k \in 1..Len(ls) : ls[k] \in PrintedLine
  OBVIOUS
<1>2. \A l \in PrintedLine : l.sum \in Summaries
  BY DEF PrintedLine
<1> QED  BY <1>1, <1>2

\* The sum of summaries is one.
LEMMA SumIsASummary ==
  ASSUME NEW ls \in Seq(PrintedLine), NEW places
  PROVE  sumOver(ls, places) \in Summaries
<1>1. Len(ls) \in Nat /\ \A k \in 1..Len(ls) : ls[k].sum \in Summaries
  BY PrintedLines
<1>2. PICK sum :
        /\ sum[0] = NoSummary
        /\ \A k \in 1..Len(ls) :
             sum[k] = IF k \in places THEN plus(sum[k - 1], ls[k].sum) ELSE sum[k - 1]
        /\ sumOver(ls, places) = sum[Len(ls)]
  BY <1>1, LinesOneByOne
<1> DEFINE G == {n \in Nat : sum[n] \in Summaries}
<1>3. 0 \in G
  BY <1>2, NothingIsASummary
<1>4. ASSUME NEW n \in 0..(Len(ls) - 1), n \in G  PROVE n + 1 \in G
  <2>1. n + 1 \in 1..Len(ls) /\ (n + 1) - 1 = n
    BY <1>1
  <2>2. plus(sum[n], ls[n + 1].sum) \in Summaries
    BY <1>1, <1>4, <2>1, SumsAdd
  <2> QED  BY <1>2, <1>4, <2>1, <2>2
<1>5. Len(ls) \in G
  <2> HIDE DEF G
  <2>1. \A n \in 0..Len(ls) : n \in G
    BY <1>1, <1>3, <1>4, CountUp
  <2> QED  BY <1>1, <2>1
<1> QED  BY <1>2, <1>5

Optional(S) == {<<>>} \cup {<<s>> : s \in S}

LEMMA TextHasASummary ==
  ASSUME NEW ls \in Seq(PrintedLine)
  PROVE  parseDiagnosticsSummaryFromText(ls) \in Optional(Summaries)
<1> DEFINE totals == valid(ls, "total")
<1>1. CASE totals # {}
  <2>1. totals \in SUBSET (1..Len(ls)) /\ Len(ls) \in Nat
    BY DEF valid
  <2>2. Max(totals) \in 1..Len(ls)
    <3> HIDE DEF totals
    <3> QED  BY <1>1, <2>1, LastPlace
  <2>3. ls[Max(totals)].sum \in Summaries
    BY <2>2, PrintedLines
  <2> QED  BY <1>1, <2>3 DEF parseDiagnosticsSummaryFromText, Optional
<1>2. CASE totals = {}
  <2>1. sumOver(ls, valid(ls, "file")) \in Summaries
    BY SumIsASummary
  <2> QED  BY <1>2, <2>1 DEF parseDiagnosticsSummaryFromText, Optional
<1> QED  BY <1>1, <1>2

\* Lists have finitely many entries, so they can be counted.
LEMMA EntriesAreFinite ==
  ASSUME NEW S, NEW lists \in Seq(Seq(S))
  PROVE  IsFiniteSet(entries(lists))
<1> DEFINE of == [i \in DOMAIN lists |-> {i} \X DOMAIN lists[i]]
           T == {of[i] : i \in DOMAIN lists}
<1>0. \A n \in Nat : IsFiniteSet(1..n)
  BY FS_Interval
<1>1. DOMAIN lists = 1..Len(lists) /\ Len(lists) \in Nat
  OBVIOUS
<1>2. ASSUME NEW i \in DOMAIN lists  PROVE IsFiniteSet({i} \X DOMAIN lists[i])
  <2>1. DOMAIN lists[i] = 1..Len(lists[i]) /\ Len(lists[i]) \in Nat
    OBVIOUS
  <2>2. IsFiniteSet(DOMAIN lists[i])
    BY <2>1, <1>0
  <2> QED  BY <2>2, FS_Singleton, FS_Product
<1>3. IsFiniteSet(DOMAIN lists)
  BY <1>0, <1>1
<1>4. \A i \in DOMAIN lists : of[i] = {i} \X DOMAIN lists[i]
  OBVIOUS
<1>5. of \in Surjection(DOMAIN lists, T)
  BY DEF Surjection
<1>6. entries(lists) = UNION T
  BY DEF entries
<1> HIDE DEF of
<1>7. \A U \in T : IsFiniteSet(U)
  BY <1>2, <1>4
<1> HIDE DEF T
<1>8. IsFiniteSet(T)
  BY <1>3, <1>5, FS_Surjection
<1> QED  BY <1>6, <1>7, <1>8, FS_UNION

LEMMA DocumentHasASummary ==
  ASSUME NEW doc, doc.runs \in Seq(Seq(STRING))
  PROVE  parseDiagnosticsSummaryFromStructuredOutput(doc) \in Optional(Summaries)
<1>1. IsFiniteSet(entries(doc.runs))
  BY EntriesAreFinite
<1>2. ASSUME NEW T, T \subseteq entries(doc.runs)  PROVE Cardinality(T) \in Nat
  BY <1>1, <1>2, FS_Subset, FS_CardinalityType
<1> QED  BY <1>2 DEF parseDiagnosticsSummaryFromStructuredOutput, Optional, Summaries

\* What is read of a document is what it has been made of.
LEMMA DocumentTells ==
  ASSUME NEW doc, NEW reports, InDocument(doc, reports)
  PROVE  parseDiagnosticsSummaryFromStructuredOutput(doc) = <<truth(reports)>>
<1> DEFINE level(m) == LET given == doc.runs[m[1]][m[2]]
                       IN  IF doc.kind = "sarif" /\ given = NoLevel THEN "warning" ELSE given
           read(severity) == {m \in entries(doc.runs) : level(m) \in Spelt[severity]}
           told(severity) == {m \in entries(reports) : reports[m[1]][m[2]] = severity}
<1>1. entries(doc.runs) = entries(reports)
  BY DEF InDocument, entries
<1>2. ASSUME NEW m \in entries(reports), NEW severity \in Severities
      PROVE  level(m) \in Spelt[severity] <=> reports[m[1]][m[2]] = severity
  <2>1. m[1] \in DOMAIN reports /\ m[2] \in DOMAIN reports[m[1]]
    BY DEF entries
  <2>2. StandsFor(doc.kind, doc.runs[m[1]][m[2]], severity) <=> reports[m[1]][m[2]] = severity
    BY <2>1 DEF InDocument
  <2>3. level(m) \in Spelt[severity] <=> StandsFor(doc.kind, doc.runs[m[1]][m[2]], severity)
    <3>1. \A t \in Severities : NoLevel \notin Spelt[t] /\ ("warning" \in Spelt[t] <=> t = "warning")
      <4>1. /\ Spelt["info"] = {"info", "information", "note"}
            /\ Spelt["warning"] = {"warning", "warn", "WARNING"}
            /\ Spelt["error"] = {"error", "Error"}
        BY DEF Spelt
      <4>2. \A w : w \in Spelt["info"] => w # NoLevel /\ w # "warning"
        BY <4>1 DEF NoLevel
      <4>3. \A w : w \in Spelt["error"] => w # NoLevel /\ w # "warning"
        BY <4>1 DEF NoLevel
      <4>4. NoLevel \notin Spelt["warning"] /\ "warning" \in Spelt["warning"]
        BY <4>1 DEF NoLevel
      <4> QED  BY <4>2, <4>3, <4>4 DEF Severities
    <3> QED  BY <3>1 DEF StandsFor
  <2> QED  BY <2>2, <2>3
<1>3. \A severity \in Severities : read(severity) = told(severity)
  BY <1>1, <1>2
<1>4. doc.kind = "diagnostics" \/ (doc.kind = "sarif" /\ entries(doc.runs) # {})
  BY <1>1 DEF InDocument
<1>5. parseDiagnosticsSummaryFromStructuredOutput(doc)
        = <<[severity \in Severities |-> Cardinality(read(severity))]>>
  BY <1>4 DEF parseDiagnosticsSummaryFromStructuredOutput
<1>6. truth(reports) = [severity \in Severities |-> Cardinality(told(severity))]
  BY DEF truth
<1> HIDE DEF read, told
<1> QED  BY <1>3, <1>5, <1>6

\* Of a silent text nothing is read.
LEMMA SilenceTellsNothing ==
  ASSUME NEW text, IsSilent(text)
  PROVE  /\ parseDiagnosticsSummaryFromText(text.lines) = <<>>
         /\ parseDiagnosticsSummaryFromStructuredOutput(text.doc) = <<>>
BY DEF IsSilent, NoLines, parseDiagnosticsSummaryFromText,
       parseDiagnosticsSummaryFromStructuredOutput

\* The diagnostics of the files whose summaries are among the first n lines.
Told(reports, at, n, severity) ==
  {m \in entries(reports) : at[m[1]] <= n /\ reports[m[1]][m[2]] = severity}

\* One more file.
LEMMA OneMoreFile ==
  ASSUME NEW reports, IsReport(reports), NEW at, NEW n \in Nat,
         \A i \in DOMAIN reports : at[i] \in Nat,
         NEW f \in DOMAIN reports, at[f] = n + 1,
         \A i \in DOMAIN reports : at[i] = n + 1 => i = f, NEW severity \in Severities
  PROVE  Cardinality(Told(reports, at, n + 1, severity))
           = Cardinality(Told(reports, at, n, severity)) + ofFile(reports[f])[severity]
<1> DEFINE D == {j \in DOMAIN reports[f] : reports[f][j] = severity}
           A == Told(reports, at, n, severity)
           B == {f} \X D
<1>1. IsFiniteSet(entries(reports))
  BY EntriesAreFinite DEF IsReport
<1>2. IsFiniteSet(A)
  BY <1>1, FS_Subset DEF Told
<1>3. IsFiniteSet(D)
  <2>1. DOMAIN reports[f] = 1..Len(reports[f]) /\ Len(reports[f]) \in Nat
    BY DEF IsReport
  <2>2. IsFiniteSet(DOMAIN reports[f])
    BY <2>1, FS_Interval
  <2> QED  BY <2>2, FS_Subset
<1>4. Told(reports, at, n + 1, severity) = A \cup B
  <2>1. \A i \in DOMAIN reports : at[i] <= n + 1 <=> at[i] <= n \/ i = f
    OBVIOUS
  <2>2. \A m : m \in entries(reports) <=> \E i \in DOMAIN reports : \E j \in DOMAIN reports[i] : m = <<i, j>>
    BY DEF entries
  <2> QED  BY <2>1, <2>2 DEF Told
<1>5. A \cap B = {}
  BY DEF Told
<1>6. ofFile(reports[f])[severity] = Cardinality(D)
  BY DEF ofFile
<1> HIDE DEF A, D
<1>7. IsFiniteSet(B) /\ Cardinality(B) = Cardinality(D)
  <2>1. IsFiniteSet({f}) /\ Cardinality({f}) = 1
    BY FS_Singleton
  <2>2. IsFiniteSet(B) /\ Cardinality(B) = Cardinality({f}) * Cardinality(D)
    BY <1>3, <2>1, FS_Product
  <2>3. Cardinality(D) \in Nat
    BY <1>3, FS_CardinalityType
  <2> QED  BY <2>1, <2>2, <2>3
<1> HIDE DEF B
<1>8. Cardinality(A \cup B) = Cardinality(A) + Cardinality(B) - 0
  BY <1>2, <1>5, <1>7, FS_Union, FS_EmptySet
<1>9. Cardinality(A) \in Nat /\ Cardinality(B) \in Nat
  BY <1>2, <1>7, FS_CardinalityType
<1>10. Cardinality(Told(reports, at, n, severity)) = Cardinality(A)
  BY DEF A
<1>11. Cardinality(Told(reports, at, n + 1, severity)) = Cardinality(A \cup B)
  BY <1>4
<1>12. Cardinality(A \cup B) = Cardinality(A) + Cardinality(D)
  BY <1>7, <1>8, <1>9
<1> QED  BY <1>6, <1>10, <1>11, <1>12

\* The summaries of the files add up to what has been reported.
LEMMA FilesAddUp ==
  ASSUME NEW ls \in Seq(PrintedLine), NEW reports, IsReport(reports), NEW at,
         at \in Bijection(DOMAIN reports, valid(ls, "file")),
         \A i \in DOMAIN reports : ls[at[i]].sum = ofFile(reports[i])
  PROVE  sumOver(ls, valid(ls, "file")) = truth(reports)
<1> DEFINE places == valid(ls, "file")
           N == Len(ls)
<1>1. N \in Nat /\ \A k \in 1..N : ls[k].sum \in Summaries
  BY PrintedLines
<1>2. PICK sum :
        /\ sum[0] = NoSummary
        /\ \A k \in 1..N : sum[k] = IF k \in places THEN plus(sum[k - 1], ls[k].sum) ELSE sum[k - 1]
        /\ sumOver(ls, places) = sum[N]
  BY <1>1, LinesOneByOne
<1>3. /\ \A i \in DOMAIN reports : at[i] \in places
      /\ \A i, j \in DOMAIN reports : at[i] = at[j] => i = j
      /\ \A k \in places : \E i \in DOMAIN reports : at[i] = k
  BY DEF Bijection, Injection, Surjection, IsInjective
<1>4. places \subseteq 1..N
  BY DEF valid
<1>4a. \A i \in DOMAIN reports : at[i] \in Nat /\ 1 <= at[i] /\ at[i] <= N
  <2>1. \A i \in DOMAIN reports : at[i] \in 1..N
    <3> HIDE DEF places, N
    <3> QED  BY <1>3, <1>4
  <2> QED  BY <1>1, <2>1
<1> HIDE DEF places, N
<1> DEFINE G == {n \in Nat : sum[n] = [severity \in Severities |->
                                         Cardinality(Told(reports, at, n, severity))]}
<1>5. 0 \in G
  <2>1. \A severity \in Severities : Told(reports, at, 0, severity) = {}
    <3>1. \A m \in entries(reports) : m[1] \in DOMAIN reports
      BY DEF entries
    <3> QED  BY <1>4a, <3>1 DEF Told
  <2> QED  BY <1>2, <2>1, FS_EmptySet DEF NoSummary
<1>6. ASSUME NEW n \in 0..(N - 1), n \in G  PROVE n + 1 \in G
  <2>0. n + 1 \in 1..N /\ (n + 1) - 1 = n /\ n \in Nat
    BY <1>1
  <2>1. CASE n + 1 \in places
    <3>1. PICK f \in DOMAIN reports : at[f] = n + 1
      BY <1>3, <2>1
    <3>2. \A i \in DOMAIN reports : at[i] \in Nat /\ (at[i] = n + 1 => i = f)
      BY <1>3, <1>4a, <3>1
    <3>3. \A severity \in Severities :
            Cardinality(Told(reports, at, n + 1, severity))
              = Cardinality(Told(reports, at, n, severity)) + ofFile(reports[f])[severity]
      BY <2>0, <3>1, <3>2, OneMoreFile
    <3>4. sum[n + 1] = plus(sum[n], ofFile(reports[f]))
      BY <1>2, <2>0, <2>1, <3>1
    <3>5. \A severity \in Severities :
            plus(sum[n], ofFile(reports[f]))[severity]
              = Cardinality(Told(reports, at, n, severity)) + ofFile(reports[f])[severity]
      BY <1>6 DEF plus
    <3>6. plus(sum[n], ofFile(reports[f]))
            = [severity \in Severities |-> plus(sum[n], ofFile(reports[f]))[severity]]
      BY DEF plus
    <3> QED  BY <2>0, <3>3, <3>4, <3>5, <3>6
  <2>2. CASE n + 1 \notin places
    <3>1. \A i \in DOMAIN reports : at[i] <= n + 1 <=> at[i] <= n
      <4>1. \A i \in DOMAIN reports : at[i] # n + 1
        BY <1>3, <2>2
      <4> QED  BY <1>4a, <2>0, <4>1
    <3>2. \A severity \in Severities : Told(reports, at, n + 1, severity) = Told(reports, at, n, severity)
      <4>1. \A m \in entries(reports) : m[1] \in DOMAIN reports
        BY DEF entries
      <4> QED  BY <3>1, <4>1 DEF Told
    <3>3. sum[n + 1] = sum[n]
      BY <1>2, <2>0, <2>2
    <3> QED  BY <1>6, <2>0, <3>2, <3>3
  <2> QED  BY <2>1, <2>2
<1>7. N \in G
  <2> HIDE DEF G
  <2>1. \A n \in 0..N : n \in G
    BY <1>1, <1>5, <1>6, CountUp
  <2> QED  BY <1>1, <2>1
<1>8. \A severity \in Severities :
        Told(reports, at, N, severity)
          = {m \in entries(reports) : reports[m[1]][m[2]] = severity}
  <2>1. \A m \in entries(reports) : at[m[1]] <= N
    <3>1. \A m \in entries(reports) : m[1] \in DOMAIN reports
      BY DEF entries
    <3> QED  BY <1>4a, <3>1
  <2> QED  BY <2>1 DEF Told
<1> QED  BY <1>2, <1>7, <1>8 DEF truth, places

LEMMA LinesTell ==
  ASSUME NEW ls \in Seq(PrintedLine), NEW reports, IsReport(reports), InLines(ls, reports)
  PROVE  parseDiagnosticsSummaryFromText(ls) = <<truth(reports)>>
<1> DEFINE totals == valid(ls, "total")
<1>1. CASE totals # {}
  <2>1. totals \in SUBSET (1..Len(ls)) /\ Len(ls) \in Nat
    BY DEF valid
  <2>2. Max(totals) \in totals
    <3> HIDE DEF totals
    <3> QED  BY <1>1, <2>1, LastPlace
  <2> QED  BY <1>1, <2>2 DEF parseDiagnosticsSummaryFromText, InLines
<1>2. CASE totals = {}
  <2>1. valid(ls, "file") # {} /\ sumOver(ls, valid(ls, "file")) = truth(reports)
    BY <1>2, FilesAddUp DEF InLines
  <2> QED  BY <1>2, <2>1 DEF parseDiagnosticsSummaryFromText
<1> QED  BY <1>1, <1>2

\* What a text tells is read of its lines or its document.
LEMMA TextTells ==
  ASSUME NEW text, IsPrinted(text), NEW reports, IsReport(reports), Tells(text, reports)
  PROVE  \/ parseDiagnosticsSummaryFromText(text.lines) = <<truth(reports)>>
         \/ /\ parseDiagnosticsSummaryFromText(text.lines) = <<>>
            /\ parseDiagnosticsSummaryFromStructuredOutput(text.doc) = <<truth(reports)>>
<1>1. CASE InLines(text.lines, reports)
  BY <1>1, LinesTell DEF IsPrinted
<1>2. CASE NoLines(text.lines) /\ InDocument(text.doc, reports)
  BY <1>2, DocumentTells DEF NoLines, parseDiagnosticsSummaryFromText
<1> QED  BY <1>1, <1>2 DEF Tells

\* The last summary is what the analyzer has reported.
LEMMA TheSummaryIsTold ==
  ASSUME NEW print, IsPrinted(print.out), IsPrinted(print.err), Rendered(print)
  PROVE  lastDiagnosticsSummary(print.out, print.err) = truth(print.reports)
<1> DEFINE a == parseDiagnosticsSummaryFromText(print.out.lines)
           b == parseDiagnosticsSummaryFromStructuredOutput(print.out.doc)
           c == parseDiagnosticsSummaryFromText(print.err.lines)
           d == parseDiagnosticsSummaryFromStructuredOutput(print.err.doc)
           t == truth(print.reports)
<1>1. lastDiagnosticsSummary(print.out, print.err)
        = IF a \o b \o c \o d = <<>> THEN NoSummary ELSE Head(a \o b \o c \o d)
  BY DEF lastDiagnosticsSummary
<1>2. /\ a \in Optional(Summaries) /\ c \in Optional(Summaries)
      /\ b \in Optional(Summaries) /\ d \in Optional(Summaries)
  BY TextHasASummary, DocumentHasASummary DEF IsPrinted
<1>3. \/ a = <<t>> \/ (a = <<>> /\ b = <<t>>)
      \/ a = <<>> /\ b = <<>> /\ (c = <<t>> \/ (c = <<>> /\ d = <<t>>))
      \/ a = <<>> /\ b = <<>> /\ c = <<>> /\ d = <<>> /\ entries(print.reports) = {}
  BY TextTells, SilenceTellsNothing DEF Rendered
<1>4. entries(print.reports) = {} => t = NoSummary
  <2>1. entries(print.reports) = {} =>
          \A severity \in Severities :
            {m \in entries(print.reports) : print.reports[m[1]][m[2]] = severity} = {}
    OBVIOUS
  <2> QED  BY <2>1, FS_EmptySet DEF truth, NoSummary
<1> HIDE DEF a, b, c, d, t
<1>5. \A s \in Optional(Summaries) : s \in Seq(Summaries)
  <2>1. <<>> \in Seq(Summaries) /\ \A s \in Summaries : <<s>> \in Seq(Summaries)
    OBVIOUS
  <2> QED  BY <2>1 DEF Optional
<1>6. ASSUME NEW x \in Seq(Summaries), NEW y \in Seq(Summaries)
      PROVE  /\ x \o y \in Seq(Summaries)
             /\ x = <<t>> => x \o y # <<>> /\ Head(x \o y) = t
             /\ x = <<>> => x \o y = y
             /\ y = <<>> => x \o y = x
             /\ x # <<>> => x \o y # <<>> /\ Head(x \o y) = Head(x)
  <2>1. /\ x \o y \in Seq(Summaries) /\ Len(x \o y) = Len(x) + Len(y)
        /\ Len(x) \in Nat /\ Len(y) \in Nat
        /\ Len(x) > 0 => (x \o y)[1] = x[1]
    OBVIOUS
  <2>2. x = <<>> => x \o y = y
    OBVIOUS
  <2>3. y = <<>> => x \o y = x
    OBVIOUS
  <2>4. x # <<>> => Len(x) > 0 /\ Head(x) = x[1]
    OBVIOUS
  <2>5. Len(x \o y) > 0 => x \o y # <<>> /\ Head(x \o y) = (x \o y)[1]
    BY <2>1
  <2>6. x # <<>> => x \o y # <<>> /\ Head(x \o y) = Head(x)
    BY <2>1, <2>4, <2>5
  <2>7. x = <<t>> => x # <<>> /\ Head(x) = t
    OBVIOUS
  <2> QED  BY <2>1, <2>2, <2>3, <2>6, <2>7
<1>7. /\ a \in Seq(Summaries) /\ b \in Seq(Summaries)
      /\ c \in Seq(Summaries) /\ d \in Seq(Summaries)
  BY <1>2, <1>5
<1>8. <<t>> # <<>> /\ Head(<<t>>) = t
  OBVIOUS
<1>9. a \o b \in Seq(Summaries) /\ a \o b \o c \in Seq(Summaries)
  BY <1>6, <1>7
<1>10. CASE a = <<t>> \/ (a = <<>> /\ b = <<t>>)
  <2>1. a \o b # <<>> /\ Head(a \o b) = t
    BY <1>6, <1>7, <1>8, <1>10
  <2>2. a \o b \o c # <<>> /\ Head(a \o b \o c) = t
    BY <1>6, <1>7, <1>9, <2>1
  <2>3. a \o b \o c \o d # <<>> /\ Head(a \o b \o c \o d) = t
    BY <1>6, <1>7, <1>9, <2>2
  <2> QED  BY <1>1, <2>3 DEF t
<1>11. CASE a = <<>> /\ b = <<>> /\ (c = <<t>> \/ (c = <<>> /\ d = <<t>>))
  <2>1. a \o b = <<>>
    BY <1>6, <1>7, <1>11
  <2>2. a \o b \o c = c
    BY <1>6, <1>7, <1>9, <2>1
  <2>3. c \o d # <<>> /\ Head(c \o d) = t
    BY <1>6, <1>7, <1>8, <1>11
  <2> QED  BY <1>1, <2>2, <2>3 DEF t
<1>12. CASE a = <<>> /\ b = <<>> /\ c = <<>> /\ d = <<>> /\ entries(print.reports) = {}
  <2>1. a \o b = <<>>
    BY <1>6, <1>7, <1>12
  <2>2. a \o b \o c = <<>>
    BY <1>6, <1>7, <1>9, <1>12, <2>1
  <2>3. a \o b \o c \o d = <<>>
    BY <1>6, <1>7, <1>9, <1>12, <2>2
  <2> QED  BY <1>1, <1>4, <1>12, <2>3 DEF t
<1> QED  BY <1>3, <1>10, <1>11, <1>12

-----------------------------------------------------------------------------
(***************************************************************************)
(* Lists put together.                                                     *)
(***************************************************************************)

\* FlattenSeq, one sequence after the other.
LEMMA FlattenOneByOne ==
  ASSUME NEW T, NEW ss \in Seq(Seq(T))
  PROVE  \E flat :
           /\ flat[0] = <<>>
           /\ \A k \in 1..Len(ss) : flat[k] = flat[k - 1] \o ss[k]
           /\ FlattenSeq(ss) = flat[Len(ss)]
<1> DEFINE N == Len(ss)
           next(s, i) == s \o ss[i]
           Fits(f, n) == f = [i \in 1..n |-> IF i = 1 THEN ss[i] ELSE next(f[i - 1], i)]
           G == {n \in Nat : \E f : Fits(f, n)}
<1>0. N \in Nat
  OBVIOUS
<1>1. 0 \in G
  <2>1. Fits(<<>>, 0)
    OBVIOUS
  <2> QED  BY <2>1
<1>2. ASSUME NEW n \in 0..(N - 1), n \in G  PROVE n + 1 \in G
  <2>1. PICK f : Fits(f, n)
    BY <1>2
  <2> HIDE DEF next
  <2> DEFINE last == IF n = 0 THEN ss[1] ELSE next(f[n], n + 1)
             g == [k \in 1..(n + 1) |-> IF k = n + 1 THEN last ELSE f[k]]
  <2>2. ASSUME NEW k \in 1..(n + 1)
        PROVE  g[k] = IF k = 1 THEN ss[k] ELSE next(g[k - 1], k)
    <3>1. CASE k = n + 1
      BY <3>1, <1>0
    <3>2. CASE k # n + 1 /\ k # 1
      <4>1. k \in 1..n /\ k - 1 \in 1..n
        BY <3>2
      <4>2. f[k] = next(f[k - 1], k)
        BY <2>1, <3>2, <4>1
      <4> QED  BY <3>2, <4>1, <4>2
    <3>3. CASE k # n + 1 /\ k = 1
      BY <2>1, <3>3
    <3> QED  BY <3>1, <3>2, <3>3
  <2>3. Fits(g, n + 1) /\ n + 1 \in Nat
    <3> HIDE DEF last
    <3> QED  BY <2>2
  <2> HIDE DEF Fits, g
  <2> QED  BY <2>3
<1>3. N \in G
  <2> HIDE DEF G
  <2>1. \A n \in 0..N : n \in G
    BY <1>0, <1>1, <1>2, CountUp
  <2> QED  BY <1>0, <2>1
<1>4. N # 0 => FlattenSeq(ss) = (CHOOSE f : Fits(f, N))[N]
  BY DEF FlattenSeq
<1>5. Fits(CHOOSE f : Fits(f, N), N)
  BY <1>3
<1>6. PICK f : Fits(f, N) /\ (N # 0 => FlattenSeq(ss) = f[N])
  <2> HIDE DEF Fits
  <2> QED  BY <1>4, <1>5
<1> DEFINE flat == [k \in 0..N |-> IF k = 0 THEN <<>> ELSE f[k]]
<1>7. flat[0] = <<>>
  BY <1>0
<1>8. ASSUME NEW k \in 1..N  PROVE flat[k] = flat[k - 1] \o ss[k]
  <2>1. ss[k] \in Seq(T) /\ <<>> \o ss[k] = ss[k]
    OBVIOUS
  <2>2. k \in 0..N /\ k - 1 \in 0..N
    BY <1>0
  <2>3. f[k] = IF k = 1 THEN ss[k] ELSE f[k - 1] \o ss[k]
    BY <1>6
  <2>4. flat[k] = f[k] /\ flat[k - 1] = IF k = 1 THEN <<>> ELSE f[k - 1]
    BY <2>2
  <2> HIDE DEF flat
  <2> QED  BY <2>1, <2>3, <2>4
<1>9. FlattenSeq(ss) = flat[N]
  <2>1. CASE N = 0
    <3>1. ss = <<>>
      BY <2>1
    <3> QED  BY <2>1, <3>1 DEF FlattenSeq
  <2>2. CASE N # 0
    <3>1. flat[N] = f[N]
      BY <1>0, <2>2
    <3> HIDE DEF flat
    <3> QED  BY <1>6, <2>2, <3>1
  <2> QED  BY <2>1, <2>2
<1> QED
  <2> HIDE DEF flat
  <2> QED  BY <1>7, <1>8, <1>9

\* What holds of the empty sequence, and still holds when one of the
\* sequences is appended, holds of all of them put together.
LEMMA FlattenIn ==
  ASSUME NEW T, NEW ss \in Seq(Seq(T)), NEW H, <<>> \in H,
         \A k \in 1..Len(ss) : \A s \in H : s \o ss[k] \in H
  PROVE  FlattenSeq(ss) \in H
<1>1. PICK flat :
        /\ flat[0] = <<>>
        /\ \A k \in 1..Len(ss) : flat[k] = flat[k - 1] \o ss[k]
        /\ FlattenSeq(ss) = flat[Len(ss)]
  BY FlattenOneByOne
<1> DEFINE G == {n \in Nat : flat[n] \in H}
<1>2. 0 \in G
  BY <1>1
<1>3. ASSUME NEW n \in 0..(Len(ss) - 1), n \in G  PROVE n + 1 \in G
  <2>1. n + 1 \in 1..Len(ss) /\ (n + 1) - 1 = n /\ n + 1 \in Nat
    OBVIOUS
  <2> QED  BY <1>1, <1>3, <2>1
<1>4. Len(ss) \in G
  <2> HIDE DEF G
  <2>0. Len(ss) \in Nat
    OBVIOUS
  <2>1. \A n \in 0..Len(ss) : n \in G
    BY <2>0, <1>2, <1>3, CountUp
  <2> QED  BY <2>0, <2>1
<1> QED  BY <1>1, <1>4

LEMMA FlattenType ==
  ASSUME NEW T, NEW ss \in Seq(Seq(T))
  PROVE  FlattenSeq(ss) \in Seq(T)
<1>1. <<>> \in Seq(T) /\ \A k \in 1..Len(ss) : \A s \in Seq(T) : s \o ss[k] \in Seq(T)
  OBVIOUS
<1> QED  BY <1>1, FlattenIn

\* Empty sequences add nothing.
LEMMA FlattenEmpty ==
  ASSUME NEW T, NEW ss \in Seq(Seq(T)), \A k \in 1..Len(ss) : ss[k] = <<>>
  PROVE  FlattenSeq(ss) = <<>>
<1> DEFINE H == {<<>>}
<1>1. <<>> \in H /\ \A k \in 1..Len(ss) : \A s \in H : s \o ss[k] \in H
  OBVIOUS
<1>2. FlattenSeq(ss) \in H
  <2> HIDE DEF H
  <2> QED  BY <1>1, FlattenIn
<1> QED  BY <1>2

\* If only one of the sequences is not empty, it is what remains.
LEMMA FlattenOne ==
  ASSUME NEW T, NEW ss \in Seq(Seq(T)), NEW i \in 1..Len(ss),
         \A k \in 1..Len(ss) : k # i => ss[k] = <<>>
  PROVE  FlattenSeq(ss) = ss[i]
<1>1. PICK flat :
        /\ flat[0] = <<>>
        /\ \A k \in 1..Len(ss) : flat[k] = flat[k - 1] \o ss[k]
        /\ FlattenSeq(ss) = flat[Len(ss)]
  BY FlattenOneByOne
<1> DEFINE G == {n \in Nat : flat[n] = IF n < i THEN <<>> ELSE ss[i]}
<1>2. 0 \in G
  BY <1>1
<1>3. ASSUME NEW n \in 0..(Len(ss) - 1), n \in G  PROVE n + 1 \in G
  <2>1. n + 1 \in 1..Len(ss) /\ (n + 1) - 1 = n /\ n + 1 \in Nat
    OBVIOUS
  <2>2. flat[n + 1] = flat[n] \o ss[n + 1]
    BY <1>1, <2>1
  <2>3. ss[i] \in Seq(T) /\ ss[i] \o <<>> = ss[i] /\ <<>> \o ss[i] = ss[i] /\ <<>> \o <<>> = <<>>
    OBVIOUS
  <2>4. flat[n] = IF n < i THEN <<>> ELSE ss[i]
    BY <1>3
  <2>5. CASE n + 1 = i
    <3>1. flat[n] = <<>>
      BY <1>3, <2>4, <2>5
    <3>2. flat[n + 1] = ss[i]
      BY <2>2, <2>3, <2>5, <3>1
    <3> QED  BY <2>1, <2>5, <3>2
  <2>6. CASE n + 1 # i
    <3>1. ss[n + 1] = <<>>
      BY <2>1, <2>6
    <3>2. n < i <=> n + 1 < i
      BY <2>6
    <3> QED  BY <2>1, <2>2, <2>3, <2>4, <3>1, <3>2
  <2> QED  BY <2>5, <2>6
<1>4. Len(ss) \in G
  <2> HIDE DEF G
  <2>0. Len(ss) \in Nat
    OBVIOUS
  <2>1. \A n \in 0..Len(ss) : n \in G
    BY <2>0, <1>2, <1>3, CountUp
  <2> QED  BY <2>0, <2>1
<1> QED  BY <1>1, <1>4

-----------------------------------------------------------------------------
(***************************************************************************)
(* The reading of a command line.                                          *)
(***************************************************************************)

\* The readings on the way, one word after the other.
Traces(after, o, read, words) ==
  /\ after[0] = read
  /\ \A k \in 1..Len(words) : after[k] = readWord(o, after[k - 1], words[k])
  /\ readOn(o, read, words) = after[Len(words)]

LEMMA ReadOneByOne ==
  ASSUME NEW o, NEW read, NEW words, Len(words) \in Nat
  PROVE  \E after : Traces(after, o, read, words)
<1> DEFINE N == Len(words)
           next(x, k) == readWord(o, x, words[k])
           Fits(f, n) == f = [k \in 0..n |-> IF k = 0 THEN read ELSE next(f[k - 1], k)]
           G == {n \in Nat : \E f : Fits(f, n)}
<1>1. 0 \in G
  <2>1. Fits([k \in 0..0 |-> read], 0)
    OBVIOUS
  <2> QED  BY <2>1
<1>2. ASSUME NEW n \in 0..(N - 1), n \in G  PROVE n + 1 \in G
  <2>1. PICK f : Fits(f, n)
    BY <1>2
  <2> HIDE DEF next
  <2> DEFINE g == [k \in 0..(n + 1) |-> IF k = n + 1 THEN next(f[n], n + 1) ELSE f[k]]
  <2>2. ASSUME NEW k \in 0..(n + 1)
        PROVE  g[k] = IF k = 0 THEN read ELSE next(g[k - 1], k)
    <3>1. CASE k = n + 1  BY <3>1
    <3>2. CASE k # n + 1 /\ k # 0
      <4>1. k \in 0..n /\ k - 1 \in 0..n
        BY <3>2
      <4>2. f[k] = next(f[k - 1], k)
        BY <2>1, <3>2, <4>1
      <4> QED  BY <3>2, <4>1, <4>2
    <3>3. CASE k # n + 1 /\ k = 0
      BY <2>1, <3>3
    <3> QED  BY <3>1, <3>2, <3>3
  <2>3. Fits(g, n + 1) /\ n + 1 \in Nat
    BY <2>2
  <2> HIDE DEF Fits, g
  <2> QED  BY <2>3
<1>3. N \in G
  <2> HIDE DEF G
  <2>1. \A n \in 0..N : n \in G
    BY <1>1, <1>2, CountUp
  <2> QED  BY <2>1
<1>4. readOn(o, read, words) = (CHOOSE f : Fits(f, N))[N]
  BY DEF readOn
<1>5. Fits(CHOOSE f : Fits(f, N), N)
  BY <1>3
<1>6. PICK after : Fits(after, N) /\ readOn(o, read, words) = after[N]
  <2> HIDE DEF Fits
  <2> QED  BY <1>4, <1>5
<1>7. after[0] = read /\ \A k \in 1..N : after[k] = next(after[k - 1], k)
  <2> HIDE DEF next
  <2> QED  BY <1>6
<1> QED  BY <1>6, <1>7 DEF Traces

LEMMA ReadNothing ==
  ASSUME NEW o, NEW read
  PROVE  readOn(o, read, <<>>) = read
<1>1. PICK after : Traces(after, o, read, <<>>)
  BY ReadOneByOne
<1> QED  BY <1>1 DEF Traces

LEMMA ReadOne ==
  ASSUME NEW o, NEW read, NEW w
  PROVE  readOn(o, read, <<w>>) = readWord(o, read, w)
<1>1. Len(<<w>>) = 1 /\ <<w>>[1] = w
  OBVIOUS
<1>2. PICK after : Traces(after, o, read, <<w>>)
  BY <1>1, ReadOneByOne
<1> QED  BY <1>1, <1>2 DEF Traces

\* Reading on where one has stopped.
LEMMA ReadBoth ==
  ASSUME NEW W, NEW u \in Seq(W), NEW v \in Seq(W), NEW o, NEW read
  PROVE  readOn(o, read, u \o v) = readOn(o, readOn(o, read, u), v)
<1> DEFINE M == Len(u)
           N == Len(v)
<1>1. M \in Nat /\ N \in Nat /\ Len(u \o v) = M + N
  OBVIOUS
<1>p. PICK all, first, second : /\ Traces(all, o, read, u \o v)
                               /\ Traces(first, o, read, u)
                               /\ Traces(second, o, readOn(o, read, u), v)
  <2>1. Len(u \o v) \in Nat /\ Len(u) \in Nat /\ Len(v) \in Nat
    OBVIOUS
  <2> QED  BY <2>1, ReadOneByOne
<1>2. /\ all[0] = read
      /\ \A k \in 1..(M + N) : all[k] = readWord(o, all[k - 1], (u \o v)[k])
      /\ readOn(o, read, u \o v) = all[M + N]
  BY <1>1, <1>p DEF Traces
<1>3. /\ first[0] = read
      /\ \A k \in 1..M : first[k] = readWord(o, first[k - 1], u[k])
      /\ readOn(o, read, u) = first[M]
  BY <1>p DEF Traces
<1>4. /\ second[0] = first[M]
      /\ \A k \in 1..N : second[k] = readWord(o, second[k - 1], v[k])
      /\ readOn(o, readOn(o, read, u), v) = second[N]
  BY <1>3, <1>p DEF Traces
<1> HIDE DEF M, N
<1>5. all[M] = first[M]
  <2> DEFINE G == {n \in Nat : all[n] = first[n]}
  <2>1. 0 \in G
    BY <1>2, <1>3
  <2>2. ASSUME NEW n \in 0..(M - 1), n \in G  PROVE n + 1 \in G
    <3>1. n + 1 \in 1..M /\ n + 1 \in 1..(M + N) /\ (n + 1) - 1 = n /\ n + 1 \in Nat
      BY <1>1
    <3>2. (u \o v)[n + 1] = u[n + 1]
      BY <3>1 DEF M
    <3> QED  BY <1>2, <1>3, <2>2, <3>1, <3>2
  <2>3. M \in G
    <3> HIDE DEF G
    <3>1. \A n \in 0..M : n \in G
      BY <1>1, <2>1, <2>2, CountUp
    <3> QED  BY <1>1, <3>1
  <2> QED  BY <2>3
<1>6. all[M + N] = second[N]
  <2> DEFINE G == {n \in Nat : all[M + n] = second[n]}
  <2>1. 0 \in G
    BY <1>1, <1>4, <1>5
  <2>2. ASSUME NEW n \in 0..(N - 1), n \in G  PROVE n + 1 \in G
    <3>1. /\ n + 1 \in 1..N /\ M + (n + 1) \in 1..(M + N) /\ (n + 1) - 1 = n /\ n + 1 \in Nat
          /\ (M + (n + 1)) - 1 = M + n
      BY <1>1
    <3>2. (u \o v)[M + (n + 1)] = v[n + 1]
      BY <1>1, <3>1 DEF M, N
    <3> QED  BY <1>2, <1>4, <2>2, <3>1, <3>2
  <2>3. N \in G
    <3> HIDE DEF G
    <3>1. \A n \in 0..N : n \in G
      BY <1>1, <2>1, <2>2, CountUp
    <3> QED  BY <1>1, <3>1
  <2> QED  BY <2>3
<1> QED  BY <1>2, <1>3, <1>4, <1>6

\* The words of texts; that an option is a string is what the provers do
\* not know.
Words(T) == [kind : {"option", "glued", "text"},
             option : STRING \cup AnalyzerOptions \cup {NoOption}, text : T]

\* What is read behind what one knows already is added to it.
LEMMA ReadBehind ==
  ASSUME NEW T, NEW words \in Seq(Words(T)), NEW o, NEW ts \in Seq(T), NEW ins \in Seq(T)
  PROVE  LET read == parseArguments(o, words)
         IN  /\ read = Reading(read.waiting, read.texts, read.inputs)
             /\ read.texts \in Seq(T) /\ read.inputs \in Seq(T)
             /\ readOn(o, Reading(NoOption, ts, ins), words)
                  = Reading(read.waiting, ts \o read.texts, ins \o read.inputs)
<1> DEFINE N == Len(words)
<1>1. N \in Nat
  OBVIOUS
<1>p. PICK e, a : /\ Traces(e, o, Reading(NoOption, <<>>, <<>>), words)
                  /\ Traces(a, o, Reading(NoOption, ts, ins), words)
  BY <1>1, ReadOneByOne
<1>2. /\ e[0] = Reading(NoOption, <<>>, <<>>)
      /\ \A k \in 1..N : e[k] = readWord(o, e[k - 1], words[k])
      /\ parseArguments(o, words) = e[N]
  BY <1>p DEF parseArguments, Traces
<1>3. /\ a[0] = Reading(NoOption, ts, ins)
      /\ \A k \in 1..N : a[k] = readWord(o, a[k - 1], words[k])
      /\ readOn(o, Reading(NoOption, ts, ins), words) = a[N]
  BY <1>p DEF Traces
<1> HIDE DEF N
<1> DEFINE G == {n \in Nat : \E q, x, y :
                   /\ x \in Seq(T) /\ y \in Seq(T)
                   /\ e[n] = Reading(q, x, y) /\ a[n] = Reading(q, ts \o x, ins \o y)}
<1>4. 0 \in G
  <2>1. <<>> \in Seq(T) /\ ts \o <<>> = ts /\ ins \o <<>> = ins
    OBVIOUS
  <2> QED  BY <1>2, <1>3, <2>1
<1>5. ASSUME NEW n \in 0..(N - 1), n \in G  PROVE n + 1 \in G
  <2>1. PICK q, x, y : /\ x \in Seq(T) /\ y \in Seq(T)
                       /\ e[n] = Reading(q, x, y) /\ a[n] = Reading(q, ts \o x, ins \o y)
    BY <1>5
  <2>2. n + 1 \in 1..N /\ (n + 1) - 1 = n /\ n + 1 \in Nat
    BY <1>1
  <2>3. PICK w \in Words(T) : w = words[n + 1]
    BY <2>2 DEF N
  <2>4. e[n + 1] = readWord(o, Reading(q, x, y), w)
    BY <1>2, <2>1, <2>2, <2>3
  <2>5. a[n + 1] = readWord(o, Reading(q, ts \o x, ins \o y), w)
    BY <1>3, <2>1, <2>2, <2>3
  <2>6. w.text \in T
    BY DEF Words
  <2>7. /\ Append(x, w.text) \in Seq(T) /\ ts \o Append(x, w.text) = Append(ts \o x, w.text)
        /\ Append(y, w.text) \in Seq(T) /\ ins \o Append(y, w.text) = Append(ins \o y, w.text)
    <3>1. \A z \in Seq(T), zs \in Seq(T), v \in T :
            Append(z, v) \in Seq(T) /\ zs \o Append(z, v) = Append(zs \o z, v)
      BY ONLY SMTT(20)
    <3> QED  BY <2>1, <2>6, <3>1
  <2>8. \E q1, x1, y1 :
          /\ x1 \in Seq(T) /\ y1 \in Seq(T)
          /\ e[n + 1] = Reading(q1, x1, y1) /\ a[n + 1] = Reading(q1, ts \o x1, ins \o y1)
    BY <2>1, <2>4, <2>5, <2>7, ZenonT(40) DEF readWord, Reading
  <2> QED  BY <2>2, <2>8
<1>6. N \in G
  <2> HIDE DEF G
  <2>1. \A n \in 0..N : n \in G
    BY <1>1, <1>4, <1>5, CountUp
  <2> QED  BY <1>1, <2>1
<1>7. PICK q, x, y : /\ x \in Seq(T) /\ y \in Seq(T)
                     /\ e[N] = Reading(q, x, y) /\ a[N] = Reading(q, ts \o x, ins \o y)
  BY <1>6
<1>8. e[N].waiting = q /\ e[N].texts = x /\ e[N].inputs = y
  BY <1>7 DEF Reading
<1> QED  BY <1>2, <1>3, <1>7, <1>8

\* What is read of the parts of a command line, one behind the other.
LEMMA ReadInParts ==
  ASSUME NEW T, NEW u \in Seq(Words(T)), NEW v \in Seq(Words(T)), NEW o,
         parseArguments(o, u).waiting = NoOption
  PROVE  LET first == parseArguments(o, u)
             second == parseArguments(o, v)
         IN  parseArguments(o, u \o v)
               = Reading(second.waiting, first.texts \o second.texts,
                         first.inputs \o second.inputs)
<1> DEFINE first == parseArguments(o, u)
           second == parseArguments(o, v)
<1>1. <<>> \in Seq(T)
  OBVIOUS
<1>2. first = Reading(NoOption, first.texts, first.inputs)
      /\ first.texts \in Seq(T) /\ first.inputs \in Seq(T)
  BY <1>1, ReadBehind
<1>3. readOn(o, Reading(NoOption, first.texts, first.inputs), v)
        = Reading(second.waiting, first.texts \o second.texts, first.inputs \o second.inputs)
  <2> HIDE DEF first
  <2> QED  BY <1>2, ReadBehind
<1>4. parseArguments(o, u \o v) = readOn(o, first, v)
  BY ReadBoth DEF parseArguments
<1> HIDE DEF first, second
<1>5. readOn(o, first, v)
        = Reading(second.waiting, first.texts \o second.texts, first.inputs \o second.inputs)
  BY <1>2, <1>3
<1> QED  BY <1>4, <1>5 DEF first, second

LEMMA AFunctionIsASequence ==
  ASSUME NEW W, NEW N \in Nat, NEW f \in [1..N -> W]
  PROVE  f \in Seq(W) /\ Len(f) = N
OBVIOUS

LEMMA TwoOfThem ==
  ASSUME NEW W, NEW w \in W, NEW x \in W
  PROVE  <<w>> \in Seq(W) /\ <<x>> \in Seq(W) /\ <<w, x>> \in Seq(W) /\ <<w>> \o <<x>> = <<w, x>>
<1>1. <<w>> \in Seq(W) /\ <<x>> \in Seq(W)
  OBVIOUS
<1>2. <<w, x>> \in [1..2 -> W]
  OBVIOUS
<1>3. <<w, x>> = Append(<<w>>, x)
  OBVIOUS
<1>4. Append(<<w>>, x) = <<w>> \o <<x>>
  OBVIOUS
<1> QED  BY <1>1, <1>2, <1>3, <1>4, AFunctionIsASequence

\* Words from which only texts of option o are read.
Adds(T, o, piece, ts) ==
  /\ piece \in Seq(Words(T)) /\ ts \in Seq(T)
  /\ parseArguments(o, piece) = Reading(NoOption, ts, <<>>)

LEMMA AddsNothing ==
  ASSUME NEW T, NEW o
  PROVE  Adds(T, o, <<>>, <<>>)
BY ReadNothing DEF Adds, parseArguments

LEMMA AddsBoth ==
  ASSUME NEW T, NEW o, NEW p, NEW q, NEW s, NEW t, Adds(T, o, p, s), Adds(T, o, q, t)
  PROVE  Adds(T, o, p \o q, s \o t)
<1>1. parseArguments(o, p).waiting = NoOption /\ parseArguments(o, p).texts = s
      /\ parseArguments(o, p).inputs = <<>>
  BY DEF Adds, Reading
<1>2. parseArguments(o, q).waiting = NoOption /\ parseArguments(o, q).texts = t
      /\ parseArguments(o, q).inputs = <<>>
  BY DEF Adds, Reading
<1>3. p \in Seq(Words(T)) /\ q \in Seq(Words(T)) /\ s \in Seq(T) /\ t \in Seq(T)
  BY DEF Adds
<1>4. parseArguments(o, p \o q) = Reading(NoOption, s \o t, <<>> \o <<>>)
  <2>1. parseArguments(o, p).waiting = NoOption
    BY <1>1
  <2>2. parseArguments(o, p \o q)
          = Reading(parseArguments(o, q).waiting,
                    parseArguments(o, p).texts \o parseArguments(o, q).texts,
                    parseArguments(o, p).inputs \o parseArguments(o, q).inputs)
    BY ONLY <1>3, <2>1, ReadInParts
  <2> QED  BY ONLY <1>1, <1>2, <2>2
<1>5. <<>> \o <<>> = <<>> /\ p \o q \in Seq(Words(T)) /\ s \o t \in Seq(T)
  BY <1>3
<1> QED  BY <1>4, <1>5 DEF Adds

\* The pieces of a list.
LEMMA AddsAll ==
  ASSUME NEW T, NEW o, NEW ps, NEW ts, NEW N \in Nat,
         ps = [k \in 1..N |-> ps[k]], ts = [k \in 1..N |-> ts[k]],
         \A k \in 1..N : Adds(T, o, ps[k], ts[k])
  PROVE  Adds(T, o, FlattenSeq(ps), FlattenSeq(ts))
<1>1. ps \in Seq(Seq(Words(T))) /\ ts \in Seq(Seq(T)) /\ Len(ps) = N /\ Len(ts) = N
  <2>1. \A k \in 1..N : ps[k] \in Seq(Words(T)) /\ ts[k] \in Seq(T)
    BY DEF Adds
  <2>2. ps \in [1..N -> Seq(Words(T))] /\ ts \in [1..N -> Seq(T)]
    <3>1. [k \in 1..N |-> ps[k]] \in [1..N -> Seq(Words(T))]
      BY <2>1
    <3>2. [k \in 1..N |-> ts[k]] \in [1..N -> Seq(T)]
      BY <2>1
    <3> QED  BY <3>1, <3>2, Zenon
  <2> QED  BY <2>2, AFunctionIsASequence
<1>2. PICK p : /\ p[0] = <<>>
               /\ \A k \in 1..N : p[k] = p[k - 1] \o ps[k]
               /\ FlattenSeq(ps) = p[N]
  <2>1. \E p : /\ p[0] = <<>>
               /\ \A k \in 1..Len(ps) : p[k] = p[k - 1] \o ps[k]
               /\ FlattenSeq(ps) = p[Len(ps)]
    BY <1>1, FlattenOneByOne
  <2> QED  BY <1>1, <2>1
<1>3. PICK t : /\ t[0] = <<>>
               /\ \A k \in 1..N : t[k] = t[k - 1] \o ts[k]
               /\ FlattenSeq(ts) = t[N]
  <2>1. \E t : /\ t[0] = <<>>
               /\ \A k \in 1..Len(ts) : t[k] = t[k - 1] \o ts[k]
               /\ FlattenSeq(ts) = t[Len(ts)]
    BY <1>1, FlattenOneByOne
  <2> QED  BY <1>1, <2>1
<1> DEFINE G == {n \in Nat : Adds(T, o, p[n], t[n])}
<1>4. 0 \in G
  BY <1>2, <1>3, AddsNothing
<1>5. ASSUME NEW n \in 0..(N - 1), n \in G  PROVE n + 1 \in G
  <2>1. n + 1 \in 1..N /\ (n + 1) - 1 = n /\ n + 1 \in Nat
    OBVIOUS
  <2>2. p[n + 1] = p[n] \o ps[n + 1] /\ t[n + 1] = t[n] \o ts[n + 1]
    BY <1>2, <1>3, <2>1
  <2>3. Adds(T, o, p[n] \o ps[n + 1], t[n] \o ts[n + 1])
    BY <1>5, <2>1, AddsBoth
  <2> QED  BY <2>1, <2>2, <2>3
<1>6. N \in G
  <2> HIDE DEF G
  <2>1. \A n \in 0..N : n \in G
    BY <1>4, <1>5, CountUp
  <2> QED  BY <2>1
<1> QED  BY <1>2, <1>3, <1>6

\* No option is none.
LEMMA OptionsAreOptions == NoOption \notin AnalyzerOptions
BY DEF NoOption, AnalyzerOptions, Flags, Single, Repeated, Joined, Switches, ToSet, Modes,
       Values, Numbers, Filters, Toggles

\* The pieces buildAnalyzerArgs puts together.
LEMMA AddsGlued ==
  ASSUME NEW T, NoText \in T, NEW o \in AnalyzerOptions,
         NEW option \in AnalyzerOptions, NEW t \in T
  PROVE  Adds(T, o, <<Glued(option, t)>>, IF o = option THEN <<t>> ELSE <<>>)
<1> DEFINE w == Glued(option, t)
<1>1. w \in Words(T) /\ <<w>> \in Seq(Words(T)) /\ (IF o = option THEN <<t>> ELSE <<>>) \in Seq(T)
  BY DEF Glued, Words
<1>2. parseArguments(o, <<w>>) = readWord(o, Reading(NoOption, <<>>, <<>>), w)
  BY ReadOne DEF parseArguments
<1>3. readWord(o, Reading(NoOption, <<>>, <<>>), w)
        = Reading(NoOption, IF o = option THEN <<t>> ELSE <<>>, <<>>)
  BY OptionsAreOptions DEF readWord, Reading, Glued
<1> QED  BY <1>1, <1>2, <1>3 DEF Adds

LEMMA AddsFlag ==
  ASSUME NEW T, NoText \in T, NEW o \in AnalyzerOptions,
         NEW option \in AnalyzerOptions \ TakesValue, NEW enabled \in BOOLEAN
  PROVE  Adds(T, o, appendFlagOption(option, enabled),
              IF o = option /\ enabled THEN <<NoText>> ELSE <<>>)
<1> DEFINE w == Opt(option)
<1>1. w \in Words(T) /\ <<w>> \in Seq(Words(T)) /\ (IF o = option THEN <<NoText>> ELSE <<>>) \in Seq(T)
  BY DEF Opt, Words
<1>2. parseArguments(o, <<w>>) = readWord(o, Reading(NoOption, <<>>, <<>>), w)
  BY ReadOne DEF parseArguments
<1>3. readWord(o, Reading(NoOption, <<>>, <<>>), w)
        = Reading(NoOption, IF o = option THEN <<NoText>> ELSE <<>>, <<>>)
  BY OptionsAreOptions DEF readWord, Reading, Opt
<1>4. Adds(T, o, <<w>>, IF o = option THEN <<NoText>> ELSE <<>>)
  BY <1>1, <1>2, <1>3 DEF Adds
<1> QED  BY <1>4, AddsNothing DEF appendFlagOption

\* An option that takes a value, with its value.
LEMMA AddsPair ==
  ASSUME NEW T, NoText \in T, NEW o \in AnalyzerOptions,
         NEW option \in AnalyzerOptions \cap TakesValue, NEW t \in T
  PROVE  Adds(T, o, <<Opt(option), Text(t)>>, IF o = option THEN <<t>> ELSE <<>>)
<1> DEFINE w == Opt(option)
           x == Text(t)
           ts == IF o = option THEN <<t>> ELSE <<>>
<1>1. w \in Words(T) /\ x \in Words(T) /\ ts \in Seq(T)
  <2>2. w \in Words(T)
    BY DEF Opt, Words
  <2>3. x \in Words(T)
    BY DEF Text, Words
  <2>4. ts \in Seq(T)
    OBVIOUS
  <2> QED  BY <2>2, <2>3, <2>4
<1>2. readOn(o, Reading(NoOption, <<>>, <<>>), <<w>>) = Reading(option, <<>>, <<>>)
  <2>1. readWord(o, Reading(NoOption, <<>>, <<>>), w) = Reading(option, <<>>, <<>>)
    BY OptionsAreOptions DEF readWord, Reading, Opt
  <2> QED  BY <2>1, ReadOne
<1>3. readOn(o, Reading(option, <<>>, <<>>), <<x>>) = Reading(NoOption, ts, <<>>)
  <2>1. readWord(o, Reading(option, <<>>, <<>>), x) = Reading(NoOption, ts, <<>>)
    <3>1. Append(<<>>, t) = <<t>>
      OBVIOUS
    <3> QED  BY <3>1, OptionsAreOptions DEF readWord, Reading, Text
  <2> QED  BY <2>1, ReadOne
<1> HIDE DEF w, x, ts
<1>4. <<w>> \in Seq(Words(T)) /\ <<x>> \in Seq(Words(T)) /\ <<w, x>> \in Seq(Words(T))
      /\ <<w>> \o <<x>> = <<w, x>>
  BY <1>1, TwoOfThem
<1>5. readOn(o, Reading(NoOption, <<>>, <<>>), <<w, x>>) = Reading(NoOption, ts, <<>>)
  <2>1. readOn(o, Reading(NoOption, <<>>, <<>>), <<w>> \o <<x>>)
          = readOn(o, readOn(o, Reading(NoOption, <<>>, <<>>), <<w>>), <<x>>)
    <3> DEFINE W == Words(T)
               u == <<w>>
               v == <<x>>
    <3>1. u \in Seq(W) /\ v \in Seq(W)
      BY <1>4
    <3> HIDE DEF W, u, v
    <3>2. \A read : readOn(o, read, u \o v) = readOn(o, readOn(o, read, u), v)
      BY <3>1, ReadBoth
    <3> QED  BY <3>2 DEF u, v
  <2> QED  BY <1>2, <1>3, <1>4, <2>1
<1>6. Adds(T, o, <<w, x>>, ts)
  BY <1>1, <1>4, <1>5 DEF Adds, parseArguments
<1> QED  BY <1>6 DEF w, x, ts

\* A value is under its option unless it is empty.
LEMMA AddsValue ==
  ASSUME NEW T, NoText \in T, NEW o \in AnalyzerOptions,
         NEW option \in AnalyzerOptions \cap TakesValue, NEW t \in T
  PROVE  Adds(T, o, appendValueOption(option, t),
              IF o = option /\ t # NoText THEN <<t>> ELSE <<>>)
<1>1. Adds(T, o, <<Opt(option), Text(t)>>, IF o = option THEN <<t>> ELSE <<>>)
  BY AddsPair
<1> QED  BY <1>1, AddsNothing DEF appendValueOption

\* A list that is filled is filled text by text.
LEMMA FilledOneByOne ==
  ASSUME NEW T, NoText \in T, NEW list \in Seq(T)
  PROVE  filled(list, NoText)
           = FlattenSeq([i \in 1..Len(list) |-> IF list[i] = NoText THEN <<>> ELSE <<list[i]>>])
<1>1. DOMAIN list = 1..Len(list)
  OBVIOUS
<1> QED  BY <1>1 DEF filled, Concat

LEMMA FilledAlone ==
  ASSUME NEW T, NoText \in T, NEW t \in T
  PROVE  filled(<<t>>, NoText) = IF t = NoText THEN <<>> ELSE <<t>>
<1> DEFINE ss == [i \in 1..1 |-> IF <<t>>[i] = NoText THEN <<>> ELSE <<t>>]
<1>1. filled(<<t>>, NoText) = FlattenSeq(ss)
  <2>1. <<t>> \in Seq(T) /\ Len(<<t>>) = 1 /\ <<t>>[1] = t
    OBVIOUS
  <2>2. ss = [i \in 1..1 |-> IF <<t>>[i] = NoText THEN <<>> ELSE <<<<t>>[i]>>]
    BY <2>1
  <2> QED  BY <2>1, <2>2, FilledOneByOne
<1>2. ss[1] = IF t = NoText THEN <<>> ELSE <<t>>
  OBVIOUS
<1>3. ss \in [1..1 -> Seq(T)]
  OBVIOUS
<1>4. ss \in Seq(Seq(T)) /\ Len(ss) = 1
  <2> HIDE DEF ss
  <2> QED  BY <1>3, AFunctionIsASequence
<1> HIDE DEF ss
<1>5. FlattenSeq(ss) = ss[1]
  <2>1. 1 \in 1..Len(ss) /\ \A k \in 1..Len(ss) : k # 1 => ss[k] = <<>>
    BY <1>4
  <2> QED  BY <1>4, <2>1, FlattenOne
<1> QED  BY <1>1, <1>2, <1>5

\* The texts of a list that is given under one option, text by text.
LEMMA AddsTexts ==
  ASSUME NEW T, NoText \in T, NEW o, NEW option, NEW list \in Seq(T), NEW piece,
         DOMAIN piece = DOMAIN list, piece = [i \in DOMAIN list |-> piece[i]],
         \A i \in DOMAIN list :
           Adds(T, o, piece[i], IF o = option /\ list[i] # NoText THEN <<list[i]>> ELSE <<>>)
  PROVE  Adds(T, o, FlattenSeq(piece), IF o = option THEN filled(list, NoText) ELSE <<>>)
<1> DEFINE N == Len(list)
           ts == [i \in 1..N |-> IF o = option /\ list[i] # NoText THEN <<list[i]>> ELSE <<>>]
<1>1. DOMAIN list = 1..N /\ N \in Nat
  OBVIOUS
<1>2. ts = [k \in 1..N |-> ts[k]]
  OBVIOUS
<1>3. \A k \in 1..N : Adds(T, o, piece[k], ts[k])
  BY <1>1
<1>4. piece = [k \in 1..N |-> piece[k]]
  BY <1>1
<1>5. Adds(T, o, FlattenSeq(piece), FlattenSeq(ts))
  <2> HIDE DEF ts, N
  <2> QED  BY <1>1, <1>2, <1>3, <1>4, AddsAll
<1>6. FlattenSeq(ts) = IF o = option THEN filled(list, NoText) ELSE <<>>
  <2>1. CASE o = option
    <3>1. ts = [i \in 1..N |-> IF list[i] = NoText THEN <<>> ELSE <<list[i]>>]
      BY <2>1
    <3> QED  BY <2>1, <3>1, FilledOneByOne
  <2>2. CASE o # option
    <3>1. \A k \in 1..N : ts[k] = <<>>
      BY <2>2
    <3>2. ts \in [1..N -> Seq(T)]
      BY <2>2
    <3> HIDE DEF ts, N
    <3>3. ts \in Seq(Seq(T)) /\ Len(ts) = N
      BY <1>1, <3>2, AFunctionIsASequence
    <3>4. FlattenSeq(ts) = <<>>
      BY <3>1, <3>3, FlattenEmpty
    <3> QED  BY <2>2, <3>4
  <2> QED  BY <2>1, <2>2
<1> QED  BY <1>5, <1>6

\* A list under an option that takes a value, and under one it is glued to.
LEMMA AddsFilter ==
  ASSUME NEW T, NoText \in T, NEW o \in AnalyzerOptions,
         NEW option \in AnalyzerOptions \cap TakesValue, NEW list \in Seq(T)
  PROVE  Adds(T, o, FlattenSeq([i \in DOMAIN list |-> appendValueOption(option, list[i])]),
              IF o = option THEN filled(list, NoText) ELSE <<>>)
<1> DEFINE piece == [i \in DOMAIN list |-> appendValueOption(option, list[i])]
<1>1. \A i \in DOMAIN list :
        Adds(T, o, piece[i], IF o = option /\ list[i] # NoText THEN <<list[i]>> ELSE <<>>)
  BY AddsValue
<1>2. DOMAIN piece = DOMAIN list /\ piece = [i \in DOMAIN list |-> piece[i]]
  OBVIOUS
<1> HIDE DEF piece
<1>3. Adds(T, o, FlattenSeq(piece), IF o = option THEN filled(list, NoText) ELSE <<>>)
  BY <1>1, <1>2, AddsTexts
<1> QED  BY <1>3 DEF piece

LEMMA AddsGluedTexts ==
  ASSUME NEW T, NoText \in T, NEW o \in AnalyzerOptions,
         NEW option \in AnalyzerOptions, NEW list \in Seq(T)
  PROVE  Adds(T, o, FlattenSeq([i \in DOMAIN list |->
                                  IF list[i] = NoText THEN <<>> ELSE <<Glued(option, list[i])>>]),
              IF o = option THEN filled(list, NoText) ELSE <<>>)
<1> DEFINE piece == [i \in DOMAIN list |->
                       IF list[i] = NoText THEN <<>> ELSE <<Glued(option, list[i])>>]
<1>1. ASSUME NEW i \in DOMAIN list
      PROVE  Adds(T, o, piece[i], IF o = option /\ list[i] # NoText THEN <<list[i]>> ELSE <<>>)
  <2>1. list[i] \in T
    OBVIOUS
  <2>2. CASE list[i] = NoText
    BY <2>2, AddsNothing
  <2>3. CASE list[i] # NoText
    <3>1. Adds(T, o, <<Glued(option, list[i])>>, IF o = option THEN <<list[i]>> ELSE <<>>)
      BY <2>1, AddsGlued
    <3> QED  BY <2>3, <3>1
  <2> QED  BY <2>2, <2>3
<1>2. DOMAIN piece = DOMAIN list /\ piece = [i \in DOMAIN list |-> piece[i]]
  OBVIOUS
<1> HIDE DEF piece
<1>3. Adds(T, o, FlattenSeq(piece), IF o = option THEN filled(list, NoText) ELSE <<>>)
  BY <1>1, <1>2, AddsTexts
<1> QED  BY <1>3 DEF piece

\* A joined list.
LEMMA AddsJoined ==
  ASSUME NEW T, Seq(STRING) \subseteq T, NoText \in T, NEW o \in AnalyzerOptions,
         NEW option \in AnalyzerOptions \cap TakesValue, NEW items \in Seq(Seq(STRING))
  PROVE  Adds(T, o, appendCsv(option, items),
              IF o = option /\ items # <<>> THEN <<joinCsv(items)>> ELSE <<>>)
<1>1. joinCsv(items) \in T
  BY FlattenType DEF joinCsv
<1>2. Adds(T, o, <<Opt(option), Text(joinCsv(items))>>,
           IF o = option THEN <<joinCsv(items)>> ELSE <<>>)
  BY <1>1, AddsPair
<1> QED  BY <1>2, AddsNothing DEF appendCsv


\* A piece of a command line that gives the options in S what M says, and
\* the others nothing.
Gives(T, piece, S, M) ==
  \A o \in AnalyzerOptions : Adds(T, o, piece, IF o \in S THEN M[o] ELSE <<>>)

LEMMA GivesBoth ==
  ASSUME NEW T, NEW M, NEW p, NEW q, NEW S, NEW R, S \cap R = {},
         Gives(T, p, S, M), Gives(T, q, R, M)
  PROVE  Gives(T, p \o q, S \cup R, M)
<1> SUFFICES ASSUME NEW o \in AnalyzerOptions
             PROVE  Adds(T, o, p \o q, IF o \in S \cup R THEN M[o] ELSE <<>>)
  BY DEF Gives
<1>1. Adds(T, o, p, IF o \in S THEN M[o] ELSE <<>>) /\ Adds(T, o, q, IF o \in R THEN M[o] ELSE <<>>)
  BY DEF Gives
<1>2. Adds(T, o, p \o q, (IF o \in S THEN M[o] ELSE <<>>) \o (IF o \in R THEN M[o] ELSE <<>>))
  BY <1>1, AddsBoth
<1>3. CASE o \in S
  <2>1. M[o] \in Seq(T)
    BY <1>1, <1>3 DEF Adds
  <2>2. M[o] \o <<>> = M[o]
    BY <2>1
  <2> QED  BY <1>2, <1>3, <2>2
<1>4. CASE o \notin S /\ o \in R
  <2>1. M[o] \in Seq(T)
    BY <1>1, <1>4 DEF Adds
  <2>2. <<>> \o M[o] = M[o]
    BY <2>1
  <2> QED  BY <1>2, <1>4, <2>2
<1>5. CASE o \notin S /\ o \notin R
  <2>1. <<>> \o <<>> = <<>>
    OBVIOUS
  <2> QED  BY <1>2, <1>5, <2>1
<1> QED  BY <1>3, <1>4, <1>5

\* The pieces of options that differ.
LEMMA GivesAll ==
  ASSUME NEW T, NEW M, NEW N \in Nat, NEW ps, ps = [k \in 1..N |-> ps[k]], NEW S,
         \A k \in 1..N : Gives(T, ps[k], S[k], M),
         \A j, k \in 1..N : j # k => S[j] \cap S[k] = {},
         NEW U, \A o : o \in U <=> \E k \in 1..N : o \in S[k]
  PROVE  Gives(T, FlattenSeq(ps), U, M)
<1> SUFFICES ASSUME NEW o \in AnalyzerOptions
             PROVE  Adds(T, o, FlattenSeq(ps),
                         IF o \in U THEN M[o] ELSE <<>>)
  BY DEF Gives
<1> DEFINE ts == [k \in 1..N |-> IF o \in S[k] THEN M[o] ELSE <<>>]
<1>1. \A k \in 1..N : Adds(T, o, ps[k], ts[k])
  BY DEF Gives
<1>2. ts \in [1..N -> Seq(T)]
  <2>1. \A k \in 1..N : ts[k] \in Seq(T)
    <3> HIDE DEF ts
    <3> QED  BY <1>1 DEF Adds
  <2> QED  BY <2>1
<1>3. ts \in Seq(Seq(T)) /\ Len(ts) = N
  <2> HIDE DEF ts
  <2> QED  BY <1>2, AFunctionIsASequence
<1>4. FlattenSeq(ts) = IF o \in U THEN M[o] ELSE <<>>
  <2>1. CASE o \in U
    <3>1. PICK i \in 1..N : o \in S[i]
      BY <2>1
    <3>2. \A k \in 1..N : k # i => o \notin S[k]
      BY <3>1
    <3>3. ts[i] = M[o] /\ \A k \in 1..N : k # i => ts[k] = <<>>
      BY <3>1, <3>2
    <3> HIDE DEF ts
    <3>4. FlattenSeq(ts) = ts[i]
      BY <1>3, <3>3, FlattenOne
    <3> QED  BY <2>1, <3>3, <3>4
  <2>2. CASE o \notin U
    <3>1. \A k \in 1..N : ts[k] = <<>>
      BY <2>2
    <3> HIDE DEF ts
    <3>2. FlattenSeq(ts) = <<>>
      BY <1>3, <3>1, FlattenEmpty
    <3> QED  BY <2>2, <3>2
  <2> QED  BY <2>1, <2>2
<1>5. ts = [k \in 1..N |-> ts[k]]
  OBVIOUS
<1>6. Adds(T, o, FlattenSeq(ps), FlattenSeq(ts))
  <2> HIDE DEF ts
  <2> QED  BY <1>1, <1>5, AddsAll
<1> QED  BY <1>4, <1>6

\* The inputs are read as inputs.
LEMMA InputsAreRead ==
  ASSUME NEW T, NEW o, NEW inputs \in Seq(T)
  PROVE  LET texts == [i \in DOMAIN inputs |-> Text(inputs[i])]
         IN  texts \in Seq(Words(T)) /\ parseArguments(o, texts) = Reading(NoOption, <<>>, inputs)
<1> DEFINE texts == [i \in DOMAIN inputs |-> Text(inputs[i])]
           N == Len(inputs)
<1>1. DOMAIN inputs = 1..N /\ N \in Nat /\ \A k \in 1..N : inputs[k] \in T
  OBVIOUS
<1>2. texts \in Seq(Words(T)) /\ Len(texts) = N
  <2>1. \A t \in T : Text(t) \in Words(T)
    BY DEF Text, Words
  <2>2. texts \in [1..N -> Words(T)]
    BY <1>1, <2>1
  <2> HIDE DEF texts, N
  <2> QED  BY <1>1, <2>2, AFunctionIsASequence
<1>3. \A k \in 1..N : texts[k] = Text(inputs[k])
  BY <1>1
<1> HIDE DEF texts
<1>4. PICK after : Traces(after, o, Reading(NoOption, <<>>, <<>>), texts)
  BY <1>1, <1>2, ReadOneByOne
<1>5. /\ after[0] = Reading(NoOption, <<>>, <<>>)
      /\ \A k \in 1..N : after[k] = readWord(o, after[k - 1], Text(inputs[k]))
      /\ parseArguments(o, texts) = after[N]
  BY <1>2, <1>3, <1>4 DEF Traces, parseArguments
<1> DEFINE first(n) == [k \in 1..n |-> inputs[k]]
           G == {n \in Nat : after[n] = Reading(NoOption, <<>>, first(n))}
<1>6. 0 \in G
  <2>1. first(0) = <<>>
    OBVIOUS
  <2> QED  BY <1>5, <2>1
<1>7. ASSUME NEW n \in 0..(N - 1), n \in G  PROVE n + 1 \in G
  <2>1. n + 1 \in 1..N /\ (n + 1) - 1 = n /\ n + 1 \in Nat
    BY <1>1
  <2>2. after[n + 1] = readWord(o, Reading(NoOption, <<>>, first(n)), Text(inputs[n + 1]))
    BY <1>5, <1>7, <2>1
  <2>3. readWord(o, Reading(NoOption, <<>>, first(n)), Text(inputs[n + 1]))
          = Reading(NoOption, <<>>, Append(first(n), inputs[n + 1]))
    <3> HIDE DEF first
    <3> QED  BY DEF readWord, Reading, Text
  <2>4. Append(first(n), inputs[n + 1]) = first(n + 1)
    <3>1. first(n) \in [1..n -> T] /\ first(n + 1) \in [1..(n + 1) -> T]
      BY <1>1, <2>1
    <3>2. first(n) \in Seq(T) /\ Len(first(n)) = n
      <4> HIDE DEF first
      <4> QED  BY <2>1, <3>1, AFunctionIsASequence
    <3>3. first(n + 1) \in Seq(T) /\ Len(first(n + 1)) = n + 1
      <4> HIDE DEF first
      <4> QED  BY <2>1, <3>1, AFunctionIsASequence
    <3>4. \A k \in 1..(n + 1) : first(n + 1)[k] = IF k = n + 1 THEN inputs[n + 1] ELSE first(n)[k]
      BY <2>1
    <3> HIDE DEF first
    <3>5. inputs[n + 1] \in T
      BY <1>1, <2>1
    <3> DEFINE s == Append(first(n), inputs[n + 1])
    <3>6. s \in Seq(T) /\ Len(s) = n + 1
      BY <3>2, <3>5
    <3>7. \A k \in 1..(n + 1) : s[k] = IF k = n + 1 THEN inputs[n + 1] ELSE first(n)[k]
      BY <2>1, <3>2, <3>5
    <3> HIDE DEF s
    <3>8. s = first(n + 1)
      BY <3>3, <3>4, <3>6, <3>7, SeqEqual
    <3> QED  BY <3>8 DEF s
  <2> QED  BY <2>1, <2>2, <2>3, <2>4
<1>8. N \in G
  <2> HIDE DEF G
  <2>1. \A n \in 0..N : n \in G
    BY <1>1, <1>6, <1>7, CountUp
  <2> QED  BY <1>1, <2>1
<1>9. first(N) = inputs
  BY <1>1
<1>10. parseArguments(o, texts) = Reading(NoOption, <<>>, inputs)
  BY <1>5, <1>8, <1>9
<1> QED  BY <1>2, <1>10 DEF texts

-----------------------------------------------------------------------------
\* The options by their names.
LEMMA TheOptions ==
  /\ ToSet(Modes) = {"--verbose", "--demangle", "--quiet", "--include-compdb-deps", "--compdb-fast",
                     "--STL", "--warnings-only", "--dump-filter"}
  /\ ToSet(Values) = {"--analysis-profile", "--compile-commands", "--jobs",
                      "--resource-summary-cache-dir", "--compile-ir-cache-dir",
                      "--compile-ir-format", "--dump-ir", "--base-dir", "--resource-model",
                      "--escape-model", "--buffer-model", "--smt", "--smt-backend",
                      "--smt-secondary-backend", "--smt-mode"}
  /\ ToSet(Filters) = {"--only-file", "--only-dir", "--exclude-dir"}
  /\ ToSet(Numbers) = {"--stack-limit", "--smt-timeout-ms", "--smt-budget-nodes"}
  /\ Switches = {"--resource-cross-tu", "--no-resource-cross-tu",
                 "--uninitialized-cross-tu", "--no-uninitialized-cross-tu"}
<1>1. ToSet(Modes) = {"--verbose", "--demangle", "--quiet", "--include-compdb-deps", "--compdb-fast",
                     "--STL", "--warnings-only", "--dump-filter"}
  BY DEF Modes, ToSet
<1>2. ToSet(Values) = {"--analysis-profile", "--compile-commands", "--jobs",
                      "--resource-summary-cache-dir", "--compile-ir-cache-dir",
                      "--compile-ir-format", "--dump-ir", "--base-dir", "--resource-model",
                      "--escape-model", "--buffer-model", "--smt", "--smt-backend",
                      "--smt-secondary-backend", "--smt-mode"}
  BY DEF Values, ToSet
<1>3. ToSet(Filters) = {"--only-file", "--only-dir", "--exclude-dir"}
  BY DEF Filters, ToSet
<1>4. ToSet(Numbers) = {"--stack-limit", "--smt-timeout-ms", "--smt-budget-nodes"}
  BY DEF Numbers, ToSet
<1>5. Switches = {"--resource-cross-tu", "--no-resource-cross-tu",
                 "--uninitialized-cross-tu", "--no-uninitialized-cross-tu"}
  BY DEF Toggles, ToSet, Switches
<1> QED  BY <1>1, <1>2, <1>3, <1>4, <1>5

\* No option is listed twice.
LEMMA ListedOnce ==
  /\ \A j, k \in DOMAIN Modes : j # k => Modes[j] # Modes[k]
  /\ \A j, k \in DOMAIN Values : j # k => Values[j] # Values[k]
  /\ \A j, k \in DOMAIN Filters : j # k => Filters[j] # Filters[k]
  /\ \A j, k \in DOMAIN Numbers : j # k => Numbers[j] # Numbers[k]
<1>1. \A j, k \in DOMAIN Modes : j # k => Modes[j] # Modes[k]
  BY DEF Modes
<1>2. \A j, k \in DOMAIN Values : j # k => Values[j] # Values[k]
  BY DEF Values
<1>3. \A j, k \in DOMAIN Filters : j # k => Filters[j] # Filters[k]
  BY DEF Filters
<1>4. \A j, k \in DOMAIN Numbers : j # k => Numbers[j] # Numbers[k]
  BY DEF Numbers
<1> QED  BY <1>1, <1>2, <1>3, <1>4

\* An option is of one sort.
LEMMA OneSort ==
  ASSUME NEW o
  PROVE  /\ o \in Flags => o \notin TakesValue \cup Single \cup Repeated \cup Joined \cup Switches
         /\ o \in Single => o \in TakesValue \ (Flags \cup Repeated \cup Joined \cup Switches)
         /\ o \in Repeated => o \notin Flags \cup Single \cup Joined \cup Switches
         /\ o \in ToSet(Filters) \cup {"--compile-arg"} => o \in TakesValue
         /\ o \in Joined => o \in TakesValue \ (Flags \cup Single \cup Repeated \cup Switches)
         /\ o \in Switches => o \notin TakesValue \cup Flags \cup Single \cup Repeated \cup Joined
         /\ o \in {"--mode", "--format", "--only-function"} =>
              o \notin Flags \cup Single \cup Repeated \cup Joined \cup Switches
BY TheOptions DEF TakesValue, Flags, Single, Repeated, Joined

MeantBy(settings) == [o \in AnalyzerOptions |-> Meant(settings, o)]

\* Each piece of the command line gives its options what the settings mean.
LEMMA GivesFlag ==
  ASSUME NEW T, NoText \in T, NEW settings, NEW option \in Flags
  PROVE  Gives(T, appendFlagOption(option, is(settings, option)), {option}, MeantBy(settings))
<1>1. option \in AnalyzerOptions \ TakesValue
  BY OneSort DEF AnalyzerOptions
<1>2. is(settings, option) \in BOOLEAN
  BY DEF is
<1>3. MeantBy(settings)[option] = IF is(settings, option) THEN <<NoText>> ELSE <<>>
  BY <1>1, OneSort DEF MeantBy, Meant
<1>4. ASSUME NEW o \in AnalyzerOptions
      PROVE  Adds(T, o, appendFlagOption(option, is(settings, option)),
                  IF o \in {option} THEN MeantBy(settings)[o] ELSE <<>>)
  <2>1. Adds(T, o, appendFlagOption(option, is(settings, option)),
             IF o = option /\ is(settings, option) THEN <<NoText>> ELSE <<>>)
    BY <1>1, <1>2, AddsFlag
  <2> QED  BY <1>3, <2>1
<1> QED  BY <1>4 DEF Gives

LEMMA GivesValue ==
  ASSUME NEW T, NoText \in T, NEW settings, IsSettings(settings, T), NEW option \in Single
  PROVE  Gives(T, appendValueOption(option, get(settings, option, NoText)), {option},
               MeantBy(settings))
<1> DEFINE t == get(settings, option, NoText)
<1>1. option \in AnalyzerOptions \cap TakesValue
  BY OneSort DEF AnalyzerOptions
<1>2. t \in T
  BY DEF IsSettings, get, is
<1>3. MeantBy(settings)[option] = filled(<<t>>, NoText)
  BY <1>1, OneSort DEF MeantBy, Meant
<1> HIDE DEF t
<1>4. filled(<<t>>, NoText) = IF t = NoText THEN <<>> ELSE <<t>>
  BY <1>2, FilledAlone
<1>5. ASSUME NEW o \in AnalyzerOptions
      PROVE  Adds(T, o, appendValueOption(option, t),
                  IF o \in {option} THEN MeantBy(settings)[o] ELSE <<>>)
  <2>1. Adds(T, o, appendValueOption(option, t),
             IF o = option /\ t # NoText THEN <<t>> ELSE <<>>)
    BY <1>1, <1>2, AddsValue
  <2> QED  BY <1>3, <1>4, <2>1
<1> QED  BY <1>5 DEF Gives, t

LEMMA GivesFilter ==
  ASSUME NEW T, NoText \in T, NEW settings, IsSettings(settings, T),
         NEW option \in ToSet(Filters) \cup {"--compile-arg"}
  PROVE  LET list == get(settings, option, <<>>)
         IN  Gives(T, FlattenSeq([i \in DOMAIN list |-> appendValueOption(option, list[i])]),
                   {option}, MeantBy(settings))
<1> DEFINE list == get(settings, option, <<>>)
           piece == FlattenSeq([i \in DOMAIN list |-> appendValueOption(option, list[i])])
<1>1. option \in AnalyzerOptions \cap TakesValue /\ option \in Repeated
  BY OneSort DEF AnalyzerOptions, Repeated
<1>2. list \in Seq(T)
  BY <1>1 DEF IsSettings, get, is
<1>3. MeantBy(settings)[option] = filled(list, NoText)
  BY <1>1, OneSort DEF MeantBy, Meant
<1> HIDE DEF list
<1>4. ASSUME NEW o \in AnalyzerOptions
      PROVE  Adds(T, o, piece, IF o \in {option} THEN MeantBy(settings)[o] ELSE <<>>)
  <2>1. Adds(T, o, piece, IF o = option THEN filled(list, NoText) ELSE <<>>)
    BY <1>1, <1>2, AddsFilter
  <2> QED  BY <1>3, <2>1
<1> HIDE DEF piece
<1>5. Gives(T, piece, {option}, MeantBy(settings))
  BY <1>4 DEF Gives
<1> QED  BY <1>5 DEF piece, list

LEMMA GivesGluedTexts ==
  ASSUME NEW T, NoText \in T, NEW settings, IsSettings(settings, T), NEW option \in {"-I", "-D"}
  PROVE  LET list == get(settings, option, <<>>)
         IN  Gives(T, FlattenSeq([i \in DOMAIN list |->
                        IF list[i] = NoText THEN <<>> ELSE <<Glued(option, list[i])>>]),
                   {option}, MeantBy(settings))
<1> DEFINE list == get(settings, option, <<>>)
           piece == FlattenSeq([i \in DOMAIN list |->
                      IF list[i] = NoText THEN <<>> ELSE <<Glued(option, list[i])>>])
<1>1. option \in AnalyzerOptions /\ option \in Repeated
  BY DEF AnalyzerOptions, Repeated
<1>2. list \in Seq(T)
  BY <1>1 DEF IsSettings, get, is
<1>3. MeantBy(settings)[option] = filled(list, NoText)
  BY <1>1, OneSort DEF MeantBy, Meant
<1> HIDE DEF list
<1>4. ASSUME NEW o \in AnalyzerOptions
      PROVE  Adds(T, o, piece, IF o \in {option} THEN MeantBy(settings)[o] ELSE <<>>)
  <2>1. Adds(T, o, piece, IF o = option THEN filled(list, NoText) ELSE <<>>)
    BY <1>1, <1>2, AddsGluedTexts
  <2> QED  BY <1>3, <2>1
<1> HIDE DEF piece
<1>5. Gives(T, piece, {option}, MeantBy(settings))
  BY <1>4 DEF Gives
<1> QED  BY <1>5 DEF piece, list

LEMMA GivesJoined ==
  ASSUME NEW T, NoText \in T, Seq(STRING) \subseteq T, NEW settings, IsSettings(settings, T),
         NEW option \in Joined
  PROVE  Gives(T, appendCsv(option, get(settings, option, <<>>)), {option}, MeantBy(settings))
<1> DEFINE items == get(settings, option, <<>>)
<1>1. option \in AnalyzerOptions \cap TakesValue
  BY OneSort DEF AnalyzerOptions
<1>2. items \in Seq(Seq(STRING))
  <2>1. is(settings, option) => settings[option] \in Seq(Seq(STRING))
    BY DEF IsSettings, is
  <2>2. <<>> \in Seq(Seq(STRING))
    OBVIOUS
  <2> QED  BY <2>1, <2>2 DEF get
<1>3. MeantBy(settings)[option] = IF items = <<>> THEN <<>> ELSE <<joinCsv(items)>>
  BY <1>1, OneSort DEF MeantBy, Meant
<1> HIDE DEF items
<1>4. ASSUME NEW o \in AnalyzerOptions
      PROVE  Adds(T, o, appendCsv(option, items),
                  IF o \in {option} THEN MeantBy(settings)[o] ELSE <<>>)
  <2>1. Adds(T, o, appendCsv(option, items),
             IF o = option /\ items # <<>> THEN <<joinCsv(items)>> ELSE <<>>)
    BY <1>1, <1>2, AddsJoined
  <2> QED  BY <1>3, <2>1
<1> QED  BY <1>4 DEF Gives, items

LEMMA GivesMode ==
  ASSUME NEW T, {NoText, <<"ir">>} \subseteq T, NEW settings, IsSettings(settings, T)
  PROVE  Gives(T, <<Glued("--mode", get(settings, "--mode", <<"ir">>))>>, {"--mode"},
               MeantBy(settings))
<1> DEFINE t == get(settings, "--mode", <<"ir">>)
<1>1. t \in T
  BY DEF IsSettings, get, is
<1>2. "--mode" \in AnalyzerOptions /\ MeantBy(settings)["--mode"] = <<t>>
  BY OneSort DEF MeantBy, Meant, AnalyzerOptions
<1> HIDE DEF t
<1>3. ASSUME NEW o \in AnalyzerOptions
      PROVE  Adds(T, o, <<Glued("--mode", t)>>,
                  IF o \in {"--mode"} THEN MeantBy(settings)[o] ELSE <<>>)
  BY <1>1, <1>2, AddsGlued
<1> QED  BY <1>3 DEF Gives, t

LEMMA GivesFormat ==
  ASSUME NEW T, {NoText, <<"json">>} \subseteq T, NEW settings, IsSettings(settings, T)
  PROVE  Gives(T, Format(settings), {"--format"}, MeantBy(settings))
<1>1. "--format" \in AnalyzerOptions
  BY DEF AnalyzerOptions
<1>2. MeantBy(settings)["--format"]
        = IF is(settings, "--format") THEN <<settings["--format"]>>
          ELSE IF is(settings, "sarif_format") THEN <<<<"json">>>> ELSE <<>>
  BY <1>1, OneSort DEF MeantBy, Meant
<1>3. is(settings, "--format") => settings["--format"] \in T
  BY DEF IsSettings, is
<1>4. ASSUME NEW o \in AnalyzerOptions
      PROVE  Adds(T, o, Format(settings),
                  IF o \in {"--format"} THEN MeantBy(settings)[o] ELSE <<>>)
  <2>1. CASE is(settings, "--format")
    <3>1. Adds(T, o, <<Glued("--format", settings["--format"])>>,
               IF o = "--format" THEN <<settings["--format"]>> ELSE <<>>)
      BY <1>1, <1>3, <2>1, AddsGlued
    <3> QED  BY <1>2, <2>1, <3>1 DEF Format
  <2>2. CASE ~is(settings, "--format") /\ is(settings, "sarif_format")
    <3>1. Adds(T, o, <<Glued("--format", <<"json">>)>>,
               IF o = "--format" THEN <<<<"json">>>> ELSE <<>>)
      BY <1>1, AddsGlued
    <3> QED  BY <1>2, <2>2, <3>1 DEF Format
  <2>3. CASE ~is(settings, "--format") /\ ~is(settings, "sarif_format")
    BY <1>2, <2>3, AddsNothing DEF Format
  <2> QED  BY <2>1, <2>2, <2>3
<1> QED  BY <1>4 DEF Gives

LEMMA GivesFunctions ==
  ASSUME NEW T, NoText \in T, Seq(STRING) \subseteq T, NEW settings, IsSettings(settings, T)
  PROVE  Gives(T, FunctionFilter(settings), {"--only-func", "--only-function"}, MeantBy(settings))
<1> DEFINE S == {"--only-func", "--only-function"}
           t == get(settings, "entry_points", NoText)
<1>1. "--only-func" \in Joined /\ "--only-func" \in AnalyzerOptions
      /\ "--only-function" \in AnalyzerOptions \cap TakesValue /\ "--only-func" # "--only-function"
  BY DEF Joined, AnalyzerOptions, TakesValue
<1>2. MeantBy(settings)["--only-function"]
        = IF is(settings, "--only-func") THEN <<>> ELSE filled(<<t>>, NoText)
  BY <1>1, OneSort DEF MeantBy, Meant
<1>3. t \in T
  BY DEF IsSettings, get, is
<1>4. CASE is(settings, "--only-func")
  <2>1. get(settings, "--only-func", <<>>) = settings["--only-func"]
    BY <1>4 DEF get
  <2>2. Gives(T, FunctionFilter(settings), {"--only-func"}, MeantBy(settings))
    BY <1>1, <1>4, <2>1, GivesJoined DEF FunctionFilter
  <2>3. \A o \in AnalyzerOptions :
          (IF o \in S THEN MeantBy(settings)[o] ELSE <<>>)
            = (IF o \in {"--only-func"} THEN MeantBy(settings)[o] ELSE <<>>)
    BY <1>2, <1>4
  <2> QED  BY <2>2, <2>3 DEF Gives
<1>5. CASE ~is(settings, "--only-func")
  <2>1. MeantBy(settings)["--only-func"] = <<>>
    <3>1. get(settings, "--only-func", <<>>) = <<>>
      BY <1>5 DEF get
    <3> QED  BY <1>1, <3>1, OneSort DEF MeantBy, Meant
  <2> HIDE DEF t
  <2>2. filled(<<t>>, NoText) = IF t = NoText THEN <<>> ELSE <<t>>
    BY <1>3, FilledAlone
  <2>3. ASSUME NEW o \in AnalyzerOptions
        PROVE  Adds(T, o, FunctionFilter(settings), IF o \in S THEN MeantBy(settings)[o] ELSE <<>>)
    <3>1. Adds(T, o, appendValueOption("--only-function", t),
               IF o = "--only-function" /\ t # NoText THEN <<t>> ELSE <<>>)
      BY <1>1, <1>3, AddsValue
    <3>2. FunctionFilter(settings) = appendValueOption("--only-function", t)
      BY <1>5 DEF FunctionFilter, t
    <3> QED  BY <1>2, <1>5, <2>1, <2>2, <3>1, <3>2
  <2> QED  BY <2>3 DEF Gives
<1> QED  BY <1>4, <1>5

LEMMA GivesToggle ==
  ASSUME NEW T, NoText \in T, NEW settings, IsSettings(settings, T), NEW t \in ToSet(Toggles)
  PROVE  Gives(T, toggle(settings, t), {t.on, t.off}, MeantBy(settings))
<1>1. /\ t.on \in Switches /\ t.off \in Switches
      /\ \A u \in ToSet(Toggles) : u # t => {u.on, u.off} \cap {t.on, t.off} = {}
      /\ t.on # t.off
  BY DEF Switches, Toggles, ToSet
<1>2. {t.on, t.off} \subseteq AnalyzerOptions
  BY <1>1 DEF AnalyzerOptions
<1>3. is(settings, t.on) => settings[t.on] \in BOOLEAN
  BY <1>1 DEF IsSettings, is
<1> DEFINE chosen == IF settings[t.on] THEN t.on ELSE t.off
<1>4. \A o \in {t.on, t.off} :
        MeantBy(settings)[o] = IF is(settings, t.on) /\ o = chosen THEN <<NoText>> ELSE <<>>
  <2>1. \A o \in {t.on, t.off} :
          MeantBy(settings)[o]
            = IF \E u \in ToSet(Toggles) :
                   is(settings, u.on) /\ o = IF settings[u.on] THEN u.on ELSE u.off
              THEN <<NoText>> ELSE <<>>
    BY <1>1, <1>2, OneSort DEF MeantBy, Meant
  <2>2. \A o \in {t.on, t.off} :
          (\E u \in ToSet(Toggles) :
             is(settings, u.on) /\ o = IF settings[u.on] THEN u.on ELSE u.off)
          <=> is(settings, t.on) /\ o = chosen
    BY <1>1
  <2> QED  BY <2>1, <2>2
<1>5. ASSUME NEW o \in AnalyzerOptions
      PROVE  Adds(T, o, toggle(settings, t),
                  IF o \in {t.on, t.off} THEN MeantBy(settings)[o] ELSE <<>>)
  <2>1. CASE is(settings, t.on)
    <3>1. chosen \in AnalyzerOptions \ TakesValue /\ chosen \in {t.on, t.off}
      BY <1>1, <1>2, OneSort
    <3> HIDE DEF chosen
    <3>2. Adds(T, o, appendFlagOption(chosen, TRUE), IF o = chosen /\ TRUE THEN <<NoText>> ELSE <<>>)
      BY <3>1, AddsFlag
    <3>3. toggle(settings, t) = appendFlagOption(chosen, TRUE)
      BY <2>1 DEF toggle, appendFlagOption, chosen
    <3> QED  BY <1>4, <2>1, <3>1, <3>2, <3>3
  <2>2. CASE ~is(settings, t.on)
    BY <1>4, <2>2, AddsNothing DEF toggle
  <2> QED  BY <2>1, <2>2
<1> QED  BY <1>5 DEF Gives

\* The options of a list, one after the other.
LEMMA GivesEach ==
  ASSUME NEW T, NEW M, NEW L, NEW N \in Nat, DOMAIN L = 1..N,
         \A j, k \in DOMAIN L : j # k => L[j] # L[k],
         NEW ps, ps = [k \in DOMAIN L |-> ps[k]],
         \A k \in DOMAIN L : Gives(T, ps[k], {L[k]}, M)
  PROVE  Gives(T, FlattenSeq(ps), ToSet(L), M)
<1> DEFINE S == [k \in 1..N |-> {L[k]}]
<1>1. /\ \A k \in 1..N : Gives(T, ps[k], S[k], M)
      /\ \A j, k \in 1..N : j # k => S[j] \cap S[k] = {}
  OBVIOUS
<1>2. \A o : o \in ToSet(L) <=> \E k \in 1..N : o \in S[k]
  BY DEF ToSet
<1>3. ps = [k \in 1..N |-> ps[k]]
  OBVIOUS
<1> HIDE DEF S
<1> QED  BY <1>1, <1>2, <1>3, GivesAll

LEMMA GivesModes ==
  ASSUME NEW T, NoText \in T, NEW settings
  PROVE  Gives(T, FlattenSeq([k \in DOMAIN Modes |-> appendFlagOption(Modes[k], is(settings, Modes[k]))]),
               ToSet(Modes), MeantBy(settings))
<1> DEFINE ps == [k \in DOMAIN Modes |-> appendFlagOption(Modes[k], is(settings, Modes[k]))]
<1>1. DOMAIN Modes = 1..8
  BY DEF Modes
<1>2. \A k \in DOMAIN Modes : Gives(T, ps[k], {Modes[k]}, MeantBy(settings))
  <2>1. \A k \in DOMAIN Modes : Modes[k] \in Flags
    BY DEF Flags, ToSet
  <2> QED  BY <2>1, GivesFlag
<1>3. ps = [k \in DOMAIN Modes |-> ps[k]]
  OBVIOUS
<1> HIDE DEF ps
<1>4. Gives(T, FlattenSeq(ps), ToSet(Modes), MeantBy(settings))
  BY <1>1, <1>2, <1>3, ListedOnce, GivesEach
<1> QED  BY <1>4 DEF ps

LEMMA GivesValues ==
  ASSUME NEW T, NoText \in T, NEW settings, IsSettings(settings, T), NEW L \in {Values, Numbers}
  PROVE  Gives(T, FlattenSeq([k \in DOMAIN L |->
                    appendValueOption(L[k], get(settings, L[k], NoText))]),
               ToSet(L), MeantBy(settings))
<1> DEFINE ps == [k \in DOMAIN L |-> appendValueOption(L[k], get(settings, L[k], NoText))]
<1>1. PICK N \in Nat : DOMAIN L = 1..N
  <2>1. DOMAIN Values = 1..15
    BY DEF Values
  <2>2. DOMAIN Numbers = 1..3
    BY DEF Numbers
  <2> QED  BY <2>1, <2>2
<1>2. \A k \in DOMAIN L : Gives(T, ps[k], {L[k]}, MeantBy(settings))
  <2>1. \A k \in DOMAIN L : L[k] \in Single
    BY DEF Single, ToSet
  <2> QED  BY <2>1, GivesValue
<1>3. ps = [k \in DOMAIN L |-> ps[k]]
  OBVIOUS
<1> HIDE DEF ps
<1>4. Gives(T, FlattenSeq(ps), ToSet(L), MeantBy(settings))
  BY <1>1, <1>2, <1>3, ListedOnce, GivesEach
<1> QED  BY <1>4 DEF ps

LEMMA GivesFilters ==
  ASSUME NEW T, NoText \in T, NEW settings, IsSettings(settings, T)
  PROVE  Gives(T, FlattenSeq([k \in DOMAIN Filters |->
                    FlattenSeq([i \in DOMAIN get(settings, Filters[k], <<>>) |->
                      appendValueOption(Filters[k], get(settings, Filters[k], <<>>)[i])])]),
               ToSet(Filters), MeantBy(settings))
<1> DEFINE piece(o) == FlattenSeq([i \in DOMAIN get(settings, o, <<>>) |->
                         appendValueOption(o, get(settings, o, <<>>)[i])])
           ps == [k \in DOMAIN Filters |-> piece(Filters[k])]
<1>1. DOMAIN Filters = 1..3
  BY DEF Filters
<1>2. \A k \in DOMAIN Filters : Gives(T, piece(Filters[k]), {Filters[k]}, MeantBy(settings))
  <2>1. \A k \in DOMAIN Filters : Filters[k] \in ToSet(Filters)
    BY DEF ToSet
  <2>2. \A o \in ToSet(Filters) : Gives(T, piece(o), {o}, MeantBy(settings))
    BY GivesFilter
  <2> HIDE DEF piece
  <2> QED  BY <2>1, <2>2
<1> HIDE DEF piece
<1>3. ps = [k \in DOMAIN Filters |-> ps[k]]
      /\ \A k \in DOMAIN Filters : Gives(T, ps[k], {Filters[k]}, MeantBy(settings))
  BY <1>2
<1> HIDE DEF ps
<1>4. Gives(T, FlattenSeq(ps), ToSet(Filters), MeantBy(settings))
  BY <1>1, <1>3, ListedOnce, GivesEach
<1> QED  BY <1>4 DEF ps, piece

LEMMA GivesToggles ==
  ASSUME NEW T, NoText \in T, NEW settings, IsSettings(settings, T)
  PROVE  Gives(T, FlattenSeq([k \in DOMAIN Toggles |-> toggle(settings, Toggles[k])]),
               Switches, MeantBy(settings))
<1> DEFINE ps == [k \in 1..2 |-> toggle(settings, Toggles[k])]
           S == [k \in 1..2 |-> {Toggles[k].on, Toggles[k].off}]
<1>1. DOMAIN Toggles = 1..2
  BY DEF Toggles
<1>2. \A j, k \in 1..2 : j # k => S[j] \cap S[k] = {}
  BY DEF Toggles
<1>3. \A o : o \in Switches <=> \E k \in 1..2 : o \in S[k]
  BY <1>1 DEF Switches, ToSet
<1>4. \A k \in 1..2 : Gives(T, ps[k], S[k], MeantBy(settings))
  <2>1. \A k \in 1..2 : Toggles[k] \in ToSet(Toggles)
    BY <1>1 DEF ToSet
  <2> QED  BY <2>1, GivesToggle
<1>5. ps = [k \in 1..2 |-> ps[k]]
  OBVIOUS
<1> HIDE DEF ps, S
<1>6. Gives(T, FlattenSeq(ps), Switches, MeantBy(settings))
  BY <1>2, <1>3, <1>4, <1>5, GivesAll
<1> QED  BY <1>1, <1>6 DEF ps

\* The pieces of the command line that are neither extra arguments nor
\* inputs, one behind the other, give every option its meaning.
LEMMA OptionsAreGiven ==
  ASSUME NEW T, {NoText, <<"ir">>, <<"json">>} \cup Seq(STRING) \subseteq T,
         NEW settings, IsSettings(settings, T)
  PROVE  \E options :
           /\ \A inputFiles :
                buildAnalyzerArgs(inputFiles, settings)
                  = options \o extraArguments(settings) \o [i \in DOMAIN inputFiles |-> Text(inputFiles[i])]
           /\ Gives(T, options, AnalyzerOptions, MeantBy(settings))
<1> DEFINE M == MeantBy(settings)
           flag(o) == appendFlagOption(o, is(settings, o))
           value(o) == appendValueOption(o, get(settings, o, NoText))
           list(o) == get(settings, o, <<>>)
           filter(o) == FlattenSeq([i \in DOMAIN list(o) |-> appendValueOption(o, list(o)[i])])
           glued(o) == FlattenSeq([i \in DOMAIN list(o) |->
                         IF list(o)[i] = NoText THEN <<>> ELSE <<Glued(o, list(o)[i])>>])
           p1 == <<Glued("--mode", get(settings, "--mode", <<"ir">>))>>
           p5 == FlattenSeq([k \in DOMAIN Modes |-> flag(Modes[k])])
           p6 == FlattenSeq([k \in DOMAIN Values |-> value(Values[k])])
           p7 == FlattenSeq([k \in DOMAIN Filters |-> filter(Filters[k])])
           p14 == FlattenSeq([k \in DOMAIN Toggles |-> toggle(settings, Toggles[k])])
           p15 == FlattenSeq([k \in DOMAIN Numbers |-> value(Numbers[k])])
           options == p1 \o value("--config") \o flag("--print-effective-config")
             \o Format(settings) \o p5 \o p6 \o p7 \o FunctionFilter(settings) \o glued("-I")
             \o glued("-D") \o filter("--compile-arg") \o flag("--timing")
             \o flag("--resource-summary-cache-memory-only") \o p14 \o p15
             \o appendCsv("--smt-rules", list("--smt-rules"))
<1>0. NoText \in T /\ Seq(STRING) \subseteq T /\ {NoText, <<"ir">>} \subseteq T
      /\ {NoText, <<"json">>} \subseteq T
  OBVIOUS
<1>1. ASSUME NEW inputFiles
      PROVE  buildAnalyzerArgs(inputFiles, settings)
               = options \o extraArguments(settings)
                   \o [i \in DOMAIN inputFiles |-> Text(inputFiles[i])]
  BY DEF buildAnalyzerArgs, Concat
<1>2. /\ Gives(T, p1, {"--mode"}, M)
      /\ Gives(T, Format(settings), {"--format"}, M)
      /\ Gives(T, FunctionFilter(settings), {"--only-func", "--only-function"}, M)
  BY <1>0, GivesMode, GivesFormat, GivesFunctions
<1>3. \A o \in {"--print-effective-config", "--timing", "--resource-summary-cache-memory-only"} :
        Gives(T, flag(o), {o}, M)
  BY <1>0, GivesFlag DEF Flags
<1>4. Gives(T, value("--config"), {"--config"}, M)
  BY <1>0, GivesValue DEF Single
<1>5. Gives(T, p5, ToSet(Modes), M)
  BY <1>0, GivesModes
<1>6. Gives(T, p6, ToSet(Values), M) /\ Gives(T, p15, ToSet(Numbers), M)
  BY <1>0, GivesValues
<1>7. Gives(T, p7, ToSet(Filters), M)
  BY <1>0, GivesFilters
<1>8. Gives(T, filter("--compile-arg"), {"--compile-arg"}, M)
  BY <1>0, GivesFilter
<1>9. Gives(T, glued("-I"), {"-I"}, M) /\ Gives(T, glued("-D"), {"-D"}, M)
  BY <1>0, GivesGluedTexts
<1>10. Gives(T, p14, Switches, M)
  BY <1>0, GivesToggles
<1>11. Gives(T, appendCsv("--smt-rules", list("--smt-rules")), {"--smt-rules"}, M)
  BY <1>0, GivesJoined DEF Joined
<1> HIDE DEF M, flag, value, list, filter, glued, p1, p5, p6, p7, p14, p15
\* What the first pieces give together.
<1> DEFINE S2 == {"--mode"} \cup {"--config"}
           S3 == S2 \cup {"--print-effective-config"}
           S4 == S3 \cup {"--format"}
           S5 == S4 \cup ToSet(Modes)
           S6 == S5 \cup ToSet(Values)
           S7 == S6 \cup ToSet(Filters)
           S8 == S7 \cup {"--only-func", "--only-function"}
           S9 == S8 \cup {"-I"}
           S10 == S9 \cup {"-D"}
           S11 == S10 \cup {"--compile-arg"}
           S12 == S11 \cup {"--timing"}
           S13 == S12 \cup {"--resource-summary-cache-memory-only"}
           S14 == S13 \cup Switches
           S15 == S14 \cup ToSet(Numbers)
           S16 == S15 \cup {"--smt-rules"}
<1>12. /\ {"--mode"} \cap {"--config"} = {} /\ S2 \cap {"--print-effective-config"} = {}
       /\ S3 \cap {"--format"} = {} /\ S4 \cap ToSet(Modes) = {} /\ S5 \cap ToSet(Values) = {}
  BY TheOptions
<1>13. S6 \cap ToSet(Filters) = {} /\ S7 \cap {"--only-func", "--only-function"} = {}
       /\ S8 \cap {"-I"} = {} /\ S9 \cap {"-D"} = {} /\ S10 \cap {"--compile-arg"} = {}
  BY TheOptions
<1>14. S11 \cap {"--timing"} = {} /\ S12 \cap {"--resource-summary-cache-memory-only"} = {}
       /\ S13 \cap Switches = {} /\ S14 \cap ToSet(Numbers) = {} /\ S15 \cap {"--smt-rules"} = {}
  BY TheOptions
<1>15. S16 = AnalyzerOptions
  BY DEF AnalyzerOptions, Flags, Single, Repeated, Joined
<1> DEFINE P2 == p1 \o value("--config")
           P3 == P2 \o flag("--print-effective-config")
           P4 == P3 \o Format(settings)
           P5 == P4 \o p5
           P6 == P5 \o p6
           P7 == P6 \o p7
           P8 == P7 \o FunctionFilter(settings)
           P9 == P8 \o glued("-I")
           P10 == P9 \o glued("-D")
           P11 == P10 \o filter("--compile-arg")
           P12 == P11 \o flag("--timing")
           P13 == P12 \o flag("--resource-summary-cache-memory-only")
           P14 == P13 \o p14
           P15 == P14 \o p15
           P16 == P15 \o appendCsv("--smt-rules", list("--smt-rules"))
<1>16. P16 = options
  OBVIOUS
<1> HIDE DEF options
<1>17. Gives(T, P2, S2, M)
  BY <1>2, <1>4, <1>12, GivesBoth
<1>18. Gives(T, P3, S3, M)
  <2> HIDE DEF P2, S2
  <2> QED  BY <1>3, <1>12, <1>17, GivesBoth
<1>19. Gives(T, P4, S4, M)
  <2> HIDE DEF P3, S3
  <2> QED  BY <1>2, <1>12, <1>18, GivesBoth
<1>20. Gives(T, P5, S5, M)
  <2> HIDE DEF P4, S4
  <2> QED  BY <1>5, <1>12, <1>19, GivesBoth
<1>21. Gives(T, P6, S6, M)
  <2> HIDE DEF P5, S5
  <2> QED  BY <1>6, <1>12, <1>20, GivesBoth
<1>22. Gives(T, P7, S7, M)
  <2> HIDE DEF P6, S6
  <2> QED  BY <1>7, <1>13, <1>21, GivesBoth
<1>23. Gives(T, P8, S8, M)
  <2> HIDE DEF P7, S7
  <2> QED  BY <1>2, <1>13, <1>22, GivesBoth
<1>24. Gives(T, P9, S9, M)
  <2> HIDE DEF P8, S8
  <2> QED  BY <1>9, <1>13, <1>23, GivesBoth
<1>25. Gives(T, P10, S10, M)
  <2> HIDE DEF P9, S9
  <2> QED  BY <1>9, <1>13, <1>24, GivesBoth
<1>26. Gives(T, P11, S11, M)
  <2> HIDE DEF P10, S10
  <2> QED  BY <1>8, <1>13, <1>25, GivesBoth
<1>27. Gives(T, P12, S12, M)
  <2> HIDE DEF P11, S11
  <2> QED  BY <1>3, <1>14, <1>26, GivesBoth
<1>28. Gives(T, P13, S13, M)
  <2> HIDE DEF P12, S12
  <2> QED  BY <1>3, <1>14, <1>27, GivesBoth
<1>29. Gives(T, P14, S14, M)
  <2> HIDE DEF P13, S13
  <2> QED  BY <1>10, <1>14, <1>28, GivesBoth
<1>30. Gives(T, P15, S15, M)
  <2> HIDE DEF P14, S14
  <2> QED  BY <1>6, <1>14, <1>29, GivesBoth
<1>31. Gives(T, P16, S16, M)
  <2> HIDE DEF P15, S15
  <2> QED  BY <1>11, <1>14, <1>30, GivesBoth
<1> HIDE DEF P16, S16
<1> QED  BY <1>1, <1>15, <1>16, <1>31 DEF M

LEMMA ExtraArgumentsAreWords ==
  ASSUME NEW T, NoText \in T, NEW settings, IsSettings(settings, T)
  PROVE  extraArguments(settings) \in Seq(Words(T))
<1> DEFINE given == get(settings, "extra_args", <<>>)
           ss == [i \in 1..Len(given) |-> IF given[i] = Text(NoText) THEN <<>> ELSE <<given[i]>>]
<1>1. given \in Seq(Words(T))
  <2>1. is(settings, "extra_args") => settings["extra_args"] \in Seq(Word(T))
    BY DEF IsSettings, is
  <2>2. Word(T) \subseteq Words(T)
    BY DEF Word, Words
  <2>3. \A s \in Seq(Word(T)) : s \in Seq(Words(T))
    BY <2>2
  <2>4. <<>> \in Seq(Words(T))
    OBVIOUS
  <2> QED  BY <2>1, <2>3, <2>4 DEF get
<1>2. extraArguments(settings) = FlattenSeq(ss)
  <2>1. DOMAIN given = 1..Len(given)
    BY <1>1
  <2> QED  BY <2>1 DEF extraArguments, filled, Concat
<1> HIDE DEF given
<1>3. ss \in [1..Len(given) -> Seq(Words(T))]
  BY <1>1
<1>4. ss \in Seq(Seq(Words(T)))
  <2> HIDE DEF ss
  <2> QED  BY <1>1, <1>3, AFunctionIsASequence
<1> HIDE DEF ss
<1> QED  BY <1>2, <1>4, FlattenType

\* The analyzer reads what buildAnalyzerArgs has been given.
LEMMA ArgumentsAreRead ==
  ASSUME NEW T, {NoText, <<"ir">>, <<"json">>} \cup Seq(STRING) \subseteq T,
         NEW settings, IsSettings(settings, T), NEW inputFiles \in Seq(T)
  PROVE  ArgumentsArrive(inputFiles, settings, buildAnalyzerArgs(inputFiles, settings))
<1> DEFINE extra == extraArguments(settings)
           texts == [i \in DOMAIN inputFiles |-> Text(inputFiles[i])]
           words == buildAnalyzerArgs(inputFiles, settings)
<1>1. PICK options : /\ words = options \o extra \o texts
                     /\ Gives(T, options, AnalyzerOptions, MeantBy(settings))
  BY OptionsAreGiven
<1> SUFFICES ASSUME NEW o \in AnalyzerOptions, parseArguments(o, extra).waiting = NoOption
             PROVE  parseArguments(o, words)
                      = Reading(NoOption, Meant(settings, o) \o parseArguments(o, extra).texts,
                                parseArguments(o, extra).inputs \o inputFiles)
  BY DEF ArgumentsArrive
<1> DEFINE added == parseArguments(o, extra)
           m == Meant(settings, o)
<1>2. Adds(T, o, options, m)
  BY <1>1 DEF Gives, MeantBy
<1>3. /\ options \in Seq(Words(T)) /\ m \in Seq(T)
      /\ parseArguments(o, options) = Reading(NoOption, m, <<>>)
  BY <1>2 DEF Adds
<1>4. extra \in Seq(Words(T))
  BY ExtraArgumentsAreWords
<1>5. texts \in Seq(Words(T)) /\ parseArguments(o, texts) = Reading(NoOption, <<>>, inputFiles)
  BY InputsAreRead
<1>6. added.texts \in Seq(T) /\ added.inputs \in Seq(T)
  <2>1. <<>> \in Seq(T)
    OBVIOUS
  <2> QED  BY <1>4, <2>1, ReadBehind
<1> HIDE DEF extra, texts, words, m
<1>7. parseArguments(o, options \o extra) = Reading(NoOption, m \o added.texts, added.inputs)
  <2>1. parseArguments(o, options).waiting = NoOption /\ parseArguments(o, options).texts = m
        /\ parseArguments(o, options).inputs = <<>>
    BY <1>3 DEF Reading
  <2>2. <<>> \o added.inputs = added.inputs
    BY <1>6
  <2> HIDE DEF added
  <2>3. parseArguments(o, options \o extra)
          = Reading(added.waiting, m \o added.texts, <<>> \o added.inputs)
    BY <1>3, <1>4, <2>1, ReadInParts DEF added
  <2> QED  BY <2>2, <2>3 DEF added
<1>8. parseArguments(o, options \o extra \o texts)
        = Reading(NoOption, m \o added.texts, added.inputs \o inputFiles)
  <2> DEFINE both == options \o extra
  <2>1. parseArguments(o, both).waiting = NoOption
        /\ parseArguments(o, both).texts = m \o added.texts
        /\ parseArguments(o, both).inputs = added.inputs
    BY <1>7 DEF Reading
  <2>2. parseArguments(o, texts).waiting = NoOption /\ parseArguments(o, texts).texts = <<>>
        /\ parseArguments(o, texts).inputs = inputFiles
    BY <1>5 DEF Reading
  <2>3. both \in Seq(Words(T)) /\ (m \o added.texts) \o <<>> = m \o added.texts
    BY <1>3, <1>4, <1>6
  <2> HIDE DEF both, added
  <2>4. parseArguments(o, both \o texts)
          = Reading(parseArguments(o, texts).waiting,
                    parseArguments(o, both).texts \o parseArguments(o, texts).texts,
                    parseArguments(o, both).inputs \o parseArguments(o, texts).inputs)
    BY <1>5, <2>1, <2>3, ReadInParts
  <2> QED  BY <2>1, <2>2, <2>3, <2>4 DEF both
<1> QED  BY <1>1, <1>8 DEF m, extra
==============================================================================
