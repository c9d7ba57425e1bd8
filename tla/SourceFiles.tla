------------------------------ MODULE SourceFiles ----------------------------
(***************************************************************************)
(* resolveSourceFiles of Files.cpp: from the entries of the configuration  *)
(* to the list of files to analyse.  An entry is a source or a JSON        *)
(* manifest; without entries the compilation database is discovered.       *)
(*                                                                         *)
(* A path is a record of a flag and a sequence of segments.  The empty     *)
(* string is the relative path without segments; a normalised path         *)
(* without segments is ".".  A JSON object is a function from those of the *)
(* looked-at keys whose value has the right type.                          *)
(***************************************************************************)
EXTENDS Naturals, Sequences, SequencesExt

CONSTANTS
  Disk,       \* the files there are: normalised paths to contents
  JsonNames   \* the file names that end in .json or .JSON

Rel(parts) == [abs |-> FALSE, parts |-> parts]
Abs(parts) == [abs |-> TRUE, parts |-> parts]
Empty == Rel(<<>>)

\* Arrays in files are sequences.
IsArray(v) == v \in Seq(ToSet(v))
ASSUME DiskShaped ==
  \A p \in DOMAIN Disk :
    LET content == Disk[p]
    IN  /\ content.kind = "array" => IsArray(content.value)
        /\ content.kind = "object" =>
             \A k \in DOMAIN content.value \cap {"files", "sources", "compile_commands"} :
               IsArray(content.value[k])

\* One segment of lexically_normal: "." goes, ".." takes the segment before
\* it along, stays at the front of a relative path and goes at the root.
reduce(abs, done, part) ==
  CASE part = "." -> done
    [] part = ".." /\ done # <<>> /\ Last(done) # ".." -> Front(done)
    [] part = ".." /\ done = <<>> /\ abs -> done
    [] OTHER -> Append(done, part)

lexically_normal(path) ==
  [path EXCEPT !.parts = FoldLeft(LAMBDA d, s : reduce(path.abs, d, s), <<>>, @)]

\* base / path
Under(base, path) ==
  IF path.abs THEN path ELSE [base EXCEPT !.parts = @ \o path.parts]

parent_path(path) == [path EXCEPT !.parts = Front(@)]

hasPathSegment(path, segment) == segment \in ToSet(path.parts)

isManifest(entry) == entry.parts # <<>> /\ Last(entry.parts) \in JsonNames

kindOf(path) ==
  LET p == lexically_normal(path)
  IN  IF p \in DOMAIN Disk THEN Disk[p].kind ELSE "missing"

-----------------------------------------------------------------------------
\* What an entry names: a sequence of candidates, each with the directory
\* it is relative to and whether the dependency filter looks at it.  An item
\* that names nothing has the empty name, which is never appended.

candidate(name, base, looked) == [name |-> name, base |-> base, looked |-> looked]
nameless == candidate(Empty, Empty, TRUE)

firstKey(obj, a, b, c) ==
  IF a \in DOMAIN obj THEN a
  ELSE IF b \in DOMAIN obj THEN b
  ELSE IF c \in DOMAIN obj THEN c ELSE "none"

nameKey(obj) == firstKey(obj, "file", "src_file", "path")
listKey(obj) == firstKey(obj, "files", "sources", "compile_commands")

\* Only "file" is relative to the object's own directory.
entryBase(obj, key, dir) ==
  IF key = "file" /\ "directory" \in DOMAIN obj THEN Under(dir, obj["directory"]) ELSE dir

fromItem(item, dir) ==
  LET key == nameKey(item.value)
  IN  IF item.kind = "string" THEN candidate(item.value, dir, TRUE)
      ELSE IF item.kind = "object" /\ key # "none"
           THEN candidate(item.value[key], entryBase(item.value, key, dir), TRUE)
           ELSE nameless

appendFromArray(items, dir) == [i \in DOMAIN items |-> fromItem(items[i], dir)]

\* An object's first list is taken, else its first name; that name alone is
\* never looked at by the dependency filter.
fromObject(obj, dir) ==
  IF listKey(obj) # "none" THEN appendFromArray(obj[listKey(obj)], dir)
  ELSE IF nameKey(obj) # "none" THEN <<candidate(obj[nameKey(obj)], dir, FALSE)>> ELSE <<>>

\* A manifest that cannot be read or parsed names nothing.
fromEntry(entry) ==
  LET dir == parent_path(entry)
      content == Disk[lexically_normal(entry)]
  IN  IF ~isManifest(entry) THEN <<candidate(entry, Empty, FALSE)>>
      ELSE IF kindOf(entry) = "array" THEN appendFromArray(content.value, dir)
      ELSE IF kindOf(entry) = "object" THEN fromObject(content.value, dir) ELSE <<>>

-----------------------------------------------------------------------------
\* The compilation database stands in for an empty list of entries.
compdbPath(input) ==
  IF kindOf(input.compile_commands) = "directory"
  THEN Under(input.compile_commands, Rel(<<"compile_commands.json">>))
  ELSE input.compile_commands

autoDiscovered(input) ==
  /\ input.files = <<>>
  /\ input.compile_commands # Empty
  /\ kindOf(compdbPath(input)) \notin {"missing", "directory"}

fileEntries(input) ==
  IF autoDiscovered(input) THEN <<lexically_normal(compdbPath(input))>> ELSE input.files

filterDependencyEntries(input) == autoDiscovered(input) /\ ~input.include_compdb_deps

resolved(c) ==
  lexically_normal(IF c.base = Empty THEN c.name ELSE Under(c.base, c.name))

\* Faulty: the name is tested before it is joined to its directory.
shouldSkipDependencyEntry_unresolved(input, c) ==
  filterDependencyEntries(input) /\ c.looked /\ hasPathSegment(c.name, "_deps")

shouldSkipDependencyEntry(input, c) ==
  filterDependencyEntries(input) /\ c.looked /\ hasPathSegment(resolved(c), "_deps")

\* Faulty: what has been seen is remembered as it was written.
appendResolved_unresolved(files, c) ==
  IF c.name = Empty \/ c.name \in ToSet(files) THEN files ELSE Append(files, resolved(c))

\* seenPaths holds what sourceFiles holds.
appendResolved(files, c) ==
  IF c.name = Empty \/ resolved(c) \in ToSet(files) THEN files ELSE Append(files, resolved(c))

\* The list when the names of one more entry have been appended.
appendNames(input, files, names) ==
  LET after[k \in 0..Len(names)] ==
        IF k = 0 THEN files
        ELSE IF shouldSkipDependencyEntry(input, names[k]) THEN after[k - 1]
        ELSE appendResolved(after[k - 1], names[k])
  IN  after[Len(names)]

resolveSourceFiles(input) ==
  LET entries == fileEntries(input)
      after[i \in 0..Len(entries)] ==
        IF i = 0 THEN <<>> ELSE appendNames(input, after[i - 1], fromEntry(entries[i]))
  IN  after[Len(entries)]

-----------------------------------------------------------------------------
\* What the list promises, of an input and its sources.

\* The names of an input that are not filtered: <<i, k>> is the k-th of the
\* i-th entry.
nameAt(input, m) == fromEntry(fileEntries(input)[m[1]])[m[2]]
Names(input) ==
  UNION {{i} \X DOMAIN fromEntry(fileEntries(input)[i]) : i \in DOMAIN fileEntries(input)}
Mentions(input) ==
  {m \in Names(input) : /\ nameAt(input, m).name # Empty
                        /\ ~shouldSkipDependencyEntry(input, nameAt(input, m))}

file(input, m) == resolved(nameAt(input, m))
earlier(m, n) == m[1] < n[1] \/ (m[1] = n[1] /\ m[2] < n[2])

\* A file that is mentioned more than once, in whatever spelling and by
\* whatever entries, is analysed once, in the place of its first mention;
\* every name that is not filtered is there, and nothing else.
MentionedOnce(input, sources) ==
  LET mentionsOf(s) == {m \in Mentions(input) : file(input, m) = s}
  IN  /\ ToSet(sources) = {file(input, m) : m \in Mentions(input)}
      /\ \A i, j \in DOMAIN sources : i < j =>
           \E m \in mentionsOf(sources[i]) : \A n \in mentionsOf(sources[j]) : earlier(m, n)

\* docs/configuration.md, files.include_compdb_deps: files of dependencies
\* come in only when they are asked for, by name or by the option.  A
\* database that is a single object, or not a .json file, is not filtered.
NoUnwantedDependency(input, sources) ==
  LET database == lexically_normal(compdbPath(input))
  IN  \A i \in DOMAIN sources :
        hasPathSegment(sources[i], "_deps") =>
          \/ input.files # <<>>
          \/ input.include_compdb_deps
          \/ /\ kindOf(database) = "object"
             /\ listKey(Disk[lexically_normal(database)].value) = "none"
          \/ ~isManifest(database)
=============================================================================
