---------------------------- MODULE RebuildProofs ---------------------------
(***************************************************************************)
(* Proofs about what a build reads and what a rebuild keeps: Discovery,    *)
(* RepoMap, ExtractionCache and IncrementalBuild, for all repositories,    *)
(* urls, checkouts, patterns, paths, texts and bounds.                     *)
(*                                                                         *)
(* Each has an inductive invariant of its own. Of Discovery: a wanted file *)
(* is collected, or under a directory that is still queued, or in the      *)
(* memory tree whose scan is yet to come (WantedOK). That needs the two    *)
(* readings of the patterns to agree on the file and on every directory    *)
(* over it (IgnoredIsExcluded, IgnoredDown): _is_ignored() tries each      *)
(* pattern on the path from the root and from every anchor over it, Wanted *)
(* looks for a run of names.                                               *)
(*                                                                         *)
(* Of RepoMap: a build that fetches only relies on the checkout it has     *)
(* made since, so how far the branch was when it began bounds its commit   *)
(* from below. Of ExtractionCache: the results of an extraction are        *)
(* current, one of each file it has done, and its graph is what they give. *)
(* Only the nodes of files have a directory in their identifiers, and the  *)
(* repair takes those of the results to the present one (Repaired); so the *)
(* nodes, the edges within a file, the uses and the calls are those of an  *)
(* extraction without the cache (AssembledIs), and imports alone can       *)
(* differ (ImportsMove), as long as every result has its own entry. Of     *)
(* IncrementalBuild: at every stage the staged map is the one a full build *)
(* makes of that commit, and the records copied are those of the same      *)
(* model; ChangedPathsCoverDifferences is what makes it so.                *)
(***************************************************************************)
EXTENDS Discovery, RepoMap, ExtractionCache, IncrementalBuild, CollectionLemmas

-----------------------------------------------------------------------------
(* Discovery                                                               *)

\* The checkout does not change under the walk.
TreeOK ==
    /\ disk \subseteq SomeFiles /\ gitLevel \in 0..Len(Above)
    /\ ignores \in [0..Len(Above) -> SUBSET Patterns]
    /\ scan \in {"root", "memory", "over"}

\* No directory of the path is hidden or noise.
Open(p, last) == \A i \in 1..last : p[i] \notin Hidden /\ p[i] \notin NoiseDirs
\* A directory of the root scan is open, one of the memory scan is in the memory tree.
QueueOK ==
    /\ queue \subseteq Dirs \union {<<>>}
    /\ scan = "root" => \A d \in queue : Open(d, Len(d))
    /\ scan = "memory" => \A d \in queue : d = MemoryDir \/ Under(MemoryDir, d)
    /\ scan = "over" => queue = {}
\* What was collected may be met.
CollectedOK ==
    \A p \in collected : /\ p \in disk /\ Name(p) \notin SkipFiles
                         /\ Under(MemoryDir, p) \/ Open(p, Len(p) - 1)

\* A directory on the way to the file is still to be visited.
OnTheWay(p, dirs) == \E k \in 0..(Len(p) - 1) : SubSeq(p, 1, k) \in dirs
\* A wanted file is collected, or its turn comes in this scan or the next one.
WantedOK ==
    \A p \in disk : Wanted(p) =>
        \/ p \in collected
        \/ scan = "root" /\ (Under(MemoryDir, p) \/ OnTheWay(p, queue))
        \/ scan = "memory" /\ Under(MemoryDir, p) /\ OnTheWay(p, queue)

\* The files classified so far are where they belong.
Listed(p) == Kept(p) /\ ~IsSensitive(p) /\ ClassifyFile(p) # "none"
ClassifiedOK ==
    IF scan = "over"
    THEN /\ pending \subseteq collected
         /\ found = {<<ClassifyFile(p), p>> : p \in {q \in collected \ pending : Listed(q)}}
         /\ sensitive = {p \in collected \ pending : Kept(p) /\ IsSensitive(p)}
    ELSE found = {} /\ sensitive = {} /\ pending = {}

\* The inductive invariant.
DetectInv == TreeOK /\ QueueOK /\ CollectedOK /\ WantedOK /\ ClassifiedOK
-----------------------------------------------------------------------------
(* Paths and patterns *)

\* A path up to one of its names.
LEMMA PrefixIs ==
    ASSUME NEW p \in Seq(STRING), NEW k \in 0..Len(p)
    PROVE  /\ SubSeq(p, 1, k) \in Seq(STRING) /\ Len(SubSeq(p, 1, k)) = k
           /\ \A i \in 1..k : SubSeq(p, 1, k)[i] = p[i]
           /\ \A i \in 1..k : SubSeq(SubSeq(p, 1, k), 1, i) = SubSeq(p, 1, i)
  OBVIOUS

\* The names over the root in front of a path.
LEMMA Anchored ==
    ASSUME NEW level \in 0..Len(Above), NEW p \in Seq(STRING)
    PROVE  /\ FromAnchor(level, p) \in Seq(STRING) /\ Len(FromAnchor(level, p)) = level + Len(p)
           /\ \A i \in 1..Len(p) : FromAnchor(level, p)[level + i] = p[i]
           /\ \A k \in 0..Len(p) : FromAnchor(level, SubSeq(p, 1, k))
                                      = SubSeq(FromAnchor(level, p), 1, level + k)
           /\ \A k \in 1..Len(p) : SubSeq(FromAnchor(level, p), level + 1, level + k)
                                      = SubSeq(p, 1, k)
  <1> DEFINE over == SubSeq(Above, Len(Above) - level + 1, Len(Above))
  <1>1. over \in Seq(STRING) /\ Len(over) = level
    BY DiscoveryAssumption
  <1>2. FromAnchor(level, p) = over \o p
    BY DEF FromAnchor
  <1>3. \A k \in 0..Len(p) : FromAnchor(level, SubSeq(p, 1, k)) = over \o SubSeq(p, 1, k)
    BY DEF FromAnchor
  <1> HIDE DEF over
  <1>4. FromAnchor(level, p) \in Seq(STRING) /\ Len(FromAnchor(level, p)) = level + Len(p)
    <2>1. over \o p \in Seq(STRING)
      BY <1>1
    <2>2. Len(over \o p) = Len(over) + Len(p)
      BY <1>1
    <2> QED
      BY <1>1, <1>2, <2>1, <2>2
  <1>5. \A i \in 1..Len(p) : FromAnchor(level, p)[level + i] = p[i]
    BY <1>1, <1>2
  <1>6. \A i \in 1..level : FromAnchor(level, p)[i] = over[i]
    BY <1>1, <1>2
  <1>7. ASSUME NEW k \in 0..Len(p)
        PROVE  over \o SubSeq(p, 1, k) = SubSeq(over \o p, 1, level + k)
    BY <1>1, <1>7
  <1>8. ASSUME NEW k \in 1..Len(p)
        PROVE  SubSeq(over \o p, level + 1, level + k) = SubSeq(p, 1, k)
    BY <1>1, <1>8
  <1> QED
    BY <1>2, <1>3, <1>4, <1>5, <1>7, <1>8

\* What matches a path up to one of its names matches the path.
LEMMA MatchesDown ==
    ASSUME NEW p \in Seq(STRING), NEW k \in 0..Len(p), NEW pattern,
           Matches(SubSeq(p, 1, k), pattern)
    PROVE  Matches(p, pattern)
  <1> DEFINE d == SubSeq(p, 1, k)
  <1>1. /\ Len(d) = k /\ Len(p) \in Nat
        /\ \A i \in 1..k : d[i] = p[i] /\ SubSeq(d, 1, i) = SubSeq(p, 1, i)
    BY PrefixIs
  <1> HIDE DEF d
  <1>2. PICK i \in 1..k : Fnmatch(<<d[i]>>, pattern) \/ Fnmatch(SubSeq(d, 1, i), pattern)
    BY <1>1 DEF Matches, d
  <1>3. i \in 1..Len(p) /\ <<d[i]>> = <<p[i]>> /\ SubSeq(d, 1, i) = SubSeq(p, 1, i)
    BY <1>1
  <1> QED
    BY <1>2, <1>3 DEF Matches

\* A pattern for a path or for the path from its anchor, without pairs.
LEMMA IgnoredIs ==
    ASSUME TreeOK, NEW p
    PROVE  IsIgnored(p) <=>
             \E level \in 0..gitLevel : \E pattern \in ignores[level] \ {<<>>} :
                Matches(p, pattern) \/ Matches(FromAnchor(level, p), pattern)
  <1>1. \A level \in 0..gitLevel : level \in 0..Len(Above) /\ ignores[level] \subseteq Patterns
    BY DiscoveryAssumption DEF TreeOK
  <1>2. \A level, pattern : <<level, pattern>> \in LoadGraphignore <=>
            level \in 0..gitLevel /\ pattern \in ignores[level]
    BY <1>1 DEF LoadGraphignore, TreeOK
  <1>3. \A x \in LoadGraphignore : x = <<x[1], x[2]>>
    BY DEF LoadGraphignore
  <1>4. IsIgnored(p) <=> \E x \in LoadGraphignore :
          x[2] # <<>> /\ (Matches(p, x[2]) \/ Matches(FromAnchor(x[1], p), x[2]))
    BY <1>3 DEF IsIgnored
  <1>5. ASSUME IsIgnored(p)
        PROVE  \E level \in 0..gitLevel : \E pattern \in ignores[level] \ {<<>>} :
                  Matches(p, pattern) \/ Matches(FromAnchor(level, p), pattern)
    <2>1. PICK x \in LoadGraphignore :
              x[2] # <<>> /\ (Matches(p, x[2]) \/ Matches(FromAnchor(x[1], p), x[2]))
      BY <1>4, <1>5
    <2>2. x[1] \in 0..gitLevel /\ x[2] \in ignores[x[1]]
      BY <1>2, <1>3, <2>1
    <2> QED
      BY <2>1, <2>2
  <1>6. ASSUME NEW level \in 0..gitLevel, NEW pattern \in ignores[level] \ {<<>>},
               Matches(p, pattern) \/ Matches(FromAnchor(level, p), pattern)
        PROVE  IsIgnored(p)
    <2>1. <<level, pattern>> \in LoadGraphignore
      BY <1>2, <1>6
    <2> DEFINE x == <<level, pattern>>
    <2>2. x[1] = level /\ x[2] = pattern
      OBVIOUS
    <2> QED
      BY <1>4, <1>6, <2>1, <2>2
  <1> QED
    BY <1>5, <1>6

\* A file in an ignored directory is ignored.
LEMMA IgnoredDown ==
    ASSUME TreeOK, NEW p \in Seq(STRING), NEW k \in 0..Len(p), IsIgnored(SubSeq(p, 1, k))
    PROVE  IsIgnored(p)
  <1>1. PICK level \in 0..gitLevel :
            \E pattern \in ignores[level] \ {<<>>} :
                \/ Matches(SubSeq(p, 1, k), pattern)
                \/ Matches(FromAnchor(level, SubSeq(p, 1, k)), pattern)
    BY IgnoredIs
  <1>2. PICK pattern \in ignores[level] \ {<<>>} :
            \/ Matches(SubSeq(p, 1, k), pattern)
            \/ Matches(FromAnchor(level, SubSeq(p, 1, k)), pattern)
    BY <1>1
  <1>3. level \in 0..Len(Above) /\ level + k \in 0..(level + Len(p)) /\ Len(Above) \in Nat
    BY DiscoveryAssumption DEF TreeOK
  <1>4. /\ FromAnchor(level, p) \in Seq(STRING) /\ Len(FromAnchor(level, p)) = level + Len(p)
        /\ FromAnchor(level, SubSeq(p, 1, k)) = SubSeq(FromAnchor(level, p), 1, level + k)
    BY <1>3, Anchored
  <1>5. Matches(p, pattern) \/ Matches(FromAnchor(level, p), pattern)
    BY <1>2, <1>3, <1>4, MatchesDown
  <1> QED
    BY <1>5, IgnoredIs

\* The patterns of _is_ignored name the path or a directory on the way, from the root
\* or from the directory of the .graphignore.
LEMMA IgnoredIsExcluded ==
    ASSUME TreeOK, NEW p \in Seq(STRING), p # <<>>
    PROVE  IsIgnored(p) <=> Excluded(p)
  <1> DEFINE rel(level) == FromAnchor(level, p)
             hits(level, pattern) ==
                \E start \in 1..(Len(p) + level) : \E end \in start..(Len(p) + level) :
                    start \in {1, end, level + 1}
                    /\ Fnmatch(SubSeq(rel(level), start, end), pattern)
  <1>1. ASSUME NEW level \in 0..gitLevel, NEW pattern
        PROVE  Matches(p, pattern) \/ Matches(rel(level), pattern) <=> hits(level, pattern)
    <2>1. level \in 0..Len(Above) /\ Len(p) \in Nat /\ level \in Nat
      BY DiscoveryAssumption DEF TreeOK
    <2>2. /\ rel(level) \in Seq(STRING) /\ Len(rel(level)) = level + Len(p)
          /\ \A i \in 1..Len(p) : rel(level)[level + i] = p[i]
          /\ \A i \in 1..Len(p) : SubSeq(rel(level), level + 1, level + i) = SubSeq(p, 1, i)
      BY <2>1, Anchored
    <2> HIDE DEF rel
    <2>3. \A i \in 1..(level + Len(p)) : <<rel(level)[i]>> = SubSeq(rel(level), i, i)
      BY <2>1, <2>2
    <2>4. ASSUME Matches(rel(level), pattern) PROVE hits(level, pattern)
      <3>1. PICK i \in 1..(level + Len(p)) :
                \/ Fnmatch(<<rel(level)[i]>>, pattern)
                \/ Fnmatch(SubSeq(rel(level), 1, i), pattern)
        BY <2>2, <2>4 DEF Matches
      <3>2. CASE Fnmatch(<<rel(level)[i]>>, pattern)
        <4>1. i \in 1..(Len(p) + level) /\ i \in i..(Len(p) + level) /\ i \in {1, i, level + 1}
          BY <2>1
        <4> QED
          BY <2>3, <3>2, <4>1
      <3>3. CASE Fnmatch(SubSeq(rel(level), 1, i), pattern)
        <4>1. 1 \in 1..(Len(p) + level) /\ i \in 1..(Len(p) + level) /\ 1 \in {1, i, level + 1}
          BY <2>1
        <4> QED
          BY <3>3, <4>1
      <3> QED
        BY <3>1, <3>2, <3>3
    <2>5. ASSUME Matches(p, pattern) PROVE hits(level, pattern)
      <3>1. PICK i \in 1..Len(p) : Fnmatch(<<p[i]>>, pattern) \/ Fnmatch(SubSeq(p, 1, i), pattern)
        BY <2>5 DEF Matches
      <3>2. CASE Fnmatch(<<p[i]>>, pattern)
        <4>1. /\ level + i \in 1..(Len(p) + level) /\ level + i \in (level + i)..(Len(p) + level)
              /\ level + i \in {1, level + i, level + 1} /\ level + i \in 1..(level + Len(p))
          BY <2>1
        <4>2. Fnmatch(SubSeq(rel(level), level + i, level + i), pattern)
          BY <2>2, <2>3, <3>2, <4>1
        <4> QED
          BY <4>1, <4>2
      <3>3. CASE Fnmatch(SubSeq(p, 1, i), pattern)
        <4>1. /\ level + 1 \in 1..(Len(p) + level) /\ level + i \in (level + 1)..(Len(p) + level)
              /\ level + 1 \in {1, level + i, level + 1}
          BY <2>1
        <4>2. Fnmatch(SubSeq(rel(level), level + 1, level + i), pattern)
          BY <2>2, <3>3
        <4> QED
          BY <4>1, <4>2
      <3> QED
        BY <3>1, <3>2, <3>3
    <2>6. ASSUME hits(level, pattern) PROVE Matches(p, pattern) \/ Matches(rel(level), pattern)
      <3>1. PICK start \in 1..(Len(p) + level) :
                \E end \in start..(Len(p) + level) :
                    start \in {1, end, level + 1}
                    /\ Fnmatch(SubSeq(rel(level), start, end), pattern)
        BY <2>6
      <3>2. PICK end \in start..(Len(p) + level) :
                start \in {1, end, level + 1} /\ Fnmatch(SubSeq(rel(level), start, end), pattern)
        BY <3>1
      <3>3. end \in 1..Len(rel(level))
        BY <2>1, <2>2
      <3>4. CASE start = 1
        BY <3>2, <3>3, <3>4 DEF Matches
      <3>5. CASE start = end
        BY <2>2, <2>3, <3>2, <3>3, <3>5 DEF Matches
      <3>6. CASE start = level + 1
        <4>1. end - level \in 1..Len(p) /\ end = level + (end - level)
          BY <2>1, <3>6
        <4>2. SubSeq(rel(level), start, end) = SubSeq(p, 1, end - level)
          BY <2>2, <3>6, <4>1
        <4> QED
          BY <3>2, <4>1, <4>2 DEF Matches
      <3> QED
        BY <3>2, <3>4, <3>5, <3>6
    <2> QED
      BY <2>4, <2>5, <2>6
  <1>2. Excluded(p) <=> \E level \in 0..gitLevel :
                           \E pattern \in ignores[level] \ {<<>>} : hits(level, pattern)
    BY DEF Excluded
  <1> HIDE DEF hits
  <1> QED
    BY <1>1, <1>2, IgnoredIs
\* Files and directories are paths.
LEMMA PathsOfTheDisk ==
    ASSUME TreeOK
    PROVE  /\ \A p \in disk : p \in Seq(STRING) /\ p # <<>> /\ Len(p) \in Nat \ {0}
           /\ \A d \in Dirs : d \in Seq(STRING) /\ d # <<>> /\ Len(d) \in Nat \ {0}
           /\ Len(MemoryDir) = 2
           /\ MemoryDir[1] = "graph-out" /\ MemoryDir[2] = "memory"
  <1>1. \A p \in SomeFiles \union Dirs : p \in Seq(STRING) /\ p # <<>> /\ Len(p) \in Nat \ {0}
    BY DiscoveryAssumption
  <1>2. Len(MemoryDir) = 2
    BY DEF MemoryDir
  <1>3. MemoryDir[1] = "graph-out" /\ MemoryDir[2] = "memory"
    BY DEF MemoryDir
  <1> QED
    BY <1>1, <1>2, <1>3 DEF TreeOK

\* The memory tree by its two names.
LEMMA UnderMemory ==
    ASSUME NEW p \in Seq(STRING)
    PROVE  Under(MemoryDir, p) <=> Len(p) > 2 /\ p[1] = "graph-out" /\ p[2] = "memory"
  <1>1. ASSUME Len(p) > 2
        PROVE  SubSeq(p, 1, 2) = <<p[1], p[2]>>
    <2> DEFINE q == SubSeq(p, 1, 2)
    <2>1. q \in Seq(STRING) /\ Len(q) = 2 /\ q[1] = p[1] /\ q[2] = p[2]
      BY <1>1, PrefixIs
    <2> HIDE DEF q
    <2>2. q = <<q[1], q[2]>>
      BY <2>1
    <2> QED
      BY <2>1, <2>2 DEF q
  <1>2. Len(MemoryDir) = 2 /\ MemoryDir = <<"graph-out", "memory">>
    BY DEF MemoryDir
  <1> QED
    BY <1>1, <1>2 DEF Under

\* What follows from a path being in a directory.
LEMMA InDirectory ==
    ASSUME NEW p \in Seq(STRING), p # <<>>, NEW dir \in Seq(STRING), Parent(p) = dir
    PROVE  /\ Len(p) = Len(dir) + 1 /\ \A i \in 1..Len(dir) : p[i] = dir[i]
           /\ Name(p) = p[Len(dir) + 1] /\ Len(dir) \in Nat
  <1>1. Len(p) \in Nat \ {0} /\ Len(p) - 1 \in 0..Len(p)
    OBVIOUS
  <1>2. Len(dir) = Len(p) - 1 /\ \A i \in 1..(Len(p) - 1) : dir[i] = p[i]
    BY <1>1, PrefixIs DEF Parent
  <1> QED
    BY <1>1, <1>2 DEF Name

\* The next directory on the way to a file.
LEMMA NextOnTheWay ==
    ASSUME TreeOK, NEW p \in disk, NEW k \in 0..(Len(p) - 2)
    PROVE  LET d == SubSeq(p, 1, k + 1)
           IN /\ d \in Dirs /\ Exists(d) /\ Parent(d) = SubSeq(p, 1, k)
              /\ Name(d) = p[k + 1] /\ k + 1 < Len(p)
  <1> DEFINE d == SubSeq(p, 1, k + 1)
  <1>1. p \in Seq(STRING) /\ Len(p) \in Nat /\ k \in Nat /\ k + 1 \in 1..(Len(p) - 1)
    BY PathsOfTheDisk
  <1>2. /\ d \in Seq(STRING) /\ Len(d) = k + 1 /\ \A i \in 1..(k + 1) : d[i] = p[i]
        /\ SubSeq(d, 1, k) = SubSeq(p, 1, k)
    BY <1>1, PrefixIs
  <1>3. d \in Dirs
    BY <1>1, DiscoveryAssumption DEF TreeOK
  <1>4. Under(d, p)
    BY <1>1, <1>2 DEF Under
  <1> HIDE DEF d
  <1>5. Exists(d)
    BY <1>4 DEF Exists
  <1>6. Parent(d) = SubSeq(p, 1, k) /\ Name(d) = p[k + 1]
    BY <1>1, <1>2 DEF Parent, Name
  <1>7. k + 1 < Len(p)
    BY <1>1
  <1> QED
    BY <1>3, <1>5, <1>6, <1>7 DEF d

\* A wanted file outside of the memory tree is met by the pruned walk.
LEMMA WantedIsOpen ==
    ASSUME TreeOK, NEW p \in disk, Wanted(p)
    PROVE  /\ Name(p) \notin SkipFiles /\ ~IsIgnored(p)
           /\ \A k \in 0..Len(p) : ~IsIgnored(SubSeq(p, 1, k))
           /\ Under(MemoryDir, p) \/ (Open(p, Len(p) - 1) /\ Name(p) \notin Hidden)
  <1>1. p \in Seq(STRING) /\ p # <<>> /\ Len(p) \in Nat \ {0}
    BY PathsOfTheDisk
  <1>2. Name(p) \notin SkipFiles /\ ~IsIgnored(p)
    BY <1>1, IgnoredIsExcluded DEF Wanted
  <1>3. \A k \in 0..Len(p) : ~IsIgnored(SubSeq(p, 1, k))
    BY <1>1, <1>2, IgnoredDown
  <1>4. Under(MemoryDir, p) \/ (Open(p, Len(p) - 1) /\ Name(p) \notin Hidden)
    BY <1>1 DEF Wanted, Visible, Open, Name
  <1> QED
    BY <1>2, <1>3, <1>4

-----------------------------------------------------------------------------
(* The walk *)

\* The checkout does not change.
LEMMA CheckoutStays ==
    ASSUME TreeOK, UNCHANGED <<disk, ignores, gitLevel>>, scan' \in {"root", "memory", "over"}
    PROVE  /\ TreeOK'
           /\ \A p : /\ Wanted(p)' <=> Wanted(p)
                     /\ Kept(p)' <=> Kept(p)
  <1>1. TreeOK'
    BY DEF TreeOK
  <1>2. \A p : Wanted(p)' <=> Wanted(p)
    BY DEF Wanted, Excluded
  <1>3. \A p : IsIgnored(p)' <=> IsIgnored(p)
    BY DEF IsIgnored, LoadGraphignore
  <1>4. \A p : Kept(p)' <=> Kept(p)
    BY <1>3 DEF Kept, InMemory, Exists
  <1> QED
    BY <1>1, <1>2, <1>4

\* At first the root is on the way to every file.
LEMMA DetectStarts ==
    ASSUME DiscoveryInit
    PROVE  DetectInv
  <1>1. TreeOK
    BY DiscoveryAssumption DEF DiscoveryInit, TreeOK
  <1>2. QueueOK
    BY DEF DiscoveryInit, QueueOK, Open
  <1>3. CollectedOK
    BY DEF DiscoveryInit, CollectedOK
  <1>4. ASSUME NEW p \in disk PROVE OnTheWay(p, {<<>>})
    <2>1. p \in Seq(STRING) /\ Len(p) \in Nat \ {0}
      BY <1>1, PathsOfTheDisk
    <2>2. SubSeq(p, 1, 0) = <<>> /\ 0 \in 0..(Len(p) - 1)
      BY <2>1
    <2> QED
      BY <2>2 DEF OnTheWay
  <1>5. WantedOK
    BY <1>4 DEF DiscoveryInit, WantedOK
  <1>6. ClassifiedOK
    BY DEF DiscoveryInit, ClassifiedOK
  <1> QED
    BY <1>1, <1>2, <1>3, <1>5, <1>6 DEF DetectInv

\* A visit takes a directory from the queue for the next ones on the way.
LEMMA VisitKeeps ==
    ASSUME DetectInv, NEW dir \in queue, Visit(dir)
    PROVE  DetectInv'
  <1> USE DEF DetectInv
  <1>1. scan \in {"root", "memory"} /\ scan' = scan /\ UNCHANGED <<disk, ignores, gitLevel>>
    BY DEF QueueOK, TreeOK, Visit
  <1>2. TreeOK' /\ \A p : Wanted(p)' <=> Wanted(p)
    BY <1>1, CheckoutStays
  <1>3. dir \in Seq(STRING)
    <2>1. dir \in Dirs \union {<<>>}
      BY DEF QueueOK
    <2>2. <<>> \in Seq(STRING)
      OBVIOUS
    <2> QED
      BY <2>1, <2>2, PathsOfTheDisk
  <1>4. ASSUME NEW d \in Seq(STRING), d # <<>>, Parent(d) = dir
        PROVE  /\ scan = "root" => Open(d, Len(d) - 1)
               /\ scan = "memory" => Under(MemoryDir, d)
    <2>1. /\ Len(d) = Len(dir) + 1 /\ \A i \in 1..Len(dir) : d[i] = dir[i]
          /\ Len(dir) \in Nat
      BY <1>3, <1>4, InDirectory
    <2>2. CASE scan = "root"
      BY <2>1, <2>2 DEF QueueOK, Open
    <2>3. CASE scan = "memory"
      <3>1. dir = MemoryDir \/ Under(MemoryDir, dir)
        BY <2>3 DEF QueueOK
      <3>2. Len(dir) >= 2 /\ dir[1] = "graph-out" /\ dir[2] = "memory"
        BY <1>3, <3>1, UnderMemory, PathsOfTheDisk
      <3> QED
        BY <2>1, <2>3, <3>2, UnderMemory
    <2> QED
      BY <1>1, <2>2, <2>3
  <1>5. QueueOK'
    <2>1. ASSUME NEW d \in queue', d \notin queue
          PROVE  /\ d \in Dirs /\ d \in Seq(STRING) /\ d # <<>> /\ Parent(d) = dir /\ Descends(d)
                 /\ scan = "root" => Open(d, Len(d))
                 /\ scan = "memory" => Under(MemoryDir, d)
      <3>1. d \in Dirs /\ Parent(d) = dir /\ Descends(d)
        BY <2>1 DEF Visit
      <3>2. d \in Seq(STRING) /\ d # <<>> /\ Len(d) \in Nat \ {0}
        BY <3>1, PathsOfTheDisk
      <3>3. scan = "root" => Open(d, Len(d) - 1)
        BY <1>4, <3>1, <3>2
      <3>4. scan = "root" => d[Len(d)] \notin Hidden /\ d[Len(d)] \notin NoiseDirs
        BY <3>1 DEF Descends, IsNoiseDir, Name
      <3>5. scan = "root" => Open(d, Len(d))
        BY <3>2, <3>3, <3>4 DEF Open
      <3> QED
        BY <1>4, <3>1, <3>2, <3>5
    <2>2. queue' \subseteq Dirs \union {<<>>}
      BY <2>1 DEF QueueOK
    <2> QED
      BY <1>1, <2>1, <2>2 DEF QueueOK
  <1>6. CollectedOK'
    <2>1. ASSUME NEW p \in collected', p \notin collected
          PROVE  /\ p \in disk /\ Name(p) \notin SkipFiles
                 /\ Under(MemoryDir, p) \/ Open(p, Len(p) - 1)
      <3>1. p \in disk /\ Parent(p) = dir /\ Name(p) \notin SkipFiles
        BY <2>1 DEF Visit
      <3>2. p \in Seq(STRING) /\ p # <<>>
        BY <3>1, PathsOfTheDisk
      <3> QED
        BY <1>1, <1>4, <3>1, <3>2
    <2> QED
      BY <1>1, <2>1 DEF CollectedOK
  <1>7. WantedOK'
    <2> SUFFICES ASSUME NEW p \in disk, Wanted(p), p \notin collected, OnTheWay(p, queue),
                        scan = "root" => ~Under(MemoryDir, p)
                 PROVE  p \in collected' \/ OnTheWay(p, queue')
      <3>1. collected \subseteq collected'
        BY DEF Visit
      <3> QED
        BY <1>1, <1>2, <3>1 DEF WantedOK
    <2>1. PICK k \in 0..(Len(p) - 1) : SubSeq(p, 1, k) \in queue
      BY DEF OnTheWay
    <2>2. p \in Seq(STRING) /\ p # <<>> /\ Len(p) \in Nat \ {0}
      BY PathsOfTheDisk
    <2>3. CASE SubSeq(p, 1, k) # dir
      BY <2>1, <2>3 DEF Visit, OnTheWay
    <2>4. CASE SubSeq(p, 1, k) = dir /\ k = Len(p) - 1
      <3>1. Parent(p) = dir
        BY <2>4 DEF Parent
      <3> QED
        BY <3>1, WantedIsOpen DEF Visit
    <2>5. CASE SubSeq(p, 1, k) = dir /\ k # Len(p) - 1
      <3> DEFINE d == SubSeq(p, 1, k + 1)
      <3>1. k \in 0..(Len(p) - 2) /\ k + 1 \in 0..(Len(p) - 1) /\ k + 1 \in 1..(Len(p) - 1)
            /\ k + 1 \in 0..Len(p)
        BY <2>2, <2>5
      <3>2. d \in Dirs /\ Exists(d) /\ Parent(d) = dir /\ Name(d) = p[k + 1]
        BY <2>5, <3>1, NextOnTheWay
      <3>3. ~IsIgnored(d) /\ (Under(MemoryDir, p) \/ Open(p, Len(p) - 1))
        BY <3>1, WantedIsOpen
      <3>4. ASSUME scan = "root" PROVE Open(p, Len(p) - 1)
        BY <3>3, <3>4
      <3> HIDE DEF d
      <3>5. Descends(d)
        BY <1>1, <3>1, <3>2, <3>3, <3>4 DEF Descends, IsNoiseDir, Open
      <3>6. d \in queue'
        BY <3>2, <3>5 DEF Visit
      <3> QED
        BY <3>1, <3>6 DEF OnTheWay, d
    <2> QED
      BY <2>3, <2>4, <2>5
  <1>8. ClassifiedOK'
    BY <1>1 DEF ClassifiedOK, Visit
  <1> QED
    BY <1>2, <1>5, <1>6, <1>7, <1>8
\* The memory tree is walked after the root; then no directory is left.
LEMMA ScansKeep ==
    ASSUME DetectInv, NextScan \/ ScansEnd
    PROVE  DetectInv'
  <1> USE DEF DetectInv
  <1>1. UNCHANGED <<disk, ignores, gitLevel, collected, found, sensitive>> /\ queue = {}
    BY DEF NextScan, ScansEnd
  <1>2. scan' \in {"root", "memory", "over"}
    BY DEF NextScan, ScansEnd
  <1>3. TreeOK' /\ \A p : (Wanted(p)' <=> Wanted(p)) /\ (Kept(p)' <=> Kept(p))
    BY <1>1, <1>2, CheckoutStays
  <1>4. CollectedOK'
    BY <1>1 DEF CollectedOK
  <1>5. \A p \in disk : ~OnTheWay(p, queue)
    BY <1>1 DEF OnTheWay
  <1>6. CASE NextScan
    <2>1. scan = "root" /\ scan' = "memory" /\ queue' = {MemoryDir}
      BY <1>6 DEF NextScan
    <2>2. MemoryDir \in Dirs
      <3>1. PICK p \in disk : Under(MemoryDir, p)
        BY <1>6 DEF NextScan, Exists
      <3>2. Len(p) \in Nat /\ Len(p) > 2 /\ SubSeq(p, 1, 2) = MemoryDir
        BY <3>1, PathsOfTheDisk DEF Under
      <3>3. 2 \in 1..(Len(p) - 1) /\ p \in SomeFiles
        BY <3>2 DEF TreeOK
      <3> QED
        BY <3>2, <3>3, DiscoveryAssumption
    <2>3. QueueOK'
      BY <2>1, <2>2 DEF QueueOK
    <2>4. ASSUME NEW p \in disk, Under(MemoryDir, p) PROVE OnTheWay(p, queue')
      <3>1. Len(p) \in Nat /\ Len(p) > 2 /\ SubSeq(p, 1, 2) = MemoryDir
        BY <2>4, PathsOfTheDisk DEF Under
      <3>2. 2 \in 0..(Len(p) - 1)
        BY <3>1
      <3> QED
        BY <2>1, <3>1, <3>2 DEF OnTheWay
    <2>5. WantedOK'
      BY <1>1, <1>3, <1>5, <2>1, <2>4 DEF WantedOK
    <2>6. ClassifiedOK'
      BY <1>1, <1>6, <2>1 DEF ClassifiedOK, NextScan
    <2> QED
      BY <1>3, <1>4, <2>3, <2>5, <2>6
  <1>7. CASE ScansEnd
    <2>1. scan' = "over" /\ queue' = {} /\ pending' = collected /\ scan \in {"root", "memory"}
      BY <1>7 DEF ScansEnd
    <2>2. QueueOK'
      BY <2>1 DEF QueueOK
    <2>3. ASSUME NEW p \in disk, scan = "root" PROVE ~Under(MemoryDir, p)
      BY <1>7, <2>3 DEF ScansEnd, Exists
    <2>4. \A p \in disk : Wanted(p) => p \in collected
      BY <1>5, <2>1, <2>3 DEF WantedOK
    <2>5. WantedOK'
      BY <1>1, <1>3, <2>4 DEF WantedOK
    <2>6. found' = {} /\ sensitive' = {} /\ collected' \ pending' = {}
      BY <1>1, <2>1 DEF ClassifiedOK
    <2>7. /\ {<<ClassifyFile(p), p>> : p \in {q \in collected' \ pending' : Listed(q)'}} = {}
          /\ {p \in collected' \ pending' : Kept(p)' /\ IsSensitive(p)} = {}
      BY <2>6
    <2>8. ClassifiedOK'
      BY <1>1, <2>1, <2>6, <2>7 DEF ClassifiedOK
    <2> QED
      BY <1>3, <1>4, <2>2, <2>5, <2>8
  <1> QED
    BY <1>6, <1>7

\* A collected file is listed, reported or left out.
LEMMA ClassifyKeeps ==
    ASSUME DetectInv, NEW p \in pending, Classify(p)
    PROVE  DetectInv'
  <1> USE DEF DetectInv
  <1>1. UNCHANGED <<disk, ignores, gitLevel, scan, queue, collected>> /\ scan = "over"
    BY DEF Classify, ClassifiedOK
  <1>2. scan' \in {"root", "memory", "over"}
    BY <1>1
  <1>3. TreeOK' /\ \A q : (Wanted(q)' <=> Wanted(q)) /\ (Kept(q)' <=> Kept(q))
    BY <1>1, <1>2, CheckoutStays
  <1>4. QueueOK' /\ CollectedOK' /\ WantedOK'
    BY <1>1, <1>3 DEF QueueOK, CollectedOK, WantedOK
  <1>5. \A q : Listed(q)' <=> Listed(q)
    BY <1>3 DEF Listed
  <1>6. collected' \ pending' = (collected \ pending) \union {p}
    BY <1>1 DEF ClassifiedOK, Classify
  <1>7. found' = {<<ClassifyFile(q), q>> : q \in {r \in collected' \ pending' : Listed(r)}}
    BY <1>1, <1>6 DEF ClassifiedOK, Classify, Listed
  <1>8. sensitive' = {q \in collected' \ pending' : Kept(q) /\ IsSensitive(q)}
    BY <1>1, <1>6 DEF ClassifiedOK, Classify
  <1>9. pending' \subseteq collected'
    BY <1>1 DEF ClassifiedOK, Classify
  <1>10. ClassifiedOK'
    BY <1>1, <1>3, <1>5, <1>7, <1>8, <1>9 DEF ClassifiedOK
  <1> QED
    BY <1>3, <1>4, <1>10

\* Every step keeps the invariant.
LEMMA DetectSteps ==
    ASSUME DetectInv, [DiscoveryNext]_DiscoveryVars
    PROVE  DetectInv'
  <1>1. CASE \E dir \in queue : Visit(dir)
    BY <1>1, VisitKeeps
  <1>2. CASE NextScan \/ ScansEnd
    BY <1>2, ScansKeep
  <1>3. CASE \E p \in pending : Classify(p)
    BY <1>3, ClassifyKeeps
  <1>4. CASE UNCHANGED DiscoveryVars
    <2>1. UNCHANGED <<disk, ignores, gitLevel, scan, queue, collected, found, sensitive, pending>>
      BY <1>4 DEF DiscoveryVars
    <2>2. scan' \in {"root", "memory", "over"}
      BY <2>1 DEF DetectInv, TreeOK
    <2>3. TreeOK' /\ \A p : (Wanted(p)' <=> Wanted(p)) /\ (Kept(p)' <=> Kept(p))
      BY <2>1, <2>2, CheckoutStays DEF DetectInv
    <2>4. QueueOK' /\ CollectedOK' /\ WantedOK'
      BY <2>1, <2>3 DEF DetectInv, QueueOK, CollectedOK, WantedOK
    <2>5. ClassifiedOK'
      BY <2>1, <2>3 DEF DetectInv, ClassifiedOK, Listed
    <2> QED
      BY <2>3, <2>4, <2>5 DEF DetectInv
  <1> QED
    BY <1>1, <1>2, <1>3, <1>4 DEF DiscoveryNext

-----------------------------------------------------------------------------
\* The invariant of a scan: a wanted file that is not collected has a directory on its
\* way in the queue, and what was collected is no file the walk should not meet.
THEOREM DetectInvariant == DiscoverySpec => []DetectInv
  <1>1. DiscoveryInit => DetectInv
    BY DetectStarts
  <1>2. DetectInv /\ [DiscoveryNext]_DiscoveryVars => DetectInv'
    BY DetectSteps
  <1> QED
    BY <1>1, <1>2, PTL DEF DiscoverySpec

\* What was collected and is kept is what is wanted.
LEMMA KeptIsWanted ==
    ASSUME DetectInv, scan = "over", NEW p \in disk
    PROVE  p \in collected /\ Kept(p) <=> Wanted(p)
  <1> USE DEF DetectInv
  <1>1. p \in Seq(STRING) /\ p # <<>> /\ Len(p) \in Nat \ {0}
    BY PathsOfTheDisk
  <1>2. InMemory(p) <=> Under(MemoryDir, p)
    BY DEF InMemory, Exists
  <1>3. ASSUME p \in collected, Kept(p) PROVE Wanted(p)
    <2>1. Name(p) \notin SkipFiles /\ (Under(MemoryDir, p) \/ Open(p, Len(p) - 1))
      BY <1>3 DEF CollectedOK
    <2>2. ~Excluded(p)
      BY <1>1, <1>3, IgnoredIsExcluded DEF Kept
    <2>3. Visible(p)
      BY <1>1, <1>2, <1>3, <2>1 DEF Kept, Visible, Open, Name
    <2> QED
      BY <2>1, <2>2, <2>3 DEF Wanted
  <1>4. ASSUME Wanted(p) PROVE p \in collected /\ Kept(p)
    <2>1. p \in collected
      BY <1>4 DEF WantedOK
    <2>2. ~IsIgnored(p) /\ (Under(MemoryDir, p) \/ (Open(p, Len(p) - 1) /\ Name(p) \notin Hidden))
      BY <1>4, WantedIsOpen
    <2>3. ASSUME Open(p, Len(p) - 1), Under(ConvertedDir, p) PROVE FALSE
      <3>1. Len(p) > 2 /\ SubSeq(p, 1, 2) = <<"graph-out", "converted">>
        BY <2>3 DEF Under, ConvertedDir
      <3>2. p[1] = SubSeq(p, 1, 2)[1] /\ 1 \in 1..(Len(p) - 1)
        BY <1>1, <3>1, PrefixIs
      <3>3. <<"graph-out", "converted">>[1] = "graph-out"
        OBVIOUS
      <3>4. p[1] = "graph-out"
        BY <3>1, <3>2, <3>3
      <3> QED
        BY <2>3, <3>2, <3>4, DiscoveryAssumption DEF Open
    <2> QED
      BY <1>2, <2>1, <2>2, <2>3 DEF Kept
  <1> QED
    BY <1>3, <1>4

\* The pruned walks and the filters after them find the files that are wanted and
\* report the sensitive ones, for every checkout and every .graphignore at any level.
THEOREM WantedFound == DiscoverySpec => []DetectFindsTheWanted
  <1>1. ASSUME DetectInv PROVE DetectFindsTheWanted
    <2> SUFFICES ASSUME scan = "over", pending = {}
                 PROVE  /\ {f[2] : f \in found} =
                             {p \in disk : Wanted(p)
                                              /\ Name(p) \in (Code \union Documents) \ Sensitive}
                        /\ sensitive = {p \in disk : Wanted(p) /\ Name(p) \in Sensitive}
      BY DEF DetectFindsTheWanted, Detected
    <2>1. /\ found = {<<ClassifyFile(p), p>> : p \in {q \in collected : Listed(q)}}
          /\ sensitive = {p \in collected : Kept(p) /\ IsSensitive(p)}
      BY <1>1 DEF DetectInv, ClassifiedOK
    <2>2. collected \subseteq disk
      BY <1>1 DEF DetectInv, CollectedOK
    <2>3. \A p \in disk : p \in collected /\ Kept(p) <=> Wanted(p)
      BY <1>1, KeptIsWanted
    <2>4. \A p : ClassifyFile(p) # "none" <=> Name(p) \in Code \union Documents
      BY DEF ClassifyFile
    <2>5. {f[2] : f \in found} = {q \in collected : Listed(q)}
      <3> DEFINE listed == {q \in collected : Listed(q)}
      <3>1. found = {<<ClassifyFile(p), p>> : p \in listed}
        BY <2>1
      <3> HIDE DEF listed
      <3>2. \A p : <<ClassifyFile(p), p>>[2] = p
        OBVIOUS
      <3>3. {f[2] : f \in found} = listed
        BY <3>1, <3>2
      <3> QED
        BY <3>3 DEF listed
    <2>6. {q \in collected : Listed(q)} =
             {p \in disk : Wanted(p) /\ Name(p) \in (Code \union Documents) \ Sensitive}
      BY <2>2, <2>3, <2>4 DEF Listed, IsSensitive
    <2>7. sensitive = {p \in disk : Wanted(p) /\ Name(p) \in Sensitive}
      BY <2>1, <2>2, <2>3 DEF IsSensitive
    <2> QED
      BY <2>5, <2>6, <2>7
  <1> QED
    BY <1>1, DetectInvariant, PTL

-----------------------------------------------------------------------------
(* RepoMap                                                                 *)

\* The steps of the builds and deletes of a slug, and what they know.
BuildSteps == {"resolve", "cached", "download", "fetch", "register", "register save",
               "resolved", "raised"}
DeleteSteps == {"rmtree", "unregister", "unregister load", "unregister save", "deleted"}
BuildProcs == [pc : BuildSteps, url : Urls, fetch : BOOLEAN, mapped : BOOLEAN,
               mapping : SUBSET Urls, since : [Repos -> Nat]]
DeleteProcs == [pc : DeleteSteps, url : Urls \cup {Nothing}, mapping : SUBSET Urls]

\* A checkout c of slug s: what it holds and what it fetches are of its URLs.
CheckoutOK(s, c) == c # Nothing => c.repo \in OfTheSlug(s) /\ c.remote \in OfTheSlug(s)

\* A build p of slug s that began when no remote branch was beyond head h.
BuildOK(s, p, h) == SlugOf[p.url] = s /\ \A r \in Repos : p.since[r] <= h[r]

\* What a build p has made of the checkout c.
StepOK(p, c) ==
    /\ p.pc = "cached" => ~p.fetch
    /\ p.pc = "download" => p.fetch
    /\ p.pc = "fetch" => p.fetch /\ c # Nothing /\ c.remote = RepoOf[p.url]
    /\ p.pc \in {"register", "register save", "resolved"} =>
          /\ c # Nothing
          /\ p.fetch => /\ c.repo = RepoOf[p.url]
                         /\ c.commit >= p.since[RepoOf[p.url]]
    /\ p.pc = "raised" /\ ~p.fetch => c = Nothing

ProcOK(s, p, c, h) ==
    \/ p = NoProcess
    \/ p \in DeleteProcs
    \/ p \in BuildProcs /\ BuildOK(s, p, h) /\ StepOK(p, c)

\* The invariant of the map, the checkouts and their processes.
RepoInv ==
    /\ head \in [Repos -> Nat] /\ map \subseteq Urls
    /\ proc = [s \in Slugs |-> proc[s]]
    /\ checkout \in [Slugs -> Checkouts \cup {Nothing}]
    /\ \A s \in Slugs : CheckoutOK(s, checkout[s]) /\ ProcOK(s, proc[s], checkout[s], head)

\* RepoMap begins with no checkout and no process.
LEMMA RepoInit == RepoMapInit => RepoInv
  <1> SUFFICES ASSUME RepoMapInit PROVE RepoInv
    OBVIOUS
  <1>1. ASSUME NEW s \in Slugs
        PROVE  CheckoutOK(s, checkout[s]) /\ ProcOK(s, proc[s], checkout[s], head)
    BY DEF RepoMapInit, CheckoutOK, ProcOK
  <1>2. head \in [Repos -> Nat] /\ checkout \in [Slugs -> Checkouts \cup {Nothing}]
    BY DEF RepoMapInit
  <1>3. map \subseteq Urls /\ proc = [s \in Slugs |-> proc[s]]
    BY DEF RepoMapInit
  <1> QED
    BY <1>1, <1>2, <1>3 DEF RepoInv

\* A process at a step of a build is a build of its slug, and has made of the
\* checkout what that step relies on.
LEMMA AtBuild ==
    ASSUME RepoInv, NEW s \in Slugs, proc[s].pc \in BuildSteps
    PROVE  proc[s] \in BuildProcs /\ BuildOK(s, proc[s], head) /\ StepOK(proc[s], checkout[s])
  <1>1. proc[s] = NoProcess => proc[s].pc = "idle"
    BY DEF NoProcess
  <1>2. proc[s] \in DeleteProcs => proc[s].pc \in DeleteSteps
    BY DEF DeleteProcs
  <1> QED
    BY <1>1, <1>2 DEF RepoInv, ProcOK, BuildSteps, DeleteSteps

\* A process at a step of a delete knows what a delete knows.
LEMMA AtDelete ==
    ASSUME RepoInv, NEW s \in Slugs, proc[s].pc \in DeleteSteps
    PROVE  proc[s] \in DeleteProcs
  <1>1. proc[s] = NoProcess => proc[s].pc = "idle"
    BY DEF NoProcess
  <1>2. proc[s] \in BuildProcs => proc[s].pc \in BuildSteps
    BY DEF BuildProcs
  <1> QED
    BY <1>1, <1>2 DEF RepoInv, ProcOK, BuildSteps, DeleteSteps

\* A step of one slug's build or delete, which may touch the map and its checkout
\* alone, need only keep what is said of that slug.
LEMMA SlugStep ==
    ASSUME RepoInv, NEW s \in Slugs, NEW p, NEW c \in Checkouts \cup {Nothing},
           map' \subseteq Urls, head' = head,
           proc' = [proc EXCEPT ![s] = p], checkout' = [checkout EXCEPT ![s] = c],
           CheckoutOK(s, c), ProcOK(s, p, c, head)
    PROVE  RepoInv'
  <1>1. ASSUME NEW t \in Slugs
        PROVE  CheckoutOK(t, checkout'[t]) /\ ProcOK(t, proc'[t], checkout'[t], head')
    BY DEF RepoInv
  <1>2. proc' = [t \in Slugs |-> proc'[t]] /\ checkout' \in [Slugs -> Checkouts \cup {Nothing}]
    BY DEF RepoInv
  <1>3. head' \in [Repos -> Nat]
    BY DEF RepoInv
  <1> QED
    BY <1>1, <1>2, <1>3 DEF RepoInv

\* The same for a step that leaves the checkout as it is.
LEMMA ProcStep ==
    ASSUME RepoInv, NEW s \in Slugs, NEW p, map' \subseteq Urls, head' = head,
           proc' = [proc EXCEPT ![s] = p], checkout' = checkout,
           ProcOK(s, p, checkout[s], head)
    PROVE  RepoInv'
  <1>1. checkout' = [checkout EXCEPT ![s] = checkout[s]]
    BY DEF RepoInv
  <1> QED
    BY <1>1, SlugStep DEF RepoInv

\* A push only moves a branch forward, past what builds have seen.
LEMMA PushInv ==
    ASSUME RepoInv, NEW r \in Repos, Push(r)
    PROVE  RepoInv'
  <1>1. head' \in [Repos -> Nat] /\ \A q \in Repos : head[q] <= head'[q]
    BY RepoMapAssumption DEF RepoInv, Push
  <1>2. ASSUME NEW s \in Slugs
        PROVE  ProcOK(s, proc[s], checkout[s], head')
    BY <1>1 DEF RepoInv, ProcOK, BuildOK, BuildProcs
  <1> QED
    BY <1>1, <1>2 DEF RepoInv, Push

\* A build begins with the branches as they are.
LEMMA StartBuildInv ==
    ASSUME RepoInv, NEW u \in Urls, NEW fetch \in BOOLEAN, StartBuild(u, fetch)
    PROVE  RepoInv'
  <1> DEFINE s == SlugOf[u]
             p == [pc |-> "resolve", url |-> u, fetch |-> fetch, mapped |-> FALSE,
                   mapping |-> {}, since |-> head]
  <1>1. s \in Slugs
    BY DEF Slugs
  <1>2. p \in BuildProcs /\ BuildOK(s, p, head) /\ StepOK(p, checkout[s])
    BY DEF RepoInv, BuildProcs, BuildSteps, BuildOK, StepOK
  <1>3. ProcOK(s, p, checkout[s], head)
    BY <1>2 DEF ProcOK
  <1>4. UNCHANGED <<map, checkout, head>> /\ proc' = [proc EXCEPT ![s] = p]
    BY DEF StartBuild
  <1> HIDE DEF s, p
  <1> QED
    BY <1>1, <1>3, <1>4, ProcStep DEF RepoInv

\* get_path keeps what is known of the checkout.
LEMMA GetPathInv ==
    ASSUME RepoInv, NEW s \in Slugs, GetPath(s)
    PROVE  RepoInv'
  <1> DEFINE mapped == proc[s].url \in map /\ (proc[s].fetch => checkout[s] # Nothing)
             p == [proc[s] EXCEPT !.mapped = mapped,
                                  !.pc = IF proc[s].fetch THEN "download" ELSE "cached"]
  <1>1. proc[s] \in BuildProcs /\ BuildOK(s, proc[s], head)
    BY AtBuild DEF GetPath, On, BuildSteps
  <1>2. p \in BuildProcs /\ BuildOK(s, p, head) /\ StepOK(p, checkout[s])
    BY <1>1 DEF BuildProcs, BuildSteps, BuildOK, StepOK
  <1>3. UNCHANGED <<map, checkout, head>> /\ proc' = [proc EXCEPT ![s] = p]
    BY <1>1 DEF GetPath, RepoInv, BuildProcs
  <1>4. ProcOK(s, p, checkout[s], head)
    BY <1>2 DEF ProcOK
  <1> HIDE DEF p
  <1> QED
    BY <1>3, <1>4, ProcStep DEF RepoInv

\* A build without fetch takes the checkout there is, or raises.
LEMMA CachedCheckoutInv ==
    ASSUME RepoInv, NEW s \in Slugs, CachedCheckout(s)
    PROVE  RepoInv'
  <1> DEFINE to == CASE checkout[s] = Nothing -> "raised"
                     [] checkout[s] # Nothing /\ proc[s].mapped -> "resolved"
                     [] OTHER -> "register"
             p == [proc[s] EXCEPT !.pc = to]
  <1>1. proc[s] \in BuildProcs /\ BuildOK(s, proc[s], head) /\ ~proc[s].fetch
    BY AtBuild DEF CachedCheckout, On, BuildSteps, StepOK
  <1>2. UNCHANGED <<map, checkout, head>> /\ proc' = [proc EXCEPT ![s] = p]
    BY <1>1 DEF CachedCheckout, Goto, RepoInv, BuildProcs
  <1>3. to \in {"raised", "resolved", "register"} /\ (to = "raised" <=> checkout[s] = Nothing)
    OBVIOUS
  <1> HIDE DEF to
  <1>4. p \in BuildProcs /\ BuildOK(s, p, head) /\ StepOK(p, checkout[s])
    BY <1>1, <1>3 DEF BuildProcs, BuildSteps, BuildOK, StepOK
  <1>5. ProcOK(s, p, checkout[s], head)
    BY <1>4 DEF ProcOK
  <1> HIDE DEF p
  <1> QED
    BY <1>2, <1>5, ProcStep DEF RepoInv

\* Reading the map to register a url touches no checkout.
LEMMA RegisterInv ==
    ASSUME RepoInv, NEW s \in Slugs, Register(s)
    PROVE  RepoInv'
  <1> DEFINE p == [proc[s] EXCEPT !.mapping = map \union {proc[s].url}, !.pc = "register save"]
  <1>1. proc[s] \in BuildProcs /\ BuildOK(s, proc[s], head) /\ StepOK(proc[s], checkout[s])
    BY AtBuild DEF Register, On, BuildSteps
  <1>2. UNCHANGED <<map, checkout, head>> /\ proc' = [proc EXCEPT ![s] = p]
    BY <1>1 DEF Register, RepoInv, BuildProcs
  <1>3. p \in BuildProcs /\ BuildOK(s, p, head) /\ StepOK(p, checkout[s])
    BY <1>1 DEF BuildProcs, BuildSteps, BuildOK, StepOK, Register, On, RepoInv
  <1>4. ProcOK(s, p, checkout[s], head)
    BY <1>3 DEF ProcOK
  <1> HIDE DEF p
  <1> QED
    BY <1>2, <1>4, ProcStep DEF RepoInv

\* Saving the map may lose other entries, never a checkout.
LEMMA RegisterSaveInv ==
    ASSUME RepoInv, NEW s \in Slugs, RegisterSave(s)
    PROVE  RepoInv'
  <1> DEFINE p == [proc[s] EXCEPT !.pc = "resolved"]
  <1>1. proc[s] \in BuildProcs /\ BuildOK(s, proc[s], head) /\ StepOK(proc[s], checkout[s])
    BY AtBuild DEF RegisterSave, On, BuildSteps
  <1>2. UNCHANGED <<checkout, head>> /\ proc' = [proc EXCEPT ![s] = p] /\ map' = proc[s].mapping
    BY <1>1 DEF RegisterSave, Goto, RepoInv, BuildProcs
  <1>3. p \in BuildProcs /\ BuildOK(s, p, head) /\ StepOK(p, checkout[s])
    BY <1>1 DEF BuildProcs, BuildSteps, BuildOK, StepOK, RegisterSave, On
  <1>4. ProcOK(s, p, checkout[s], head) /\ map' \subseteq Urls
    BY <1>1, <1>2, <1>3 DEF ProcOK, BuildProcs
  <1> HIDE DEF p
  <1> QED
    BY <1>2, <1>4, ProcStep DEF RepoInv

\* A clone or fetch that fails raises and leaves the checkout alone.
LEMMA DownloadFailsInv ==
    ASSUME RepoInv, NEW s \in Slugs, DownloadFails(s)
    PROVE  RepoInv'
  <1> DEFINE p == [proc[s] EXCEPT !.pc = "raised"]
  <1>1. proc[s] \in BuildProcs /\ BuildOK(s, proc[s], head) /\ proc[s].fetch
    BY AtBuild DEF DownloadFails, On, BuildSteps, StepOK
  <1>2. UNCHANGED <<map, checkout, head>> /\ proc' = [proc EXCEPT ![s] = p]
    BY <1>1 DEF DownloadFails, Goto, RepoInv, BuildProcs
  <1>3. p \in BuildProcs /\ BuildOK(s, p, head) /\ StepOK(p, checkout[s])
    BY <1>1 DEF BuildProcs, BuildSteps, BuildOK, StepOK
  <1>4. ProcOK(s, p, checkout[s], head)
    BY <1>3 DEF ProcOK
  <1> HIDE DEF p
  <1> QED
    BY <1>2, <1>4, ProcStep DEF RepoInv

\* A clone, or a new remote, makes the checkout one of the url's repository.
LEMMA SetRemoteInv ==
    ASSUME RepoInv, NEW s \in Slugs, SetRemote(s)
    PROVE  RepoInv'
  <1> DEFINE r == RepoOf[proc[s].url]
             p == [proc[s] EXCEPT !.pc = "fetch"]
             c == IF checkout[s] = Nothing THEN [remote |-> r, repo |-> r, commit |-> head[r]]
                  ELSE [checkout[s] EXCEPT !.remote = r]
  <1>1. proc[s] \in BuildProcs /\ BuildOK(s, proc[s], head) /\ proc[s].fetch
    BY AtBuild DEF SetRemote, On, BuildSteps, StepOK
  <1>2. UNCHANGED <<map, head>> /\ proc' = [proc EXCEPT ![s] = p]
        /\ checkout' = [checkout EXCEPT ![s] = c]
    BY <1>1 DEF SetRemote, Goto, RepoInv, BuildProcs
  <1>3. proc[s].url \in Urls /\ r \in Repos /\ SlugOf[proc[s].url] = s
    BY <1>1 DEF BuildProcs, BuildOK, Repos
  <1>4. /\ c \in Checkouts /\ c # Nothing /\ c.remote = r
        /\ c.repo = IF checkout[s] = Nothing THEN r ELSE checkout[s].repo
    BY <1>3, NothingAssumption DEF RepoInv, Checkouts
  <1>5. CheckoutOK(s, checkout[s])
    BY DEF RepoInv
  <1> HIDE DEF c
  <1>6. CheckoutOK(s, c)
    BY <1>3, <1>4, <1>5 DEF CheckoutOK, OfTheSlug
  <1>7. p \in BuildProcs /\ BuildOK(s, p, head) /\ StepOK(p, c)
    BY <1>1, <1>4 DEF BuildProcs, BuildSteps, BuildOK, StepOK
  <1>8. ProcOK(s, p, c, head)
    BY <1>7 DEF ProcOK
  <1> HIDE DEF p
  <1> QED
    BY <1>2, <1>4, <1>6, <1>8, SlugStep DEF RepoInv

\* A fetch brings the checkout to the head of its remote, no older than what the
\* build began with.
LEMMA FetchAndCheckoutInv ==
    ASSUME RepoInv, NEW s \in Slugs, FetchAndCheckout(s)
    PROVE  RepoInv'
  <1> DEFINE r == RepoOf[proc[s].url]
             to == IF proc[s].mapped THEN "resolved" ELSE "register"
             p == [proc[s] EXCEPT !.pc = to]
             c == [checkout[s] EXCEPT !.repo = checkout[s].remote,
                                      !.commit = head[checkout[s].remote]]
  <1>1. /\ proc[s] \in BuildProcs /\ BuildOK(s, proc[s], head) /\ proc[s].fetch
        /\ checkout[s] # Nothing /\ checkout[s].remote = r
    BY AtBuild DEF FetchAndCheckout, On, BuildSteps, StepOK
  <1>2. UNCHANGED <<map, head>> /\ proc' = [proc EXCEPT ![s] = p]
    BY <1>1 DEF FetchAndCheckout, Goto, RepoInv, BuildProcs
  <1>3. checkout' = [checkout EXCEPT ![s] = c]
    BY <1>1 DEF FetchAndCheckout, RepoInv, Checkouts
  <1>4. proc[s].url \in Urls /\ r \in Repos /\ SlugOf[proc[s].url] = s
    BY <1>1 DEF BuildProcs, BuildOK, Repos
  <1>5. checkout[s] \in Checkouts
    BY <1>1 DEF RepoInv
  <1>6. c \in Checkouts /\ c # Nothing /\ c.remote = r /\ c.repo = r /\ c.commit = head[r]
    BY <1>1, <1>4, <1>5, NothingAssumption DEF RepoInv, Checkouts
  <1>7. CheckoutOK(s, checkout[s])
    BY DEF RepoInv
  <1>8. to \in {"resolved", "register"}
    OBVIOUS
  <1> HIDE DEF c, to
  <1>9. CheckoutOK(s, c)
    BY <1>4, <1>6 DEF CheckoutOK, OfTheSlug
  <1>10. p \in BuildProcs /\ BuildOK(s, p, head) /\ p.since[r] <= head[r]
    BY <1>1, <1>4, <1>8 DEF BuildProcs, BuildSteps, BuildOK
  <1>11. StepOK(p, c)
    BY <1>1, <1>6, <1>8, <1>10 DEF StepOK, BuildProcs
  <1>12. ProcOK(s, p, c, head)
    BY <1>10, <1>11 DEF ProcOK
  <1> HIDE DEF p
  <1> QED
    BY <1>2, <1>3, <1>6, <1>9, <1>12, SlugStep DEF RepoInv

\* A delete removes the checkout of its own slug, or touches only the map.
LEMMA DeleteInv ==
    ASSUME RepoInv, NEW s \in Slugs,
           StartDelete(s) \/ Rmtree(s) \/ Unregister(s) \/ UnregisterSave(s) \/ Release(s)
             \/ (\E u \in Urls \union {Nothing} : ResolveUrl(s, u))
    PROVE  RepoInv'
  <1>1. CASE StartDelete(s)
    <2> DEFINE p == [pc |-> "rmtree", url |-> Nothing, mapping |-> {}]
    <2>1. UNCHANGED <<map, checkout, head>> /\ proc' = [proc EXCEPT ![s] = p]
      BY <1>1 DEF StartDelete
    <2>2. ProcOK(s, p, checkout[s], head)
      BY DEF ProcOK, DeleteProcs, DeleteSteps
    <2> HIDE DEF p
    <2> QED
      BY <2>1, <2>2, ProcStep DEF RepoInv
  <1>2. CASE Rmtree(s)
    <2> DEFINE p == [proc[s] EXCEPT !.pc = "unregister"]
    <2>1. proc[s] \in DeleteProcs
      BY <1>2, AtDelete DEF Rmtree, On, DeleteSteps
    <2>2. /\ UNCHANGED <<map, head>> /\ proc' = [proc EXCEPT ![s] = p]
          /\ checkout' = [checkout EXCEPT ![s] = Nothing]
      BY <1>2, <2>1 DEF Rmtree, Goto, RepoInv, DeleteProcs
    <2>3. ProcOK(s, p, Nothing, head) /\ CheckoutOK(s, Nothing)
      BY <2>1 DEF ProcOK, DeleteProcs, DeleteSteps, CheckoutOK
    <2> HIDE DEF p
    <2> QED
      BY <2>2, <2>3, SlugStep DEF RepoInv
  <1>3. CASE Unregister(s)
    <2> DEFINE p == [proc[s] EXCEPT !.mapping = map \ {proc[s].url}, !.pc = "unregister save"]
    <2>1. proc[s] \in DeleteProcs
      BY <1>3, AtDelete DEF Unregister, On, DeleteSteps
    <2>2. UNCHANGED <<map, checkout, head>> /\ proc' = [proc EXCEPT ![s] = p]
      BY <1>3, <2>1 DEF Unregister, RepoInv, DeleteProcs
    <2>3. ProcOK(s, p, checkout[s], head)
      BY <2>1 DEF ProcOK, DeleteProcs, DeleteSteps, RepoInv
    <2> HIDE DEF p
    <2> QED
      BY <2>2, <2>3, ProcStep DEF RepoInv
  <1>4. CASE UnregisterSave(s)
    <2> DEFINE p == [proc[s] EXCEPT !.pc = "deleted"]
    <2>1. proc[s] \in DeleteProcs
      BY <1>4, AtDelete DEF UnregisterSave, On, DeleteSteps
    <2>2. /\ UNCHANGED <<checkout, head>> /\ proc' = [proc EXCEPT ![s] = p]
          /\ map' = proc[s].mapping /\ map' \subseteq Urls
      BY <1>4, <2>1 DEF UnregisterSave, Goto, RepoInv, DeleteProcs
    <2>3. ProcOK(s, p, checkout[s], head)
      BY <2>1 DEF ProcOK, DeleteProcs, DeleteSteps
    <2> HIDE DEF p
    <2> QED
      BY <2>2, <2>3, ProcStep DEF RepoInv
  <1>5. CASE Release(s)
    <2>1. UNCHANGED <<map, checkout, head>> /\ proc' = [proc EXCEPT ![s] = NoProcess]
      BY <1>5 DEF Release
    <2>2. ProcOK(s, NoProcess, checkout[s], head)
      BY DEF ProcOK
    <2> QED
      BY <2>1, <2>2, ProcStep DEF RepoInv
  <1>6. ASSUME NEW u \in Urls \union {Nothing}, ResolveUrl(s, u)
        PROVE  RepoInv'
    <2>1. proc[s] \in DeleteProcs
      BY <1>6, AtDelete DEF ResolveUrl, On, DeleteSteps
    <2>2. PICK p \in {[proc[s] EXCEPT !.pc = "deleted"],
                     [proc[s] EXCEPT !.url = u, !.pc = "unregister load"]} :
            UNCHANGED <<map, checkout, head>> /\ proc' = [proc EXCEPT ![s] = p]
      BY <1>6, <2>1 DEF ResolveUrl, Goto, RepoInv, DeleteProcs
    <2>3. ProcOK(s, p, checkout[s], head)
      BY <2>1, <2>2 DEF ProcOK, DeleteProcs, DeleteSteps
    <2> QED
      BY <2>2, <2>3, ProcStep DEF RepoInv
  <1> QED
    BY <1>1, <1>2, <1>3, <1>4, <1>5, <1>6

\* Nothing changes when nothing happens.
LEMMA RepoStutter == RepoInv /\ UNCHANGED RepoMapVars => RepoInv'
  BY DEF RepoMapVars, RepoInv

\* In every reachable state the checkouts, the map and the processes agree: RepoInv.
THEOREM RepoInvariant == RepoMapSpec => []RepoInv
  <1>1. RepoInv /\ [RepoMapNext]_RepoMapVars => RepoInv'
    <2> SUFFICES ASSUME RepoInv, RepoMapNext
                 PROVE  RepoInv'
      BY RepoStutter
    <2> QED
      BY PushInv, StartBuildInv, GetPathInv, CachedCheckoutInv, SetRemoteInv,
         FetchAndCheckoutInv, DownloadFailsInv, RegisterInv, RegisterSaveInv, DeleteInv
         DEF RepoMapNext
  <1> QED
    BY RepoInit, <1>1, PTL DEF RepoMapSpec

\* A resolved build has a checkout of one of its slug's repositories; one that fetched
\* has that of its own url, no older than the head when it began, even if urls of
\* several repositories share the slug and their builds die between steps.
THEOREM Resolved == RepoMapSpec => []ResolvedIsOfTheUrl
  <1>1. RepoInv => ResolvedIsOfTheUrl
    <2> SUFFICES ASSUME RepoInv, NEW s \in Slugs, On(s, "resolved")
                 PROVE  /\ checkout[s] # Nothing /\ checkout[s].repo \in OfTheSlug(s)
                        /\ proc[s].fetch =>
                              /\ checkout[s].repo = RepoOf[proc[s].url]
                              /\ checkout[s].commit >= proc[s].since[RepoOf[proc[s].url]]
      BY DEF ResolvedIsOfTheUrl
    <2>1. StepOK(proc[s], checkout[s])
      BY AtBuild DEF On, BuildSteps
    <2>2. CheckoutOK(s, checkout[s])
      BY DEF RepoInv
    <2> QED
      BY <2>1, <2>2 DEF On, StepOK, CheckoutOK
  <1> QED
    BY <1>1, RepoInvariant, PTL

\* A url that lost its map entry to another process's save is never why a build
\* without fetch raises: the checkout itself is what it looks for.
THEOREM Lost == RepoMapSpec => []LostEntriesAreHarmless
  <1>1. RepoInv => LostEntriesAreHarmless
    BY AtBuild DEF LostEntriesAreHarmless, On, BuildSteps, StepOK
  <1> QED
    BY <1>1, RepoInvariant, PTL

-----------------------------------------------------------------------------
(* ExtractionCache                                                         *)

\* Cached results are current, and an extraction that has not begun has none.
ExtractionInv ==
    /\ run = [pc |-> run.pc, todo |-> run.todo, cached |-> run.cached,
              results |-> run.results, graph |-> run.graph]
    /\ run.pc = "idle" => run.results = {}
    /\ CachedIsCurrent

\* What CachedIsCurrent says of a result.
CurrentResult(r) ==
    /\ r.entry.source = Held(r.at) /\ r.entry.version = version
    /\ r.entry.path = r.at \/ RealPath(r.at) # r.at \/ r.entry.resolved # r.entry.path

\* An empty cache and no extraction.
LEMMA ExtractionInitial == ExtractionInit => ExtractionInv
  BY DEF ExtractionInit, NoRun, ExtractionInv, CachedIsCurrent

\* What changes between extractions finds no results.
LEMMA EditedInv ==
    ASSUME ExtractionInv, Checkout \/ Move \/ Clone \/ Upgrade
    PROVE  ExtractionInv'
  BY DEF Checkout, Move, Clone, Upgrade, Edited, ExtractionInv, CachedIsCurrent

\* A file done: its result is of what is read there and of this version.
LEMMA ExtractedInv ==
    ASSUME ExtractionInv, NEW p \in SourcePaths, Parsing(p), NEW results, Extracted(p, results),
           \A r \in results : CurrentResult(r)
    PROVE  ExtractionInv'
  <1>1. /\ run' = [pc |-> run.pc, todo |-> run.todo \ {p}, cached |-> run.cached,
                   results |-> run.results \union results, graph |-> run.graph]
        /\ UNCHANGED <<files, version>>
    BY DEF ExtractionInv, Extracted
  <1>2. \A r \in run'.results : CurrentResult(r)
    BY <1>1 DEF ExtractionInv, CachedIsCurrent, CurrentResult
  <1>3. CachedIsCurrent'
    BY <1>1, <1>2 DEF CachedIsCurrent, CurrentResult, Held, RealPath
  <1> QED
    BY <1>1, <1>3 DEF ExtractionInv, Parsing

\* An entry load_cached returns has the hash of the file as it is now.
LEMMA UseCachedInv ==
    ASSUME ExtractionInv, NEW p \in SourcePaths, UseCached(p)
    PROVE  ExtractionInv'
  <1>1. PICK e \in LoadCached(p) : Extracted(p, {[at |-> p, entry |-> e]})
    BY DEF UseCached
  <1>2. e.source = Held(p) /\ e.version = version /\ e.resolved = RealPath(p)
    BY <1>1 DEF LoadCached, SameHash
  <1>3. CurrentResult([at |-> p, entry |-> e])
    BY <1>2 DEF CurrentResult
  <1> QED
    BY <1>1, <1>3, ExtractedInv DEF UseCached

\* A file parsed afresh is current.
LEMMA ParseFileInv ==
    ASSUME ExtractionInv, NEW p \in SourcePaths, ParseFile(p)
    PROVE  ExtractionInv'
  <1>1. Extracted(p, {[at |-> p, entry |-> NewEntry(p)]}) /\ Parsing(p)
    BY DEF ParseFile
  <1>2. CurrentResult([at |-> p, entry |-> NewEntry(p)])
    BY DEF CurrentResult, NewEntry
  <1> QED
    BY <1>1, <1>2, ExtractedInv

\* The steps around the files add no result.
LEMMA RunInv ==
    ASSUME ExtractionInv,
           Assemble \/ Return \/ Die \/ \E cached \in BOOLEAN : BeginExtract(cached)
    PROVE  ExtractionInv'
  <1>1. CASE Assemble
    <2>1. PICK g : run' = [run EXCEPT !.pc = "built", !.graph = g]
      BY <1>1 DEF Assemble
    <2>2. /\ run' = [pc |-> "built", todo |-> run.todo, cached |-> run.cached,
                     results |-> run.results, graph |-> g]
          /\ UNCHANGED <<files, version>>
      BY <1>1, <2>1 DEF ExtractionInv, Assemble
    <2> QED
      BY <2>2 DEF ExtractionInv, CachedIsCurrent, Held, RealPath
  <1>2. CASE Return \/ Die
    BY <1>2 DEF Return, Die, NoRun, ExtractionInv, CachedIsCurrent
  <1>3. CASE \E cached \in BOOLEAN : BeginExtract(cached)
    BY <1>3 DEF BeginExtract, ExtractionInv, CachedIsCurrent
  <1> QED
    BY <1>1, <1>2, <1>3

\* Every step keeps them so.
THEOREM ExtractionInvariant == ExtractionSpec => []ExtractionInv
  <1>1. ExtractionInv /\ [ExtractionNext]_ExtractionVars => ExtractionInv'
    <2> SUFFICES ASSUME ExtractionInv, [ExtractionNext]_ExtractionVars
                 PROVE  ExtractionInv'
      OBVIOUS
    <2>1. CASE UNCHANGED ExtractionVars
      BY <2>1 DEF ExtractionVars, ExtractionInv, CachedIsCurrent, Held, RealPath
    <2>2. ASSUME NEW p \in SourcePaths, ParseFails(p) PROVE ExtractionInv'
      BY <2>2, ExtractedInv DEF ParseFails
    <2> QED
      BY <2>1, <2>2, EditedInv, UseCachedInv, ParseFileInv, RunInv DEF ExtractionNext
  <1> QED
    BY ExtractionInitial, <1>1, PTL DEF ExtractionSpec

\* No extraction ever takes a result of another source or version from the cache, and
\* none of another path but through a symbolic link, however files and links move and
\* change between runs.
THEOREM Cached == ExtractionSpec => []CachedIsCurrent
  <1>1. ExtractionInv => CachedIsCurrent
    BY DEF ExtractionInv
  <1> QED
    BY ExtractionInvariant, <1>1, PTL

-----------------------------------------------------------------------------
(* The graph an extraction puts together: what depends on the directory    *)
(* its entries were made in, and what the repair of their identifiers      *)
(* makes of it.                                                            *)

\* The identifiers of what files define or name: none is that of a file node.
EntityIds == {id \in Seq(STRING) : Len(id) = 2 => id[1] \in {StemOf[p] : p \in SourcePaths}}
\* A definition, and the nodes and edges that come of some.
Definitions == [kind : {"class", "function"}, name : STRING, class : STRING, base : STRING]
Described == [id : EntityIds, label : STRING, kind : {"class", "function", "stub"}]
ParsedSoFar == [nodes : Seq(Described), edges : SUBSET (EntityIds \X EntityIds)]

\* No identifier of an entity is that of a file node.
LEMMA Identifiers ==
    ASSUME NEW p \in SourcePaths
    PROVE  /\ \A name \in STRING : EntityId(p, name) \in EntityIds /\ <<name>> \in EntityIds
           /\ \A d \in Definitions : DefinedId(p, d) \in EntityIds
           /\ \A directory \in Roots : \A q : FileId(directory, q) \notin EntityIds
  <1>1. StemOf[p] \in STRING /\ \A q \in SourcePaths : StemOf[q] \notin Roots
    BY ExtractionAssumption
  <1>2. ASSUME NEW name \in STRING
        PROVE  EntityId(p, name) \in EntityIds /\ <<name>> \in EntityIds
    <2> DEFINE pair == <<StemOf[p], name>>
               one == <<name>>
    <2>1. one \in Seq(STRING) /\ Len(one) # 2
      BY OneInARow
    <2>3. pair \in Seq(STRING) /\ pair[1] = StemOf[p]
      BY <1>1, TwoInARow
    <2> HIDE DEF pair, one
    <2>2. pair \in EntityIds /\ one \in EntityIds
      BY <2>1, <2>3 DEF EntityIds
    <2> QED
      BY <2>2 DEF EntityId, pair, one
  <1>3. ASSUME NEW d \in Definitions PROVE DefinedId(p, d) \in EntityIds
    <2>1. d.name \in STRING /\ d.class \in STRING
      BY DEF Definitions
    <2> DEFINE id == <<StemOf[p], d.class>> \o <<d.name>>
    <2>2. id \in Seq(STRING) /\ Len(id) # 2
      BY <1>1, <2>1, ThreeInARow
    <2>3. id \in EntityIds
      <3> HIDE DEF id
      <3> QED
        BY <2>2 DEF EntityIds
    <2>5. CASE d.class = ""
      BY <1>2, <2>1, <2>5 DEF DefinedId
    <2>6. CASE d.class # ""
      BY <2>3, <2>6 DEF DefinedId, EntityId
    <2> QED
      BY <2>5, <2>6
  <1>4. ASSUME NEW directory \in Roots, NEW q, FileId(directory, q) \in EntityIds PROVE FALSE
    <2>1. Len(<<directory, q>>) = 2 /\ <<directory, q>>[1] = directory
      OBVIOUS
    <2> QED
      BY <1>1, <1>4, <2>1 DEF FileId, EntityIds
  <1> QED
    BY <1>2, <1>3, <1>4

\* A node more.
LEMMA NodeAdded ==
    ASSUME NEW nodes \in Seq(Described), NEW node \in Described
    PROVE  AddNode(nodes, node) \in Seq(Described)
  BY DEF AddNode

\* Nodes and edges of entities.
LEMMA MadeOfEntities ==
    ASSUME NEW nodes \in Seq(Described), NEW edges \in SUBSET (EntityIds \X EntityIds)
    PROVE  [nodes |-> nodes, edges |-> edges] \in ParsedSoFar
  BY DEF ParsedSoFar

\* A definition more.
LEMMA WalkStays ==
    ASSUME NEW p \in SourcePaths, NEW v \in ParsedSoFar, NEW d \in Definitions
    PROVE  Walk(p, v, d) \in ParsedSoFar
  <1> DEFINE own == AddNode(v.nodes, Node(DefinedId(p, d), d.name, d.kind))
             base == BaseId(own, p, d.base)
  <1>1. /\ v.nodes \in Seq(Described) /\ v.edges \in SUBSET (EntityIds \X EntityIds)
        /\ v = [nodes |-> v.nodes, edges |-> v.edges]
    BY DEF ParsedSoFar
  <1>2. d.name \in STRING /\ d.base \in STRING /\ d.kind \in {"class", "function"}
    BY DEF Definitions
  <1>3. DefinedId(p, d) \in EntityIds
    BY Identifiers
  <1>4. own \in Seq(Described)
    <2>1. Node(DefinedId(p, d), d.name, d.kind) \in Described
      BY <1>2, <1>3 DEF Node, Described
    <2> QED
      BY <1>1, <2>1, NodeAdded
  <1>5. base \in EntityIds
    BY <1>2, Identifiers DEF BaseId
  <1>6. AddNode(own, Node(base, d.base, "stub")) \in Seq(Described)
    <2>1. Node(base, d.base, "stub") \in Described
      BY <1>2, <1>5 DEF Node, Described
    <2> HIDE DEF own, base
    <2> QED
      BY <1>4, <2>1, NodeAdded
  <1>7. v.edges \union {<<DefinedId(p, d), base>>} \in SUBSET (EntityIds \X EntityIds)
    BY <1>1, <1>3, <1>5
  <1>8. Walk(p, v, d) =
            IF Python(p) /\ d.base # ""
            THEN [nodes |-> AddNode(own, Node(base, d.base, "stub")),
                  edges |-> v.edges \union {<<DefinedId(p, d), base>>}]
            ELSE [v EXCEPT !.nodes = own]
    BY DEF Walk
  <1> HIDE DEF own, base
  <1>9. [v EXCEPT !.nodes = own] = [nodes |-> own, edges |-> v.edges]
    BY <1>1
  <1>10. CASE Python(p) /\ d.base # ""
    BY <1>6, <1>7, <1>8, <1>10, MadeOfEntities
  <1>11. CASE ~(Python(p) /\ d.base # "")
    BY <1>1, <1>4, <1>8, <1>9, <1>11, MadeOfEntities
  <1> QED
    BY <1>10, <1>11

\* The fold over the definitions of a file.
LEMMA WalkedStays ==
    ASSUME NEW p \in SourcePaths, NEW source \in Sources
    PROVE  Walked(p, source) \in ParsedSoFar
  <1> DEFINE defs == source.defs
             n == Len(defs)
             V == ParsedSoFar
             base == [nodes |-> <<>>, edges |-> {}]
             body(f) == [t \in SUBSET DOMAIN defs |->
                           IF t = {} THEN base ELSE Walk(p, f[t \ {Max(t)}], defs[Max(t)])]
             f == CHOOSE h : h = body(h)
             F == [x \in V \X (1..n) |-> Walk(p, x[1], defs[x[2]])]
  <1>1. Walked(p, source) = f[DOMAIN defs]
    BY DEF Walked, FoldLeft, MapThenFoldSet
  <1>2. n \in Nat /\ DOMAIN defs = 1..n /\ \A k \in 1..n : defs[k] \in Definitions
    <2>1. defs \in Seq(Definitions)
      BY ExtractionAssumption DEF Definitions
    <2> HIDE DEF defs
    <2> QED
      BY <2>1
  <1>3. base \in V
    BY DEF ParsedSoFar
  <1> HIDE DEF V, base, defs
  <1>4. \A v \in V : \A k \in 1..n : Walk(p, v, defs[k]) \in V
    BY <1>2, WalkStays DEF V
  <1>5. /\ F \in [V \X (1..n) -> V]
        /\ \A v \in V : \A k \in 1..n : F[<<v, k>>] = Walk(p, v, defs[k])
    <2> HIDE DEF n
    <2> QED
      BY <1>4
  <1> HIDE DEF F, n
  <1>6. \E h : h = body(h)
    <2>1. PICK h : FoldOf(V, base, F, h, n)
      BY <1>2, <1>3, <1>5, FoldExists
    <2>2. ASSUME NEW t \in SUBSET (1..n)
          PROVE  h[t] = IF t = {} THEN base ELSE Walk(p, h[t \ {Max(t)}], defs[Max(t)])
      <3>1. h[t] = IF t = {} THEN base ELSE F[<<h[t \ {Max(t)}], Max(t)>>]
        BY <2>1 DEF FoldOf
      <3>2. t # {} => Max(t) \in 1..n
        BY <1>2, GreatestIs
      <3>3. t \ {Max(t)} \in SUBSET (1..n) /\ h \in [SUBSET (1..n) -> V]
        BY <2>1 DEF FoldOf
      <3>4. h[t \ {Max(t)}] \in V
        BY <3>3
      <3> QED
        BY <1>5, <3>1, <3>2, <3>4
    <2>3. h \in [SUBSET DOMAIN defs -> V]
      BY <1>2, <2>1 DEF FoldOf
    <2>4. h = body(h)
      BY <1>2, <2>2, <2>3
    <2> QED
      BY <2>4
  <1>7. f = body(f)
    BY <1>6
  <1> HIDE DEF f
  <1>8. Unfolds(V, base, F, n, f)
    <2> SUFFICES ASSUME NEW t \in SUBSET (1..n)
                 PROVE  IF t = {} THEN f[t] = base
                        ELSE f[t \ {Max(t)}] \in V => f[t] = F[<<f[t \ {Max(t)}], Max(t)>>]
      BY DEF Unfolds
    <2>1. f[t] = IF t = {} THEN base ELSE Walk(p, f[t \ {Max(t)}], defs[Max(t)])
      BY <1>2, <1>7
    <2>2. t # {} => Max(t) \in 1..n
      BY <1>2, GreatestIs
    <2> QED
      BY <1>5, <2>1, <2>2
  <1>9. Chain(V, base, F, n, StepsOf(f, n))
    BY <1>2, <1>3, <1>5, <1>8, FoldIsChain
  <1>10. f[1..n] \in V
    <2>1. StepsOf(f, n) \in [0..n -> V] /\ n \in 0..n
      BY <1>2, <1>9 DEF Chain
    <2>2. StepsOf(f, n)[n] = f[1..n]
      BY <2>1 DEF StepsOf
    <2> QED
      BY <2>1, <2>2
  <1> QED
    BY <1>1, <1>2, <1>10 DEF V

\* A name stands for nodes of the file.
LEMMA LabelsStay ==
    ASSUME NEW nodes \in Seq(Described), NEW name
    PROVE  LabelToNid(nodes, name) \subseteq EntityIds
  <1> DEFINE I == {i \in 1..Len(nodes) : nodes[i].label = name}
             last == IF I # {} THEN Max(I) ELSE 0
  <1>1. LabelToNid(nodes, name) = IF last = 0 THEN {} ELSE {nodes[last].id}
    BY DEF LabelToNid, SelectLastInSeq
  <1>2. Len(nodes) \in Nat /\ \A i \in 1..Len(nodes) : nodes[i].id \in EntityIds
    <2>1. Len(nodes) \in Nat /\ \A i \in 1..Len(nodes) : nodes[i] \in Described
      OBVIOUS
    <2> QED
      BY <2>1 DEF Described
  <1>3. I # {} => Max(I) \in I
    <2>1. I \in SUBSET (1..Len(nodes))
      OBVIOUS
    <2> HIDE DEF I
    <2> QED
      BY <1>2, <2>1, GreatestIs
  <1>4. last # 0 => last \in 1..Len(nodes)
    BY <1>3
  <1> HIDE DEF last
  <1> QED
    BY <1>1, <1>2, <1>4

\* The calls of a file, and the edges that do not hold its directory.
CallsOf(p, source) == WalkedCalls(p, source, Walked(p, source).nodes)
InnerEdges(p, source) == Walked(p, source).edges \union CallsOf(p, source).edges
\* They are between entities.
LEMMA InnerStay ==
    ASSUME NEW p \in SourcePaths, NEW source \in Sources
    PROVE  InnerEdges(p, source) \subseteq EntityIds \X EntityIds
  <1> DEFINE nodes == Walked(p, source).nodes
             calls == {<<DefinedId(p, source.defs[c[1]]), c[2]>> : c \in source.calls}
  <1>1. nodes \in Seq(Described) /\ Walked(p, source).edges \in SUBSET (EntityIds \X EntityIds)
    BY WalkedStays DEF ParsedSoFar
  <1>2. ASSUME NEW c \in calls PROVE c[1] \in EntityIds
    <2>1. PICK b \in source.calls : c = <<DefinedId(p, source.defs[b[1]]), b[2]>>
      OBVIOUS
    <2>2. b[1] \in DOMAIN source.defs
      BY ExtractionAssumption
    <2>3. source.defs[b[1]] \in Definitions
      <3> DEFINE defs == source.defs
      <3>1. defs \in Seq(Definitions)
        BY ExtractionAssumption DEF Definitions
      <3> HIDE DEF defs
      <3>2. \A i \in DOMAIN defs : defs[i] \in Definitions
        BY <3>1
      <3> QED
        BY <2>2, <3>2 DEF defs
    <2> QED
      BY <2>1, <2>3, Identifiers
  <1>3. CallsOf(p, source).edges =
            {e \in UNION {{c[1]} \X LabelToNid(nodes, c[2]) : c \in calls} : e[1] # e[2]}
    BY DEF CallsOf, WalkedCalls
  <1> HIDE DEF nodes, calls
  <1>4. ASSUME NEW e \in CallsOf(p, source).edges PROVE e \in EntityIds \X EntityIds
    <2>1. PICK c \in calls : e \in {c[1]} \X LabelToNid(nodes, c[2])
      BY <1>3
    <2>2. LabelToNid(nodes, c[2]) \subseteq EntityIds
      BY <1>1, LabelsStay
    <2> QED
      BY <1>2, <2>1, <2>2
  <1> QED
    BY <1>1, <1>4 DEF InnerEdges

\* What is known of a parsed file.
NotesOf(p, source) == {EntityId(p, note[1]) : note \in Notes(p, source)}
ParsedIs(parsed, directory, p, source) ==
    /\ parsed.file = FileId(directory, p)
    /\ parsed.nodes = Walked(p, source).nodes
    /\ parsed.notes = NotesOf(p, source)
    /\ parsed.edges = InnerEdges(p, source) \union ContainsEdges(directory, p, source)
                      \union Rationales(directory, p, source) \union ImportEdges(directory, p, source)
    /\ parsed.rawCalls = CallsOf(p, source).raw

\* Parse gives that, for each path and text.
LEMMA ParseIs ==
    ASSUME NEW directory \in Roots, NEW p \in SourcePaths, NEW source \in Sources
    PROVE  ParsedIs(Parse[directory][p][source], directory, p, source)
  <1> DEFINE edges == InnerEdges(p, source) \union ContainsEdges(directory, p, source)
                      \union Rationales(directory, p, source) \union ImportEdges(directory, p, source)
             notes == {EntityId(p, note[1]) : note \in Notes(p, source)}
  <1>1. Parse[directory][p][source] =
            [file |-> FileId(directory, p), nodes |-> Walked(p, source).nodes, notes |-> notes,
             edges |-> edges, rawCalls |-> CallsOf(p, source).raw]
    BY DEF Parse, InnerEdges, CallsOf
  <1> HIDE DEF edges, notes
  <1>2. /\ Parse[directory][p][source].file = FileId(directory, p)
        /\ Parse[directory][p][source].nodes = Walked(p, source).nodes
        /\ Parse[directory][p][source].notes = notes
        /\ Parse[directory][p][source].edges = edges
        /\ Parse[directory][p][source].rawCalls = CallsOf(p, source).raw
    BY <1>1
  <1> QED
    BY <1>2 DEF ParsedIs, edges, notes, NotesOf

\* The results of an extraction: one of each file, of its present source.
FoundOK(results) ==
    /\ \A r \in results : /\ r.at \in SourcePaths /\ r.entry.directory \in Roots
                          /\ r.entry.source = Held(r.at) /\ Held(r.at) \in Sources
    /\ \A r, q \in results : r.at = q.at => r = q
\* None of them is the entry of another path.
ResultsOK(results) == FoundOK(results) /\ \A r \in results : r.entry.path = r.at
PathsOf(results) == {r.at : r \in results}

\* What each result parses to.
LEMMA ResultIs ==
    ASSUME NEW results, ResultsOK(results), NEW r \in results
    PROVE  ParsedIs(ParsedOf(r), r.entry.directory, r.at, Held(r.at))
  BY ParseIs DEF ResultsOK, FoundOK, ParsedOf

\* The repair takes the file node of a result to the present directory, and leaves
\* every other identifier.
LEMMA Repaired ==
    ASSUME root \in Roots, NEW results, ResultsOK(results)
    PROVE  /\ \A id \in EntityIds : StaleIdRemap(results, id) = id
           /\ \A r \in results : StaleIdRemap(results, FileId(r.entry.directory, r.at)) = FileId(root, r.at)
           /\ \A id : (\A r \in results : id # FileId(r.entry.directory, r.at)) =>
                          StaleIdRemap(results, id) = id
  <1> DEFINE stale(id) == {r \in results : /\ id = FileId(r.entry.directory, r.entry.path)
                                            /\ id # FileId(root, r.at)}
             last(id) == CHOOSE r \in stale(id) : \A q \in stale(id) : q.at <= r.at
  <1>1. \A id : StaleIdRemap(results, id) = IF stale(id) = {} THEN id ELSE FileId(root, last(id).at)
    BY DEF StaleIdRemap
  <1>2. \A r \in results : r.entry.path = r.at /\ r.at \in SourcePaths /\ r.entry.directory \in Roots
    BY DEF ResultsOK, FoundOK
  <1>3. ASSUME NEW id, \A r \in results : id # FileId(r.entry.directory, r.at)
        PROVE  StaleIdRemap(results, id) = id
    <2>1. stale(id) = {}
      BY <1>2, <1>3
    <2> QED
      BY <1>1, <2>1
  <1>4. ASSUME NEW id \in EntityIds PROVE StaleIdRemap(results, id) = id
    <2>1. \A r \in results : id # FileId(r.entry.directory, r.at)
      BY <1>2, Identifiers
    <2> QED
      BY <1>3, <2>1
  <1>5. ASSUME NEW r \in results
        PROVE  StaleIdRemap(results, FileId(r.entry.directory, r.at)) = FileId(root, r.at)
    <2> DEFINE id == FileId(r.entry.directory, r.at)
    <2>1. ASSUME NEW q \in stale(id) PROVE q = r /\ id # FileId(root, r.at)
      <3>1. FileId(r.entry.directory, r.at) = FileId(q.entry.directory, q.at)
        BY <1>2
      <3>2. q.at = r.at
        BY <3>1 DEF FileId
      <3> QED
        BY <3>2 DEF ResultsOK, FoundOK
    <2>2. CASE stale(id) = {}
      <3>1. id = FileId(root, r.at)
        BY <1>2, <2>2
      <3> QED
        BY <1>1, <2>2, <3>1
    <2>3. CASE stale(id) # {}
      <3>1. stale(id) = {r}
        BY <2>1, <2>3
      <3>2. r.at <= r.at
        <4>1. r.at \in Nat
          BY <1>2, ExtractionAssumption
        <4> HIDE DEF stale, id, last
        <4> QED
          BY <4>1
      <3> HIDE DEF stale, id
      <3>3. last(id) = r
        BY <3>1, <3>2
      <3> QED
        BY <1>1, <2>3, <3>3 DEF id
    <2> QED
      BY <2>2, <2>3
  <1> QED
    BY <1>3, <1>4, <1>5

\* The identifiers of the nodes of some files.
EntitiesOf(p) == IdsOf(Walked(p, Held(p)).nodes) \union NotesOf(p, Held(p))
NodesIn(paths) == UNION {EntitiesOf(p) \union {FileId(root, p)} : p \in paths}

\* They are entities.
LEMMA EntitiesAre ==
    ASSUME NEW p \in SourcePaths, Held(p) \in Sources
    PROVE  EntitiesOf(p) \subseteq EntityIds
  <1>1. Walked(p, Held(p)).nodes \in Seq(Described)
    BY WalkedStays DEF ParsedSoFar
  <1>2. IdsOf(Walked(p, Held(p)).nodes) \subseteq EntityIds
    <2> DEFINE nodes == Walked(p, Held(p)).nodes
    <2>1. nodes \in Seq(Described)
      BY <1>1
    <2> HIDE DEF nodes
    <2>2. ToSet(nodes) \subseteq Described
      BY <2>1 DEF ToSet
    <2>3. IdsOf(nodes) \subseteq EntityIds
      BY <2>2 DEF IdsOf, Described
    <2> QED
      BY <2>3 DEF nodes
  <1>3. \A note \in Notes(p, Held(p)) : note[1] \in STRING
    BY ExtractionAssumption DEF Notes
  <1>4. NotesOf(p, Held(p)) \subseteq EntityIds
    BY <1>3, Identifiers DEF NotesOf
  <1> QED
    BY <1>2, <1>4 DEF EntitiesOf

\* The nodes of the graph do not depend on where entries were made.
LEMMA NodesAre ==
    ASSUME root \in Roots, NEW results, ResultsOK(results)
    PROVE  Nodes(results) = NodesIn(PathsOf(results))
  <1>1. ASSUME NEW r \in results
        PROVE  /\ IdsIn(ParsedOf(r)) = EntitiesOf(r.at) \union {FileId(r.entry.directory, r.at)}
               /\ \A id \in EntitiesOf(r.at) : StaleIdRemap(results, id) = id
    <2>1. ParsedIs(ParsedOf(r), r.entry.directory, r.at, Held(r.at))
      BY ResultIs
    <2>2. EntitiesOf(r.at) \subseteq EntityIds
      BY EntitiesAre DEF ResultsOK, FoundOK
    <2> QED
      BY <2>1, <2>2, Repaired DEF ParsedIs, IdsIn, EntitiesOf
  <1>2. ASSUME NEW r \in results
        PROVE  {StaleIdRemap(results, id) : id \in IdsIn(ParsedOf(r))} =
                  EntitiesOf(r.at) \union {FileId(root, r.at)}
    <2>1. StaleIdRemap(results, FileId(r.entry.directory, r.at)) = FileId(root, r.at)
      BY Repaired
    <2> QED
      BY <1>1, <2>1
  <1>3. Nodes(results) = UNION {{StaleIdRemap(results, id) : id \in IdsIn(ParsedOf(r))} : r \in results}
    BY DEF Nodes
  <1>4. NodesIn(PathsOf(results)) =
            UNION {EntitiesOf(r.at) \union {FileId(root, r.at)} : r \in results}
    BY DEF NodesIn, PathsOf
  <1> QED
    BY <1>2, <1>3, <1>4

\* An edge after the repair.
RemapEdge(results, e) == <<StaleIdRemap(results, e[1]), StaleIdRemap(results, e[2])>>
\* The definitions of a file are definitions.
LEMMA DefinitionsAre ==
    ASSUME NEW source \in Sources
    PROVE  /\ \A d \in ToSet(source.defs) : d \in Definitions
           /\ \A i \in DOMAIN source.defs : source.defs[i] \in Definitions
           /\ \A note \in source.notes : note[1] \in STRING /\ note[2] \in DOMAIN source.defs \union {0}
  <1> DEFINE defs == source.defs
  <1>1. defs \in Seq(Definitions)
    BY ExtractionAssumption DEF Definitions
  <1>2. \A note \in source.notes : note[1] \in STRING /\ note[2] \in DOMAIN source.defs \union {0}
    BY ExtractionAssumption
  <1> HIDE DEF defs
  <1>3. /\ \A d \in ToSet(defs) : d \in Definitions
        /\ \A i \in DOMAIN defs : defs[i] \in Definitions
    BY <1>1 DEF ToSet
  <1> QED
    BY <1>2, <1>3 DEF defs

\* The repair takes the contains edges of a file to the present directory.
LEMMA ContainsMove ==
    ASSUME root \in Roots, NEW results, ResultsOK(results), NEW r \in results
    PROVE  {RemapEdge(results, e) : e \in ContainsEdges(r.entry.directory, r.at, Held(r.at))} =
              ContainsEdges(root, r.at, Held(r.at))
  <1> DEFINE p == r.at
             defs == ToSet(Held(p).defs)
             edge(directory, d) ==
                <<IF d.class = "" THEN FileId(directory, p) ELSE EntityId(p, d.class), DefinedId(p, d)>>
  <1>1. p \in SourcePaths /\ Held(p) \in Sources
    BY DEF ResultsOK, FoundOK
  <1>2. \A directory : ContainsEdges(directory, p, Held(p)) = {edge(directory, d) : d \in defs}
    BY DEF ContainsEdges
  <1>3. ASSUME NEW d \in defs
        PROVE  RemapEdge(results, edge(r.entry.directory, d)) = edge(root, d)
    <2>1. d \in Definitions /\ d.class \in STRING
      BY <1>1, DefinitionsAre DEF Definitions
    <2>2. DefinedId(p, d) \in EntityIds /\ EntityId(p, d.class) \in EntityIds
      BY <1>1, <2>1, Identifiers
    <2>3. /\ StaleIdRemap(results, DefinedId(p, d)) = DefinedId(p, d)
          /\ StaleIdRemap(results, EntityId(p, d.class)) = EntityId(p, d.class)
          /\ StaleIdRemap(results, FileId(r.entry.directory, p)) = FileId(root, p)
      BY <2>2, Repaired
    <2> QED
      BY <2>3 DEF RemapEdge
  <1> HIDE DEF defs, edge
  <1>4. {RemapEdge(results, e) : e \in {edge(r.entry.directory, d) : d \in defs}} =
            {edge(root, d) : d \in defs}
    BY <1>3
  <1> QED
    BY <1>2, <1>4

\* So it does with the edges of notes.
LEMMA RationalesMove ==
    ASSUME root \in Roots, NEW results, ResultsOK(results), NEW r \in results
    PROVE  {RemapEdge(results, e) : e \in Rationales(r.entry.directory, r.at, Held(r.at))} =
              Rationales(root, r.at, Held(r.at))
  <1> DEFINE p == r.at
             notes == Notes(p, Held(p))
             edge(directory, n) ==
                <<EntityId(p, n[1]), IF n[2] = 0 THEN FileId(directory, p)
                                     ELSE DefinedId(p, Held(p).defs[n[2]])>>
  <1>1. p \in SourcePaths /\ Held(p) \in Sources
    BY DEF ResultsOK, FoundOK
  <1>2. \A directory : Rationales(directory, p, Held(p)) = {edge(directory, n) : n \in notes}
    BY DEF Rationales
  <1>3. ASSUME NEW n \in notes
        PROVE  RemapEdge(results, edge(r.entry.directory, n)) = edge(root, n)
    <2>1. /\ n[1] \in STRING /\ n[2] \in DOMAIN Held(p).defs \union {0}
          /\ n[2] # 0 => Held(p).defs[n[2]] \in Definitions
      BY <1>1, DefinitionsAre DEF Notes
    <2>2. /\ StaleIdRemap(results, EntityId(p, n[1])) = EntityId(p, n[1])
          /\ StaleIdRemap(results, FileId(r.entry.directory, p)) = FileId(root, p)
      BY <1>1, <2>1, Identifiers, Repaired
    <2>3. ASSUME n[2] # 0
          PROVE  StaleIdRemap(results, DefinedId(p, Held(p).defs[n[2]])) =
                    DefinedId(p, Held(p).defs[n[2]])
      BY <1>1, <2>1, <2>3, Identifiers, Repaired
    <2> QED
      BY <2>2, <2>3 DEF RemapEdge
  <1> HIDE DEF notes, edge
  <1>4. {RemapEdge(results, e) : e \in {edge(r.entry.directory, n) : n \in notes}} =
            {edge(root, n) : n \in notes}
    BY <1>3
  <1> QED
    BY <1>2, <1>4

\* What a file imports, and where the repair leaves it.
Imported(p, source) == {q \in source.imports : IF Python(p) THEN Python(q) ELSE SuffixOf[q] # "js"}
MovedImports(results) ==
    UNION {{<<FileId(root, r.at), StaleIdRemap(results, FileId(r.entry.directory, q))>> :
              q \in Imported(r.at, Held(r.at))} : r \in results}
\* The edges of some files that are not imports.
EdgesOf(p) == InnerEdges(p, Held(p)) \union ContainsEdges(root, p, Held(p))
              \union Rationales(root, p, Held(p))
EdgesIn(paths) == UNION {EdgesOf(p) : p \in paths}

\* Only imports depend on where entries were made.
LEMMA EdgesAre ==
    ASSUME root \in Roots, NEW results, ResultsOK(results)
    PROVE  ParsedEdges(results) = EdgesIn(PathsOf(results)) \union MovedImports(results)
  <1> DEFINE remapped(set) == {RemapEdge(results, e) : e \in set}
             imports(r) == {<<FileId(root, r.at), StaleIdRemap(results, FileId(r.entry.directory, q))>> :
                               q \in Imported(r.at, Held(r.at))}
  <1>1. ASSUME NEW r \in results
        PROVE  remapped(ParsedOf(r).edges) = EdgesOf(r.at) \union imports(r)
    <2> DEFINE inner == InnerEdges(r.at, Held(r.at))
               contains == ContainsEdges(r.entry.directory, r.at, Held(r.at))
               notes == Rationales(r.entry.directory, r.at, Held(r.at))
               imported == ImportEdges(r.entry.directory, r.at, Held(r.at))
    <2>1. ParsedOf(r).edges = inner \union contains \union notes \union imported
      BY ResultIs DEF ParsedIs
    <2>2. remapped(inner) = inner
      <3>1. inner \subseteq EntityIds \X EntityIds
        BY InnerStay DEF ResultsOK, FoundOK
      <3> HIDE DEF inner
      <3>2. ASSUME NEW e \in inner PROVE RemapEdge(results, e) = e
        <4>1. e[1] \in EntityIds /\ e[2] \in EntityIds /\ e = <<e[1], e[2]>>
          BY <3>1
        <4> QED
          BY <4>1, Repaired DEF RemapEdge
      <3> QED
        BY <3>2
    <2>3. /\ remapped(contains) = ContainsEdges(root, r.at, Held(r.at))
          /\ remapped(notes) = Rationales(root, r.at, Held(r.at))
      BY ContainsMove, RationalesMove
    <2>4. remapped(imported) = imports(r)
      <3>1. StaleIdRemap(results, FileId(r.entry.directory, r.at)) = FileId(root, r.at)
        BY Repaired
      <3>2. imported = {<<FileId(r.entry.directory, r.at), FileId(r.entry.directory, q)>> :
                           q \in Imported(r.at, Held(r.at))}
        BY DEF ImportEdges, Imported
      <3>3. ASSUME NEW q
            PROVE  RemapEdge(results, <<FileId(r.entry.directory, r.at), FileId(r.entry.directory, q)>>) =
                      <<FileId(root, r.at), StaleIdRemap(results, FileId(r.entry.directory, q))>>
        BY <3>1 DEF RemapEdge
      <3> HIDE DEF imported
      <3> QED
        BY <3>2, <3>3
    <2> HIDE DEF inner, contains, notes, imported, imports
    <2>5. remapped(inner \union contains \union notes \union imported) =
              remapped(inner) \union remapped(contains) \union remapped(notes) \union remapped(imported)
      OBVIOUS
    <2>6. EdgesOf(r.at) = inner \union ContainsEdges(root, r.at, Held(r.at))
                          \union Rationales(root, r.at, Held(r.at))
      BY DEF EdgesOf, inner
    <2> HIDE DEF remapped
    <2> QED
      BY <2>1, <2>2, <2>3, <2>4, <2>5, <2>6
  <1>2. ParsedEdges(results) = UNION {remapped(ParsedOf(r).edges) : r \in results}
    BY DEF ParsedEdges, RemapEdge
  <1>3. EdgesIn(PathsOf(results)) = UNION {EdgesOf(r.at) : r \in results}
    BY DEF EdgesIn, PathsOf
  <1>4. MovedImports(results) = UNION {imports(r) : r \in results}
    BY DEF MovedImports
  <1> HIDE DEF remapped, imports
  <1> QED
    BY <1>1, <1>2, <1>3, <1>4

\* The classes of a file, the last ones that an import of a name means, and who uses them.
ClassesOf(p) == {n \in ToSet(Walked(p, Held(p)).nodes) : n.kind = "class"}
ClassesNamedIn(p, from) == {n.id : n \in {m \in ClassesOf(p) : from = <<StemOf[p], m.label>>}}
LastClassesIn(paths, from) ==
    UNION {ClassesNamedIn(p, from) : p \in
        {q \in paths : \A s \in paths : ClassesNamedIn(s, from) # {} => s <= q}}
UsersIn(p) == {n.id : n \in ClassesOf(p)} \union NotesOf(p, Held(p))
UsesIn(paths) ==
    LET python == {p \in paths : Python(p)}
    IN UNION {UsersIn(p) \X UNION {LastClassesIn(python, from) : from \in Held(p).froms} : p \in python}

\* Imports of names do not depend on where entries were made.
LEMMA UsesAre ==
    ASSUME NEW results, ResultsOK(results)
    PROVE  ResolveCrossFileImports(results) = UsesIn(PathsOf(results))
  <1> DEFINE python == {r \in results : Python(r.at)}
             paths == {p \in PathsOf(results) : Python(p)}
             users(r) == {n.id : n \in ClassNodes(r)} \union ParsedOf(r).notes
             used(r) == UNION {LastClasses(python, from) : from \in r.entry.source.froms}
             usedIn(p) == UNION {LastClassesIn(paths, from) : from \in Held(p).froms}
  <1>1. ASSUME NEW r \in results
        PROVE  /\ ClassNodes(r) = ClassesOf(r.at) /\ users(r) = UsersIn(r.at)
               /\ r.entry.source.froms = Held(r.at).froms
               /\ \A from : ClassesNamed(r, from) = ClassesNamedIn(r.at, from)
    <2>1. ClassNodes(r) = ClassesOf(r.at) /\ ParsedOf(r).notes = NotesOf(r.at, Held(r.at))
      BY ResultIs DEF ParsedIs, ClassNodes, ClassesOf
    <2>2. r.entry.source.froms = Held(r.at).froms
      BY DEF ResultsOK, FoundOK
    <2> QED
      BY <2>1, <2>2 DEF UsersIn, ClassesNamed, ClassesNamedIn
  <1>2. paths = {r.at : r \in python} /\ \A r \in python : r \in results
    BY DEF PathsOf
  <1>3. ASSUME NEW from PROVE LastClasses(python, from) = LastClassesIn(paths, from)
    <2> DEFINE last(r) == \A s \in python : ClassesNamed(s, from) # {} => s.at <= r.at
               lastIn(p) == \A s \in paths : ClassesNamedIn(s, from) # {} => s <= p
    <2> HIDE DEF python, paths
    <2>1. ASSUME NEW r \in python PROVE last(r) <=> lastIn(r.at)
      BY <1>1, <1>2
    <2>2. LastClasses(python, from) = UNION {ClassesNamed(r, from) : r \in {q \in python : last(q)}}
      BY DEF LastClasses
    <2>3. LastClassesIn(paths, from) = UNION {ClassesNamedIn(p, from) : p \in {q \in paths : lastIn(q)}}
      BY DEF LastClassesIn
    <2> HIDE DEF last, lastIn
    <2>4. {q \in paths : lastIn(q)} = {r.at : r \in {q \in python : last(q)}}
      BY <1>2, <2>1
    <2> QED
      BY <1>1, <1>2, <2>2, <2>3, <2>4
  <1>4. ResolveCrossFileImports(results) = UNION {users(r) \X used(r) : r \in python}
    BY DEF ResolveCrossFileImports
  <1>5. UsesIn(PathsOf(results)) = UNION {UsersIn(p) \X usedIn(p) : p \in paths}
    BY DEF UsesIn
  <1>6. ASSUME NEW r \in python PROVE users(r) = UsersIn(r.at) /\ used(r) = usedIn(r.at)
    <2> HIDE DEF python, paths, users
    <2> QED
      BY <1>1, <1>2, <1>3
  <1> HIDE DEF python, paths, users, used, usedIn
  <1> QED
    BY <1>2, <1>4, <1>5, <1>6

\* The nodes of a name in a file, the last of them, and the calls between files.
NamedIn(p, name) == LabelToNid(Walked(p, Held(p)).nodes, name)
LastNamedIn(paths, name) ==
    UNION {NamedIn(p, name) : p \in {q \in paths : \A s \in paths : NamedIn(s, name) # {} => s <= q}}
CallsIn(paths) ==
    LET calls == UNION {CallsOf(p, Held(p)).raw : p \in paths}
    IN {e \in UNION {{c[1]} \X LastNamedIn(paths, c[2]) : c \in calls} : e[1] # e[2]}

\* Calls of other files do not depend on where entries were made.
LEMMA CallsAre ==
    ASSUME NEW results, ResultsOK(results), NEW edges
    PROVE  ResolveCalls(results, edges) = CallsIn(PathsOf(results)) \ edges
  <1> DEFINE paths == PathsOf(results)
             calls == UNION {CallsOf(p, Held(p)).raw : p \in paths}
  <1>1. ASSUME NEW r \in results
        PROVE  /\ ParsedOf(r).rawCalls = CallsOf(r.at, Held(r.at)).raw
               /\ \A name : Named(r, name) = NamedIn(r.at, name)
    BY ResultIs DEF ParsedIs, Named, NamedIn
  <1>2. paths = {r.at : r \in results}
    BY DEF PathsOf
  <1>3. ASSUME NEW name PROVE LastNamed(results, name) = LastNamedIn(paths, name)
    <2> DEFINE last(r) == \A s \in results : Named(s, name) # {} => s.at <= r.at
               lastIn(p) == \A s \in paths : NamedIn(s, name) # {} => s <= p
    <2>1. ASSUME NEW r \in results PROVE last(r) <=> lastIn(r.at)
      BY <1>1, <1>2
    <2>2. LastNamed(results, name) = UNION {Named(r, name) : r \in {q \in results : last(q)}}
      BY DEF LastNamed
    <2>3. LastNamedIn(paths, name) = UNION {NamedIn(p, name) : p \in {q \in paths : lastIn(q)}}
      BY DEF LastNamedIn
    <2>4. {q \in paths : lastIn(q)} = {r.at : r \in {q \in results : last(q)}}
      <3> HIDE DEF last, lastIn, paths
      <3> QED
        BY <1>2, <2>1
    <2> HIDE DEF last, lastIn, paths
    <2> QED
      BY <1>1, <2>2, <2>3, <2>4
  <1>4. UNION {ParsedOf(r).rawCalls : r \in results} = calls
    <2> HIDE DEF paths
    <2> QED
      BY <1>1, <1>2
  <1>5. ResolveCalls(results, edges) =
            {e \in UNION {{c[1]} \X LastNamed(results, c[2]) :
                             c \in UNION {ParsedOf(r).rawCalls : r \in results}} : e[1] # e[2]} \ edges
    BY DEF ResolveCalls
  <1>6. CallsIn(paths) = {e \in UNION {{c[1]} \X LastNamedIn(paths, c[2]) : c \in calls} : e[1] # e[2]}
    BY DEF CallsIn
  <1> HIDE DEF calls, paths
  <1>7. UNION {{c[1]} \X LastNamed(results, c[2]) : c \in calls} =
            UNION {{c[1]} \X LastNamedIn(paths, c[2]) : c \in calls}
    BY <1>3
  <1> QED
    BY <1>4, <1>5, <1>6, <1>7 DEF paths

\* What an extraction puts together.
LEMMA AssembledIs ==
    ASSUME root \in Roots, NEW results, ResultsOK(results)
    PROVE  Assembled(results) =
              BuildFromJson(NodesIn(PathsOf(results)),
                            EdgesIn(PathsOf(results)) \union MovedImports(results)
                            \union UsesIn(PathsOf(results)) \union CallsIn(PathsOf(results)))
  <1> DEFINE edges == ParsedEdges(results) \union ResolveCrossFileImports(results)
             calls == CallsIn(PathsOf(results))
  <1>1. ResolveCalls(results, edges) = calls \ edges
    BY CallsAre
  <1>2. edges \union (calls \ edges) = edges \union calls
    OBVIOUS
  <1>3. Assembled(results) = BuildFromJson(Nodes(results), edges \union ResolveCalls(results, edges))
    BY DEF Assembled
  <1>4. Assembled(results) = BuildFromJson(Nodes(results), edges \union calls)
    <2> HIDE DEF edges, calls
    <2> QED
      BY <1>1, <1>2, <1>3
  <1>5. /\ Nodes(results) = NodesIn(PathsOf(results))
        /\ edges = EdgesIn(PathsOf(results)) \union MovedImports(results) \union UsesIn(PathsOf(results))
    BY NodesAre, EdgesAre, UsesAre
  <1> QED
    BY <1>4, <1>5

-----------------------------------------------------------------------------
(* The same files without the cache.                                       *)

\* The same files without the cache, and the imports between them then.
Anew(results) ==
    {[at |-> r.at, entry |-> NewEntry(r.at)] : r \in results}
ImportsOf(p) == {<<FileId(root, p), FileId(root, q)>> : q \in Imported(p, Held(p))}
ImportsIn(paths) == UNION {ImportsOf(p) : p \in paths}

\* Nothing is to be repaired.
LEMMA AnewIs ==
    ASSUME root \in Roots, NEW results, ResultsOK(results)
    PROVE  /\ ResultsOK(Anew(results)) /\ PathsOf(Anew(results)) = PathsOf(results)
           /\ MovedImports(Anew(results)) = ImportsIn(PathsOf(results))
  <1> DEFINE A == Anew(results)
             imports(r) == {<<FileId(root, r.at), StaleIdRemap(A, FileId(r.entry.directory, q))>> :
                               q \in Imported(r.at, Held(r.at))}
  <1>1. \A a \in A : \E r \in results : a.at = r.at
    BY DEF Anew
  <1>2. ASSUME NEW r \in results PROVE \E a \in A : a.at = r.at
    <2> DEFINE a == [at |-> r.at, entry |-> NewEntry(r.at)]
    <2>1. a \in A /\ a.at = r.at
      BY DEF Anew
    <2> QED
      BY <2>1
  <1>3. \A a \in A : /\ a.entry.path = a.at /\ a.entry.source = Held(a.at)
                     /\ a.entry.directory = root
    BY DEF Anew, NewEntry
  <1>4. ASSUME NEW a \in A, NEW b \in A, a.at = b.at PROVE a = b
    BY <1>4 DEF Anew
  <1> HIDE DEF A
  <1>5. ResultsOK(A)
    BY <1>1, <1>3, <1>4 DEF ResultsOK, FoundOK
  <1>6. PathsOf(A) = PathsOf(results)
    BY <1>1, <1>2 DEF PathsOf
  <1>7. ASSUME NEW q PROVE StaleIdRemap(A, FileId(root, q)) = FileId(root, q)
    <2>1. CASE \E a \in A : FileId(root, q) = FileId(a.entry.directory, a.at)
      <3>1. PICK a \in A : FileId(root, q) = FileId(a.entry.directory, a.at)
        BY <2>1
      <3>2. StaleIdRemap(A, FileId(a.entry.directory, a.at)) = FileId(root, a.at)
        BY <1>5, Repaired
      <3>3. FileId(root, a.at) = FileId(root, q)
        BY <1>3, <3>1
      <3> QED
        BY <3>1, <3>2, <3>3
    <2>2. CASE \A a \in A : FileId(root, q) # FileId(a.entry.directory, a.at)
      BY <1>5, <2>2, Repaired
    <2> QED
      BY <2>1, <2>2
  <1>8. ASSUME NEW a \in A PROVE imports(a) = ImportsOf(a.at)
    BY <1>3, <1>7 DEF ImportsOf
  <1>9. MovedImports(A) = UNION {imports(a) : a \in A}
    BY DEF MovedImports
  <1>10. ImportsIn(PathsOf(A)) = UNION {ImportsOf(a.at) : a \in A}
    BY DEF ImportsIn, PathsOf
  <1> HIDE DEF imports
  <1>11. MovedImports(A) = ImportsIn(PathsOf(A))
    BY <1>8, <1>9, <1>10
  <1> QED
    BY <1>5, <1>6, <1>11 DEF A

\* A file node of the graph is of a file of this directory.
LEMMA FileNodes ==
    ASSUME NEW results, ResultsOK(results), NEW directory \in Roots, NEW q,
           FileId(directory, q) \in NodesIn(PathsOf(results))
    PROVE  directory = root /\ \E r \in results : r.at = q
  <1>1. PICK p \in PathsOf(results) : FileId(directory, q) \in EntitiesOf(p) \union {FileId(root, p)}
    BY DEF NodesIn
  <1>2. PICK r \in results : p = r.at
    BY DEF PathsOf
  <1>3. p \in SourcePaths /\ EntitiesOf(p) \subseteq EntityIds
    BY <1>2, EntitiesAre DEF ResultsOK, FoundOK
  <1>4. FileId(directory, q) = FileId(root, p)
    BY <1>1, <1>3, Identifiers
  <1> QED
    BY <1>2, <1>4 DEF FileId

\* The repair makes up no import, and loses those of files made elsewhere of files
\* made at another place than they.
LEMMA ImportsMove ==
    ASSUME root \in Roots, NEW results, ResultsOK(results), NEW e
    PROVE  /\ e \in MovedImports(results) /\ e[2] \in NodesIn(PathsOf(results)) =>
                 e \in ImportsIn(PathsOf(results))
           /\ e \in (ImportsIn(PathsOf(results)) \ MovedImports(results))
                 /\ e[2] \in NodesIn(PathsOf(results)) =>
                 \E r, s \in results :
                    /\ e = <<FileId(root, r.at), FileId(root, s.at)>>
                    /\ r.entry.directory # root /\ s.entry.directory # r.entry.directory
  <1> DEFINE paths == PathsOf(results)
             moved(r, q) == StaleIdRemap(results, FileId(r.entry.directory, q))
  <1>1. \A r \in results : r.entry.directory \in Roots /\ r.at \in paths
    BY DEF ResultsOK, FoundOK, PathsOf
  <1>2. \A r \in results, s \in results : r.at = s.at => r = s
    BY DEF ResultsOK, FoundOK
  <1>3. ASSUME NEW r \in results, NEW q, NEW s \in results,
               FileId(r.entry.directory, q) = FileId(s.entry.directory, s.at)
        PROVE  moved(r, q) = FileId(root, q) /\ q = s.at
    <2>1. q = s.at
      BY <1>3 DEF FileId
    <2>2. StaleIdRemap(results, FileId(s.entry.directory, s.at)) = FileId(root, s.at)
      BY Repaired
    <2> QED
      BY <1>3, <2>1, <2>2
  <1>4. ASSUME NEW r \in results, NEW q,
               \A s \in results : FileId(r.entry.directory, q) # FileId(s.entry.directory, s.at)
        PROVE  moved(r, q) = FileId(r.entry.directory, q)
    BY <1>4, Repaired
  <1>5. ASSUME e \in MovedImports(results), e[2] \in NodesIn(paths)
        PROVE  e \in ImportsIn(paths)
    <2>1. PICK r \in results : \E q \in Imported(r.at, Held(r.at)) : e = <<FileId(root, r.at), moved(r, q)>>
      BY <1>5 DEF MovedImports
    <2>2. PICK q \in Imported(r.at, Held(r.at)) : e = <<FileId(root, r.at), moved(r, q)>>
      BY <2>1
    <2> HIDE DEF moved, paths
    <2>3. e[2] = moved(r, q)
      BY <2>2
    <2>4. moved(r, q) = FileId(root, q)
      <3>1. CASE \E s \in results : FileId(r.entry.directory, q) = FileId(s.entry.directory, s.at)
        BY <1>3, <3>1
      <3>2. CASE \A s \in results : FileId(r.entry.directory, q) # FileId(s.entry.directory, s.at)
        <4>1. moved(r, q) = FileId(r.entry.directory, q)
          BY <1>4, <3>2
        <4>2. FileId(r.entry.directory, q) \in NodesIn(PathsOf(results))
          BY <1>5, <2>3, <4>1 DEF paths
        <4> QED
          BY <1>1, <4>1, <4>2, FileNodes
      <3> QED
        BY <3>1, <3>2
    <2>5. e \in ImportsOf(r.at)
      BY <2>2, <2>4 DEF ImportsOf
    <2> QED
      BY <1>1, <2>5 DEF ImportsIn
  <1>6. ASSUME e \in ImportsIn(paths), e \notin MovedImports(results), e[2] \in NodesIn(paths)
        PROVE  \E r, s \in results :
                    /\ e = <<FileId(root, r.at), FileId(root, s.at)>>
                    /\ r.entry.directory # root /\ s.entry.directory # r.entry.directory
    <2>1. PICK r \in results : e \in ImportsOf(r.at)
      BY <1>6 DEF ImportsIn, PathsOf
    <2>2. PICK q \in Imported(r.at, Held(r.at)) : e = <<FileId(root, r.at), FileId(root, q)>>
      BY <2>1 DEF ImportsOf
    <2>3. <<FileId(root, r.at), moved(r, q)>> \in MovedImports(results)
      BY DEF MovedImports
    <2>4. moved(r, q) # FileId(root, q)
      BY <1>6, <2>2, <2>3
    <2> HIDE DEF moved
    <2>5. FileId(root, q) \in NodesIn(paths)
      BY <1>6, <2>2
    <2>6. PICK s \in results : s.at = q
      BY <2>5, FileNodes
    <2>7. s.entry.directory # r.entry.directory
      BY <1>3, <2>4, <2>6
    <2>8. r.entry.directory # root
      <3>1. SUFFICES ASSUME r.entry.directory = root PROVE FALSE
        OBVIOUS
      <3>2. PICK t \in results : FileId(r.entry.directory, q) = FileId(t.entry.directory, t.at)
        BY <1>4, <2>4, <3>1
      <3> QED
        BY <1>3, <2>4, <3>2
    <2> QED
      BY <2>2, <2>6, <2>7, <2>8
  <1> QED
    BY <1>5, <1>6

\* So much is lost of what is put together.
LEMMA OnlyImportsAreLost ==
    ASSUME root \in Roots, NEW results, ResultsOK(results)
    PROVE  /\ Assembled(results) \subseteq Assembled(Anew(results))
           /\ \A e \in Assembled(Anew(results)) \ Assembled(results) : \E r, s \in results :
                  /\ e = {FileId(root, r.at), FileId(root, s.at)}
                  /\ r.entry.directory # root /\ s.entry.directory # r.entry.directory
  <1> DEFINE P == PathsOf(results)
             nodes == NodesIn(P)
             edges == EdgesIn(P) \union UsesIn(P) \union CallsIn(P)
             moved == MovedImports(results)
             imports == ImportsIn(P)
  <1>1. Assembled(results) = BuildFromJson(nodes, EdgesIn(P) \union moved \union UsesIn(P) \union CallsIn(P))
    BY AssembledIs
  <1>2. Assembled(Anew(results)) =
            BuildFromJson(nodes, EdgesIn(P) \union imports \union UsesIn(P) \union CallsIn(P))
    <2> DEFINE A == Anew(results)
    <2>1. ResultsOK(A) /\ PathsOf(A) = P /\ MovedImports(A) = imports
      BY AnewIs
    <2> HIDE DEF A
    <2>2. Assembled(A) = BuildFromJson(NodesIn(PathsOf(A)), EdgesIn(PathsOf(A)) \union MovedImports(A)
                                       \union UsesIn(PathsOf(A)) \union CallsIn(PathsOf(A)))
      BY <2>1, AssembledIs
    <2> QED
      BY <2>1, <2>2 DEF A
  <1>3. \A e : /\ e \in moved /\ e[2] \in nodes => e \in imports
               /\ e \in (imports \ moved) /\ e[2] \in nodes =>
                     \E r, s \in results :
                        /\ e = <<FileId(root, r.at), FileId(root, s.at)>>
                        /\ r.entry.directory # root /\ s.entry.directory # r.entry.directory
    BY ImportsMove
  <1> HIDE DEF P, nodes, moved, imports
  <1>4. \A set : BuildFromJson(nodes, set) = {{e[1], e[2]} : e \in {d \in set : d[1] \in nodes /\ d[2] \in nodes}}
    BY DEF BuildFromJson
  <1>5. /\ Assembled(results) = BuildFromJson(nodes, edges \union moved)
        /\ Assembled(Anew(results)) = BuildFromJson(nodes, edges \union imports)
    <2>1. /\ EdgesIn(P) \union moved \union UsesIn(P) \union CallsIn(P) = edges \union moved
          /\ EdgesIn(P) \union imports \union UsesIn(P) \union CallsIn(P) = edges \union imports
      OBVIOUS
    <2> QED
      BY <1>1, <1>2, <2>1
  <1> HIDE DEF edges
  <1>6. ASSUME NEW pair \in Assembled(results) PROVE pair \in Assembled(Anew(results))
    <2>1. PICK e \in edges \union moved : e[1] \in nodes /\ e[2] \in nodes /\ pair = {e[1], e[2]}
      BY <1>4, <1>5
    <2>2. e \in edges \union imports
      BY <1>3, <2>1
    <2> QED
      BY <1>4, <1>5, <2>1, <2>2
  <1>7. ASSUME NEW pair \in Assembled(Anew(results)) \ Assembled(results)
        PROVE  \E r, s \in results :
                  /\ pair = {FileId(root, r.at), FileId(root, s.at)}
                  /\ r.entry.directory # root /\ s.entry.directory # r.entry.directory
    <2>1. PICK e \in edges \union imports :
              e[1] \in nodes /\ e[2] \in nodes /\ pair = {e[1], e[2]}
      BY <1>4, <1>5
    <2>2. e \notin edges \union moved
      BY <1>4, <1>5, <2>1
    <2>3. PICK r \in results, s \in results :
              /\ e = <<FileId(root, r.at), FileId(root, s.at)>>
              /\ r.entry.directory # root /\ s.entry.directory # r.entry.directory
      BY <1>3, <2>1, <2>2
    <2>4. e[1] = FileId(root, r.at) /\ e[2] = FileId(root, s.at)
      BY <2>3
    <2> QED
      BY <2>1, <2>3, <2>4
  <1> QED
    BY <1>6, <1>7

-----------------------------------------------------------------------------
(* The results of an extraction, step by step.                             *)

\* Entries are of sources, made in some directory.
EntriesOK(set) == \A e \in set : e.directory \in Roots /\ e.source \in Sources
\* An extraction has results of the files it has done, and a graph made of all.
BuiltInv ==
    /\ root \in Roots /\ EntriesOK(entries)
    /\ run.todo \subseteq SourcePaths
    /\ \A r \in run.results : r.at \notin run.todo
    /\ FoundOK(run.results)
    /\ run.pc = "idle" => run.results = {} /\ run.todo = {}
    /\ run.pc = "built" => run.graph = Assembled(run.results)

\* The graph of the same results in the same directory.
LEMMA AssembledStays ==
    ASSUME run'.results = run.results, root' = root
    PROVE  Assembled(run.results)' = Assembled(run.results)
  BY DEF Assembled, ParsedEdges, Nodes, ResolveCrossFileImports, ResolveCalls, LastNamed, Named,
         ClassNodes, ClassesNamed, LastClasses, StaleIdRemap, IdsIn, ParsedOf

\* Nothing is extracted yet.
LEMMA BuiltInit == ExtractionInit => BuiltInv
  BY DEF ExtractionInit, NoRun, BuiltInv, EntriesOK, FoundOK

\* What changes between extractions finds no results.
LEMMA EditedBuilt ==
    ASSUME BuiltInv, Checkout \/ Move \/ Clone \/ Upgrade
    PROVE  BuiltInv'
  <1>1. /\ run.results = {} /\ run.todo = {} /\ run.pc = "idle" /\ UNCHANGED run
        /\ root' \in Roots /\ EntriesOK(entries')
    BY DEF Checkout, Move, Clone, Upgrade, Edited, BuiltInv, EntriesOK
  <1> QED
    BY <1>1 DEF BuiltInv, FoundOK

\* A file done.
LEMMA ExtractedBuilt ==
    ASSUME ExtractionInv, BuiltInv, NEW p \in SourcePaths, Parsing(p), NEW results, Extracted(p, results),
           EntriesOK(entries'),
           \A r \in results : /\ r.at = p /\ r.entry.directory \in Roots
                              /\ r.entry.source = Held(p) /\ Held(p) \in Sources,
           \A r, q \in results : r = q
    PROVE  BuiltInv'
  <1>1. /\ run' = [pc |-> run.pc, todo |-> run.todo \ {p}, cached |-> run.cached,
                   results |-> run.results \union results, graph |-> run.graph]
        /\ UNCHANGED <<files, version, root>> /\ run.pc = "parse" /\ p \in run.todo
    BY DEF ExtractionInv, Extracted, Parsing
  <1>2. FoundOK(run.results)'
    <2>1. \A r \in run.results \union results :
              /\ r.at \in SourcePaths /\ r.entry.directory \in Roots
              /\ r.entry.source = Held(r.at) /\ Held(r.at) \in Sources
      BY DEF BuiltInv, FoundOK
    <2>2. \A r, q \in run.results \union results : r.at = q.at => r = q
      BY <1>1 DEF BuiltInv, FoundOK
    <2> QED
      BY <1>1, <2>1, <2>2 DEF FoundOK, Held, RealPath
  <1> QED
    BY <1>1, <1>2 DEF BuiltInv

\* From the cache, from the file, or nothing at all.
LEMMA FileBuilt ==
    ASSUME ExtractionInv, BuiltInv, NEW p \in SourcePaths, UseCached(p) \/ ParseFile(p) \/ ParseFails(p)
    PROVE  BuiltInv'
  <1>1. CASE UseCached(p)
    <2>1. PICK e \in LoadCached(p) : Extracted(p, {[at |-> p, entry |-> e]})
      BY <1>1 DEF UseCached
    <2>2. e.source = Held(p) /\ Held(p) \in Sources /\ e.directory \in Roots
      BY <2>1 DEF LoadCached, SameHash, BuiltInv, EntriesOK
    <2>3. Parsing(p) /\ EntriesOK(entries')
      BY <1>1 DEF UseCached, BuiltInv
    <2> QED
      BY <2>1, <2>2, <2>3, ExtractedBuilt
  <1>2. CASE ParseFile(p)
    <2>1. /\ Extracted(p, {[at |-> p, entry |-> NewEntry(p)]}) /\ Parsing(p)
          /\ entries' = (entries \ LoadCached(p)) \union {NewEntry(p)}
      BY <1>2 DEF ParseFile
    <2>2. /\ NewEntry(p).directory \in Roots
          /\ NewEntry(p).source = Held(p) /\ Held(p) \in Sources
      BY <1>2 DEF ParseFile, NewEntry, BuiltInv
    <2>3. EntriesOK(entries')
      BY <2>1, <2>2 DEF BuiltInv, EntriesOK
    <2> QED
      BY <2>1, <2>2, <2>3, ExtractedBuilt
  <1>3. CASE ParseFails(p)
    BY <1>3, ExtractedBuilt DEF ParseFails, BuiltInv
  <1> QED
    BY <1>1, <1>2, <1>3

\* The steps around the files.
LEMMA RunBuilt ==
    ASSUME ExtractionInv, BuiltInv,
           Assemble \/ Return \/ Die \/ (\E cached \in BOOLEAN : BeginExtract(cached))
              \/ UNCHANGED ExtractionVars
    PROVE  BuiltInv'
  <1>1. CASE Assemble
    <2>1. /\ run' = [pc |-> "built", todo |-> run.todo, cached |-> run.cached,
                     results |-> run.results, graph |-> Assembled(run.results)]
          /\ UNCHANGED <<files, root, entries>>
      <3> DEFINE g == Assembled(run.results)
      <3>1. run' = [run EXCEPT !.pc = "built", !.graph = g] /\ UNCHANGED <<files, root, entries>>
        BY <1>1 DEF Assemble
      <3> HIDE DEF g
      <3>2. run' = [pc |-> "built", todo |-> run.todo, cached |-> run.cached,
                    results |-> run.results, graph |-> g]
        BY <3>1 DEF ExtractionInv
      <3> QED
        BY <3>1, <3>2 DEF g
    <2>2. run'.results = run.results /\ run'.graph = Assembled(run.results)
          /\ run'.todo = run.todo /\ run'.pc = "built"
      BY <2>1
    <2>3. run'.graph = Assembled(run.results)'
      BY <2>1, <2>2, AssembledStays
    <2> QED
      BY <2>1, <2>2, <2>3 DEF BuiltInv, FoundOK, Held, RealPath
  <1>2. CASE Return \/ Die
    BY <1>2 DEF Return, Die, NoRun, BuiltInv, FoundOK, Held, RealPath
  <1>3. CASE \E cached \in BOOLEAN : BeginExtract(cached)
    <2>1. /\ run'.pc = "parse" /\ run'.results = {} /\ UNCHANGED <<files, root, entries>>
          /\ run'.todo = {p \in SourcePaths : files[p] # NoFile}
      BY <1>3 DEF BeginExtract
    <2> QED
      BY <2>1 DEF BuiltInv, FoundOK
  <1>4. CASE UNCHANGED ExtractionVars
    <2>1. UNCHANGED <<files, root, version, entries, run>>
      BY <1>4 DEF ExtractionVars
    <2>2. Assembled(run.results)' = Assembled(run.results)
      BY <2>1, AssembledStays
    <2> QED
      BY <2>1, <2>2 DEF BuiltInv, FoundOK, Held, RealPath
  <1> QED
    BY <1>1, <1>2, <1>3, <1>4

\* Every extraction has such results, and such a graph in the end.
THEOREM BuiltInvariant == ExtractionSpec => []BuiltInv
  <1>1. ExtractionInv /\ BuiltInv /\ [ExtractionNext]_ExtractionVars => BuiltInv'
    <2> SUFFICES ASSUME ExtractionInv, BuiltInv, [ExtractionNext]_ExtractionVars
                 PROVE  BuiltInv'
      OBVIOUS
    <2> QED
      BY EditedBuilt, FileBuilt, RunBuilt DEF ExtractionNext
  <1> QED
    BY BuiltInit, ExtractionInvariant, <1>1, PTL DEF ExtractionSpec

\* As long as no file takes the entry of another path, the graph of an extraction that
\* took files from the cache has no edge that one without the cache has not, and lacks none of its edges but imports: those by a
\* file whose entry was made in another directory, of one whose entry was not made
\* there.
THEOREM MovedImportsOnly == ExtractionSpec => []OnlyMovedImportsAreLost
  <1>1. BuiltInv => OnlyMovedImportsAreLost
    <2> SUFFICES ASSUME BuiltInv, run.pc = "built", ~Shared
                 PROVE  /\ run.graph \subseteq Fresh
                        /\ \A e \in Fresh \ run.graph : \E r, s \in run.results :
                              /\ e = {FileId(root, r.at), FileId(root, s.at)}
                              /\ r.entry.directory # root /\ s.entry.directory # r.entry.directory
      BY DEF OnlyMovedImportsAreLost
    <2>1. run.graph = Assembled(run.results) /\ root \in Roots /\ ResultsOK(run.results)
      BY DEF BuiltInv, Shared, ResultsOK
    <2>2. Fresh = Assembled(Anew(run.results))
      BY DEF Fresh, Anew
    <2> QED
      BY <2>1, <2>2, OnlyImportsAreLost
  <1> QED
    BY <1>1, BuiltInvariant, PTL

-----------------------------------------------------------------------------
(* IncrementalBuild                                                        *)

\* The chunk map a full build makes of commit c.
FullMap(c) == BuildChunkMap(c, Discovered(c))
\* A record of a vector store, and the chunks of several.
IsRecord(r) == r = [chunk |-> r.chunk, meta |-> r.meta, by |-> r.by]
ChunksIn(records) == {r.chunk : r \in records}

\* The map of the active generation is the full one of its commit.
ActiveOK ==
    active # NoGeneration =>
        /\ active.map = FullMap(active.commit)
        /\ active.ids = ChunksOf(active.map)

\* Its records are of its chunks, its model and the graph of its commit, and no chunk
\* is missing unless somebody damaged them.
StoredOK ==
    active # NoGeneration =>
        /\ \A r \in stored : /\ IsRecord(r) /\ r.chunk \in ChunksOf(active.map)
                             /\ r.by = active.fp /\ r.meta = Graph(active.commit)
        /\ intact => ChunksOf(active.map) \subseteq ChunksIn(stored)

\* A build is idle, or a record with the fields the next steps read.
RebuildOK ==
    \/ build = NoBuild
    \/ /\ build = [pc |-> build.pc, commit |-> build.commit, fp |-> build.fp, full |-> build.full,
                   reuse |-> build.reuse, changed |-> build.changed, map |-> build.map]
       /\ build.pc \in {"resolved", "copy", "embed", "metadata", "validate"}
       /\ build.full \in BOOLEAN /\ build.reuse \in BOOLEAN

\* A build that may reuse is of the same model and has validated what it reuses.
ReuseOK ==
    build.pc = "resolved" =>
       /\ build.full
       /\ build.reuse => 
            /\ active # NoGeneration /\ active.fp = build.fp
            /\ ValidateRecords(stored, BuildVectorMetadata(active.map, active.commit))

\* A build's map is the full one of its commit, and an incremental build's chunks of
\* paths it holds unchanged are those of the active map.
MapOK ==
    build.pc \in {"copy", "embed", "metadata", "validate"} =>
       /\ build.map = FullMap(build.commit)
       /\ ~build.full =>
            /\ active # NoGeneration /\ active.fp = build.fp
            /\ \A p \in DOMAIN build.map \ build.changed :
                  p \in DOMAIN active.map /\ build.map[p] = active.map[p]

\* What has been staged: only records of the new map's chunks by this model; those of
\* the unchanged paths first, then all, then with this commit's metadata.
TargetOK ==
    /\ build.pc \in {"embed", "metadata", "validate"} =>
          \A r \in target : IsRecord(r) /\ r.chunk \in ChunksOf(build.map) /\ r.by = build.fp
    /\ build.pc = "embed" /\ intact =>
          \A p \in Unchanged : build.map[p] \subseteq ChunksIn(target)
    /\ build.pc \in {"metadata", "validate"} /\ intact /\ TooLong = {} =>
          ChunksOf(build.map) \subseteq ChunksIn(target)
    /\ build.pc = "validate" => \A r \in target : r.meta = Graph(build.commit)

\* The invariant of a rebuild.
IncInv == ActiveOK /\ StoredOK /\ RebuildOK /\ ReuseOK /\ MapOK /\ TargetOK

\* Every path whose text differs between two commits is among the changed paths,
\* whether git reports it as added, deleted, modified or one end of a rename.
LEMMA ChangedPathsCoverDifferences ==
    ASSUME NEW old, NEW new, NEW oldPaths, NEW p \in Paths,
           commits[old].tree[p] # commits[new].tree[p]
    PROVE  p \in ChangedPaths(old, new, oldPaths)
  <1> DEFINE renames == {pair \in Deleted(old, new) \X Added(old, new) :
                            commits[old].tree[pair[1]] = commits[new].tree[pair[2]]}
             alone == {q \in Paths : /\ commits[old].tree[q] # commits[new].tree[q]
                                     /\ \A pair \in renames : q \notin {pair[1], pair[2]}}
             reported == {[status |-> "R", old |-> pair[1], path |-> pair[2]] : pair \in renames}
                         \union {[status |-> "AMD", old |-> q, path |-> q] : q \in alone}
  <1>1. DiffChanges(old, new) = reported
    BY DEF DiffChanges
  <1>2. \E change \in reported : p \in {change.path, change.old}
    <2>1. CASE p \in alone
      <3>1. [status |-> "AMD", old |-> p, path |-> p] \in reported
        BY <2>1
      <3> QED
        BY <3>1
    <2>2. CASE p \notin alone
      <3>1. PICK pair \in renames : p \in {pair[1], pair[2]}
        BY <2>2
      <3>2. [status |-> "R", old |-> pair[1], path |-> pair[2]] \in reported
        BY <3>1
      <3> QED
        BY <3>1, <3>2
    <2> QED
      BY <2>1, <2>2
  <1> HIDE DEF reported
  <1> QED
    BY <1>1, <1>2 DEF ChangedPaths

\* A path that is not among the changed ones has the chunks of the new commit.
LEMMA KeptChunks ==
    ASSUME NEW old, NEW new, NEW oldPaths, NEW p \in Discovered(old),
           p \notin ChangedPaths(old, new, oldPaths)
    PROVE  BuildChunkMap(old, Discovered(old))[p] = Chunks(p, commits[new].tree[p])
  <1>1. p \in Paths
    BY DEF Discovered
  <1>2. commits[old].tree[p] = commits[new].tree[p]
    BY <1>1, ChangedPathsCoverDifferences
  <1> QED
    BY <1>2 DEF BuildChunkMap

\* The map of kept and rebuilt paths is the one a full build makes.
Merged(old, new, oldMap) ==
    LET changed == ChangedPaths(old, new, DOMAIN oldMap)
        kept == {p \in DOMAIN oldMap : p \in Discovered(new) /\ p \notin changed}
        rebuilt == Discovered(new) \intersect changed
    IN [p \in kept \union rebuilt |->
           IF p \in rebuilt THEN BuildChunkMap(new, rebuilt)[p] ELSE oldMap[p]]

\* It is the one a full build makes of the new commit.
LEMMA MergedMap ==
    ASSUME NEW old, NEW new, NEW oldMap,
           oldMap = BuildChunkMap(old, Discovered(old))
    PROVE  Merged(old, new, oldMap) = BuildChunkMap(new, Discovered(new))
  <1> DEFINE changed == ChangedPaths(old, new, DOMAIN oldMap)
             kept == {p \in DOMAIN oldMap : p \in Discovered(new) /\ p \notin changed}
             rebuilt == Discovered(new) \intersect changed
             merged == [p \in kept \union rebuilt |->
                  IF p \in rebuilt THEN BuildChunkMap(new, rebuilt)[p] ELSE oldMap[p]]
  <1>1. DOMAIN oldMap = Discovered(old)
    BY DEF BuildChunkMap
  <1>2. kept \union rebuilt = Discovered(new)
    BY DEF ChangedPaths
  <1>3. ASSUME NEW p \in Discovered(new)
        PROVE  merged[p] = Chunks(p, commits[new].tree[p])
    <2>1. CASE p \in rebuilt
      BY <2>1 DEF BuildChunkMap
    <2>2. CASE p \notin rebuilt
      <3>1. p \in kept /\ p \in Discovered(old) /\ p \notin changed
        BY <1>1, <1>2, <2>2
      <3>2. merged[p] = oldMap[p]
        BY <3>1, <2>2
      <3> QED
        BY <3>1, <3>2, KeptChunks
    <2> QED
      BY <2>1, <2>2
  <1>4. DOMAIN merged = Discovered(new)
    BY <1>2
  <1>5. merged = [p \in Discovered(new) |-> merged[p]]
    BY <1>4
  <1> HIDE DEF merged
  <1>6. merged = BuildChunkMap(new, Discovered(new))
    BY <1>3, <1>5 DEF BuildChunkMap
  <1> QED
    BY <1>6 DEF merged, Merged

-----------------------------------------------------------------------------

\* Nothing is built at first.
LEMMA InitInv == IncrementalInit => IncInv
  BY DEF IncrementalInit, IncInv, ActiveOK, StoredOK, RebuildOK, ReuseOK, MapOK, TargetOK, NoBuild

\* A build begins without a map.
LEMMA BeginBuildInv ==
    ASSUME IncInv, NEW c \in 1..MaxCommits, NEW fp \in Fingerprints,
           NEW force \in BOOLEAN, NEW known \in BOOLEAN, BeginBuild(c, fp, force, known)
    PROVE  IncInv'
  <1> USE DEF BeginBuild
  <1>1. ActiveOK'
    BY DEF IncInv, ActiveOK, FullMap, BuildChunkMap, Discovered
  <1>2. StoredOK'
    BY DEF IncInv, StoredOK, Graph, Discovered
  <1>3. RebuildOK'
    BY DEF RebuildOK
  <1>4. ReuseOK'
    BY DEF ReuseOK, CanReuse, BuildVectorMetadata, Graph, Discovered
  <1>5. MapOK' /\ TargetOK'
    BY DEF MapOK, TargetOK
  <1> QED
    BY <1>1, <1>2, <1>3, <1>4, <1>5 DEF IncInv

\* An up-to-date build changes nothing.
LEMMA UpToDateInv == IncInv /\ UpToDate => IncInv'
  <1> SUFFICES ASSUME IncInv, UpToDate PROVE IncInv'
    OBVIOUS
  <1> USE DEF UpToDate, Ready, NoBuild
  <1>1. ActiveOK' /\ StoredOK'
    BY DEF IncInv, ActiveOK, StoredOK, FullMap, BuildChunkMap, Graph, Discovered
  <1>2. RebuildOK' /\ ReuseOK' /\ MapOK' /\ TargetOK'
    BY DEF RebuildOK, ReuseOK, MapOK, TargetOK
  <1> QED
    BY <1>1, <1>2 DEF IncInv

\* Mapping the chunks, in full or from the changed paths, gives the full map.
LEMMA MapChunksInv == IncInv /\ MapChunks => IncInv'
  <1> SUFFICES ASSUME IncInv, MapChunks PROVE IncInv'
    OBVIOUS
  <1> DEFINE c == build.commit
             changed == ChangedPaths(active.commit, c, DOMAIN active.map)
             kept == {p \in DOMAIN active.map : p \in Discovered(c) /\ p \notin changed}
             rebuilt == Discovered(c) \intersect changed
             merged == [p \in kept \union rebuilt |->
                  IF p \in rebuilt THEN BuildChunkMap(c, rebuilt)[p] ELSE active.map[p]]
  <1>0. build.pc = "resolved" /\ build # NoBuild
    BY DEF MapChunks, Ready, NoBuild
  <1>u. UNCHANGED <<commits, active, stored, target, outcome, intact>>
    BY DEF MapChunks, Ready
  <1>r. build = [pc |-> build.pc, commit |-> build.commit, fp |-> build.fp, full |-> build.full,
                 reuse |-> build.reuse, changed |-> build.changed, map |-> build.map]
    BY <1>0 DEF IncInv, RebuildOK
  <1>1. ActiveOK' /\ StoredOK'
    BY <1>u DEF IncInv, ActiveOK, StoredOK, FullMap, BuildChunkMap, Graph, Discovered
  <1>2. CASE build.reuse
    <2>1. build' = [build EXCEPT !.pc = "copy", !.full = FALSE, !.changed = changed, !.map = merged]
      BY <1>2 DEF MapChunks
    <2>2. active # NoGeneration /\ active.map = FullMap(active.commit) /\ active.fp = build.fp
      BY <1>0, <1>2 DEF IncInv, ActiveOK, ReuseOK
    <2>3. merged = FullMap(c)
      <3>1. merged = Merged(active.commit, c, active.map)
        BY DEF Merged
      <3>2. Merged(active.commit, c, active.map) = FullMap(c)
        <4> HIDE DEF c, changed, kept, rebuilt, merged
        <4> QED
          BY <2>2, MergedMap DEF FullMap
      <3> QED
        BY <3>1, <3>2
    <2>4. ASSUME NEW p \in DOMAIN merged \ changed
          PROVE  p \in DOMAIN active.map /\ merged[p] = active.map[p]
      BY <2>4
    <2> HIDE DEF merged, changed, c
    <2>5. build' = [pc |-> "copy", commit |-> c, fp |-> build.fp, full |-> FALSE,
                    reuse |-> build.reuse, changed |-> changed, map |-> merged]
      BY <1>r, <2>1, Zenon DEF c
    <2>6. RebuildOK'
      BY <1>0, <2>5 DEF IncInv, RebuildOK
    <2>7. MapOK'
      BY <1>u, <2>2, <2>3, <2>4, <2>5 DEF MapOK, FullMap, BuildChunkMap, Discovered
    <2>8. ReuseOK' /\ TargetOK'
      BY <2>5 DEF ReuseOK, TargetOK
    <2> QED
      BY <1>1, <2>6, <2>7, <2>8 DEF IncInv
  <1>3. CASE ~build.reuse
    <2>1. build' = [build EXCEPT !.pc = "copy", !.map = BuildChunkMap(c, Discovered(c))]
      BY <1>3 DEF MapChunks
    <2>2. /\ build'.pc = "copy" /\ build'.full = TRUE
          /\ build'.map = BuildChunkMap(c, Discovered(c)) /\ build'.commit = c
          /\ RebuildOK'
      BY <1>0, <2>1 DEF IncInv, RebuildOK, ReuseOK
    <2>3. MapOK'
      BY <1>u, <2>2 DEF MapOK, FullMap, BuildChunkMap, Discovered
    <2>4. ReuseOK' /\ TargetOK'
      BY <2>2 DEF ReuseOK, TargetOK
    <2> QED
      BY <1>1, <2>2, <2>3, <2>4 DEF IncInv
  <1> QED
    BY <1>2, <1>3

\* Copied are the records of unchanged paths alone.
LEMMA CopyFromInv == IncInv /\ CopyFrom => IncInv'
  <1> SUFFICES ASSUME IncInv, CopyFrom PROVE IncInv'
    OBVIOUS
  <1>1. /\ UNCHANGED <<commits, active, stored, outcome, intact>>
        /\ build.pc = "copy" /\ build' = [build EXCEPT !.pc = "embed"]
        /\ target' = {r \in stored : r.chunk \in UNION {build.map[p] : p \in Unchanged}}
    BY DEF CopyFrom, Ready
  <1>2. /\ build'.pc = "embed" /\ build'.commit = build.commit /\ build'.fp = build.fp
        /\ build'.full = build.full /\ build'.changed = build.changed /\ build'.map = build.map
        /\ RebuildOK'
    BY <1>1 DEF IncInv, RebuildOK, NoBuild
  <1>3. ActiveOK' /\ StoredOK'
    BY <1>1 DEF IncInv, ActiveOK, StoredOK, FullMap, BuildChunkMap, Graph, Discovered
  <1>4. ReuseOK' /\ MapOK'
    BY <1>1, <1>2 DEF IncInv, ReuseOK, MapOK, FullMap, BuildChunkMap, Discovered
  <1>5. Unchanged' = Unchanged
    BY <1>2 DEF Unchanged
  <1>6. ASSUME NEW p \in Unchanged
        PROVE  /\ active # NoGeneration /\ active.fp = build.fp
               /\ p \in DOMAIN active.map /\ build.map[p] = active.map[p]
    BY <1>1, <1>6 DEF IncInv, MapOK, RebuildOK, NoBuild, Unchanged
  <1>7. ASSUME NEW r \in target'
        PROVE  IsRecord(r) /\ r.chunk \in ChunksOf(build.map) /\ r.by = build.fp
    <2>1. r \in stored /\ \E p \in Unchanged : r.chunk \in build.map[p]
      BY <1>1
    <2>2. active # NoGeneration /\ active.fp = build.fp
      BY <1>6, <2>1
    <2>3. r.chunk \in ChunksOf(build.map)
      BY <2>1 DEF ChunksOf, Unchanged
    <2> QED
      BY <2>1, <2>2, <2>3 DEF IncInv, StoredOK
  <1>8. ASSUME intact, NEW p \in Unchanged
        PROVE  build.map[p] \subseteq ChunksIn(target')
    <2>1. build.map[p] \subseteq ChunksOf(active.map)
      BY <1>6 DEF ChunksOf
    <2>2. build.map[p] \subseteq ChunksIn(stored)
      BY <1>6, <1>8, <2>1 DEF IncInv, StoredOK
    <2> QED
      BY <1>1, <2>2 DEF ChunksIn
  <1>9. TargetOK'
    BY <1>1, <1>2, <1>5, <1>7, <1>8 DEF TargetOK
  <1> QED
    BY <1>2, <1>3, <1>4, <1>9 DEF IncInv

\* Embedded are the chunks of the other paths, except those too long.
LEMMA StoreChunkMapInv == IncInv /\ StoreChunkMap => IncInv'
  <1> SUFFICES ASSUME IncInv, StoreChunkMap PROVE IncInv'
    OBVIOUS
  <1> DEFINE sent == UNION {build.map[p] : p \in DOMAIN build.map \ Unchanged}
             new == {[chunk |-> k, meta |-> Graph(build.commit), by |-> build.fp] :
                        k \in {s \in sent : ~ExceedsContext(s)}}
  <1>1. /\ UNCHANGED <<commits, active, stored, outcome, intact>>
        /\ build.pc = "embed" /\ build' = [build EXCEPT !.pc = "metadata"]
        /\ target' = {r \in target : \A n \in new : n.chunk # r.chunk} \union new
    BY DEF StoreChunkMap, Ready
  <1>2. /\ build'.pc = "metadata" /\ build'.commit = build.commit /\ build'.fp = build.fp
        /\ build'.full = build.full /\ build'.changed = build.changed /\ build'.map = build.map
        /\ RebuildOK'
    BY <1>1 DEF IncInv, RebuildOK, NoBuild
  <1>3. ActiveOK' /\ StoredOK'
    BY <1>1 DEF IncInv, ActiveOK, StoredOK, FullMap, BuildChunkMap, Graph, Discovered
  <1>4. ReuseOK' /\ MapOK'
    BY <1>1, <1>2 DEF IncInv, ReuseOK, MapOK, FullMap, BuildChunkMap, Discovered
  <1>5. ASSUME NEW n \in new
        PROVE  IsRecord(n) /\ n.chunk \in ChunksOf(build.map) /\ n.by = build.fp
    BY DEF IsRecord, ChunksOf
  <1>6. ASSUME NEW r \in target'
        PROVE  IsRecord(r) /\ r.chunk \in ChunksOf(build.map) /\ r.by = build.fp
    BY <1>1, <1>5 DEF IncInv, TargetOK
  <1>7. ASSUME intact, TooLong = {}, NEW k \in ChunksOf(build.map)
        PROVE  k \in ChunksIn(target')
    <2>1. PICK p \in DOMAIN build.map : k \in build.map[p]
      BY DEF ChunksOf
    <2>2. CASE p \in Unchanged
      <3>1. PICK r \in target : r.chunk = k
        BY <1>1, <1>7, <2>1, <2>2 DEF IncInv, TargetOK, ChunksIn
      <3>2. CASE \A n \in new : n.chunk # k
        BY <1>1, <3>1, <3>2 DEF ChunksIn
      <3>3. CASE \E n \in new : n.chunk = k
        BY <1>1, <3>3 DEF ChunksIn
      <3> QED
        BY <3>2, <3>3
    <2>3. CASE p \notin Unchanged
      <3>1. k \in sent /\ ~ExceedsContext(k)
        BY <1>7, <2>1, <2>3 DEF ExceedsContext
      <3>2. [chunk |-> k, meta |-> Graph(build.commit), by |-> build.fp] \in new
        BY <3>1
      <3>3. [chunk |-> k, meta |-> Graph(build.commit), by |-> build.fp] \in target'
        <4> HIDE DEF new
        <4> QED
          BY <1>1, <3>2
      <3> QED
        BY <3>3 DEF ChunksIn
    <2> QED
      BY <2>2, <2>3
  <1>8. TargetOK'
    BY <1>1, <1>2, <1>6, <1>7 DEF TargetOK
  <1> QED
    BY <1>2, <1>3, <1>4, <1>8 DEF IncInv

\* Every record takes the metadata of this commit's graph.
LEMMA UpdateMetadataInv == IncInv /\ UpdateMetadata => IncInv'
  <1> SUFFICES ASSUME IncInv, UpdateMetadata PROVE IncInv'
    OBVIOUS
  <1> DEFINE refreshed(r) == [r EXCEPT !.meta = IF r.chunk \in ChunksOf(build.map)
                                                THEN Graph(build.commit) ELSE @]
  <1>1. /\ UNCHANGED <<commits, active, stored, outcome, intact>>
        /\ build.pc = "metadata" /\ build' = [build EXCEPT !.pc = "validate"]
        /\ target' = {refreshed(r) : r \in target}
    BY DEF UpdateMetadata, Ready
  <1>2. /\ build'.pc = "validate" /\ build'.commit = build.commit /\ build'.fp = build.fp
        /\ build'.full = build.full /\ build'.changed = build.changed /\ build'.map = build.map
        /\ RebuildOK'
    BY <1>1 DEF IncInv, RebuildOK, NoBuild
  <1>3. ActiveOK' /\ StoredOK'
    BY <1>1 DEF IncInv, ActiveOK, StoredOK, FullMap, BuildChunkMap, Graph, Discovered
  <1>4. ReuseOK' /\ MapOK'
    BY <1>1, <1>2 DEF IncInv, ReuseOK, MapOK, FullMap, BuildChunkMap, Discovered
  <1>5. ASSUME NEW r \in target
        PROVE  refreshed(r) = [chunk |-> r.chunk, meta |-> Graph(build.commit), by |-> build.fp]
    BY <1>1 DEF IncInv, TargetOK, IsRecord
  <1> HIDE DEF refreshed
  <1>6. ASSUME NEW n \in target'
        PROVE  /\ IsRecord(n) /\ n.chunk \in ChunksOf(build.map) /\ n.by = build.fp
               /\ n.meta = Graph(build.commit)
    BY <1>1, <1>5 DEF IncInv, TargetOK, IsRecord
  <1>7. ChunksIn(target) \subseteq ChunksIn(target')
    BY <1>1, <1>5 DEF ChunksIn
  <1>8. Graph(build.commit)' = Graph(build.commit)
    BY <1>1, <1>2 DEF Graph, Discovered
  <1>9. TargetOK'
    BY <1>1, <1>2, <1>6, <1>7, <1>8 DEF IncInv, TargetOK
  <1> QED
    BY <1>2, <1>3, <1>4, <1>9 DEF IncInv

\* A complete target becomes what is stored.
LEMMA PublishInv == IncInv /\ Publish => IncInv'
  <1> SUFFICES ASSUME IncInv, Publish PROVE IncInv'
    OBVIOUS
  <1>1. /\ UNCHANGED <<commits, intact>> /\ build.pc = "validate" /\ Complete
        /\ active' = [commit |-> build.commit, fp |-> build.fp, map |-> build.map,
                      ids |-> ChunksOf(build.map)]
        /\ stored' = target /\ target' = {} /\ build' = NoBuild
    BY DEF Publish, Ready
  <1>2. /\ active'.commit = build.commit /\ active'.fp = build.fp
        /\ active'.map = build.map /\ active'.ids = ChunksOf(build.map)
    BY <1>1
  <1>3. ActiveOK'
    BY <1>1, <1>2 DEF IncInv, MapOK, ActiveOK, FullMap, BuildChunkMap, Discovered
  <1>4. ChunksOf(build.map) \subseteq ChunksIn(target)
    <2> SUFFICES ASSUME NEW k \in ChunksOf(build.map)
                 PROVE  k \in ChunksIn(target)
      OBVIOUS
    <2>1. [chunk |-> k, meta |-> Graph(build.commit)]
             \in {[chunk |-> r.chunk, meta |-> r.meta] : r \in target}
      BY <1>1 DEF Complete, ValidateRecords, BuildVectorMetadata
    <2>2. PICK r \in target : [chunk |-> k, meta |-> Graph(build.commit)]
                              = [chunk |-> r.chunk, meta |-> r.meta]
      BY <2>1
    <2> QED
      BY <2>2 DEF ChunksIn
  <1>5. StoredOK'
    BY <1>1, <1>2, <1>4 DEF IncInv, TargetOK, StoredOK, Graph, Discovered
  <1>6. RebuildOK' /\ ReuseOK' /\ MapOK' /\ TargetOK'
    BY <1>1 DEF NoBuild, RebuildOK, ReuseOK, MapOK, TargetOK
  <1> QED
    BY <1>3, <1>5, <1>6 DEF IncInv

\* A build that fails leaves the active generation as it was.
LEMMA BuildFailsInv == IncInv /\ BuildFails => IncInv'
  <1> SUFFICES ASSUME IncInv, BuildFails PROVE IncInv'
    OBVIOUS
  <1> USE DEF BuildFails, NoBuild
  <1>1. ActiveOK' /\ StoredOK'
    BY DEF IncInv, ActiveOK, StoredOK, FullMap, BuildChunkMap, Graph, Discovered
  <1>2. RebuildOK' /\ ReuseOK' /\ MapOK' /\ TargetOK'
    BY DEF RebuildOK, ReuseOK, MapOK, TargetOK
  <1> QED
    BY <1>1, <1>2 DEF IncInv

\* Damage only removes records, and is remembered.
LEMMA DamageRecordsInv == IncInv /\ DamageRecords => IncInv'
  <1> SUFFICES ASSUME IncInv, DamageRecords PROVE IncInv'
    OBVIOUS
  <1>1. /\ UNCHANGED <<commits, active, build, target>> /\ ~intact'
        /\ build.pc \in {"idle", "copy"} /\ stored' \subseteq stored
    BY DEF DamageRecords
  <1>2. ActiveOK' /\ StoredOK'
    BY <1>1 DEF IncInv, ActiveOK, StoredOK, FullMap, BuildChunkMap, Graph, Discovered
  <1>3. RebuildOK' /\ ReuseOK' /\ MapOK' /\ TargetOK'
    BY <1>1 DEF IncInv, RebuildOK, ReuseOK, MapOK, TargetOK, FullMap, BuildChunkMap, Discovered
  <1> QED
    BY <1>2, <1>3 DEF IncInv

\* Nothing changes when nothing happens.
LEMMA StutterInv == IncInv /\ UNCHANGED IncrementalVars => IncInv'
  BY DEF IncrementalVars, IncInv, ActiveOK, StoredOK, RebuildOK, ReuseOK, MapOK, TargetOK, FullMap,
         BuildChunkMap, BuildVectorMetadata, Graph, Discovered, Unchanged

\* At every stage of every rebuild, IncInv holds.
THEOREM IncInvariant == IncrementalSpec => []IncInv
  <1>1. IncInv /\ [IncrementalNext]_IncrementalVars => IncInv'
    BY BeginBuildInv, UpToDateInv, MapChunksInv, CopyFromInv, StoreChunkMapInv, UpdateMetadataInv,
       PublishInv, BuildFailsInv, DamageRecordsInv, StutterInv DEF IncrementalNext
  <1> QED
    BY <1>1, InitInv, PTL DEF IncrementalSpec

\* The active chunk map is always that of a full build of its commit, however many
\* incremental builds led to it.
THEOREM IndexMatches == IncrementalSpec => []IndexMatchesCommit
  <1>1. IncInv => IndexMatchesCommit
    BY DEF IncInv, ActiveOK, StoredOK, IndexMatchesCommit, FullMap
  <1> QED
    BY <1>1, IncInvariant, PTL

\* If no text exceeds the model's context, a build whose stored records nobody damages
\* never fails validation.  (Texts too long to embed are dropped: see README.)
THEOREM Validates == TooLong = {} => (IncrementalSpec => []ValidationNeverFails)
  <1> SUFFICES ASSUME TooLong = {} PROVE IncrementalSpec => []ValidationNeverFails
    OBVIOUS
  <1>1. IncInv => ValidationNeverFails
    <2> SUFFICES ASSUME IncInv, intact, build.pc = "validate" PROVE Complete
      BY DEF ValidationNeverFails
    <2>1. ASSUME NEW r \in target
          PROVE  r.chunk \in ChunksOf(build.map) /\ r.meta = Graph(build.commit)
      BY DEF IncInv, TargetOK
    <2>2. ASSUME NEW k \in ChunksOf(build.map)
          PROVE  \E r \in target : r.chunk = k
      BY DEF IncInv, TargetOK, ChunksIn
    <2> QED
      BY <2>1, <2>2 DEF Complete, ValidateRecords, BuildVectorMetadata
  <1> QED
    BY <1>1, IncInvariant, PTL

\* A build that reports success leaves a vector store whose records are exactly those
\* of its map with its metadata, up to date or published.
THEOREM Succeeds == IncrementalSpec => SuccessIsComplete
  <1> DEFINE Ok == outcome' = "ok" /\ outcome # "ok" =>
                   ValidateRecords(stored', BuildVectorMetadata(active'.map, active'.commit))
  <1>1. IncInv /\ [IncrementalNext]_IncrementalVars => [Ok]_IncrementalVars
    <2> SUFFICES ASSUME IncInv, IncrementalNext, outcome' = "ok", outcome # "ok"
                 PROVE  ValidateRecords(stored', BuildVectorMetadata(active'.map, active'.commit))
      BY DEF Ok
    <2>1. CASE UpToDate
      BY <2>1 DEF UpToDate, Ready, SameCommit, IncInv, ReuseOK
    <2>2. CASE Publish
      <3>1. Complete /\ stored' = target /\ active'.map = build.map /\ active'.commit = build.commit
        BY <2>2 DEF Publish, Ready
      <3> QED
        BY <3>1 DEF Complete
    <2>3. CASE \E c \in 1..MaxCommits, fp \in Fingerprints, force, known \in BOOLEAN :
                  BeginBuild(c, fp, force, known)
      BY <2>3 DEF BeginBuild
    <2>4. CASE MapChunks
      BY <2>4 DEF MapChunks
    <2>5. CASE CopyFrom \/ StoreChunkMap \/ UpdateMetadata \/ BuildFails \/ DamageRecords
      BY <2>5 DEF CopyFrom, StoreChunkMap, UpdateMetadata, BuildFails, DamageRecords
    <2> QED
      BY <2>1, <2>2, <2>3, <2>4, <2>5 DEF IncrementalNext
  <1> QED
    BY <1>1, IncInvariant, PTL DEF SuccessIsComplete, IncrementalSpec

=============================================================================
