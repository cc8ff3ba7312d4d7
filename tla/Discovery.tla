------------------------------ MODULE Discovery ------------------------------
(***************************************************************************)
(* detect: the files of a checkout that are extracted.  Two walks, of the  *)
(* checkout and of its memory directory, prune directories on the way; the *)
(* files they collect are filtered and classified.  Names are compared     *)
(* with a few sets; a path is the sequence of its names below the root.    *)
(***************************************************************************)
EXTENDS Naturals, Sequences, FiniteSets

CONSTANTS
    Above,       \* the names of the root and the directories over it, innermost last
    Dirs,        \* the directories below the root
    SomeFiles,   \* the files there may be
    Patterns,    \* the patterns a .graphignore may hold
    MaxFiles, MaxPatterns,  \* bounds: files and patterns of a checkout
    \* what the tables and regular expressions say of a name
    Hidden, NoiseDirs, SkipFiles, Sensitive, Code, Documents

\* Names and paths; all directories over a file are there; the tool's own output is
\* noise.
ASSUME DiscoveryAssumption ==
    /\ Above \in Seq(STRING) /\ Patterns \subseteq Seq(STRING)
    /\ SomeFiles \union Dirs \subseteq Seq(STRING) \ {<<>>}
    /\ \A p \in SomeFiles : \A k \in 1..(Len(p) - 1) : SubSeq(p, 1, k) \in Dirs
    /\ "graph-out" \in NoiseDirs

VARIABLES
    disk,       \* the files
    ignores,    \* per level, 0 the root, 1 its parent, ...: the lines of its .graphignore
    gitLevel,   \* the lowest level with a .git; Len(Above) if there is none
    scan,       \* the walk that goes on: "root", "memory" or "over"
    queue,      \* the directories it still visits
    collected,  \* all_files
    found,      \* files, with their type
    sensitive,  \* skipped_sensitive
    pending     \* collected files that are not classified yet

DiscoveryVars == <<disk, ignores, gitLevel, scan, queue, collected, found, sensitive, pending>>

Name(p) == p[Len(p)]
Parent(p) == SubSeq(p, 1, Len(p) - 1)
Under(dir, p) == Len(p) > Len(dir) /\ SubSeq(p, 1, Len(dir)) = dir
MemoryDir == <<"graph-out", "memory">>
ConvertedDir == <<"graph-out", "converted">>
Exists(d) == \E p \in disk : Under(d, p)

\* fnmatch with a wildcard at most in front, which stands for several names too.
Fnmatch(rel, pattern) ==
    \/ rel = pattern
    \/ /\ Len(pattern) > 1 /\ Head(pattern) = "*" /\ Len(rel) >= Len(pattern)
       /\ SubSeq(rel, Len(rel) - Len(pattern) + 2, Len(rel)) = Tail(pattern)

LoadGraphignore ==
    {line \in (0..Len(Above)) \X Patterns : line[1] <= gitLevel /\ line[2] \in ignores[line[1]]}
Matches(rel, pattern) ==
    \E i \in 1..Len(rel) : \/ Fnmatch(<<rel[i]>>, pattern)
                           \/ Fnmatch(SubSeq(rel, 1, i), pattern)
FromAnchor(level, path) == SubSeq(Above, Len(Above) - level + 1, Len(Above)) \o path
IsIgnored(path) ==
    \E line \in LoadGraphignore :
        LET level == line[1]  pattern == line[2]
        IN pattern # <<>> /\ (Matches(path, pattern) \/ Matches(FromAnchor(level, path), pattern))

DiscoveryInit ==
    /\ disk \in {s \in SUBSET SomeFiles : Cardinality(s) <= MaxFiles}
    /\ ignores \in [0..Len(Above) -> {s \in SUBSET Patterns : Cardinality(s) <= MaxPatterns}]
    /\ gitLevel \in 0..Len(Above)
    /\ scan = "root" /\ queue = {<<>>}
    /\ collected = {} /\ found = {} /\ sensitive = {} /\ pending = {}

IsNoiseDir(d) == Name(d) \in NoiseDirs
IsSensitive(p) == Name(p) \in Sensitive
ClassifyFile(p) ==
    IF Name(p) \in Code THEN "code" ELSE IF Name(p) \in Documents THEN "document" ELSE "none"

\* The directories a walk goes down to; in the memory tree all of them.
Descends(d) ==
    scan = "memory" \/ (Name(d) \notin Hidden /\ ~IsNoiseDir(d) /\ ~IsIgnored(d))
\* One step of os.walk.
Visit(dir) ==
    /\ dir \in queue
    /\ queue' = (queue \ {dir}) \union {d \in Dirs : Exists(d) /\ Parent(d) = dir /\ Descends(d)}
    /\ collected' = collected \union {p \in disk : Parent(p) = dir /\ Name(p) \notin SkipFiles}
    /\ UNCHANGED <<disk, ignores, gitLevel, scan, found, sensitive, pending>>

NextScan ==
    /\ queue = {} /\ scan = "root" /\ Exists(MemoryDir)
    /\ scan' = "memory" /\ queue' = {MemoryDir}
    /\ UNCHANGED <<disk, ignores, gitLevel, collected, found, sensitive, pending>>
ScansEnd ==
    /\ queue = {}
    /\ scan = "memory" \/ (scan = "root" /\ ~Exists(MemoryDir))
    /\ scan' = "over" /\ pending' = collected
    /\ UNCHANGED <<disk, ignores, gitLevel, queue, collected, found, sensitive>>

InMemory(p) == Exists(MemoryDir) /\ Under(MemoryDir, p)
\* Mutant: the patterns are for the walk only.
KeptByTheWalk(p) == InMemory(p) \/ (Name(p) \notin Hidden /\ ~Under(ConvertedDir, p))
Kept(p) ==
    /\ InMemory(p) \/ (Name(p) \notin Hidden /\ ~Under(ConvertedDir, p))
    /\ ~IsIgnored(p)
Classify(p) ==
    /\ p \in pending /\ pending' = pending \ {p}
    /\ sensitive' = IF Kept(p) /\ IsSensitive(p) THEN sensitive \union {p} ELSE sensitive
    /\ found' = IF Kept(p) /\ ~IsSensitive(p) /\ ClassifyFile(p) # "none"
                THEN found \union {<<ClassifyFile(p), p>>} ELSE found
    /\ UNCHANGED <<disk, ignores, gitLevel, scan, queue, collected>>

Detected == scan = "over" /\ pending = {}
DiscoveryNext ==
    \/ \E dir \in queue : Visit(dir)
    \/ NextScan \/ ScansEnd
    \/ \E p \in pending : Classify(p)
    \/ Detected /\ UNCHANGED DiscoveryVars

DiscoverySpec == DiscoveryInit /\ [][DiscoveryNext]_DiscoveryVars

-----------------------------------------------------------------------------
(* What detect promises of a path, without the walks.                      *)

\* No directory over it is hidden, noise or ignored, except in the memory tree.
Visible(p) ==
    \/ Under(MemoryDir, p)
    \/ \A i \in 1..Len(p) : /\ p[i] \notin Hidden
                            /\ i < Len(p) => p[i] \notin NoiseDirs
\* A pattern of the repository or over it names the file or a directory on the way.
Excluded(p) ==
    \E level \in 0..gitLevel : \E pattern \in ignores[level] \ {<<>>} :
        \E start \in 1..(Len(p) + level) : \E end \in start..(Len(p) + level) :
            LET rel == FromAnchor(level, p)
            IN /\ start \in {1, end, level + 1}
               /\ Fnmatch(SubSeq(rel, start, end), pattern)
Wanted(p) == Visible(p) /\ ~Excluded(p) /\ Name(p) \notin SkipFiles

(* The pruned walks and the filters find the files that are wanted: none   *)
(* below a directory that was cut off, none of the memory tree left out,   *)
(* and no secret is among them but all that were met are reported.         *)
DetectFindsTheWanted ==
    Detected => /\ {f[2] : f \in found} = {p \in disk : Wanted(p) /\ Name(p) \in (Code \union Documents) \ Sensitive}
                /\ sensitive = {p \in disk : Wanted(p) /\ Name(p) \in Sensitive}
=============================================================================
