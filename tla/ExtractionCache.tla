-------------------------- MODULE ExtractionCache ---------------------------
(***************************************************************************)
(* Extractor.extract over a checkout, with the file cache that lives in    *)
(* it: what a file parses to is kept under its content, its resolved path  *)
(* in the checkout and the version of the extractor.  So a symbolic link   *)
(* shares the entry of the file it is to, though detect() lists and the    *)
(* extractor names the two apart.  The identifiers of file nodes hold the  *)
(* path and the directory of the checkout, those of definitions the stem,  *)
(* the imports of a file those of other files, and a checkout that is      *)
(* moved keeps its cache.  Then everything is put together: imports, calls *)
(* of functions of other files, uses of their classes, and edges to        *)
(* unknown nodes are dropped.  Files are Python, JavaScript or TypeScript; *)
(* paths are numbers, in the order of discovery.  A definition stands for  *)
(* a class, function, method or arrow function of the parse tree.          *)
(***************************************************************************)
EXTENDS Naturals, FiniteSets, Sequences, SequencesExt

CONSTANTS
    SourcePaths, \* the paths of the repository: numbers
    StemOf,      \* the stem of each: files of two directories may share it
    SuffixOf,    \* its language: "py", "js" or "ts"
    Sources,     \* the contents: defs, imports, froms, calls, notes
    Links,       \* bound: pairs of a path and the one it may be a symbolic link to
    Roots,       \* directories the checkout can be in
    MaxVersion,  \* bound: versions of the extractor
    MaxEdits,    \* bound: changes of a file, moves, clones and upgrades
    NoFile       \* content of a path without a file

\* What git keeps of a symbolic link: the file it resolves to in the end.
LinkTo(p) == {[to |-> l[2]] : l \in {k \in Links : k[1] = p}}

ASSUME ExtractionAssumption ==
    /\ SourcePaths \subseteq Nat /\ MaxVersion \in Nat \ {0} /\ MaxEdits \in Nat
    /\ Links \subseteq SourcePaths \X SourcePaths /\ \A k, l \in Links : k[2] # l[1]
    /\ \A p \in SourcePaths : NoFile \notin LinkTo(p) /\ LinkTo(p) \intersect Sources = {}
    /\ \A p \in SourcePaths : StemOf[p] \in STRING /\ StemOf[p] \notin Roots
    /\ \A s \in Sources :
          /\ s.imports \subseteq SourcePaths
          /\ s.defs \in Seq([kind : {"class", "function"}, name : STRING,
                           class : STRING, base : STRING])
          /\ \A d \in ToSet(s.defs) : d.base # "" => d.kind = "class"
          /\ \A c \in s.calls : c[1] \in DOMAIN s.defs /\ s.defs[c[1]].kind = "function"
          /\ \A note \in s.notes : note[1] \in STRING /\ note[2] \in DOMAIN s.defs \union {0}

VARIABLES
    files,    \* the content of each path: a source, a link or nothing
    root,     \* where the checkout is
    version,  \* EXTRACTION_CACHE_VERSION
    entries,  \* graph-out/cache: what is hashed, and the path and directory of its ids
    run,      \* the extraction: files to come, what the others gave, the graph
    edits     \* changes, moves, clones and upgrades so far

ExtractionVars == <<files, root, version, entries, run, edits>>

NoRun == [pc |-> "idle", todo |-> {}, cached |-> FALSE, results |-> {}, graph |-> {}]

Blobs(p) == Sources \union LinkTo(p) \union {NoFile}
Repositories == {f \in [SourcePaths -> UNION {Blobs(p) : p \in SourcePaths}] :
                    \A p \in SourcePaths : f[p] \in Blobs(p)}

ExtractionInit ==
    /\ files \in Repositories
    /\ root \in Roots /\ version = 1 /\ entries = {}
    /\ run = NoRun /\ edits = 0

-----------------------------------------------------------------------------
(* What one file parses to.  A definition has a name, the class it is a    *)
(* method of and the first of its bases, or "".  A call is of a name by a  *)
(* definition, a note (a docstring or a marked comment) has a line and is  *)
(* of a definition or, 0, of the file.  Only the node of the file has the  *)
(* directory in its identifier; nothing is called by a file's name.        *)

Python(p) == SuffixOf[p] = "py"
FileId(directory, p) == <<directory, p>>
EntityId(p, name) == <<StemOf[p], name>>
DefinedId(p, d) == IF d.class = "" THEN EntityId(p, d.name) ELSE EntityId(p, d.class) \o <<d.name>>

Node(id, label, kind) == [id |-> id, label |-> label, kind |-> kind]
IdsOf(nodes) == {n.id : n \in ToSet(nodes)}
AddNode(nodes, node) == IF node.id \in IdsOf(nodes) THEN nodes ELSE Append(nodes, node)

\* A base that this file has not defined so far is a node of no file.
BaseId(nodes, p, base) == IF EntityId(p, base) \in IdsOf(nodes) THEN EntityId(p, base) ELSE <<base>>
Walk(p, parsed, d) ==
    LET own == AddNode(parsed.nodes, Node(DefinedId(p, d), d.name, d.kind))
        base == BaseId(own, p, d.base)
    IN IF Python(p) /\ d.base # ""
       THEN [nodes |-> AddNode(own, Node(base, d.base, "stub")),
             edges |-> parsed.edges \union {<<DefinedId(p, d), base>>}]
       ELSE [parsed EXCEPT !.nodes = own]
Walked(p, source) ==
    FoldLeft(LAMBDA parsed, d : Walk(p, parsed, d), [nodes |-> <<>>, edges |-> {}], source.defs)
ContainsEdges(directory, p, source) ==
    {<<IF d.class = "" THEN FileId(directory, p) ELSE EntityId(p, d.class), DefinedId(p, d)>> :
        d \in ToSet(source.defs)}

\* Python looks for modules, JavaScript takes what ends in .js for TypeScript.
ImportEdges(directory, p, source) ==
    {<<FileId(directory, p), FileId(directory, q)>> :
        q \in {r \in source.imports : IF Python(p) THEN Python(r) ELSE SuffixOf[r] # "js"}}

\* label_to_nid: the last node of that name; a name of no node waits for the
\* other files.
LabelToNid(nodes, name) ==
    LET last == SelectLastInSeq(nodes, LAMBDA n : n.label = name)
    IN IF last = 0 THEN {} ELSE {nodes[last].id}
WalkedCalls(p, source, nodes) ==
    LET calls == {<<DefinedId(p, source.defs[c[1]]), c[2]>> : c \in source.calls}
    IN [edges |-> {e \in UNION {{c[1]} \X LabelToNid(nodes, c[2]) : c \in calls} : e[1] # e[2]},
        raw |-> {c \in calls : LabelToNid(nodes, c[2]) = {}}]

Notes(p, source) == IF Python(p) THEN source.notes ELSE {}
Rationales(directory, p, source) ==
    {<<EntityId(p, note[1]), IF note[2] = 0 THEN FileId(directory, p)
                             ELSE DefinedId(p, source.defs[note[2]])>> : note \in Notes(p, source)}

Parse == [directory \in Roots |-> [p \in SourcePaths |-> [source \in Sources |->
    LET walked == Walked(p, source)
        calls == WalkedCalls(p, source, walked.nodes)
    IN [file |-> FileId(directory, p), nodes |-> walked.nodes,
        notes |-> {EntityId(p, note[1]) : note \in Notes(p, source)},
        edges |-> walked.edges \union calls.edges \union ContainsEdges(directory, p, source)
                  \union Rationales(directory, p, source) \union ImportEdges(directory, p, source),
        rawCalls |-> calls.raw]]]]

-----------------------------------------------------------------------------
(* The repository, its checkout and the extractor change between           *)
(* extractions.                                                            *)

Edited == run.pc = "idle" /\ edits < MaxEdits /\ edits' = edits + 1

Checkout ==
    /\ Edited /\ \E p \in SourcePaths : \E s \in Blobs(p) :
                     s # files[p] /\ files' = [files EXCEPT ![p] = s]
    /\ UNCHANGED <<root, version, entries, run>>
Move ==
    /\ Edited /\ \E r \in Roots \ {root} : root' = r
    /\ UNCHANGED <<files, version, entries, run>>
\* A new clone has no cache: clear_cache does the same.
Clone ==
    /\ Edited /\ entries # {} /\ entries' = {} /\ root' \in Roots
    /\ UNCHANGED <<files, version, run>>
Upgrade ==
    /\ Edited /\ version < MaxVersion /\ version' = version + 1
    /\ UNCHANGED <<files, root, entries, run>>

-----------------------------------------------------------------------------
(* One extraction.  A forced build reads no entry and writes all.          *)

BeginExtract(cached) ==
    /\ run.pc = "idle"
    /\ run' = [pc |-> "parse", todo |-> {p \in SourcePaths : files[p] # NoFile},
               cached |-> cached, results |-> {}, graph |-> {}]
    /\ UNCHANGED <<files, root, version, entries, edits>>

\* The file a path resolves to, and what is read there: nothing, if a link dangles.
RealPath(p) == IF files[p] \in LinkTo(p) THEN files[p].to ELSE p
Held(p) == files[RealPath(p)]

\* Mutant: the content alone.
SameHashOfContent(e, p) == e.source = Held(p) /\ e.version = version
SameHash(e, p) == e.source = Held(p) /\ e.version = version /\ e.resolved = RealPath(p)
LoadCached(p) == {e \in entries : SameHash(e, p)}
NewEntry(p) == [resolved |-> RealPath(p), source |-> Held(p), version |-> version,
                path |-> p, directory |-> root]
Parsing(p) == run.pc = "parse" /\ p \in run.todo /\ (\A q \in run.todo : p <= q)
Extracted(p, results) ==
    /\ run' = [run EXCEPT !.todo = @ \ {p}, !.results = @ \union results]
    /\ UNCHANGED <<files, root, version, edits>>

UseCached(p) ==
    /\ Parsing(p) /\ run.cached
    /\ \E e \in LoadCached(p) : Extracted(p, {[at |-> p, entry |-> e]})
    /\ UNCHANGED entries
\* A missing entry, one that cannot be read, or a forced build.
ParseFile(p) ==
    /\ Parsing(p) /\ Held(p) \in Sources
    /\ Extracted(p, {[at |-> p, entry |-> NewEntry(p)]})
    /\ entries' = (entries \ LoadCached(p)) \union {NewEntry(p)}
\* The result holds an error, as that of a dangling link: no nodes, and it is not kept.
ParseFails(p) == Parsing(p) /\ Extracted(p, {}) /\ UNCHANGED entries

\* Mutant: identifiers stay as they were when the entry was made.
StaleIdRemapOff(results, id) == id
\* Entries made elsewhere: their file nodes become those of the present path, of the
\* last one for an entry that is shared.
StaleIdRemap(results, id) ==
    LET stale == {r \in results : /\ id = FileId(r.entry.directory, r.entry.path)
                                  /\ id # FileId(root, r.at)}
    IN IF stale = {} THEN id
       ELSE FileId(root, (CHOOSE r \in stale : \A q \in stale : q.at <= r.at).at)

ParsedOf(r) == Parse[r.entry.directory][r.entry.path][r.entry.source]
IdsIn(parsed) == IdsOf(parsed.nodes) \union parsed.notes \union {parsed.file}
Nodes(results) == {StaleIdRemap(results, id) : id \in UNION {IdsIn(ParsedOf(r)) : r \in results}}
ParsedEdges(results) ==
    {<<StaleIdRemap(results, e[1]), StaleIdRemap(results, e[2])>> :
        e \in UNION {ParsedOf(r).edges : r \in results}}

\* from stem import name: every class of the file, and every note, uses the class
\* that the last file of the stem has of that name.  Python only; the stem is that
\* of the file, its classes have that of the entry.
ClassNodes(r) == {n \in ToSet(ParsedOf(r).nodes) : n.kind = "class"}
ClassesNamed(r, from) == {n.id : n \in {m \in ClassNodes(r) : from = <<StemOf[r.at], m.label>>}}
LastClasses(results, from) ==
    UNION {ClassesNamed(r, from) : r \in
        {q \in results : \A s \in results : ClassesNamed(s, from) # {} => s.at <= q.at}}
ResolveCrossFileImports(results) ==
    LET python == {r \in results : Python(r.at)}
        users(r) == {n.id : n \in ClassNodes(r)} \union ParsedOf(r).notes
    IN UNION {users(r) \X UNION {LastClasses(python, from) : from \in r.entry.source.froms} :
                r \in python}

\* A call is of the last node of that name, in whichever file.
Named(r, name) == LabelToNid(ParsedOf(r).nodes, name)
LastNamed(results, name) ==
    UNION {Named(r, name) : r \in
        {q \in results : \A s \in results : Named(s, name) # {} => s.at <= q.at}}
ResolveCalls(results, edges) ==
    LET calls == UNION {ParsedOf(r).rawCalls : r \in results}
    IN {e \in UNION {{c[1]} \X LastNamed(results, c[2]) : c \in calls} : e[1] # e[2]} \ edges

\* build_from_json: an undirected graph of the edges between known nodes.
BuildFromJson(nodes, edges) == {{e[1], e[2]} : e \in {d \in edges : d[1] \in nodes /\ d[2] \in nodes}}

Assembled(results) ==
    LET edges == ParsedEdges(results) \union ResolveCrossFileImports(results)
    IN BuildFromJson(Nodes(results), edges \union ResolveCalls(results, edges))

Assemble ==
    /\ run.pc = "parse" /\ run.todo = {}
    /\ run' = [run EXCEPT !.pc = "built", !.graph = Assembled(run.results)]
    /\ UNCHANGED <<files, root, version, entries, edits>>
Return == run.pc = "built" /\ run' = NoRun /\ UNCHANGED <<files, root, version, entries, edits>>

\* The build dies: entries are written to another file and renamed.
Die == run.pc = "parse" /\ run' = NoRun /\ UNCHANGED <<files, root, version, entries, edits>>

ExtractionNext ==
    \/ Checkout \/ Move \/ Clone \/ Upgrade \/ Assemble \/ Return \/ Die
    \/ \E cached \in BOOLEAN : BeginExtract(cached)
    \/ \E p \in SourcePaths : UseCached(p) \/ ParseFile(p) \/ ParseFails(p)

ExtractionSpec == ExtractionInit /\ [][ExtractionNext]_ExtractionVars

-----------------------------------------------------------------------------
\* The graph without the cache, and whether an entry of another path is in it.
Fresh == Assembled({[at |-> r.at, entry |-> NewEntry(r.at)] : r \in run.results})
Shared == \E r \in run.results : r.entry.path # r.at

(* What is taken from the cache is what this version of the extractor made *)
(* of the text that is read at the path now, and at that very path, unless *)
(* a symbolic link is behind it: the path is one now, or the other path    *)
(* was one to it when the entry was made.  Edits, renames, links, deaths,  *)
(* failures and upgrades in any order never bring back an older result.    *)
CachedIsCurrent ==
    \A r \in run.results :
        /\ r.entry.source = Held(r.at) /\ r.entry.version = version
        /\ r.entry.path = r.at \/ RealPath(r.at) # r.at \/ r.entry.resolved # r.entry.path

(* As long as no file takes the entry of another path, the graph made from *)
(* cached files is the one made without the cache, but for imports by an   *)
(* entry that was made in another directory of a file whose entry was not  *)
(* made there too.                                                         *)
OnlyMovedImportsAreLost ==
    run.pc = "built" /\ ~Shared =>
        LET fresh == Fresh
        IN /\ run.graph \subseteq fresh
           /\ \A e \in fresh \ run.graph : \E r, s \in run.results :
                  /\ e = {FileId(root, r.at), FileId(root, s.at)}
                  /\ r.entry.directory # root /\ s.entry.directory # r.entry.directory

(* Cross-file relationships stay correct when the graph is rebuilt from    *)
(* cached extractions.                                                     *)
CacheIsTransparent == run.pc = "built" => run.graph = Fresh
=============================================================================
