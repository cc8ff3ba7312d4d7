-------------------------- MODULE IncrementalBuild --------------------------
(***************************************************************************)
(* What a build of one slug reuses of the active index.  When the active   *)
(* generation was made with the same fingerprint, its commit is still in   *)
(* the checkout and its collection is complete, the build keeps the chunk  *)
(* map and the vectors of the paths that did not change, embeds the        *)
(* others, refreshes the metadata of all, and validates what it stored.    *)
(* A content has two chunks: contents 2k and 2k + 1 share the first one.   *)
(* The graph is made anew by every build: the metadata of every chunk      *)
(* depends on the whole of the discovered tree.                            *)
(***************************************************************************)
EXTENDS Naturals, FiniteSets

CONSTANTS
    Paths,         \* the paths of the repository
    Contents,      \* the contents a file can have: positive numbers
    Fingerprints,  \* configurations of chunking, model, schema and branch
    MaxCommits,    \* bound: commits of the repository
    TooLong,       \* contents whose second chunk exceeds the provider's context
    NoGeneration           \* no active generation

ASSUME IncrementalAssumption ==
    /\ Contents \subseteq Nat \ {0} /\ TooLong \subseteq Contents
    /\ MaxCommits \in Nat

VARIABLES
    commits,  \* the tree of each commit, and the paths its ignore files hide
    active,   \* the published generation: commit, fp, map and vector ids
    stored,   \* the records of its collection
    build,    \* the build that holds the slug's lock
    target,   \* the records of the collection that build writes
    outcome,  \* what became of the last build
    intact    \* Chroma has lost no record so far

IncrementalVars == <<commits, active, stored, build, target, outcome, intact>>

Absent == 0
Trees == [Paths -> Contents \union {Absent}]
Chunks(p, content) ==
    {[path |-> p, at |-> 1, text |-> content \div 2],
     [path |-> p, at |-> 2, text |-> 100 + content]}
Records == [chunk : UNION {Chunks(p, c) : p \in Paths, c \in Contents},
            meta : UNION {[D -> Contents] : D \in SUBSET Paths}, by : Fingerprints]

NoBuild == [pc |-> "idle"]

IncrementalInit ==
    /\ commits \in [1..MaxCommits -> {c \in [tree : Trees, hidden : SUBSET Paths] :
                                         \A p \in c.hidden : c.tree[p] # Absent}]
    /\ active = NoGeneration /\ stored = {} /\ build = NoBuild /\ target = {} /\ outcome = "none"
    /\ intact = TRUE

-----------------------------------------------------------------------------
(* What a full build of a commit makes.                                    *)

Discovered(c) == {p \in Paths \ commits[c].hidden : commits[c].tree[p] # Absent}
Graph(c) == [p \in Discovered(c) |-> commits[c].tree[p]]
BuildChunkMap(c, paths) == [p \in paths |-> Chunks(p, commits[c].tree[p])]
ChunksOf(map) == UNION {map[p] : p \in DOMAIN map}
BuildVectorMetadata(map, c) == {[chunk |-> k, meta |-> Graph(c)] : k \in ChunksOf(map)}

ValidateRecords(records, expected) ==
    {[chunk |-> r.chunk, meta |-> r.meta] : r \in records} = expected

-----------------------------------------------------------------------------
(* git diff --name-status --find-renames: a path deleted in one commit and *)
(* a path added with the same content are one change.                      *)

Deleted(old, new) == {p \in Paths : commits[old].tree[p] # Absent /\ commits[new].tree[p] = Absent}
Added(old, new) == Deleted(new, old)
DiffChanges(old, new) ==
    LET renames == {pair \in Deleted(old, new) \X Added(old, new) :
                        commits[old].tree[pair[1]] = commits[new].tree[pair[2]]}
        alone == {p \in Paths : /\ commits[old].tree[p] # commits[new].tree[p]
                                /\ \A pair \in renames : p \notin {pair[1], pair[2]}}
    IN {[status |-> "R", old |-> pair[1], path |-> pair[2]] : pair \in renames}
       \union {[status |-> "AMD", old |-> p, path |-> p] : p \in alone}

\* Mutant: only what git reports has changed.
ChangedPathsOfGit(old, new, oldPaths) ==
    UNION {{change.path, change.old} : change \in DiffChanges(old, new)}
ChangedPaths(old, new, oldPaths) ==
    (UNION {{change.path, change.old} : change \in DiffChanges(old, new)})
    \union (Discovered(new) \ oldPaths) \union (oldPaths \ Discovered(new))

-----------------------------------------------------------------------------
(* One build.                                                              *)

\* Mutant: the records of the active collection are not looked at.
CanReuseUnchecked(fp, force) == active # NoGeneration /\ ~force /\ active.fp = fp
CanReuse(fp, force) ==
    /\ active # NoGeneration /\ ~force /\ active.fp = fp
    /\ active.ids = ChunksOf(active.map)
    /\ ValidateRecords(stored, BuildVectorMetadata(active.map, active.commit))

\* The checkout is at c; `found': the commit of the active index is in it.
BeginBuild(c, fp, force, found) ==
    /\ build.pc = "idle"
    /\ build' = [pc |-> "resolved", commit |-> c, fp |-> fp, full |-> TRUE,
                 reuse |-> found /\ CanReuse(fp, force), changed |-> {}, map |-> <<>>]
    /\ outcome' = "none"
    /\ UNCHANGED <<commits, active, stored, target, intact>>

Ready(pc) == build.pc = pc /\ UNCHANGED <<commits, intact>>
SameCommit == build.reuse /\ active.commit = build.commit

UpToDate ==
    /\ Ready("resolved") /\ SameCommit
    /\ build' = NoBuild /\ outcome' = "ok"
    /\ UNCHANGED <<active, stored, target>>

MapChunks ==
    /\ Ready("resolved") /\ ~SameCommit
    /\ LET c == build.commit
           changed == ChangedPaths(active.commit, c, DOMAIN active.map)
           kept == {p \in DOMAIN active.map : p \in Discovered(c) /\ p \notin changed}
           rebuilt == Discovered(c) \intersect changed
       IN build' = IF build.reuse
                   THEN [build EXCEPT !.pc = "copy", !.full = FALSE, !.changed = changed,
                            !.map = [p \in kept \union rebuilt |->
                                        IF p \in rebuilt THEN BuildChunkMap(c, rebuilt)[p]
                                        ELSE active.map[p]]]
                   ELSE [build EXCEPT !.pc = "copy", !.map = BuildChunkMap(c, Discovered(c))]
    /\ UNCHANGED <<active, stored, target, outcome>>

Unchanged == IF build.full THEN {} ELSE DOMAIN build.map \ build.changed

\* Records the source has lost are not copied, and nothing is raised.
CopyFrom ==
    /\ Ready("copy")
    /\ target' = {r \in stored : r.chunk \in UNION {build.map[p] : p \in Unchanged}}
    /\ build' = [build EXCEPT !.pc = "embed"]
    /\ UNCHANGED <<active, stored, outcome>>

ExceedsContext(chunk) == chunk.at = 2 /\ chunk.text - 100 \in TooLong

StoreChunkMap ==
    /\ Ready("embed")
    /\ LET sent == UNION {build.map[p] : p \in DOMAIN build.map \ Unchanged}
           new == {[chunk |-> k, meta |-> Graph(build.commit), by |-> build.fp] :
                      k \in {s \in sent : ~ExceedsContext(s)}}
       IN target' = {r \in target : \A n \in new : n.chunk # r.chunk} \union new
    /\ build' = [build EXCEPT !.pc = "metadata"]
    /\ UNCHANGED <<active, stored, outcome>>

\* Mutant: the metadata of copied records stays.
UpdateMetadataNot ==
    /\ Ready("metadata")
    /\ build' = [build EXCEPT !.pc = "validate"]
    /\ UNCHANGED <<active, stored, target, outcome>>

UpdateMetadata ==
    /\ Ready("metadata")
    /\ target' = {[r EXCEPT !.meta = IF r.chunk \in ChunksOf(build.map) THEN Graph(build.commit)
                                     ELSE @] : r \in target}
    /\ build' = [build EXCEPT !.pc = "validate"]
    /\ UNCHANGED <<active, stored, outcome>>

Complete == ValidateRecords(target, BuildVectorMetadata(build.map, build.commit))

\* Validated and saved: the generation is the active one.
Publish ==
    /\ Ready("validate") /\ Complete
    /\ active' = [commit |-> build.commit, fp |-> build.fp, map |-> build.map,
                  ids |-> ChunksOf(build.map)]
    /\ stored' = target /\ target' = {}
    /\ build' = NoBuild /\ outcome' = "ok"

\* The provider or Chroma raised, or validation did: the collection is dropped.
BuildFails ==
    /\ build.pc \in {"embed", "metadata"} \/ (build.pc = "validate" /\ ~Complete)
    /\ target' = {} /\ build' = NoBuild /\ outcome' = "failed"
    /\ UNCHANGED <<commits, active, stored, intact>>

\* Chroma loses one record of the active collection, or all of them.
DamageRecords ==
    /\ stored # {} /\ build.pc \in {"idle", "copy"}
    /\ stored' \in {{}} \union {stored \ {r} : r \in stored}
    /\ intact' = FALSE
    /\ UNCHANGED <<commits, active, build, target, outcome>>

IncrementalNext ==
    \/ \E c \in 1..MaxCommits, fp \in Fingerprints, force, found \in BOOLEAN :
          BeginBuild(c, fp, force, found)
    \/ UpToDate \/ MapChunks \/ CopyFrom \/ StoreChunkMap \/ UpdateMetadata
    \/ Publish \/ BuildFails \/ DamageRecords

IncrementalSpec == IncrementalInit /\ [][IncrementalNext]_IncrementalVars

-----------------------------------------------------------------------------
(* The active index is the one a full build of its commit would have made: *)
(* a chunk map entry or a vector is kept only for a path whose content,    *)
(* place among the discovered files and model are the same.                *)
IndexMatchesCommit ==
    active # NoGeneration =>
        /\ active.map = BuildChunkMap(active.commit, Discovered(active.commit))
        /\ \A r \in stored : r.by = active.fp /\ r.meta = Graph(active.commit)

(* A build that succeeds, an up-to-date answer included, leaves a          *)
(* collection that holds the records of the index and nothing else, even   *)
(* when Chroma had lost some of them before.                               *)
SuccessIsComplete ==
    [][outcome' = "ok" /\ outcome # "ok" =>
        ValidateRecords(stored', BuildVectorMetadata(active'.map, active'.commit))]_IncrementalVars

(* Reuse and validation agree: when Chroma loses nothing, what a build has *)
(* copied, embedded and refreshed is what its validation expects, so no    *)
(* build fails for want of records it did not make.                        *)
ValidationNeverFails == intact /\ build.pc = "validate" => Complete
=============================================================================
