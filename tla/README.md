# CodeKnow in TLA+

CodeKnow indexes Git repositories: it extracts a code graph and a set of
embedded chunks per repository, publishes both as one *generation*, and answers
hybrid searches (vectors plus graph expansion) from the published generation.
This directory holds TLA+ models of its concurrent and crash-prone parts, TLC
runs on small instances and TLAPS proofs for all instances. Paths below are
relative to the repository; `lib/` stands for
`packages/codeknow-lib/src/codeknow/`, `api/` for
`packages/codeknow-api/src/codeknow_api/`, `cli/` for
`packages/codeknow-cli/src/codeknow_cli/`.

## 1. Inventory

| Component | State it keeps | Operations | What is hard | What makes it correct |
|---|---|---|---|---|
| Generation store (`lib/pipeline/io.py`, `runner.py`) | per slug: `current.json`, `generations/<id>/` (graph, chunk map, metadata, `retired_at`), a legacy top-level index | build, publish, cleanup, recovery | crashes between any two file or Chroma operations; readers without lock; time-based reclamation | the pointer names only whole generations and moves forward; current and previous are never damaged; readers keep what they resolved; garbage goes |
| Vector store (`lib/vector/chroma.py`, `store.py`, `ingest.py`, `pipeline/embed_stage.py`) | one Chroma collection per generation | create, fill, copy, validate, drop | drops fail silently; partial fills | a published collection is exactly the chunks of its graph |
| Slug lock (`lib/pipeline/locking.py`) | flock on `.locks/<slug>.lock` | acquire, release | freed by death of the holder | one operation per slug at a time |
| Facade (`lib/pipeline/facade.py`) | none of its own | build, delete, recover, search, list, generation token | delete touches Chroma before files, and every collection of every slug; recover reads before it locks | an interrupted delete can be repeated or built over |
| Build service (`api/app.py`) | `build_jobs`, `builds_in_flight`, `build_tasks`, recovery task | POST/GET build, DELETE, search, list | event loop against worker threads, eviction, restart | one build per slug, every accepted build ends, repository limit |
| Search cache (`api/cache.py`) | Redis entries keyed by query and generation token | lookup, store, invalidate | results that outlive the generation they came from | a hit was computed from the generations now active |
| Search (`lib/vector/search.py`) | none | vector query, `_bfs_seeds`, fusion, dedup | runs over many slugs in threads, failures become missing results | one generation per slug and search; best paths within the depth |
| Embedding retry (`lib/vector/embeddings.py`) | none | batch, retry, split | endless retry on 429, skip sentinel | every text gets its own vector or is reported |
| Incremental chunks (`lib/pipeline/chunk_stage.py`, `lib/chunking/`) | prior chunk map | map chunks, reuse | stale reuse | equals a full build |
| Repository map and clones (`lib/git_download/`) | `repo_map.json`, clones | register, unregister, clone, update | unlocked read-modify-write | no entry is lost |
| Caches (`lib/cache/`) | extraction results on disk or in Redis | get, put, clear | concurrent writers, byte accounting | a hit is the value put for that content |
| CLI daemon and client (`cli/daemon_manager.py`, `server.py`, `client.py`) | pid file, child process | start, stop, restart; post and poll a build | pid file against processes; 404 while polling | one daemon; the client reports the outcome of its build |
| Discovery (`lib/extract/detect.py`) | none | walk, prune, filter, classify | two walks that must agree with one filter | exactly the wanted files are indexed |
| Extraction and graph build (`lib/extract/`, `lib/graph/build.py`) | none | parse, resolve imports and calls, merge | cached parts of other directories | the graph is that of the files |
| Clustering (`lib/graph/cluster.py`) | community of each node | partition, split, number, read back | libraries that drop or fail | every node has one community |
| Analysis, formatting, generated client | none | pure functions | size of the input | left out |

How they interact: `POST /v1/build` registers a job and runs `facade.build` in a
thread; the build takes the slug's flock, loads the active generation, cleans
up, extracts, embeds into a new Chroma collection, writes the files, stamps the
old generation as retired, replaces `current.json`, and cleans up again.
`recover()` takes each slug's flock in turn, at start and then periodically, and
runs the same cleanup. `DELETE` takes the flock, empties and drops collections,
then removes directories. Searches take no lock at all: they read `current.json`
once and go on with the generation it named; only the grace period
(`generation_grace_seconds`, 3600 s) protects them from cleanup. The HTTP search
is cached in Redis under a token made of the active generation ids.

The hazards of this code, each at its line, are in `PROJECT.json` ("hazards")
with the property that covers it, or why none does.

## 2. Plan

The modules in the order they were planned, the most important behaviour first.

1. `SlugIndex`, `ServedIndex`: the generation store of one slug and the abstract
   index it implements (section 3), with `SlugIndexProofs`.
2. `BuildService`: jobs, threads and locks of the API (section 4), with
   `BuildServiceProofs`.
3. `SearchCache`, `CollectionSweep`: what goes over several slugs (section 5), with
   `FacadeProofs`.
4. `RepoMap`, `ExtractionCache`, `IncrementalBuild`: what a rebuild keeps
   (section 6), with `RebuildProofs`, which also has the proofs about `Discovery`.
5. `Discovery`, `Clustering`, `Chunking`, `WeightedBfs`, `HybridMerge`,
   `EmbedRetry`: the algorithms (section 7), with `Sorting` (Python's `sorted`), and
   `AlgorithmProofs`, `EmbedRetryProofs` and the `CollectionLemmas` both rest on.
6. `BuildClient`, `Daemon`: the command line (section 8), with `ClientProofs`.

All of these are written. Left to do:

* the composition of `BuildClient` with `BuildService`, by a refinement of its job
  table; deletes and searches of several slugs in one model;
* the parts that section 12 lists as left out.

## 3. SlugIndex: the generation store of one slug

### State

| Variable | Code |
|---|---|
| `home` | `graph/<slug>/` exists (recover lists directories) |
| `pointer` | `current.json`: `generation_id` and `previous_generation_id`; always replaced atomically |
| `dir[g]` | `generations/<g>/`: absent, incomplete, or passing `validate_generation` |
| `retired[g]` | `retired_at`; missing and unreadable are the same to cleanup, which rewrites both |
| `coll[g]` | collection `codeknow_<slug>_<g>`: absent, incomplete, or passing `validate_collection_records` |
| `born[g]` | the time stamp that begins the id |
| `legacyMeta`, `legacyColl` | an index from before generations: top-level `metadata.json`, collection `codeknow_<slug>` |
| `lock`, `pc`, `task` | the flock, where each worker is, which operation it runs |
| `gen`, `reuse`, `migrate`, `old`, `cleanAt`, `todo`, `removed` | local variables of `_run_pipeline_unlocked`, `publish_generation`, `cleanup_generations` |
| `held`, `mode`, `started` | what a search resolved, how far it is, since when |
| `now`, `faults` | clock; crashes and tolerated failures so far |

Generation ids are natural numbers: `new_generation_id` returns strings that
sort by time, under the lock.

### Actions

A worker acquires the flock for one operation and then takes one action per
effect that another process, or a crash, can separate from the next:

* build: `Load` / `UpToDate` (what the build decides from the active index),
  cleanup, `BuildRaises`, `StartEmbed`, `FinishEmbed`, `WriteFiles`,
  `WriteMetadata` (the file that completes the directory), `StampRetired`,
  `SwapPointer`, `DropLegacy`, cleanup; `SaveRaises`, `AbortDirectory`,
  `AbortCollection` are the except-branch;
* cleanup (in builds and recover): `CleanupRefused` (dangling pointer: the
  ValueError or FileNotFoundError is swallowed), `CleanupStart`, newest
  directory first `SweepStamps`, `SweepKeeps`, or `SweepRemoves` and
  `RmtreeDone`/`RmtreeRaises`, then `DropRemoved`, `ListingFails`/`DropAbandoned`;
* delete: `PurgeCollections` (each collection may fail on its own; any failure
  ends the delete), `WipeDirectory`/`WipePartly` (`ignore_errors=True`);
* `Release`, and `Crash` at every step;
* search: `SearchResolves` or `SearchResolvesLegacy`, `SearchLoadsGraph`,
  `SearchEnds`.

`shutil.rmtree` is not atomic: `SweepRemoves` leaves the directory incomplete
until `RmtreeDone`, and readers or a crash come in between. `delete_collection`
suppresses every exception, so `DropCollections` lets any subset survive.

### Abstractions

A collection and a directory are three-valued: which chunk is missing does not
matter, whether validation passes does. Reading several files of the active
generation under the lock is one step. `PurgeCollections` is one step, since
its intermediate states are the states after a purge with failures, which the
model also reaches. `no_embed` builds, custom collection names and unmanaged
configurations are left out. A search of the model never fails to resolve;
a failed one changes no state.

Assumptions named in the model: a search takes at most `SearchBound`, and
publish pauses at most `StallBound` between the stamp and the replaced pointer.
The code bounds neither. The grace period is an hour; the model says what
follows if both together stay below it, which is exactly what the design relies
on ("Delay old generation cleanup so a search that already read the old pointer
can finish").

### Properties

* `MutualExclusion`, `SuccessMeansServing` (a build that reports success leaves
  a whole active generation, also as "up to date" and after a damaging delete);
* `PointerMovesForward`, `KeptGenerationsSurvive`,
  `SearchesKeepTheirGeneration`: what no step may do;
* `StorageReclaimed`: garbage of a slug that has a directory goes eventually;
* `IInv`: the inductive invariant. Beside `TypeOK`: who holds the lock
  (`LockInv`), unused ids (`FreshInv`), locals of idle workers (`IdleInv`), what
  a search holds (`SearchInv`), and `WorkerInv(w)` of every worker: the staged
  generation (`StagingInv`), the gap between stamp and pointer (`SwapInv`), after
  the pointer (`PublishedInv`), cleanup lists (`CleanInv`), deletes (`WipeInv`).
  `SuccessMeansServing` alone is not inductive: it needs to know that cleanup and
  legacy removal after the publish find the build's own generation active and
  whole, which needs the lock;
* `ImplementsServedIndex`: refinement of `ServedIndex`.

### ServedIndex

The promise to readers without locks, files, clocks or crashes: whole
generations are prepared, one is published, readers work on what was published
when they began, garbage is what is neither published nor read, and only an
announced destruction takes a generation from a reader. The refinement mapping
takes "whole" as directory and collection both complete, "published" as the
pointer when it names a whole generation, and announces destruction while a
delete is inside the lock.

## 4. BuildService: the loop, the threads and the locks of the API

### State

| Variable | Code |
|---|---|
| `disk[s]` | what `has_slug`, `list_repos` and `recover` see of an index: `current.json`, the generation it names, `generations/` |
| `flock[s]` | holder of `.locks/<slug>.lock` |
| `serving` | the lifespan start-up is over |
| `post` | a POST of a repository without index, between its reads of the disk |
| `inFlight`, `entry`, `status`, `slugOf`, `task` | `builds_in_flight`, `build_jobs`, the jobs, the tasks of `_run_build` |
| `call[b]` | the thread that runs `facade.build` |
| `deleting`, `target`, `since` | DELETE requests; the last build accepted before each |
| `recover`, `todo`, `visiting` | the recovery task and the loop of `recover()` |

### Actions

A handler or a task is one step up to its next `await`: `PostKnown`, `Poll`,
`TaskStarts`, `TaskCalls`, `TaskSucceeds`, `TaskEnds`, `TaskFails`,
`InvalidationFails`, `DeleteAccepted`, `RecoveryWakes`. The one exception is the
POST of a repository without index. It never awaits, so nothing else runs on the
loop, but it reads the disk again and again while threads change it: `PostNew`
(has_slug), `PostCounts` (list_repos), `PostAccepts`/`PostRefuses` (has_slug of
the builds in flight, then the decision). `LoopFree` keeps the loop to itself
meanwhile. Threads wait for a place in the executor (`BuildRuns`, `DeleteRuns`,
`RecoveryRuns`), then for the flock (`...Locks`), then work and release.
A delete removes what is on disk piece by piece (`Wipes`). `recover()` decides
without the lock (`RecoveryVisits`, `RecoveryScans`) and cleans with it.
`Crash` loses all but the files; the first recovery then precedes `serving`.

### Abstractions

The age of a job is a choice: any terminal job may be evicted by any request.
What build, cleanup and delete do under the lock, and their crashes half way,
is `SlugIndex`; here a build publishes a whole index, or fails and leaves at
most a staging directory, and a recovery removes nothing that `has_slug` or
`list_repos` look at. Progress updates, searches and lists change nothing here.
Legacy indexes, other processes and the orderly shutdown are left out.

### Properties

* `OneBuildPerSlug`, `SentinelIsExact`, `JobOfRunningBuild`: the in-flight set,
  the tasks and the job table agree at every step, although a job is terminal
  one `await` before its slug leaves the set and jobs are evicted by others;
* `DeletesSeeNoOlderBuild`: a delete overlaps only builds accepted after it (the
  converse is not refused: POST does not look at deletes);
* `OutcomesStand`: no reported outcome is taken back;
* `BuildsFinish`, `ServesAgain`: liveness with fewer threads than contenders,
  and after a crash;
* `IInv`: these and `LockInv`, `CallInv`, `EntryInv`, `PostInv`, `StartInv`,
  `AcceptedInv`, `TargetInv`, which they need to be inductive;
* `RepositoryLimit`, `RecoveryKeepsRunning`: violated, section 11.

## 5. Several slugs: SearchCache and CollectionSweep

`SearchCache` is `POST /v1/search` behind Redis. `pub`, `legacy` and `home` are
what a request can see of an index (`current.json`, a legacy index, the
directory), `last` and `job` the builds, `cache` the entries, `req` the requests.
The token is read pointer by pointer (`ReadPointer`, `TokenRead`), a `Hit` returns
at once, a `Miss` lists or checks the slugs (`Discover`, `Check`), searches each in a
thread (`SearchSlug`, `SearchSlugFails`), reads the token again (`ReadAgain`,
`Compare`) and writes (`Store`). Builds publish between any two of these steps,
`InvalidateForSlug` removes entries by scanning (a Redis error ends the scan
anywhere), entries `Expire`, and every call of Redis may fail. A result is only the
generation it came from. `CachedGenerations`: an entry never holds a generation
other than that of its key. `AnswersAreCurrent`: no answer is older than its
request, for indexes that exist all the time.

`CollectionSweep` is `facade.delete` over *all* collections of Chroma, under the
lock of its own slug. `chroma[c]` says whether a collection is there, whose records
it holds and who has it open; `worker[s]` is the build or delete of a slug.
`get_or_create_collection` makes what another slug dropped after the listing
(`OpenNext`), what was opened is dead once it is dropped (`CollectionFails`), and
one collection may be shared by several slugs, as old builds made it. `DeletesAreExact`: a delete that
reports success leaves no record of its slug, and nobody drops a collection of
another slug or a shared one with records. The order in which builds
clean and the grace period are `SlugIndex`; here cleanup may take any of the garbage.

## 6. What a rebuild keeps: RepoMap, ExtractionCache, IncrementalBuild

`RepoMap`: `map` is `repo_map.json`, `checkout` the clones, `head` the remote
branches, `proc[s]` the process with the slug's lock. `resolve` (`GetPath`,
`CachedCheckout`), `download` (`SetRemote`, `FetchAndCheckout`, `DownloadFails`), the
unlocked load and save of `register` and `unregister`, and deletes are steps that
processes of other slugs, pushes and deaths come between. Two repositories may share a
slug (`config.py:88`), and with it the checkout. `ResolvedIsOfTheUrl`: a build works on a
checkout of a repository of its slug, and one that fetches on that of its own URL, no
older than the build, though the other repository had the checkout before or a build
died between the change of the remote and the fetch. `LostEntriesAreHarmless`: the lost updates of the map never make a build fail
that has its checkout.

`ExtractionCache`: one extraction file by file, with entries keyed by content,
*resolved* path and version, identifiers that hold the path and directory they were
made at, and the repair by `StaleIdRemap`, then imports, calls and uses across files and
`build_from_json`. A file is Python, JavaScript or TypeScript and holds classes with
bases, methods, functions and calls, a base of another file becomes a stub node, and
of two nodes with one label the last wins. A path may hold a symbolic link to
another one (`RealPath`, `Held`), which may dangle: `file_hash` resolves it, `detect` and the
extractor do not, so a link and its target are two files with one entry. Between
extractions files and links change, the checkout moves or is
cloned anew, the extractor is upgraded; a build may die. `CachedIsCurrent`: no entry
of other content or version is used, and one of another path only if a link is behind
it, now or when the entry was made. `OnlyMovedImportsAreLost`: while no file takes the
entry of another path (`Shared`), the graph is
the one made without the cache, but for imports between two files whose entries
were made in different directories (this is exactly what the repair misses). What a
shared entry does to the graph is the run `extraction_link`.

`IncrementalBuild`: the choice of `reuse`, the diff of two commits with renames,
the prior chunk map, `CopyFrom`, embedding, `UpdateMetadata`, validation, while Chroma
may lose records of the active collection. Contents share chunks, ignore files
change what is discovered, configurations change. `IndexMatchesCommit`: the active
index is what a full build of its commit makes. `SuccessIsComplete`: a reported
success has all its records. `ValidationNeverFails`: reuse and validation agree.

## 7. The algorithms

Each runs once on every input of a small domain that `Init` chooses.

| Module | Code | Property |
|---|---|---|
| `Discovery` | the two walks of `detect`, pruning, `.graphignore` of several levels, classification | `DetectFindsTheWanted`: found is a file if and only if a definition over the file's own path says so |
| `Clustering` | `cluster` (library, isolates, split, numbering), `assign_communities`, `communities_from_graph` | `CommunitiesCoverTheGraph`: whatever partition a library returns, dropping isolated nodes or failing in the second pass, what is read back has every node once, the largest community first |
| `Chunking` | `chunk_file_linear`, `chunk_file_ast`, node ranges, reading a chunk back | `EveryLineIsChunked`; `NodesReachTheirText` and `ReuseExpectsWhatIsStored` can be checked with the same configuration |
| `EmbedRetry` | `embed_texts`: classification of errors, retries, halving of batches and texts, merging | `PiecesTileTheText`, `MergedVectorIsTheMean`, `OnlyHopelessTextsAreDropped`, and `BatchEnds` |
| `WeightedBfs` | `_bfs_seeds` with its heap, counter and caps, the weights by intent, dominant communities | `FrontierIsClosed`: an uncapped search forgets no neighbour; `EarlierResultsAreExtended`: a result is never lighter than its extension of an earlier one |
| `HybridMerge` | rank fusion, candidates, graph results, removal of overlaps, ranking, merge of two indexes | `KeptAreTheBest`, `SparseHitsSurviveFusion` |

Texts are abstract: a line is blank or not and may be several by the reader's
count; a vector is the weight of each character in it; distances and weights are
thousandths. What a tree-sitter grammar, a Leiden or Louvain partition, a provider
or a retriever returns is any value of its shape.

## 8. The command line: BuildClient and Daemon

`BuildClient`: clients post and poll one repository's build against the job table.
The thread's progress and result travel through the event loop's `queue`; a job
ends, the slug leaves `inFlight`, jobs age (`Expire`) and are evicted by any request, are
replaced by the next build, and all are lost in a `Crash`. `ReportsAreTrue`: what
a client reports happened to its build or a later one, and only a build that ended
or died with the service is reported gone. `TerminalJobsStand`: late progress never
reopens a job. `PollingEnds`: every poll loop ends.

`Daemon`: commands are processes (`session`) that change the mode in the
configuration file, start, stop and clean. `os[p]` is what runs under a pid: a
daemon, a stranger, a dead child not yet waited for. `StartChecks`, `Popen`,
`OpenPidFile`, `WritePid`, the stop of a tracked child and the stop by pid with its
timeouts are steps of their own; daemons and commands die, pids are given again
(`StrangerComes`), the file is empty between opening and writing. `DaemonIsNamed`:
while commands come one at a time the pid file names the daemon that runs, however
daemons died and stops failed, and whatever process was given a dead one's pid. `StoppedMeansGone`: a stop that removes the pid file,
and a clean that removes the files, leave no daemon. Both are stated while
`orderly` holds: commands come one at a time, none dies half way, and the mode changes
only while no daemon runs. What happens otherwise is in section 11.

## 9. Runs

| Run | Instance | Shows |
|---|---|---|
| `slug_builds` | 2 workers, 1 search, 3 generations, clock to 4, grace 2, search 1, 1 fault; build and recover | all safety of builds and recovery; 555 k states |
| `slug_deletes` | 2 workers, 1 search, 2 generations, clock to 3, grace 1, search 0, 2 faults; build, recover, delete | half-done deletes and their repair; the refinement; 281 k states |
| `slug_reclaim` | 2 workers, no search, 3 generations, clock to 3, grace 1, 1 fault; fair | `StorageReclaimed`; 64 k states |
| `service_jobs` | 2 repositories, 3 builds, 1 delete client, 2 threads, limit 1, 1 fault | all safety of `BuildService`; 1.5 M states |
| `service_ends` | 2 repositories, 2 builds, 1 delete client, 2 threads, limit 2, 1 fault; fair | `BuildsFinish`, `ServesAgain`; 161 k states |
| `search_cache` | 1 slug, 2 requests, 2 generations, deletes, requests for the slug and for all; 2 slugs, 2 generations, 2 deletes, 1 refusal of Chroma | section 5; 4.0 M states |
| `rebuild` | 3 URLs of 3 repositories, two of one slug, 4 operations, 1 push; 3 paths (two of one stem, two that may be links to the third) with 2 contents, 2 places, 2 versions, 2 edits; 2 paths, 2 contents, 2 commits, 2 configurations | section 6; 2.3 M states |
| `algorithms` | below | section 7 but `EmbedRetry`; 1.3 M states |
| `clients` | 2 clients, 3 builds, 1 fault; 2 commands at a time, 4 in all, 2 pids, 2 events; batches of up to 3 texts of one or four lines, context limit 2, 2 halvings; fair | section 8 and `EmbedRetry`; 279 k states |
| `service_recovery_dies` | 1 repository, 2 builds, 1 delete client, no faults | violation: the recovery task dies |
| `incremental_too_long` | `rebuild` with a content the provider refuses | violation: a skipped chunk fails the validation |
| `extraction_link` | 3 paths, one may be a link to another, nothing changes | violation: a link and its target share an entry, and the graph has other edges |

`MCFacade`, `MCRebuild`, `MCAlgorithms` and `MCClients` each look at several modules
that share no variable. One variable (`call`, `part`, `algorithm`) says which
module the behaviour is of; the variables of the others keep a fixed value. So a
run of them is the runs of its modules side by side, not an interleaving,
and its state count is their sum.

Bounds. In `SlugIndex` three generations are needed for one to be neither current
nor previous; the clock must pass stamp + grace and one tick more, so that both
"kept" and "expired" occur; two workers give every hand-over of the lock between
operations, more only permute it; one search suffices because searches do not
interact. One fault shows every single crash, two let a delete stop half way and
the repair fail again. For the service, three builds are the least with two of one
slug in succession and one of another beside them; a delete client can ask again;
two threads make four contenders wait for a place; with a limit of one both
answers of a POST occur.

Two requests let one hit what the other stored; two generations put a publish
between any two reads. Two slugs give every pair of builds and deletes, and the
shared collection with records of both. Two repositories of one slug and one
of another separate "same slug" from "same repository"; four operations are a build,
two that lose each other's entry, and one that meets the result. Three files are
the least with a stem shared between directories, an import between them and two
links to one file; two edits are a move and a change, or a link that comes and goes. Two commits are a prior index and a build on it;
Chroma may lose any records.

The algorithms run on checkouts of two of fourteen files with an ignore file at
two levels and nine patterns; graphs of four nodes with all partitions, where
communities of more than two are split; files of up to four rows, three parsed nodes, windows of
up to three rows; graphs of four nodes with two relations (calls are inferred),
two assignments of communities, a query without intent and one with two, two seeds, depth 2, cut at two results or never; three windows of a
file, each overlapping the next, and a test file, in all rankings of two
distances. Four nodes are the least in which a node within the depth of two
seeds is reached first from the wrong one; three windows the least in
which a removed one decides about another. Two clients and three builds let
a build that a client never asked for replace its job twice; two commands
interleave in every way, four are start, stop, start and clean; two pids let one
be given again. The texts are one that fits, one that fits when halved twice, one
that two halvings leave too long, and one of four lines
to be cut at the line end nearest its middle.

`MCSlugIndex`, `MCFacade` and `MCRebuild` use symmetry, never under fairness. Deadlock is
checked in `SlugIndex`, `MCRebuild`, `MCAlgorithms` and `MCClients`, which
stutter only when all bounds are used up or the algorithm has returned. It is
not in `BuildService`, which may come to rest for good once its builds
are used up and recovery has died (that nobody is stuck before is `BuildsFinish`),
nor in `MCFacade`, whose builds, searches and deletes are bounded.

Fairness of `SlugIndex` (`FairSpec`): a running operation goes on (weak fairness of a
worker's steps: it is a thread of a live process; the endless retry on rate
limits is in `EmbedRetry`), searches end, the clock ticks, and recovery gets
the flock again and again (strong fairness: `_recover_periodically` asks for it
for ever, and a blocked `flock` is woken on release). A crashed worker is not
required to come back other than by `recover`.

Fairness of `BuildService` (`FairSpec`): strong for the steps of each build, each
delete and recovery, since each waits for things that come and go: the loop (its
ready queue is served in order), a thread (the executor's queue is served in
order), a flock (the kernel wakes its waiters). A POST half way goes on (weak).
Clients, the periodic wake-up, evictions and crashes are never required.

Fairness of `EmbedRetry` (`EmbedFairness`, a conjunct of `MCClients`' `Spec`; behaviours of
the other two modules enable none of its steps): strong for an answer that is not a rate limit. Nothing in
the code bounds the loop on 429, so `BatchEnds` is a promise only if the provider
does not rate limit for ever; the run says that nothing else can make it endless.
Fairness of `BuildClient` (`ClientFairness`): the threads and the loop go on (weak), a dead service is started
again, a client that waits polls. Nothing is required of users, crashes, lost
answers or eviction.

Every property of a passing run has a mutant in `PROJECT.json`: a definition in
the module, marked `Mutant` in its comment, that makes a plausible bug
(validation dropped, grace ignored, recovery without the lock, eviction by age
alone, a cache key without the path, the later of two overlapping windows
removed), with which TLC finds the property violated.

## 10. Proofs

All theorems hold for every value of the constants that satisfies the named
assumptions, among them every set of workers, searches and repositories, every
bound and every grace period.

`SlugIndex`, from `WorkersAssumption`, `OpsAssumption`, `BoundsAssumption`, in
`SlugIndexProofs`:

* `TypeCorrect`, and `OneAtATime`: `Spec => []MutualExclusion`. Mutual exclusion is
  not inductive; `LockInv` is: a worker is inside exactly when the lock names it, and
  each step belongs to the operation that takes it.
* `Inductive`: `Spec => []IInv`. The lock makes the proof local: while w is inside
  all others are idle (`OthersIdle`), so a step of w can disturb only `WorkerInv(w)`,
  `FreshInv` and `SearchInv`. Each step of an operation hands its successor exactly
  the part of `WorkerInv(w)` that one needs. From `IInv`: `SuccessServes`,
  `PointerForward`, `KeptSurvive`, and, through the lemma `Damage` (which steps can
  damage which generation), `SearchesKeep`: `SearchesKeepTheirGeneration` if
  `SearchBound + StallBound < Grace`. That inequality is a hypothesis of the
  theorem, not an assumption of the module.
* `Refines`: `Spec => ImplementsServedIndex` under the same hypothesis; each action
  is mapped to the abstract step it is, or to none.

`BuildService`, from `ServiceAssumption` (finitely many repositories, naturals)
and `HoldersAssumption` (lock holders of different kinds differ):

* `BuildServiceProofs`: `TypeCorrect`; then `Inductive`: `Spec => []IInv`, and from it `OneBuild`,
  `Sentinel`, `JobFound`, `DeletesRefused` and `OutcomesKept`. The heart is
  `SentinelIsExact`: a POST that finds its slug idle makes the only live build of
  it (`AdmitStep`), so the job it registers replaces none a task still needs, and
  a delete that finds it idle is older than every build it will meet. `PostInv`
  carries "idle" over the reads of a POST. Steps that do not touch the loop's data
  (`JobsStay`) need only be checked against the locks.

Also proved, though the runs state it only through `IInv`, which implies it:
`OneAtATime` (mutual exclusion) and `JobFound` (`JobOfRunningBuild`).

`SearchCache` and `CollectionSweep`, in `FacadeProofs`. The run `search_cache` shows
them side by side under `MCFacade`; the theorems are about each alone (`CacheSpec`,
`SweepSpec`):

* `CacheInvariant`, and from it `Answered` (`AnswersAreCurrent`) and `Entered`
  (`CachedGenerations`). That what is cached fits its key is not inductive, for a
  search may hold an answer of another generation than the pointer it has read.
  `CacheInv` follows each running search with the set of indexes it has seen active
  (`seen`): what it found is among them, and whatever was overtaken since the first
  reading of the pointers makes the second reading differ (`OvertakenOK`), so that
  such an answer is thrown away before it is stored (`KeyOK`).
* `SweepInvariant`, and from it the action property `Deleted` (`DeletesAreExact`).
  `SweepInv` follows a delete along its list of collections: unless a call has failed,
  records of its slug are only in collections still on the list, because only a build
  of the slug writes them and the lock keeps that away. A collection it drops is of
  its own slug or the shared one, found empty.

`RepoMap`, `ExtractionCache` and `IncrementalBuild`, in `RebuildProofs`:

* `RepoInvariant`, and from it `Lost` (`LostEntriesAreHarmless`) and
  `Resolved` (`ResolvedIsOfTheUrl`), for any number of repositories of one slug. A build
  that fetches relies only on the checkout
  it has made since it began, so the heads of that moment (`since`) bound its commit
  from below, and the remote it has set is still that of the checkout, whatever was
  there before. A build that does not fetch
  takes the checkout of its slug as it is (section 11, `config.py:88`). The assumption
  `NothingAssumption` only says that the value standing for "no checkout" is none.
* `ExtractionInvariant`, and from it `Cached` (`CachedIsCurrent`), which is inductive once
  an idle run is known to hold no results. An entry is found by what its path resolved to
  when it was made and the file's path resolves to now (`SameHash`), which leaves another
  path's entry only to links.
* `BuiltInvariant`, and from it `MovedImportsOnly` (`OnlyMovedImportsAreLost`). `BuiltInv`
  says that an extraction has at most one result of each file, of its present text and
  of no file still to come, and that its graph is what `Assembled` makes of them. The rest
  compares that, while no entry is shared, with what it makes of the same files parsed anew: only identifiers of
  file nodes hold a directory, `StaleIdRemap` moves those of the results and leaves all
  others (`Repaired`), so nodes, edges within files, uses and calls are the same
  (`AssembledIs`) and the imports are compared one by one (`ImportsMove`).
  `ExtractionAssumption` says what a parsed file can be (methods and notes are of
  definitions of the file), that a link is to a file and neither looks like a text, and
  that no file is named as a directory of checkouts, so
  that no identifier is both a file's and a definition's.
* `IncInvariant`, and from it `IndexMatches` (`IndexMatchesCommit`), `Validates`
  (`ValidationNeverFails`) and the action property `Succeeds` (`SuccessIsComplete`). `IncInv`
  says stage by stage that the staged map is the one a full build makes of the
  commit, that records copied are by the same model, and how many of the chunks are
  stored by then. The lemma `ChangedPathsCoverDifferences` is what an incremental
  build rests on: every path whose text differs is reported, whatever git pairs up
  as a rename. `Validates` has the hypothesis `TooLong = {}`; without it the property
  is false, which is the run `incremental_too_long`.

`BuildClient` and `Daemon`, in `ClientProofs`:

* `ClientInvariant`, and from it `ReportsTrue` (`ReportsAreTrue`) and the action property
  `Outcomes` (`TerminalJobsStand`). `ClientInv` ties the job table, the thread and the callbacks
  waiting in the loop to the one build under way: queued, in its thread, or ended
  with its result as the very last callback. So the table can say nothing else than
  what the build came to, and late progress finds no ended job.
* `DaemonInvariant`, and from it `Named` (`DaemonIsNamed`) and `Gone` (`StoppedMeansGone`).
  `DaemonInv` says of the command at work, at each of its steps, where a running daemon
  can be: none, the one it has just started, or the one in the pid file. The
  properties first excluded that a dead daemon's pid is given to another process;
  the proof did not need it, and the exclusion is gone from `orderly`.

`Discovery`, in `RebuildProofs`, from `DiscoveryAssumption` (the directories of a file
are directories, and `graph-out` is pruned):

* `DetectInvariant`, and from it `WantedFound` (`DetectFindsTheWanted`). That the lists
  are exact at the end says nothing of the walk; `DetectInv` does: a wanted file is
  collected, or has a directory over it in the queue, or waits for the scan of the
  memory tree (`WantedOK`), and whatever is collected has no pruned directory over it
  (`CollectedOK`). `Wanted` looks for a run of names in the path, the code tries each
  pattern from the root and from every anchor; that the two agree, on the file and on
  each directory over it, are the lemmas `IgnoredIsExcluded` and `IgnoredDown`.

The algorithms compute with folds and recursive functions over sequences of any
length. The library's induction theorems cannot be used (they take an operator as a
parameter), so `CollectionLemmas` brings its own, each as a plain statement about
sets of numbers: a set of naturals that misses one has a first it misses
(`FirstMissing`). From that follow that a fold over a sequence is a chain of steps
(`FoldExists`, `FoldIsChain`), that `Sorting!Sorted` puts a finite set in order
(`SortedInOrder`), and what `FlattenSeq` joins (`FlattenIs`, `FlattenHas`). A recursive
function is a CHOOSE among functions that satisfy its equation; that there is one is
proved wherever one is used.

`WeightedBfs`, in `AlgorithmProofs`:

* `BfsInvariant`, and from it `Closed` (`FrontierIsClosed`) and `EarlierExtended`
  (`EarlierResultsAreExtended`), for every graph, depth and limit. `BfsInv` says of every
  expanded node that each neighbour was visited or waits in the heap, at the weight of
  the path over it or more. That the heap has a heaviest entry at all rests on the
  pushes having numbers of their own and on a bound of the weights, for which
  `BfsConstantAssumption` has confidence scores between 0 and 1 (`schemas.py:102`), in tenths.

`HybridMerge`, in `AlgorithmProofs`, from `MergeConstantAssumption` (distances up to 2,
the greatest of cosine; the full-text hits without repetition and in order):

* `MergeInvariant`, and from it `SparseSurvive` (`SparseHitsSurviveFusion`) and `BestKept`
  (`KeptAreTheBest`), for any answers of the retrievers. The first rests on the scores
  as sums of reciprocals (`SumOfOne`, `Reciprocals`) and on what each cut takes from a
  sorted list. The second follows the fold of `Removed` pair by pair: each removed
  result was outdone by one that is heavier, or as heavy and earlier (`AllOutdone`).
  That order has no cycles, so the best of the results that overlap stays, though
  removed results go on removing others (`BestStays`).

`Clustering`, in `AlgorithmProofs`, from `ClusteringAssumption`:

* `ClusterInvariant`, and from it `Covered` (`CommunitiesCoverTheGraph`), for every graph
  and whatever partitions the libraries return. `ClusterInv` says that the communities
  found so far divide the nodes they cover, and those still to be split the rest. The
  second pass puts back no nodes without edges; none is lost, for what `leiden` returned
  is connected and what `louvain` divides may hold such nodes.

`Chunking`, in `AlgorithmProofs`, from `ChunkingAssumption`:

* `EveryLineChunked`: `[]((RowsAreLines \/ ~parsed) => EveryLineIsChunked)`, for files of
  any length, every parse tree, window and overlap. The windows from a line on hold all
  lines up to the last (`WindowsHold`, an induction from the end, over a recursive
  function), joined spans keep the rows of every node (`JoiningHolds`). `RowsAreLines`
  says that `splitlines()` finds one line in each row of the parser. Without it the AST
  chunker does lose lines (section 11, `chunker.py:162`); the linear one never does.

`EmbedRetry`, in `EmbedRetryProofs`, from `InstanceAssumption`:

* `EmbedInvariant`, and from it `Tiled` (`PiecesTileTheText`), `HopelessOnly`
  (`OnlyHopelessTextsAreDropped`) and `MergedMean` (`MergedVectorIsTheMean`), for any batch
  of texts, limit and depth. `EmbedInv` says of the parts answered and the parts in the
  pending calls together that each character is in exactly one (`Covered`, `AllApart`),
  that a part of a text of one line is as short as its depth says (`AllHalved`), and
  that they are the leaves of a tree of halves under the texts (`IsTree`). The merged
  vector is recursive over that tree; the proof takes the smallest part whose vector
  would not be even.

The inductive invariants were also checked by TLC on the instances of their modules'
runs (`IInv` of `SlugIndex` and `BuildService` still are, as properties of runs). A CASE
of TLA+ whose arms overlap is a choice nobody knows, which TLC hides by taking the first;
`Dispatch` of `Daemon`, `RecoveryVisits` of `BuildService` and `Factor` of `WeightedBfs` have had
their arms made disjoint.

Only model-checked:

* the liveness properties (`StorageReclaimed`, `BuildsFinish`, `ServesAgain`, `BatchEnds`,
  `PollingEnds`): fairness and ENABLED are out of the prover's reach;
* the properties of section 11 that are false of the code.

## 11. Findings

Three disagreements are violation runs, listed with their quotes in `PROJECT.json`:

* `RecoveryKeepsRunning`: `recover()` lists `generations/` without the lock while a delete
  removes it, and the exception ends the periodic recovery;
* `ValidationNeverFails`: a text the provider finds too long is skipped by the ingest
  layer and then missed by the validation;
* `CacheIsTransparent`: a committed symbolic link and its target share a cache entry, also
  within a first extraction, and the file that takes it from the other renames the
  other's node in every edge (`extractor.py:141`). Without links the same property fails
  after a move, when imports between files cached in different places are lost.

The modules state more that a document, comment or test of the repository says and
the code does not do. Each is a definition in the module, with a comment; to see
its counterexample, run the configuration named here, with the definition in place of its
INVARIANTS and PROPERTIES unless it checks nothing else already.

| Definition | Configuration | What happens |
|---|---|---|
| `LegacySearchesKeepTheirIndex` | `SlugIndex_legacy_search.cfg` | the legacy collection is dropped right after the first publish, under a search that uses it (`runner.py:450`) |
| `AbandonedBuildsReclaimed` | `SlugIndex_first_build_orphan.cfg` | recovery looks for directories; a first build that dies while embedding has none, and its collection stays (`facade.py:288`) |
| `RepositoryLimit` | `BuildService_limit.cfg` | a build that publishes between the two counts of a POST is in neither (`app.py:245`) |
| `NothingDeletedIsServed` | `Facade.cfg` | a legacy index has the token of no index, DELETE invalidates nothing: a cached answer outlives the repository (`app.py:354`) |
| `NoneIsLeft` | `Facade.cfg` | the scan of a delete creates again what another slug dropped after the listing, an empty collection; only a later build of that slug removes it (`facade.py:199`) |
| `OnlyRefusalsFail` | `Facade.cfg` | a delete fails because a collection it listed was dropped by another slug's build meanwhile |
| `RegisterPersists` | `Rebuild.cfg` | two builds register at once and one entry is lost (`repo_map.py:56`); `LostEntriesAreHarmless` says it costs nothing |
| `DeleteUnregisters` | `Rebuild.cfg`, `SameDir = FALSE` | deletes look for the entry under another directory than builds register (`facade.py:87`) |
| `CachedIsOfTheUrl` | `Rebuild_collision.cfg` | the slug is owner-repo and both may hold dashes, so two repositories may share checkout and index (`config.py:88`): a build without a fetch takes what the other left |
| `HeaviestPathWins` | `Algorithms_heaviest.cfg` | weights grow along a path, so the first pop need not be the heaviest (`notes/2026-05-18-weighted-bfs.md:29`) |
| `EverySeedIsExpanded` | `Algorithms_seeds.cfg` | a seed reached at full depth from another is visited there, and nodes next to it are missed (`search.py:194`) |
| `DroppedAreCovered` | `Algorithms_dropped.cfg` | a result that has removed another is removed by a third, or goes on removing others after it was removed (`search.py:447`): what was found is in no result and under none. `KeptAreTheBest` only promises the best of each file |
| `DaemonCanBeStopped` | `Clients_untracked.cfg` | two commands at once, or one killed between starting the daemon and writing its pid, leave a daemon the pid file does not name |
| `HashContract` | `Algorithms.cfg`, `Eols = {"lf", "crlf"}` | the chunker hashes CRLF, the reader gives LF, validation compares the two (`chunker.py:147`) |
| `EveryLineIsChunked` | `Algorithms.cfg`, `MaxParts = 2` | rows of the parser index lines of `splitlines()`, which also breaks at form feeds (`chunker.py:162`) |
| `EstimateIsConservative` | `Algorithms.cfg` | `min` makes graph results at least, not at most, a fifth nearer than their seed (`search.py:609`) |
| `VectorHitsAreResults` | `Algorithms.cfg` | `vector_hits` is counted before the cut at `top_k` (`search.py:709`) |

`DaemonIsNamed` and `StoppedMeansGone` say what holds while commands come one at a time.
In `Daemon` a daemon is left without interleaving, too, when the mode changes: `clean` in
mode docker or remote, or after `server mode` has left daemon, removes the files
under a running daemon, though `packages/codeknow-cli/README.md:129` says it "Stops the
daemon first if in daemon mode"; and a command that reads the configuration while
another truncates it takes the mode to be docker. Read while modelling, without a
definition of its own: `_stale_file_nid` says that the file node is "the only node whose ID is
location-dependent", but those of definitions hold the stem, so an entry made at a link
keeps the link's stem after the link is gone; "Community IDs are stable across runs" of `cluster` holds only up to
the order of communities of equal size.

## 12. Not modelled

The components of `PROJECT.json` say in their notes what each leaves out. Whole
components without a module, and why:

* analysis and query engine (`graph/analyze.py`, `graph/engine.py`, `validate.py`): pure
  reports that neither build nor search calls;
* formatting, prompts, the REPL, service probes, path constants: no state;
* API middleware: a stub; the generated client, the evaluation kit, deployment;
* the tree-sitter grammars: `ExtractionCache` models what `ast.py` makes of definitions,
  imports and calls; the tree is its input, and how a name or an import is written
  in each language is left out;
* symbolic links out of the checkout (`repository_path` raises and the build fails,
  `extractor.py:234`), to directories (the walks do not follow them) and links as such
  after the extraction: chunks, vectors and changed paths are kept under the resolved
  path, and `Paths` of `IncrementalBuild` are resolved ones;
* the Redis store of extractions, `detect_incremental`, `build_merge`,
  `deduplicate_by_label`, `embed_chunk_map`: nothing in the running program calls them.

External behaviour is assumed as the code uses it: `flock` is freed by death,
renames are atomic, Chroma's `update` replaces metadata and a dropped collection is
dead to those who opened it, Redis may fail at any call, a dead child keeps its pid
until it is waited for.
