------------------------------ MODULE RepoMap -------------------------------
(***************************************************************************)
(* The checkouts and repo_map.json: how a build finds the checkout of its  *)
(* URL, and what a delete removes.  Builds and deletes of one slug exclude *)
(* each other by the slug's lock.  Those of different slugs share the map, *)
(* which each of them loads, changes and replaces whole, without a lock.   *)
(***************************************************************************)
EXTENDS Naturals, FiniteSets

CONSTANTS
    Urls,       \* the URLs the users build: two may name one repository
    RepoOf,     \* the repository each of them names
    SlugOf,     \* the slug PipelineConfig makes of each: repositories may share one
    SameDir,    \* CODEKNOW_INPUT_DIR is the directory the facade clones into
    MaxPushes,  \* bound: commits pushed to a repository
    MaxOps,     \* bound: builds and deletes
    Nothing

ASSUME RepoMapAssumption ==
    /\ SameDir \in BOOLEAN /\ MaxPushes \in Nat /\ MaxOps \in Nat
    /\ DOMAIN RepoOf = Urls /\ DOMAIN SlugOf = Urls

Slugs == {SlugOf[u] : u \in Urls}
Repos == {RepoOf[u] : u \in Urls}
Checkouts == [remote : Repos, repo : Repos, commit : Nat]

ASSUME NothingAssumption == Nothing \notin Checkouts

VARIABLES
    map,       \* repo_map.json: the URLs in it; each entry is the path of its slug
    checkout,  \* per slug: the clone in the facade's directory, or Nothing
    head,      \* per repository: the commit of its remote branch
    proc,      \* per slug: the process that holds its lock
    ops        \* builds and deletes started

RepoMapVars == <<map, checkout, head, proc, ops>>

NoProcess == [pc |-> "idle"]
RepoMapInit ==
    /\ map = {} /\ checkout = [s \in Slugs |-> Nothing] /\ head = [r \in Repos |-> 0]
    /\ proc = [s \in Slugs |-> NoProcess] /\ ops = 0

Push(r) ==
    /\ head[r] < MaxPushes
    /\ head' = [head EXCEPT ![r] = @ + 1]
    /\ UNCHANGED <<map, checkout, proc, ops>>

-----------------------------------------------------------------------------
(* A build: resolve and download.                                          *)

On(s, pc) == proc[s].pc = pc
Goto(s, pc) == proc' = [proc EXCEPT ![s].pc = pc]

StartBuild(u, fetch) ==
    LET s == SlugOf[u]
    IN /\ On(s, "idle") /\ ops < MaxOps /\ ops' = ops + 1
       /\ proc' = [proc EXCEPT ![s] = [pc |-> "resolve", url |-> u, fetch |-> fetch,
                                       mapped |-> FALSE, mapping |-> {}, since |-> head]]
       /\ UNCHANGED <<map, checkout, head>>

\* get_path: the entry of the URL.  To a fetch, one without its checkout is no entry.
GetPath(s) ==
    /\ On(s, "resolve")
    /\ proc' = [proc EXCEPT ![s].mapped = /\ proc[s].url \in map
                                          /\ proc[s].fetch => checkout[s] # Nothing,
                            ![s].pc = IF proc[s].fetch THEN "download" ELSE "cached"]
    /\ UNCHANGED <<map, checkout, head, ops>>

\* Without a fetch: the mapped checkout, or one the map has forgotten.
\* Mutant: a checkout the map has forgotten is not looked for.
CachedCheckoutMapped(s) ==
    /\ On(s, "cached")
    /\ Goto(s, IF ~proc[s].mapped \/ checkout[s] = Nothing THEN "raised" ELSE "resolved")
    /\ UNCHANGED <<map, checkout, head, ops>>
CachedCheckout(s) ==
    /\ On(s, "cached")
    /\ Goto(s, CASE checkout[s] = Nothing -> "raised"
                 [] checkout[s] # Nothing /\ proc[s].mapped -> "resolved"
                 [] OTHER -> "register")
    /\ UNCHANGED <<map, checkout, head, ops>>

\* The remote of an existing clone is set to the URL; a new one is made.
\* Mutant: an existing clone keeps its remote.
SetRemoteNot(s) ==
    LET r == RepoOf[proc[s].url]
    IN /\ On(s, "download")
       /\ checkout' = [checkout EXCEPT ![s] =
              IF @ = Nothing THEN [remote |-> r, repo |-> r, commit |-> head[r]] ELSE @]
       /\ Goto(s, "fetch")
       /\ UNCHANGED <<map, head, ops>>
SetRemote(s) ==
    LET r == RepoOf[proc[s].url]
    IN /\ On(s, "download")
       /\ checkout' = [checkout EXCEPT ![s] =
              IF @ = Nothing THEN [remote |-> r, repo |-> r, commit |-> head[r]]
              ELSE [@ EXCEPT !.remote = r]]
       /\ Goto(s, "fetch")
       /\ UNCHANGED <<map, head, ops>>

FetchAndCheckout(s) ==
    /\ On(s, "fetch")
    /\ checkout' = [checkout EXCEPT ![s].repo = checkout[s].remote,
                                    ![s].commit = head[checkout[s].remote]]
    /\ Goto(s, IF proc[s].mapped THEN "resolved" ELSE "register")
    /\ UNCHANGED <<map, head, ops>>

\* A clone or a fetch fails; a clone that fails leaves no directory.
DownloadFails(s) ==
    /\ (On(s, "download") /\ checkout[s] = Nothing) \/ On(s, "fetch")
    /\ Goto(s, "raised")
    /\ UNCHANGED <<map, checkout, head, ops>>

Register(s) ==
    /\ On(s, "register")
    /\ proc' = [proc EXCEPT ![s].mapping = map \union {proc[s].url}, ![s].pc = "register save"]
    /\ UNCHANGED <<map, checkout, head, ops>>
RegisterSave(s) ==
    /\ On(s, "register save")
    /\ map' = proc[s].mapping
    /\ Goto(s, "resolved")
    /\ UNCHANGED <<checkout, head, ops>>

-----------------------------------------------------------------------------
(* A delete, after its collections and the slug directory are gone.        *)

StartDelete(s) ==
    /\ On(s, "idle") /\ ops < MaxOps /\ ops' = ops + 1
    /\ proc' = [proc EXCEPT ![s] = [pc |-> "rmtree", url |-> Nothing, mapping |-> {}]]
    /\ UNCHANGED <<map, checkout, head>>

Rmtree(s) ==
    /\ On(s, "rmtree")
    /\ checkout' = [checkout EXCEPT ![s] = Nothing]
    /\ Goto(s, "unregister")
    /\ UNCHANGED <<map, head, ops>>

\* resolve_url_for_slug looks for the path of the slug under the input directory.
ResolveUrl(s, u) ==
    /\ On(s, "unregister")
    /\ LET found == {v \in map : SameDir /\ SlugOf[v] = s}
       IN IF found = {} THEN u = Nothing /\ Goto(s, "deleted")
          ELSE u \in found /\ proc' = [proc EXCEPT ![s].url = u, ![s].pc = "unregister load"]
    /\ UNCHANGED <<map, checkout, head, ops>>
Unregister(s) ==
    /\ On(s, "unregister load")
    /\ proc' = [proc EXCEPT ![s].mapping = map \ {proc[s].url}, ![s].pc = "unregister save"]
    /\ UNCHANGED <<map, checkout, head, ops>>
UnregisterSave(s) ==
    /\ On(s, "unregister save")
    /\ map' = proc[s].mapping
    /\ Goto(s, "deleted")
    /\ UNCHANGED <<checkout, head, ops>>

\* The operation is over and its lock free, or its process dies: the lock is free too.
Ended == {"resolved", "raised", "deleted"}
Release(s) ==
    /\ ~On(s, "idle")
    /\ proc' = [proc EXCEPT ![s] = NoProcess]
    /\ UNCHANGED <<map, checkout, head, ops>>

RepoMapNext ==
    \/ \E r \in Repos : Push(r)
    \/ \E u \in Urls, fetch \in BOOLEAN : StartBuild(u, fetch)
    \/ \E s \in Slugs :
          \/ GetPath(s) \/ CachedCheckout(s) \/ SetRemote(s) \/ FetchAndCheckout(s)
          \/ DownloadFails(s) \/ Register(s) \/ RegisterSave(s)
          \/ StartDelete(s) \/ Rmtree(s) \/ Unregister(s) \/ UnregisterSave(s)
          \/ \E u \in Urls \union {Nothing} : ResolveUrl(s, u)
          \/ Release(s)

RepoMapSpec == RepoMapInit /\ [][RepoMapNext]_RepoMapVars

-----------------------------------------------------------------------------
(* A build that resolved its URL holds a checkout of a repository of its   *)
(* slug. One that fetched holds that of the repository its URL names, at a *)
(* commit no older than the remote's when the build began, though another  *)
(* repository of the slug had the checkout before, and whichever builds    *)
(* were interrupted between the change of the remote and the fetch.        *)
OfTheSlug(s) == {RepoOf[u] : u \in {v \in Urls : SlugOf[v] = s}}
ResolvedIsOfTheUrl ==
    \A s \in Slugs :
        On(s, "resolved") =>
            /\ checkout[s] # Nothing /\ checkout[s].repo \in OfTheSlug(s)
            /\ proc[s].fetch => /\ checkout[s].repo = RepoOf[proc[s].url]
                               /\ checkout[s].commit >= proc[s].since[RepoOf[proc[s].url]]

(* A build without a fetch uses the cached checkout of the repository its  *)
(* URL names.                                                              *)
CachedIsOfTheUrl ==
    \A s \in Slugs : On(s, "resolved") /\ ~proc[s].fetch => checkout[s].repo = RepoOf[proc[s].url]

(* Entries that concurrent processes overwrite, or resurrect, cost         *)
(* nothing: a build without a fetch raises only when its slug has no       *)
(* checkout.                                                               *)
LostEntriesAreHarmless ==
    \A s \in Slugs : On(s, "raised") /\ ~proc[s].fetch => checkout[s] = Nothing

(* register adds or updates an entry and persists it: the URL of a build   *)
(* that has registered is in the map.                                      *)
RegisterPersists ==
    \A s \in Slugs : On(s, "resolved") /\ ~proc[s].mapped => proc[s].url \in map

(* A delete removes the entry of the slug from the repository map.         *)
DeleteUnregisters ==
    \A s \in Slugs : On(s, "deleted") => \A u \in map : SlugOf[u] # s
=============================================================================
