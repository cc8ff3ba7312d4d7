------------------------------ MODULE MCRebuild -----------------------------
(***************************************************************************)
(* The three stages of a rebuild that keep something from the one before:  *)
(* the checkout, the parsed files, the chunks and vectors.  Each behaviour *)
(* is of one of them; the variables of the others stay as they are.        *)
(***************************************************************************)
EXTENDS RepoMap, ExtractionCache, IncrementalBuild, TLC

CONSTANTS https, dashed, other, repo, dashedRepo, otherRepo, slug, otherSlug

VARIABLE part  \* the stage that is looked at

vars == <<part, RepoMapVars, ExtractionVars, IncrementalVars>>

RepoMapIdle == /\ map = {} /\ checkout = [s \in Slugs |-> Nothing] /\ head = [r \in Repos |-> 0]
               /\ proc = [s \in Slugs |-> NoProcess] /\ ops = 0
ExtractionIdle == /\ files = <<>> /\ root \in Roots /\ version = 1 /\ entries = {}
                  /\ run = NoRun /\ edits = 0
IncrementalIdle == /\ commits = <<>> /\ active = NoGeneration /\ stored = {} /\ build = NoBuild
                   /\ target = {} /\ outcome = "none" /\ intact = TRUE

Init ==
    \/ part = "checkout" /\ RepoMapInit /\ ExtractionIdle /\ IncrementalIdle
    \/ part = "extraction" /\ RepoMapIdle /\ ExtractionInit /\ IncrementalIdle
    \/ part = "vectors" /\ RepoMapIdle /\ ExtractionIdle /\ IncrementalInit

\* All operations are used up and over: the checkouts stay.
Over == ops = MaxOps /\ (\A s \in Slugs : proc[s] = NoProcess) /\ UNCHANGED RepoMapVars

Next ==
    \/ part = "checkout" /\ (RepoMapNext \/ Over) /\ UNCHANGED <<part, ExtractionVars, IncrementalVars>>
    \/ part = "extraction" /\ ExtractionNext /\ UNCHANGED <<part, RepoMapVars, IncrementalVars>>
    \/ part = "vectors" /\ IncrementalNext /\ UNCHANGED <<part, RepoMapVars, ExtractionVars>>

Spec == Init /\ [][Next]_vars

-----------------------------------------------------------------------------
Symmetry == Permutations(Roots) \union Permutations(Paths)

\* a-b/c and a/b-c have one slug.
OfEachUrl == https :> repo @@ dashed :> dashedRepo @@ other :> otherRepo
TwoSlugs == https :> slug @@ dashed :> slug @@ other :> otherSlug

Class(name, base) == [kind |-> "class", name |-> name, class |-> "", base |-> base]
Function(class, name) == [kind |-> "function", name |-> name, class |-> class, base |-> ""]
Source(d, i, fr, ca, n) == [defs |-> d, imports |-> i, froms |-> fr, calls |-> ca, notes |-> n]
MCSources ==
    {Source(<<Class("K", "Base"), Function("K", "f"), Function("", "g")>>, {2}, {<<"b", "K">>},
            {<<2, "g">>, <<3, "f">>, <<3, "h">>}, {<<"line 1", 2>>}),
     Source(<<Class("K", ""), Class("D", "K"), Function("", "h"), Function("", "f")>>, {1, 2, 3},
            {<<"a", "K">>}, {<<3, "Base">>, <<3, "f">>, <<4, "g">>}, {<<"line 1", 0>>})}
MCLinks == {<<1, 2>>, <<3, 2>>}
PyLinks == {<<1, 2>>}
MCStemOf == <<"a", "b", "a">>
MCSuffixOf == <<"py", "py", "ts">>
=============================================================================
