\* Two repositories of one slug and a third of another, four builds and deletes.
\* Three paths, two of one stem, one of them once a link, two directories; two edits or moves.
\* Two paths, two contents that share a chunk, two commits.
SPECIFICATION Spec
CONSTANTS
    https = https
    dashed = dashed
    other = other
    repo = repo
    dashedRepo = dashedRepo
    otherRepo = otherRepo
    slug = slug
    otherSlug = otherSlug
    Nothing = Nothing
    Urls = {https, dashed, other}
    RepoOf <- OfEachUrl
    SlugOf <- TwoSlugs
    SameDir = TRUE
    MaxPushes = 1
    MaxOps = 4
    SourcePaths = {1, 2, 3}
    StemOf <- MCStemOf
    SuffixOf <- MCSuffixOf
    Sources <- MCSources
    Links <- MCLinks
    Roots = {here, there}
    here = here
    there = there
    MaxVersion = 2
    MaxEdits = 2
    NoFile = NoFile
    NoGeneration = NoGeneration
    Paths = {p1, p2}
    p1 = p1
    p2 = p2
    Contents = {2, 3}
    Fingerprints = {1, 2}
    MaxCommits = 2
    TooLong = {}
SYMMETRY Symmetry
INVARIANTS
    ResolvedIsOfTheUrl LostEntriesAreHarmless
    CachedIsCurrent OnlyMovedImportsAreLost
    IndexMatchesCommit ValidationNeverFails
PROPERTY SuccessIsComplete
