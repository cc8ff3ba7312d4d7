\* a-b/c and a/b-c are built, one after the other.
SPECIFICATION Spec
CONSTANTS
    https = https
    dashed = dashed
    other = other
    repo = repo
    dashedRepo = dashedRepo
    otherRepo = otherRepo
    slug = slug
    otherSlug = otherSlug
    Nothing = Nothing
    Urls = {https, dashed, other}
    RepoOf <- OfEachUrl
    SlugOf <- TwoSlugs
    SameDir = TRUE
    MaxPushes = 1
    MaxOps = 2
    SourcePaths = {1, 2, 3}
    StemOf <- MCStemOf
    SuffixOf <- MCSuffixOf
    Sources <- MCSources
    Links <- MCLinks
    Roots = {here, there}
    here = here
    there = there
    MaxVersion = 2
    MaxEdits = 0
    NoFile = NoFile
    NoGeneration = NoGeneration
    Paths = {p1}
    p1 = p1
    p2 = p2
    Contents = {2}
    Fingerprints = {1}
    MaxCommits = 1
    TooLong = {}
INVARIANT CachedIsOfTheUrl
